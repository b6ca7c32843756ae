-------------------------------- MODULE SequenceReader --------------------------------
(***************************************************************************)
(* How the players read a sequence: compact sequences of several tracks    *)
(* (cseq.c, __CSPPostNextSeqEvent of csplayer.c) and MIDI files of one     *)
(* (seq.c, __postNextSeqEvent of seqplayer.c).  A player asks how many     *)
(* ticks it is to the next event, waits, and takes the event.              *)
(*                                                                         *)
(* A compact track holds the time to an event before each event.  A block  *)
(* stands for tokens that are in the track already.  The end of a loop     *)
(* holds how far it is back, how often, and how often still: that count is *)
(* changed in the track itself.  A MIDI file has no loops; the player has  *)
(* one, between two markers.                                               *)
(*                                                                         *)
(* Tempo, running status and what the events say are left out.             *)
(***************************************************************************)
EXTENDS Integers, Sequences, SequencesExt, FiniteSets

CONSTANTS
  Songs,         \* [compact, tracks] or [compact, notes, loop]
  MarkTicks,     \* where the program sets markers
  AnyFlag,       \* a marker is used although the time to its event was asked for, or not
  LoopMarks,     \* a marker is used although loops have been played since, or not
  ForEver,       \* turns of an endless loop that the score has
  MaxEventsRead, MaxSongCalls

ASSUME SequenceReaderAssumption ==
  /\ {AnyFlag, LoopMarks} \subseteq BOOLEAN /\ MarkTicks \subseteq Nat
  /\ {ForEver, MaxEventsRead, MaxSongCalls} \subseteq Nat

------------------------------------------------------------------------------
(* What a song is.  Its items are a note, a loop, notes that were there before *)
(* (`same') and the end of a track.  The tokens are what a track holds of them. *)

RECURSIVE Tokens(_)
Tokens(items) ==
  LET Wait(n) == [t |-> "wait", ticks |-> n]
      Of(item) ==
        CASE item.k \in {"note", "end"} -> << Wait(item.d), [t |-> item.k, id |-> item.id] >>
          [] item.k = "same" ->
               << Wait(item.d), [t |-> "block", back |-> 2 * Len(item.notes),
                                 len |-> 2 * Len(item.notes) - 1] >>
          [] OTHER ->
               LET body == Tokens(item.body)
               IN << Wait(item.d), [t |-> "loopstart", id |-> "loop"] >> \o body \o
                  << Wait(item.last), [t |-> "loopend", id |-> "again", back |-> Len(body) + 2,
                                       count |-> item.count] >>
  IN FlattenSeq([i \in DOMAIN items |-> Of(items[i])])

\* The events of the items, each with the time from the one before it.  A count of 255 is
\* a loop for ever, of which a few turns are enough here.
RECURSIVE Expanded(_)
Expanded(items) ==
  LET Turn(item) == Append(Expanded(item.body), [id |-> "again", d |-> item.last])
      Turns(item) == IF item.count = 255 THEN ForEver ELSE item.count + 1
      Of(item) ==
        CASE item.k \in {"note", "end"} -> << [id |-> item.id, d |-> item.d] >>
          [] item.k = "same" ->
               [n \in DOMAIN item.notes |->
                 [id |-> item.notes[n].id, d |-> IF n = 1 THEN item.d ELSE item.notes[n].d]]
          [] OTHER ->
               << [id |-> "loop", d |-> item.d] >> \o FlattenSeq([n \in 1..Turns(item) |-> Turn(item)])
  IN FlattenSeq([i \in DOMAIN items |-> Of(items[i])])

TickOf(evs, i) == FoldLeft(LAMBDA t, n : t + n.d, 0, SubSeq(evs, 1, i))

\* What is heard of a compact song: the events of its tracks by their times, and those of
\* one time by their tracks.
CompactHeard(s) ==
  LET Timed(evs, i) == [n \in DOMAIN evs |-> [id |-> evs[n].id, at |-> TickOf(evs, n), tr |-> i, n |-> n]]
      Before(a, b) == \/ a.at < b.at
                      \/ a.at = b.at /\ a.tr < b.tr
                      \/ a.at = b.at /\ a.tr = b.tr /\ a.n < b.n
  IN SortSeq(FlattenSeq([i \in DOMAIN s.tracks |-> Timed(Expanded(s.tracks[i]), i)]), Before)

FirstFrom(notes, ticks) == CHOOSE i \in DOMAIN notes :
  TickOf(notes, i) >= ticks /\ \A j \in 1 .. i - 1 : TickOf(notes, j) < ticks

\* What is heard of a MIDI file: the notes between the markers are played count times
\* more, and the first of them when the first after them would be.
MidiHeard(s) ==
  LET a == FirstFrom(s.notes, s.loop.start)
      b == FirstFrom(s.notes, s.loop.end)
      period == TickOf(s.notes, b) - TickOf(s.notes, a)
      Part(i, j, later) ==
        [n \in 1 .. j - i + 1 |-> [id |-> s.notes[i + n - 1].id, at |-> TickOf(s.notes, i + n - 1) + later]]
  IN Part(1, b - 1, 0)
     \o FlattenSeq([k \in 1..s.loop.count |-> Part(a, b - 1, k * period)])
     \o Part(b, Len(s.notes), s.loop.count * period)

\* A song as it is read and as it should be heard
CompactSong(s) ==
  [compact |-> TRUE, code |-> [i \in DOMAIN s.tracks |-> Tokens(s.tracks[i])], score |-> CompactHeard(s)]
MidiSong(s) == [compact |-> FALSE, notes |-> s.notes, loop |-> s.loop, score |-> MidiHeard(s)]

------------------------------------------------------------------------------
VARIABLES
  song,
  seq,          \* ALCSeq or ALSeq: what a marker keeps of it
  deltaFlag,
  left,         \* the counts in the tracks, by the places of their loops
  loopCount,    \* of the player of a MIDI file
  due,          \* the ticks to the next event that the player waits for, or NotDue
  heard,        \* the last event, and how long after the one before it
  resumed,      \* it plays again, and no event has come since
  nth,          \* how many events there were, from the start of the score
  marker, songCalls

songVars == << song, seq, deltaFlag, left, loopCount, due, heard, resumed, nth, marker, songCalls >>

NotDue == -1
NoEvents == [id |-> "none"]
NoMark == [nth |-> -1]

(* Compact sequences *)

LoopEnds(code) == {n \in DOMAIN code : code[n].t = "loopend"}
Fresh(s) ==
  IF ~s.compact THEN << >>
  ELSE [i \in DOMAIN s.code |-> [n \in LoopEnds(s.code[i]) |-> s.code[i][n].count]]

\* __getTrackByte: loc is the next place, and bu the next of n that a block stands for.
Read(code, r) ==
  IF r.n > 0 THEN [tok |-> code[r.bu], r |-> [r EXCEPT !.bu = @ + 1, !.n = @ - 1]]
  ELSE LET tok == code[r.loc]
       IN IF tok.t = "block"
          THEN [tok |-> code[r.loc - tok.back],
                r |-> [loc |-> r.loc + 1, bu |-> r.loc - tok.back + 1, n |-> tok.len - 1]]
          ELSE [tok |-> tok, r |-> [r EXCEPT !.loc = @ + 1]]

\* alCSeqNew
NewSeq(s) ==
  LET start(i) == Read(s.code[i], [loc |-> 1, bu |-> 0, n |-> 0])
  IN [valid |-> DOMAIN s.code, lastTicks |-> 0, lastDelta |-> 0,
      at |-> [i \in DOMAIN s.code |-> start(i).r],
      wait |-> [i \in DOMAIN s.code |-> start(i).tok.ticks]]

\* Times are unsigned: those below zero are the latest.
Sooner(a, b) == IF (a < 0) = (b < 0) THEN a < b ELSE b < 0

\* The times to the next events of the tracks, from the last event
WaitsNow(q, flag) ==
  [i \in DOMAIN q.wait |-> IF flag /\ i \in q.valid THEN q.wait[i] - q.lastDelta ELSE q.wait[i]]

FirstTrack(q, waits) ==
  CHOOSE i \in q.valid : \A j \in q.valid \ {i} :
    Sooner(waits[i], waits[j]) \/ (waits[i] = waits[j] /\ i < j)

\* AL_CMIDI_LOOPEND_CODE at place n of track i, after which r was reached
LoopEnd(lft, code, i, n, r) ==
  IF lft[i][n] = 0 THEN [left |-> [lft EXCEPT ![i][n] = code[n].count], r |-> r]
  ELSE [left |-> IF lft[i][n] = 255 THEN lft ELSE [lft EXCEPT ![i][n] = @ - 1],
        r |-> [r EXCEPT !.loc = @ - code[n].back]]

\* The event evt of track i, after which r is reached; wait is read for the event behind it.
Taken(q, waits, i, evt, then, wait) ==
  LET ended == evt.tok.t = "end"
  IN [id |-> evt.tok.id, left |-> then.left,
      q |-> [valid |-> IF ended THEN q.valid \ {i} ELSE q.valid,
             lastTicks |-> q.lastTicks + waits[i], lastDelta |-> waits[i],
             at |-> [q.at EXCEPT ![i] = IF ended THEN then.r ELSE wait.r],
             wait |-> [waits EXCEPT ![i] = IF ended THEN @ ELSE @ + wait.tok.ticks]]]

\* __alCSeqGetTrackEvent
TrackEvent(q, waits, i, lft, code) ==
  LET evt  == Read(code, q.at[i])
      then == IF evt.tok.t = "loopend" THEN LoopEnd(lft, code, i, q.at[i].loc, evt.r)
              ELSE [left |-> lft, r |-> evt.r]
  IN Taken(q, waits, i, evt, then, Read(code, then.r))

NextIn(q, waits, i, lft) == TrackEvent(q, waits, i, lft, song.code[i])

\* alCSeqNextEvent
NextOf(q, flag, lft) ==
  LET waits == WaitsNow(q, flag) IN NextIn(q, waits, FirstTrack(q, waits), lft)

\* __CSPPostNextSeqEvent and __alCSeqNextDelta: q, with the event due in wait ticks
Asked(q, flag) ==
  LET waits == WaitsNow(q, flag)
  IN IF q.valid = {} THEN [q |-> q, flag |-> flag, due |-> NotDue]
     ELSE [q |-> [q EXCEPT !.wait = waits], flag |-> FALSE, due |-> waits[FirstTrack(q, waits)]]

\* alCSeqNewMarker: a sequence of its own is read, up to the event that reaches ticks.
RECURSIVE MarkFrom(_, _, _, _)
MarkFrom(q, lft, n, ticks) ==
  LET e == NextOf(q, TRUE, lft)
  IN IF e.q.valid = {} \/ e.q.lastTicks >= ticks
     THEN [q |-> q, flag |-> TRUE, left |-> lft, nth |-> n, after |-> e.left]
     ELSE MarkFrom(e.q, e.left, n + 1, ticks)

(* MIDI files *)

\* alSeqNewMarker
MarkMidi(s, ticks) ==
  LET i == FirstFrom(s.notes, ticks)
  IN [at |-> i, lastTicks |-> TickOf(s.notes, i - 1), curTicks |-> TickOf(s.notes, i)]

\* __alSeqNextDelta, which does not move on
NextDelta(q) == song.notes[q.at].d

\* alSeqNextEvent
NextNote(q) == [at |-> q.at + 1, lastTicks |-> q.lastTicks + NextDelta(q)]

\* __postNextSeqEvent: at the end of the player's loop it goes back to the start of it.
PostMidi(q, count) ==
  LET d     == NextDelta(q)
      start == MarkMidi(song, song.loop.start)
      again == count # 0 /\ q.lastTicks + d >= MarkMidi(song, song.loop.end).curTicks
  IN [q |-> IF again THEN [at |-> start.at, lastTicks |-> start.lastTicks] ELSE q,
      count |-> IF again THEN count - 1 ELSE count, due |-> d]

------------------------------------------------------------------------------
SongInit ==
  /\ \E s \in Songs : song = IF s.compact THEN CompactSong(s) ELSE MidiSong(s)
  /\ seq = IF song.compact THEN NewSeq(song) ELSE [at |-> 1, lastTicks |-> 0]
  /\ deltaFlag = TRUE /\ left = Fresh(song)
  /\ loopCount = IF song.compact THEN 0 ELSE song.loop.count
  /\ due = NotDue /\ heard = NoEvents /\ resumed = FALSE /\ nth = 0
  /\ marker = NoMark /\ songCalls = 0

\* The next event is asked for of q; the rest of the action is the caller's.
Post(q, flag) ==
  IF song.compact
  THEN \E p \in {Asked(q, flag)} :
         seq' = p.q /\ deltaFlag' = p.flag /\ due' = p.due /\ UNCHANGED loopCount
  ELSE \E p \in {PostMidi(q, loopCount)} :
         seq' = p.q /\ loopCount' = p.count /\ due' = p.due /\ UNCHANGED deltaFlag

Ended == nth = Len(song.score)

Calls == songCalls < MaxSongCalls /\ songCalls' = songCalls + 1

\* The player plays.
PlaySong ==
  /\ due = NotDue /\ ~Ended /\ Calls
  /\ Post(seq, deltaFlag) /\ resumed' = (nth > 0)
  /\ UNCHANGED << song, left, heard, nth, marker >>

\* It stops, and its event is flushed.
StopSong ==
  /\ due # NotDue /\ Calls /\ due' = NotDue
  /\ UNCHANGED << song, seq, deltaFlag, left, loopCount, heard, resumed, nth, marker >>

\* __CSPHandleNextSeqEvent
CompactEvent ==
  /\ song.compact /\ due # NotDue /\ nth < MaxEventsRead
  /\ \E e \in {NextOf(seq, deltaFlag, left)} :
       heard' = [id |-> e.id, wait |-> due, resumed |-> resumed] /\ left' = e.left /\ Post(e.q, TRUE)
  /\ nth' = nth + 1 /\ resumed' = FALSE
  /\ UNCHANGED << song, marker, songCalls >>

\* __handleNextSeqEvent
MidiFileEvent ==
  /\ ~song.compact /\ due # NotDue /\ nth < MaxEventsRead
  /\ LET note == song.notes[seq.at]
         q    == NextNote(seq)
     IN /\ heard' = [id |-> note.id, wait |-> due, resumed |-> resumed]
        /\ IF note.id = "end" THEN seq' = q /\ due' = NotDue /\ UNCHANGED << loopCount, deltaFlag >>
           ELSE Post(q, deltaFlag)
  /\ nth' = nth + 1 /\ resumed' = FALSE
  /\ UNCHANGED << song, left, marker, songCalls >>

\* alCSeqNew, of a sequence that does not play
Restart ==
  /\ song.compact /\ due = NotDue /\ (LoopMarks \/ left = Fresh(song)) /\ Calls
  /\ seq' = NewSeq(song) /\ deltaFlag' = TRUE /\ nth' = 0 /\ heard' = NoEvents
  /\ UNCHANGED << song, left, loopCount, due, resumed, marker >>

\* alCSeqNewMarker: the tracks are those that are played.
NewMarker(ticks) ==
  /\ song.compact /\ Calls
  /\ \E m \in {MarkFrom(NewSeq(song), left, 0, ticks)} :
        /\ LoopMarks \/ (left = Fresh(song) /\ m.after = left)
        /\ marker' = [q |-> m.q, flag |-> m.flag, left |-> m.left, nth |-> m.nth]
        /\ left' = m.after
  /\ UNCHANGED << song, seq, deltaFlag, loopCount, due, heard, resumed, nth >>

\* alCSeqGetLoc
GetLoc ==
  /\ song.compact /\ Calls
  /\ marker' = [q |-> seq, flag |-> deltaFlag, left |-> left, nth |-> nth]
  /\ UNCHANGED << song, seq, deltaFlag, left, loopCount, due, heard, resumed, nth >>

\* alCSeqSetLoc, of a sequence that does not play
SetLoc ==
  /\ marker # NoMark /\ due = NotDue /\ Calls
  /\ AnyFlag \/ marker.flag = deltaFlag
  /\ LoopMarks \/ marker.left = left
  /\ seq' = marker.q /\ nth' = marker.nth /\ heard' = NoEvents
  /\ UNCHANGED << song, deltaFlag, left, loopCount, due, resumed, marker >>

SongNext ==
  \/ PlaySong \/ StopSong \/ CompactEvent \/ MidiFileEvent \/ Restart
  \/ (\E ticks \in MarkTicks : NewMarker(ticks)) \/ GetLoc \/ SetLoc

------------------------------------------------------------------------------
\* The events come in the order of the score and each as long after the one before it as
\* there: across tracks, loops in loops, blocks, stops and markers (alCSeqNextEvent,
\* __alCSeqNextDelta, __getTrackByte, __postNextSeqEvent).  The player of a MIDI file that
\* was stopped at the end of its loop waits as for the start of it.
ScoreFollowed ==
  LET score == song.score
      At(n) == IF n = 0 THEN 0 ELSE score[n].at
  IN /\ heard # NoEvents =>
          /\ heard.id = score[nth].id
          /\ heard.wait = At(nth) - At(nth - 1) \/ (heard.resumed /\ ~song.compact)
     /\ song.compact => seq.lastTicks = At(nth)
==================================================================================
