SPECIFICATION Spec
CONSTANTS
  k1 = k1
  k2 = k2
  d1 = d1
  d2 = d2
  x1 = x1
  x2 = x2
  x3 = x3
  A = A
  B = B
  m1 = m1
  m2 = m2
  MaxEvents = 20
  Voices = {v1, v2}
  Keys = {k1, k2}
  Attack <- KeyAttack
  Rel <- KeyRelease
  Waits = {0, 2}
  FrameTime = 1
  KillTime = 2
  OscTime = 2
  Hasty = FALSE
  LiveMidi = FALSE
  EndsEarly = FALSE
  MaxCalls = 2
  Slots = {1, 2}
  Sounds = {d1, d2}
  SndAttack <- SoundAttack
  SndDecay <- SoundDecay
  SndRelease <- SoundRelease
  Looped <- Minus1
  Pitches = {2}
  SndFrame = 2
  PlayDelays = {0, 1}
  MaxSndCalls = 5
  PVoices = {p1, p2}
  VVoices = {x1, x2, x3}
  NoPV = NoPV
  NoVV = NoVV
  Players = {A, B}
  Plays <- VoicePlayer
  Priority <- PlayerPriority
  OutLen = 4
  MaxOut = 2
  Align = 2
  Offset = 4
  Delays = {3}
  MaxUpdates = 4
  Scarce = FALSE
  Outside = FALSE
  Frames = {f1, f2}
  Modes = {m1, m2}
  FirstFrame = f1
  FirstMode = m1
  GammaOf <- ModeGamma
  RetraceCounts = {1, 3}
  RetraceMod = 8
  ViCountMod = 4
  MaxTicks = 6
  MaxSettings = 2
  pak1 = pak1
  pak2 = pak2
  Paks = {pak1, pak2}
  NoPak = NoPak
  BanksOf <- Sizing
  PagesIn <- PageSets
  StartPage = 4
  PerBlock = 5
  SumMod = 5
  Names = {"A", "B"}
  Entries = {1, 2}
  Sizes = {1, 2, 3}
  Sloppy = FALSE
  MainFails = FALSE
  HiddenSwaps = FALSE
  MaxPakCalls = 4
  MaxFaults = 2
  WordSize = 2
  FrameSize = 4
  Waves <- SmallWaves
  NoWave = NoWave
  Pulls = {1, 3, 9}
  TinyLoops = FALSE
  Unstopped = FALSE
  MaxPlayed = 36
  UnityPitch = 4
  MaxRatio = 15
  VoicePitches = {0, 3, 9, 20}
  OutCounts = {0, 2, 3}
  MaxResampled = 8
  LineLength = 16
  Sections0 <- TwoSections
  FxPulls = {2, 4}
  FxDelays = {9}
  FxAlign = 4
  MaxTime = 24
  Songs <- FewSongs
  MarkTicks = {0, 3, 6}
  AnyFlag = FALSE
  LoopMarks = FALSE
  ForEver = 6
  MaxEventsRead = 25
  MaxSongCalls = 4
  SVoices = {y1, y2}
  Channels = {1, 2}
  Insts = {i1}
  Levels = {1}
  Patient = TRUE
  MaxAsked = 2
  MaxMessages = 5
  SeqNotes = {1, 2, 3}
  Durations = {1, 2, 5}
  Gaps = {0, 1, 3}
  Rates = {2, 3}
  TempoFrame = 3
  LiveTempo = FALSE
  MaxTick = 5
  ShownModes <- AllModes
  ViFactors = {60, 1000}
  FadeOffsets = {0, 1023}
  ExtraLines <- MoreLines
  MaxViCalls = 2
INVARIANTS QueueMatchesPlayer VoicesAsSet SoundsEnd VoicesInStep RetraceKeepsUp HeardAndShown
   PaksConsistent
CHECK_DEADLOCK FALSE
