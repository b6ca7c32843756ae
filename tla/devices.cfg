SPECIFICATION Spec
CONSTANTS
  u1 = u1  t1 = t1  t2 = t2  t3 = t3  r1 = r1  r2 = r2
  Units = {u1}
  WordBytes = {14, 16, 32}
  MaskBytes = {1, 18}
  Gains = {7, 8}
  MaxHeard = 2
  MaxVoiceFaults = 2
  MaxKana = 3
  Addresses <- FewAddresses
  Blocks <- OneBlock
  Bytes <- AllBytes
  Moves <- MovesAndNone
  Contents <- Filled
  Window = 2
  Ranges <- SomeRanges
  GbNoticed = TRUE
  AnswerLost = FALSE
  Leftover = FALSE
  MaxSwaps = 1
  MaxGbFaults = 1
  MaxGbCalls = 3
  Places = 8
  Faults0 <- LineFaults
  Paddings <- SomePaddings
  CThreads = {t1, t2}
  AskedMasks <- SomeMasks
  Drive = TRUE
  Racing = FALSE
  MaxAsks = 2
  Bytes0 <- AllBytes0
  DLine = 4
  DSize = 8
  ILine = 8
  ISize = 8
  Spans <- SomeSpans
  MaxCacheOps = 3
  TThreads = {t1}
  Requests <- SomeRequests
  TlbSlots = 2
  Asids = {0, 1}
  Looked <- SomeLooked
  Alone = TRUE
  MaxTlbCalls = 4
  FPages = 4
  FSector = 2
  FBlock = 3
  FData = {"a", "b"}
  ChipKinds <- AnyKinds
  FReads <- SomeReads
  Mixed0 = FALSE
  ChangesBack = FALSE
  MaxFlashCalls = 4
  MaxFlashFaults = 1
  RTasks = {r1, r2}
  Loadable = {r1}
  Pieces = 2
  MaxLoads = 5
  Turn = 4
  Buffers0 <- SomeBuffers
  Clocks = {48681812, 49656530}
  Frequencies = {3000, 8000, 22050, 44100, 368000, 400000}
  MaxBuffers = 3
  Areas <- SomeAreas
  HeaderSize = 20
  NoNext = 3
  RgThreads = {t1, t2}
  Serialised = TRUE
  MaxRegionCalls = 6
  Bases = {0, 16}
  HeapLen = 48
  Wanted = {1, 16, 17}
  BankFiles <- OneFile
  PacketLen = 2
  RingSize = 2
  Chunk = 3
  LogLen = 6
  EventLens = {2, 3}
  DataLens = {3}
  MaxLogged = 5
  MaxWritten = 3
  MaxAsked = 3
  MaxPuts = 1
  LogFlushers = {t1}
  PutsBusy = FALSE
  PThreads = {t1, t2, t3}
  IdOf <- SomeIds
  IdMax = 2
  CountSize = 4
  MaxClock = 6
  Undisturbed = TRUE
  Exits = FALSE
  OddCallers = FALSE
  Sections <- TwoSections
  Pcs = {0, 1, 4, 5, 6}
  BinSize = 3
  MaxSamples = 4
  RealBanks = {1, 2, 4}
  MaxBanks = 5
  Aliases = {"mirror", "open"}
  BlocksIn = 2
  FilePages <- SomeChains
  Ports = {1}
  Positions <- SomePositions
  Presses <- SomePresses
  ButtonMaps <- OneMap
  SwapsUnseen = FALSE
  Glitches = FALSE
  MaxPadMoves = 6
  MaxIdCalls = 3
  MaxIdFaults = 2
INVARIANTS
  DevicesInStep
  MemoryInStep
  ContextKept
  CachesInStep
  FlashSaysSo
  WorkDoneOnce
  AudioAsAsked
  PadsTrue
CHECK_DEADLOCK FALSE
