-------------------------------- MODULE MCDevices --------------------------------
(***************************************************************************)
(* Small instances of the voice recognition unit and its words, the        *)
(* checksums, the block moves of libc, the Game Boy pak and its connector, *)
(* the contexts of threads, the caches, the TLB, the flash memory, the     *)
(* tasks of the RSP, the audio interface, memory that is handed out, the   *)
(* link to a debugging host, the profilers, the id and the blocks of a     *)
(* controller pak, and the buttons and sticks of the pads.  They do not    *)
(* interact: each behaviour is one of them, `part', and the variables of   *)
(* the others stay as they are.                                            *)
(***************************************************************************)
EXTENDS VoiceUnit, BlockMoves, GbPak, Contexts, Caches, Tlb, Flash,
  RspTasks, AudioOut, Storage, DebugLink, PakAccess, PadReader

CONSTANTS u1, t1, t2, t3, r1, r2

\* Addresses and a block of the controller pak, by their bits
FewAddresses ==
  { [i \in 1..11 |-> 0], [i \in 1..11 |-> i % 2], [i \in 1..11 |-> IF i < 4 THEN 0 ELSE 1] }
OneBlock == { << 1, 0, 1, 1, 0, 0, 0, 1, 1, 1, 1, 0, 1, 0, 0, 1 >> }

AllBytes == 0..115

\* Blocks at each byte of a word, that overlap in either direction or not, and whose lengths end
\* each of the loops; blocks to compare that differ nowhere or at one byte
Block(fn, from, to, n, odd) == [fn |-> fn, from |-> from, to |-> to, n |-> n, odd |-> odd]
AFewMoves ==
  {Block("copy", 38 + i, 38 + i + d, n, -1) :
     i \in 0..3, d \in {-37, -8, -5, -1, 0, 1, 4, 5, 8, 35, 36}, n \in {0, 1, 15, 16, 19, 37}} \cup
  {Block("compare", i, 50 + j, n, odd) :
     i \in 0..3, j \in 0..3, n \in {0, 3, 15, 16, 21}, odd \in {-1, 0, 2, 14, 15, 20}} \cup
  {Block("zero", 4 + i, 4 + i, n, -1) : i \in 0..3, n \in {0, 3, 11, 12, 13, 31, 37, 81}}
NoMove == Block("copy", 0, 0, 0, -1)
MovesAndNone == AFewMoves \cup {NoMove}
Filled(m) ==
  [b \in IF m = NoMove THEN {} ELSE AllBytes |->
                    IF m.fn # "compare" \/ b - m.to \notin 0..(m.n - 1) THEN b + 1
                    ELSE IF b - m.to = m.odd THEN 200 ELSE m.from + (b - m.to) + 1]
\* Within a bank, over the end of a bank and of two, and in another bank
SomeRanges == { << 0, 0, 1 >>, << 0, 1, 3 >>, << 2, 1, 2 >>, << 1, 0, 0 >> }

\* No fault, a line that is stuck, the RAM's included, and two that touch
LineFaults ==
  { << "none", {} >> } \cup
  {<< x, {l} >> : x \in {"low", "high"}, l \in 1..(Places + 1)} \cup
  {<< "short", {l, l + 1} >> : l \in 1..(Places - 1)}
\* Some blocks of every place are padding, or the first block of the first place and another
EveryPlace == {Lines(p) : p \in 0..Places} \cup {{p, q} : p, q \in 1..(Places + 1)}
SomePaddings ==
  {EveryPlace \X N : N \in {{}, {0}, {0, 1, 2}, {1, 3}}} \cup
  {{<< {}, 0 >>, << {q}, 0 >>} : q \in 1..Places}

SomeMasks == {{}, {"rcp", "pi"}, Everything \ {"counter"}}

AllBytes0 == 0..15
SomeSpans == (3..6) \X {0, 1, 3, 4, 5, 8}

\* Both halves or one, one page or four, one address space or all
SomeRequests == { << 1, 0, 10, 11, -1 >>, << 1, 2, 12, -1, 0 >>, << 4, 0, 16, 20, 1 >>,
                  << 4, 8, -1, 24, -1 >>, << 1, 8, -1, -1, 0 >> }
SomeLooked == {0, 1, 2, 3, 6, 9, 13, RdbPage}

AnyKinds == { << "old", "old" >>, << "new", "new" >>, << "old", "new" >> }
SomeReads == {r \in (0..5) \X (1..9) : r[1] + r[2] <= 12}

SomeBuffers == (8..11) \X {1, 2, 3, 4, 8}

SomeAreas == [at : {0, 3}, length : {40, 50}, size : {1, 4, 5}, align : {0, 2, 4}]
OneArea == [at |-> 0, length |-> 50, size |-> 4, align |-> 4]
\* Two banks that share an instrument, whose sounds share a wave table
SharedFile ==
  [array |-> << "b1", "b2" >>,
   banks |-> [b \in {"b1", "b2"} |-> IF b = "b1" THEN [percussion |-> "i1", insts |-> << "i1", "i2", "i1" >>]
                                     ELSE [percussion |-> "null", insts |-> << "i2" >>]],
   insts |-> [i \in {"i1", "i2"} |-> IF i = "i1" THEN << "s1", "s2" >> ELSE << "s2", "s2", "s3" >>],
   sounds |-> [s \in {"s1", "s2", "s3"} |-> IF s = "s3" THEN "w2" ELSE "w1"],
   waves |-> [w \in {"w1", "w2"} |-> IF w = "w1" THEN [raw |-> FALSE, loop |-> "null"] ELSE [raw |-> TRUE, loop |-> "l1"]]]
OneFile == {SharedFile}

SomeIds == [t \in PThreads |-> IF t = t1 THEN 0 ELSE IF t = t2 THEN 1 ELSE 2]
TwoSections == << << 4, 6, 2 >>, << 1, 5, 4 >> >>

\* Files of one page, of four over two banks, and of three with a bank between
SomeChains == { << << 0, 5 >> >>, << << 0, 5 >>, << 1, 3 >>, << 1, 2 >>, << 0, 6 >> >>,
                << << 0, 5 >>, << 0, 7 >>, << 1, 5 >> >> }
OneChain == << << 0, 5 >> >>

\* The sticks and the C stick of a pad, at their centre, at an end and beside it; two buttons that
\* are exchanged and a smaller dead zone
SticksAt(s, c) ==
  [a \in Axes |-> IF a \in {"stick_x", "stick_y"} THEN s ELSE IF a = "c_stick_x" THEN c ELSE 255 - c]
SomePositions == {SticksAt(128, 128), SticksAt(0, 255), SticksAt(130, 90)}
SomePresses == {{}, {"a", "z", "c_left", "x", "use_origin"}}
OneMap == {[DefaultMap EXCEPT !.button["a"] = "b", !.button["b"] = "a", !.deadzone = 10]}

VARIABLE part

Voice  == << voiceVars, wordVars >>
Bits   == << sumVars, moveVars >>
GameBoy == << gbVars, connVars >>
Processor == << ctxVars, cacheVars, tlbVars >>
Memories == << flashVars, rspVars, aiVars >>
Others == << storageVars, linkVars, profVars, pakAccessVars, padReadVars >>
devicesVars == << Voice, Bits, GameBoy, Processor, Memories, Others, part >>

DevicesInit ==
  /\ part \in {"voice", "word", "sum", "move", "gb", "conn", "ctx", "cache", "tlb", "flash", "rsp", "ai",
              "region", "heap", "bank", "link", "time", "histogram", "pak id", "pak data", "pads"}
  /\ VoiceInit /\ WordInit /\ CacheInit /\ TlbInit /\ RspInit
  /\ runs = t1 /\ CtxInit
  /\ (part = "sum" \/ sumOf = "voice") /\ SumInit
  /\ GbInit /\ (gbpak.cart # "red" => part = "gb")
  /\ (part = "flash" \/ kinds = << "old", "new" >>) /\ FlashInit
  /\ AiInit /\ (<< rates.clock, rates.f >> # << 48681812, 44100 >> => part = "ai")
  /\ (part = "conn" \/ conn = [fault |-> << "none", {} >>, padding |-> {}, ram |-> FALSE]) /\ ConnInit
  /\ (part = "region" \/ rp = Header(OneArea)) /\ RgInit
  /\ (part = "heap" \/ hp = [base |-> 0, len |-> HeapLen, cur |-> 0, from |-> 0]) /\ HpInit /\ FileInit
  /\ LinkInit /\ (part = "time" \/ cpuOn = t1) /\ ThprofInit /\ HistoInit
  /\ (part = "pak data" \/ chain = OneChain) /\ DataInit
  /\ (part = "pads" \/ padIn = [p \in Ports |-> "none"]) /\ PadInit
  /\ (IF part = "pak id" THEN IdInit ELSE WholeId)
  /\ (IF part = "move" THEN move \in AFewMoves ELSE move = NoMove) /\ MoveInit

\* One part takes a step.
VoiceSteps ==
  /\ UNCHANGED << Bits, GameBoy, Processor, Memories, Others >>
  /\ \/ part = "voice" /\ VoiceNext /\ UNCHANGED wordVars
     \/ part = "word" /\ WordNext /\ UNCHANGED voiceVars
BitsStep ==
  /\ UNCHANGED << Voice, GameBoy, Processor, Memories, Others >>
  /\ \/ part = "sum" /\ SumNext /\ UNCHANGED moveVars
     \/ part = "move" /\ MoveNext /\ UNCHANGED sumVars
GameBoySteps ==
  /\ UNCHANGED << Voice, Bits, Processor, Memories, Others >>
  /\ \/ part = "gb" /\ GbNext /\ UNCHANGED connVars
     \/ part = "conn" /\ ConnNext /\ UNCHANGED gbVars
ProcessorSteps ==
  /\ UNCHANGED << Voice, Bits, GameBoy, Memories, Others >>
  /\ \/ part = "ctx" /\ CtxNext /\ UNCHANGED << cacheVars, tlbVars >>
     \/ part = "cache" /\ CacheNext /\ UNCHANGED << ctxVars, tlbVars >>
     \/ part = "tlb" /\ TlbNext /\ UNCHANGED << ctxVars, cacheVars >>
MemoriesStep ==
  /\ UNCHANGED << Voice, Bits, GameBoy, Processor, Others >>
  /\ \/ part = "flash" /\ FlashNext /\ UNCHANGED << rspVars, aiVars >>
     \/ part = "rsp" /\ RspNext /\ UNCHANGED << flashVars, aiVars >>
     \/ part = "ai" /\ AiNext /\ UNCHANGED << flashVars, rspVars >>
StorageSteps ==
  /\ UNCHANGED << Voice, Bits, GameBoy, Processor, Memories, linkVars, profVars, pakAccessVars, padReadVars >>
  /\ \/ part = "region" /\ RgNext /\ UNCHANGED << hpVars, fileVars >>
     \/ part = "heap" /\ HpNext /\ UNCHANGED << rgVars, fileVars >>
     \/ part = "bank" /\ BnkfNew /\ UNCHANGED << rgVars, hpVars >>
DebugSteps ==
  /\ UNCHANGED << Voice, Bits, GameBoy, Processor, Memories, storageVars, pakAccessVars, padReadVars >>
  /\ \/ part = "link" /\ LinkNext /\ UNCHANGED profVars
     \/ part = "time" /\ ThprofNext /\ UNCHANGED << linkVars, histoVars >>
     \/ part = "histogram" /\ HistoNext /\ UNCHANGED << linkVars, thprofVars >>
PakSteps ==
  /\ UNCHANGED << Voice, Bits, GameBoy, Processor, Memories, storageVars, linkVars, profVars >>
  /\ \/ part = "pak id" /\ IdNext /\ UNCHANGED << dataVars, padReadVars >>
     \/ part = "pak data" /\ DataNext /\ UNCHANGED << idVars, padReadVars >>
     \/ part = "pads" /\ PadNext /\ UNCHANGED pakAccessVars

DevicesNext ==
  /\ UNCHANGED part
  /\ \/ VoiceSteps \/ BitsStep \/ GameBoySteps \/ ProcessorSteps \/ MemoriesStep
     \/ StorageSteps \/ DebugSteps \/ PakSteps

Spec == DevicesInit /\ [][DevicesNext]_devicesVars
--------------------------------------------------------------------------------
\* The voice unit's handle, results and words, and what its dictionary takes of two spellings; what
\* is read through the Game Boy pak is where it should be, and a bad connector is found; a
\* controller pak keeps its id, and its files their blocks; a debugging host gets every byte once,
\* and the profiles it is shown are of what ran.
DevicesInStep ==
  /\ VoiceInStep /\ ScriptsAlike /\ BlocksOfTheBank /\ LinesFound /\ IdSurvives /\ BlocksOfFile
  /\ StreamsWhole /\ NoneForgotten /\ TimeAsRun /\ SamplesCounted

\* Every flipped burst is seen by the checksums, and blocks are moved, compared and cleared exactly;
\* an address is translated as it was mapped, and memory that is handed out is its own.
MemoryInStep ==
  BurstsAreSeen /\ BlocksExact /\ TranslatesAsMapped /\ BuffersKept /\ GivenApart /\ MovedOnce
==================================================================================
