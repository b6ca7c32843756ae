-------------------------------- MODULE PakAccess --------------------------------
(***************************************************************************)
(* How a controller pak is recognised, and how the blocks of a file are    *)
(* found: osPfsInitPak and osPfsRepairId with __osCheckPackId,             *)
(* __osRepairPackId and __osGetId (contpfs.c), and osPfsReadWriteFile.     *)
(*                                                                         *)
(* A pak has its id in four places.  A call writes them one by one; a      *)
(* write can fail, with the block as it was or destroyed.                  *)
(*                                                                         *)
(* At the end, the checksums that go with what crosses the wire: of the    *)
(* address of a block (__osContAddressCrc), of the 32 bytes of a block     *)
(* (__osContDataCrc) and of the bytes of a voice transfer                  *)
(* (__osVoiceContDataCrc).  Each shifts the bits of a message, and then    *)
(* zeros, through a register of the remainder.  The sum of the message     *)
(* that is sent and the sum of what arrives are taken side by side; on the *)
(* way some bits that lie no further apart than the register is long are   *)
(* flipped.                                                                *)
(***************************************************************************)
EXTENDS Integers, Sequences, FiniteSets, SequencesExt

CONSTANTS
  RealBanks,     \* how many banks a pak may have
  MaxBanks,      \* PFS_MAX_BANKS
  Aliases,       \* what a bank that is not there shows: "mirror" another, or "open"
  BlocksIn,      \* blocks of a page, PFS_ONE_PAGE
  FilePages,     \* chains of pages of files, << bank, page >>
  MaxIdCalls, MaxIdFaults,
  Addresses,     \* sequences of the 11 bits of an address that are looked at
  Blocks         \* the data, as sequences of bits

ASSUME PakAccessAssumption ==
  /\ MaxBanks \in Nat \ {0} /\ RealBanks \subseteq 1..MaxBanks /\ Aliases \subseteq {"mirror", "open"}
  /\ BlocksIn \in Nat \ {0} /\ {MaxIdCalls, MaxIdFaults} \subseteq Nat

VARIABLES
  pack,      \* the pak: its banks, what the others show, its serial number, and whether it had an id
             \* that is safe: the first place alone is written over when its id is made anew
  areas,     \* the four copies of its id
  pfsId,     \* what the handle has of it
  pfsStatus,    \* of the handle
  idTodo,    \* the writes the call has still to do, << area, id >>
  idThen,    \* what it does after them
  idCalls, idFaults,
  chain,     \* the file that is read or written
  access,    \* the offset and the size asked for, in blocks
  touched,   \* the blocks that were read or written
  occupied   \* DIR_STATUS_OCCUPIED of the file

idVars == << pack, areas, pfsId, pfsStatus, idTodo, idThen, idCalls, idFaults >>
dataVars == << chain, access, touched, occupied >>
pakAccessVars == << idVars, dataVars >>

------------------------------------------------------------------------------
(* Ids *)

Id(dev, banks, serial) == [sum |-> TRUE, dev |-> dev, banks |-> banks, serial |-> serial]

\* __osIdCheckSum does not agree with what is there.
Destroyed == [sum |-> FALSE, dev |-> FALSE, banks |-> 0, serial |-> "junk"]
NoId == [sum |-> FALSE, dev |-> FALSE, banks |-> 0, serial |-> "none"]
Areas0 == 0..3

IdRest ==
  /\ pfsId = NoId /\ pfsStatus = [initialized |-> FALSE, broken |-> FALSE]
  /\ idTodo = << >> /\ idThen = "none" /\ idCalls = 0 /\ idFaults = 0

\* A pak with four good copies
WholeId ==
  /\ pack = [banks |-> 1, alias |-> "mirror", serial |-> "s", hadId |-> TRUE]
  /\ areas = [a \in Areas0 |-> Id(TRUE, 1, "s")]
  /\ IdRest

IdInit ==
  /\ \E bad \in SUBSET Areas0, dev \in BOOLEAN, n \in RealBanks, other \in Aliases :
       /\ pack = [banks |-> n, alias |-> other, serial |-> "s", hadId |-> Areas0 \ bad \notin {{}, {0}} \/ (dev /\ 0 \notin bad)]
       /\ areas = [a \in Areas0 |-> IF a \in bad THEN Destroyed
                                 ELSE Id(dev, IF dev THEN pack.banks ELSE 0, pack.serial)]
  /\ IdRest

\* The banks of the pak, as __osRepairPackId finds them: the first block of a bank is marked and read
\* back, and that of bank 0 must not have changed.  f = [marks, j, on]
MarkOf(bank) == bank + 128
Shown(bank) == IF bank < pack.banks THEN bank ELSE IF pack.alias = "mirror" THEN bank % pack.banks ELSE -1
ProbeBank(f, bank) ==
  LET at == Shown(bank)
      marks == IF at = -1 THEN f.marks ELSE [f.marks EXCEPT ![at] = MarkOf(bank)]
  IN IF ~f.on THEN f
     ELSE IF at = -1 \/ (bank > 0 /\ marks[0] # MarkOf(0)) THEN [f EXCEPT !.marks = marks, !.on = FALSE]
     ELSE [f EXCEPT !.marks = marks, !.j = @ + 1]
Probe ==
  FoldLeft(ProbeBank, [marks |-> [b \in 0..(pack.banks - 1) |-> 0], j |-> 0, on |-> TRUE],
           [k \in 1..MaxBanks |-> k - 1]).j

\* __osRepairPackId: a new id in all four places, from what the bad one says of itself.
NewId(bad) == Id(Probe > 0, Probe, bad.serial)
Everywhere(x) == [k \in 1..4 |-> << k - 1, x >>]

\* __osCheckPackId: the first of the other places that is good is written to all but itself.
GoodAreas == {a \in 1..3 : areas[a].sum}
Copied(i) == SelectSeq(Everywhere(areas[i]), LAMBDA w : w[1] # i)
FirstGood == CHOOSE i \in GoodAreas : \A j \in GoodAreas : i <= j

Plan(todo, then) == idTodo' = todo /\ idThen' = then /\ UNCHANGED << pfsId, pfsStatus >>
Failed(broken) ==
  /\ pfsStatus' = [pfsStatus EXCEPT !.broken = @ \/ broken] /\ idTodo' = << >> /\ idThen' = "none" /\ UNCHANGED pfsId

\* What a call goes on with when x is the pak's id: without its bit it is made anew.
Take(x, op) ==
  IF ~x.dev THEN Plan(Everywhere(NewId(x)), << op, "renewed", NewId(x) >>)
  ELSE /\ pfsId' = x /\ idTodo' = << >> /\ idThen' = "none"
       /\ pfsStatus' = IF op = "init" THEN [pfsStatus EXCEPT !.initialized = TRUE] ELSE [pfsStatus EXCEPT !.broken = FALSE]

\* osPfsInitPak clears the status; osPfsRepairId, for a handle that was initialised or is broken,
\* makes a new id from the last copy when none is good.
Begin0(op) ==
  /\ idThen = "none" /\ idCalls < MaxIdCalls /\ idCalls' = idCalls + 1
  /\ op = "repair" => pfsStatus.initialized \/ pfsStatus.broken
  /\ UNCHANGED << pack, areas, idFaults >>
Start0(op) ==
  IF areas[0].sum THEN Take(areas[0], op)
  ELSE IF GoodAreas # {} THEN Plan(Copied(FirstGood), << op, "copied", areas[FirstGood] >>)
  ELSE IF op = "repair" THEN Plan(Everywhere(NewId(areas[3])), << op, "renewed", NewId(areas[3]) >>)
  ELSE Failed(TRUE)

InitPak == Begin0("init") /\ Start0("init")
RepairId == Begin0("repair") /\ Start0("repair")

\* The next of its writes; after the last, what is in the first place is read again.
IdWrite ==
  /\ idTodo # << >>
  /\ areas' = [areas EXCEPT ![Head(idTodo)[1]] = Head(idTodo)[2]] /\ idTodo' = Tail(idTodo)
  /\ UNCHANGED << pack, pfsId, pfsStatus, idThen, idCalls, idFaults >>

IdWritten ==
  /\ idThen # "none" /\ idTodo = << >>
  /\ IF idThen[2] = "copied" THEN Take(idThen[3], idThen[1])
     ELSE IF areas[0] = idThen[3] /\ idThen[3].dev THEN Take(idThen[3], idThen[1])
     ELSE Failed(FALSE)
  /\ UNCHANGED << pack, areas, idCalls, idFaults >>

\* The pak is pulled, or the power fails, in a write or a read: the call returns an error, and
\* osPfsInitPak calls the id broken when that was in __osCheckPackId.
IdFault ==
  /\ idThen # "none" /\ idFaults < MaxIdFaults /\ idFaults' = idFaults + 1
  /\ areas' \in {areas} \cup
       IF idTodo = << >> THEN {} ELSE {[areas EXCEPT ![Head(idTodo)[1]] = Destroyed]}
  /\ Failed(idThen[1] = "init" /\ idThen[2] = "copied")
  /\ UNCHANGED << pack, idCalls >>

IdNext == InitPak \/ RepairId \/ IdWrite \/ IdWritten \/ IdFault

------------------------------------------------------------------------------
(* The blocks of a file: w = [bank, page, at, selected, blocks, err], where the table of bank w.bank  *)
(* was read last                                                                                      *)

Eof0 == << -1, -1 >>
NextInTable(bank, page) ==
  LET k == {i \in 1..(Len(chain) - 1) : chain[i] = << bank, page >>}
  IN IF k = {} THEN Eof0 ELSE chain[(CHOOSE i \in k : TRUE) + 1]

\* __osPfsGetNextPage: the table is that of the page's bank, read with bank 0 selected.
NextPage(w) ==
  LET bank == w.page[1]
      next == NextInTable(bank, w.page[2])
  IN [w EXCEPT !.bank = bank, !.selected = IF bank # w.bank THEN 0 ELSE @,
               !.err = next = Eof0, !.page = IF next = Eof0 THEN @ ELSE next]

Skipping(w) == IF w.err \/ w.at < BlocksIn THEN w ELSE [NextPage(w) EXCEPT !.at = w.at - BlocksIn]

Touching(w) ==
  LET v == IF w.at = BlocksIn THEN [NextPage(w) EXCEPT !.at = 0] ELSE w
  IN IF w.err \/ v.err THEN [w EXCEPT !.err = TRUE]
     ELSE [v EXCEPT !.selected = v.page[1], !.at = v.at + 1,
                    !.blocks = Append(@, << v.page[1], v.page[2] * BlocksIn + v.at >>)]

Walk(offset, size) ==
  LET w0 == [bank |-> -1, page |-> chain[1], at |-> offset, selected |-> 0, blocks |-> << >>, err |-> FALSE]
      w1 == FoldLeft(LAMBDA w, k : Skipping(w), w0, [k \in 1..(offset \div BlocksIn) |-> k])
  IN FoldLeft(LAMBDA w, k : Touching(w), w1, [k \in 1..size |-> k])

DataInit ==
  /\ chain \in FilePages /\ access = << 0, 0, "read" >> /\ touched = << >> /\ occupied = FALSE

\* osPfsReadWriteFile: reading needs a file that was written; an access that ends early has done what
\* came before, and a write that is whole marks the file.
ReadWriteFile(offset, size, op) ==
  LET w == Walk(offset, size)
  IN /\ op = "read" => occupied
     /\ access' = << offset, size, op >>
     /\ \E n \in 0..Len(w.blocks) :
          /\ touched' = SubSeq(w.blocks, 1, n)
          /\ occupied' = (occupied \/ (op = "write" /\ n = size))
     /\ UNCHANGED chain

DataNext ==
  \E offset \in 0..(Len(chain) * BlocksIn), size \in 1..(2 * BlocksIn + 1), op \in {"read", "write"} :
    ReadWriteFile(offset, size, op)

------------------------------------------------------------------------------
(* Properties *)

\* Wherever a call is cut off, a pak that had a good copy of its id keeps one, with its serial number;
\* and an id that a call accepted is in the first place and says how many banks there are.
IdSurvives ==
  /\ pack.hadId => \E a \in Areas0 : areas[a].sum /\ areas[a].serial = pack.serial
  /\ \A a \in Areas0 : areas[a].dev => areas[a].banks = pack.banks
  /\ pfsId # NoId /\ idThen = "none" /\ idFaults = 0 => areas[0] = pfsId /\ pfsId.banks = pack.banks

\* A block that is read or written is the one of the file's page at its place, in that page's bank;
\* only a file that was written to the end of a call can be read (osPfsReadWriteFile).
BlocksOfFile ==
  \A k \in DOMAIN touched :
    LET n == access[1] + k - 1
        page == chain[n \div BlocksIn + 1]
    IN touched[k] = << page[1], page[2] * BlocksIn + (n % BlocksIn) >>

------------------------------------------------------------------------------
(* Checksums *)

VARIABLES
  sumOf,     \* "address", "data" or "voice"
  message,   \* the bits that are sent
  bitsIn,        \* the bits, and zeros behind them, that were shifted in
  sums,      \* temp, of what is sent and of what arrives
  burst      \* the bits since the first one that was flipped, 0 while none is

sumVars == << sumOf, message, bitsIn, sums, burst >>

\* The lengths of the remainders and the generators without their highest term,
\* lowest bit first: 0x15 and 0x85
Long(kind) == IF kind = "address" THEN 5 ELSE 8
Generator(kind) == IF kind = "address" THEN << 1, 0, 1, 0, 1 >> ELSE << 1, 0, 1, 0, 0, 0, 0, 1 >>

Plus(a, b) == [i \in DOMAIN a |-> (a[i] + b[i]) % 2]

\* A bit is shifted in; when a one falls out the generator is subtracted, and with it
\* the one that would have come in.
ShiftIn(kind, temp, bit) ==
  LET shifted == << 0 >> \o SubSeq(temp, 1, Long(kind) - 1)
      fallsOut == temp[Long(kind)] = 1
  IN IF bit = 1
     THEN IF fallsOut THEN Plus(shifted, [Generator(kind) EXCEPT ![1] = 0]) ELSE [shifted EXCEPT ![1] = 1]
     ELSE IF fallsOut THEN Plus(shifted, Generator(kind)) ELSE shifted

Cleared(kind) == [i \in 1..Long(kind) |-> 0]
IsSummed == bitsIn = Len(message) + Long(sumOf)

SumInit ==
  /\ sumOf \in {"address", "data", "voice"}
  /\ message \in (IF sumOf = "address" THEN Addresses ELSE Blocks)
  /\ bitsIn = 0 /\ burst = 0 /\ sums = << Cleared(sumOf), Cleared(sumOf) >>

\* A bit of the message; the one that arrives may be another.
NextBit(kind, flip) ==
  /\ sumOf = kind /\ bitsIn < Len(message)
  /\ sums' = << ShiftIn(kind, sums[1], message[bitsIn + 1]),
                ShiftIn(kind, sums[2], (message[bitsIn + 1] + flip) % 2) >>
AddressBit(flip) == NextBit("address", flip)
DataBit(flip)    == NextBit("data", flip)
VoiceBit(flip)   == NextBit("voice", flip)

\* Zeros behind the message
ZeroBit ==
  /\ bitsIn >= Len(message) /\ ~IsSummed
  /\ sums' = << ShiftIn(sumOf, sums[1], 0), ShiftIn(sumOf, sums[2], 0) >>

SumNext ==
  /\ bitsIn' = bitsIn + 1 /\ UNCHANGED << sumOf, message >>
  /\ \/ \E flip \in {0, 1} :
          /\ flip = 1 => burst < Long(sumOf)
          /\ burst' = IF flip = 1 \/ burst > 0 THEN burst + 1 ELSE 0
          /\ AddressBit(flip) \/ DataBit(flip) \/ VoiceBit(flip)
     \/ ZeroBit /\ UNCHANGED burst

------------------------------------------------------------------------------
\* The register when a message and its sum, highest bit first, are shifted in
Remainder(kind, bits) ==
  LET after[n \in 0..Len(bits)] ==
        IF n = 0 THEN Cleared(kind) ELSE ShiftIn(kind, after[n - 1], bits[n])
  IN after[Len(bits)]

Backwards(s) == [i \in DOMAIN s |-> s[Len(s) + 1 - i]]

\* Whatever is sent, a burst of flipped bits no longer than the sum changes the sum, and
\* a message with its sum behind it leaves nothing, as crc.c says
\* (__osContAddressCrc, __osContDataCrc, __osVoiceContDataCrc).
BurstsAreSeen ==
  IsSummed =>
    /\ (sums[1] = sums[2]) = (burst = 0)
    /\ Remainder(sumOf, message \o Backwards(sums[1])) = Cleared(sumOf)
==============================================================================
