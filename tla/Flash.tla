------------------------------------ MODULE Flash ------------------------------------
(***************************************************************************)
(* The flash memory: a chip behind the PI that is told by commands what    *)
(* its addresses mean, and is asked over and over whether an erasure or a  *)
(* program of a page has ended.                                            *)
(*                                                                         *)
(* One thread uses it (no call keeps another one out).  The chip is        *)
(* modelled from how the library drives it: a page that is programmed      *)
(* without having been erased, or whose program failed, holds garbage; a   *)
(* chip of the old kind takes addresses of half the size; and a transfer   *)
(* does not go past the end of a block of pages (256 of them).             *)
(***************************************************************************)
EXTENDS Integers, Sequences

CONSTANTS
  FPages,     \* the pages of a chip
  FSector,    \* pages that are erased together
  FBlock,     \* pages of one transfer (256)
  FData,      \* contents of a page
  ChipKinds,      \* the kinds of the chips 0 and 1: << "old" or "new", ... >>
  FReads,     \* what is read: << page, number of pages >>
  Mixed0,     \* osFlashChange to a chip of another kind
  ChangesBack, \* osFlashInit after osFlashChange
  MaxFlashCalls, MaxFlashFaults

VARIABLES
  chips,     \* the chips: mode, page buffer, pages, what they are busy with, status
  kinds,     \* their kinds
  base,      \* __osFlashHandler: the chip in use, or -1
  version,   \* __osFlashVersion
  linked,    \* how often the handle was linked into __osPiTable
  op,        \* the call that is under way
  said,      \* what a call returned that is not so
  flashCalls, flashFaults

flashVars == << chips, kinds, base, version, linked, op, said, flashCalls, flashFaults >>

PageSet == 0..(FPages - 1)
Garbage == "garbage"

ASSUME FlashAssumption ==
  /\ {FPages, FSector, FBlock} \subseteq Nat \ {0} /\ Garbage \notin FData
  /\ ChipKinds \subseteq {"old", "new"} \X {"old", "new"} /\ FReads \subseteq Nat \X (Nat \ {0})
  /\ {Mixed0, ChangesBack} \subseteq BOOLEAN /\ {MaxFlashCalls, MaxFlashFaults} \subseteq Nat

NoOp == [fn |-> "none"]
Chip == chips[base]

\* The mode a command puts the chip into
Commanded(c, mode) == [c EXCEPT !.mode = mode]
\* osFlashReadStatus, twice over
ReadStatus(c) == Commanded(c, "status")
\* Mutant: the status of the last call stays.
ClearsNothing(c) == Commanded(c, "status")
\* osFlashClearStatus
ClearStatus(c) == [c EXCEPT !.mode = "status", !.status = {}]
\* The erase and the page program commands
StartErase(c, pages) == [c EXCEPT !.mode = "status", !.busy = [what |-> "erase", pages |-> pages]]
SectorOf(page) == {p \in PageSet : p \div FSector = page \div FSector}
StartProgram(c, page) == [c EXCEPT !.mode = "status", !.busy = [what |-> "write", pages |-> {page}]]
NotBusy == [what |-> "no", pages |-> {}]
\* osFlashWriteBuffer: a page goes to the chip's buffer.
WriteBuffer(c, datum) == [c EXCEPT !.mode = "program", !.buf = datum]

\* __osFlashGetAddr, in half pages, and the page the chip takes an address for
FlashGetAddr(page) == IF version = "old" THEN page ELSE page * 2
PageAt(addr, kind) == IF kind = "old" THEN addr ELSE addr \div 2

------------------------------------------------------------------------------
FlashInit ==
  /\ kinds \in ChipKinds
  /\ chips = [c \in 0..1 |-> [mode |-> "array", buf |-> Garbage, pages |-> [p \in PageSet |-> Garbage],
                              busy |-> NotBusy, status |-> {}]]
  /\ base = -1 /\ version = "old" /\ linked = 0 /\ op = NoOp /\ said = FALSE
  /\ flashCalls = 0 /\ flashFaults = 0

FlashReady == op = NoOp /\ base # -1
CallsFlash == flashCalls < MaxFlashCalls /\ flashCalls' = flashCalls + 1
Sets(c) == chips' = [chips EXCEPT ![base] = c]

\* osFlashInit: the handle is linked, and the chip's maker tells its kind.
FlashInits ==
  /\ op = NoOp /\ CallsFlash
  /\ base = 1 => ChangesBack
  /\ IF base = 0 THEN UNCHANGED << chips, base, version, linked >>
     ELSE /\ base' = 0 /\ linked' = linked + 1 /\ version' = kinds[1]
          /\ chips' = [chips EXCEPT ![0] = Commanded(ReadStatus(@), "id")]
  /\ UNCHANGED << kinds, op, said, flashFaults >>
\* osFlashChange
FlashChange ==
  /\ FlashReady /\ CallsFlash
  /\ \E c \in 0..1 : base' = c /\ (Mixed0 \/ kinds[c + 1] = version)
  /\ UNCHANGED << chips, kinds, version, linked, op, said, flashFaults >>

\* osFlashSectorErase, osFlashAllErase and the calls that do not wait for the end
Erase ==
  /\ FlashReady /\ CallsFlash
  /\ \E pages \in {SectorOf(p) : p \in PageSet} \cup {PageSet}, waits \in BOOLEAN :
       /\ Sets(StartErase(Chip, pages))
       /\ op' = [fn |-> IF waits THEN "erasing" ELSE "through", pages |-> pages]
  /\ UNCHANGED << kinds, base, version, linked, said, flashFaults >>

\* osFlashWriteBuffer and osFlashWriteArray: a new chip is told about its buffer again.
WriteArray ==
  /\ FlashReady /\ CallsFlash
  /\ \E page \in PageSet, datum \in FData :
       LET c == WriteBuffer(Chip, datum)
       IN /\ Sets(StartProgram(IF version = "new" THEN Commanded(c, "program") ELSE c, page))
          /\ op' = [fn |-> "writing", pages |-> {page}, data |-> datum,
                    erased |-> Chip.pages[page] = "erased"]
  /\ UNCHANGED << kinds, base, version, linked, said, flashFaults >>

\* The chip comes to an end, one way or the other.
ChipEnds ==
  /\ op.fn \in {"erasing", "through", "writing"} /\ Chip.busy # NotBusy
  /\ \E fails \in BOOLEAN :
       LET b == Chip.busy
           new(p) == IF fails THEN Garbage
                     ELSE IF b.what = "erase" THEN "erased"
                     ELSE IF Chip.pages[p] = "erased" THEN Chip.buf ELSE Garbage
       IN /\ fails => flashFaults < MaxFlashFaults
          /\ flashFaults' = flashFaults + (IF fails THEN 1 ELSE 0)
          /\ Sets([Chip EXCEPT !.busy = NotBusy, !.status = IF fails THEN @ ELSE @ \cup {b.what},
                               !.pages = [p \in PageSet |-> IF p \in b.pages THEN new(p) ELSE @[p]]])
  /\ UNCHANGED << kinds, base, version, linked, op, said, flashCalls >>

\* The status is read until the chip is not busy, and cleared: whether the call succeeded
Succeeds(what) == what \in Chip.status
CheckEraseEnd ==
  /\ op.fn \in {"erasing", "through"} /\ Chip.busy = NotBusy
  /\ Sets(ClearStatus(Chip)) /\ op' = NoOp
  /\ said' = (said \/ ~(Succeeds("erase") <=> \A p \in op.pages : Chip.pages[p] = "erased"))
  /\ UNCHANGED << kinds, base, version, linked, flashCalls, flashFaults >>
WriteChecked ==
  /\ op.fn = "writing" /\ Chip.busy = NotBusy
  /\ Sets(ClearStatus(Chip)) /\ op' = NoOp
  /\ said' = (said \/ (op.erased /\ ~(Succeeds("write") <=> \A p \in op.pages : Chip.pages[p] = op.data)))
  /\ UNCHANGED << kinds, base, version, linked, flashCalls, flashFaults >>

\* osFlashReadArray: transfers up to the end of a block, of whole blocks and of the rest
ReadArray ==
  /\ FlashReady /\ CallsFlash
  /\ \E r \in FReads :
       LET first == FBlock - (r[1] % FBlock)
           split == (r[1] + r[2] - 1) \div FBlock # r[1] \div FBlock
       IN op' = [fn |-> "reading", from |-> r[1], n |-> r[2], got |-> << >>, page |-> r[1], left |-> r[2],
                 dma |-> IF split THEN first ELSE IF r[2] > FBlock THEN FBlock ELSE r[2]]
  /\ Sets(Commanded(Chip, "array"))
  /\ UNCHANGED << kinds, base, version, linked, said, flashFaults >>
\* A transfer of op.dma pages ends; the next begins at a block, or the call is done.
Fetched == [i \in 1..op.dma |-> PageAt(FlashGetAddr(op.page), kinds[base + 1]) + i - 1]
Transfer0 ==
  /\ op.fn = "reading"
  /\ LET got == op.got \o Fetched
         rest == op.left - op.dma
         ends == Fetched[1] \div FBlock # Fetched[op.dma] \div FBlock
     IN /\ said' = (said \/ ends \/ (rest = 0 /\ got # [i \in 1..op.n |-> op.from + i - 1]))
        /\ op' = (IF rest = 0 THEN NoOp
                 ELSE [op EXCEPT !.got = got, !.left = rest, !.page = (@ - (@ % FBlock)) + FBlock,
                                 !.dma = IF rest > FBlock THEN FBlock ELSE rest])
  /\ UNCHANGED << chips, kinds, base, version, linked, flashCalls, flashFaults >>

FlashNext ==
  \/ FlashInits \/ FlashChange \/ Erase \/ WriteArray \/ ChipEnds \/ CheckEraseEnd \/ WriteChecked
  \/ ReadArray \/ Transfer0

------------------------------------------------------------------------------
\* A call says that it erased or wrote exactly when the pages are as it says, also behind calls
\* that failed or did not wait; what is read is what was asked for, on both kinds of chips, without a
\* transfer across the end of a block; and the handle is in the list of handles once
\* (osFlashSectorErase, osFlashWriteArray, osFlashReadArray, osFlashInit).
FlashSaysSo == ~said /\ linked <= 1
==============================================================================
