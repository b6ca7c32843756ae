---------------------------------- MODULE GbPak ----------------------------------
(***************************************************************************)
(* The Game Boy pak (io/gbpak*.c): initialization, power, the bank of the  *)
(* cartridge that is seen through a window, status, data and identity.     *)
(*                                                                         *)
(* Each call is made of transfers of 32 bytes.  Between two transfers the  *)
(* pak may be replaced by another, or the cartridge in it, and a transfer  *)
(* may fail.  A call of the program is the bottom frame of a stack of the  *)
(* functions that it is in; a function goes on when the one it called has  *)
(* left its result.                                                        *)
(***************************************************************************)
EXTENDS Naturals, Sequences

CONSTANTS
  Window,       \* the blocks of the window, 0x200 in the code
  Ranges,       \* what is read or written: << bank, block, length >>
  GbNoticed,    \* a transfer to a pak that was replaced says so
  AnswerLost,   \* a write that fails may have been taken
  Leftover,     \* a buffer that could not be read may look as if the pak were powered
  MaxSwaps, MaxGbFaults, MaxGbCalls

ASSUME GbAssumption ==
  /\ Window \in Nat \ {0} /\ {GbNoticed, AnswerLost, Leftover} \subseteq BOOLEAN
  /\ {MaxSwaps, MaxGbFaults, MaxGbCalls} \subseteq Nat
  /\ \A r \in Ranges : r[1] \in 0..3 /\ r[2] \in 0..(Window - 1) /\ r[3] \in Nat

VARIABLES
  gbpak,     \* the pak: whether it is another since it was asked, its power and bank, and
             \* the cartridge: which or "none", powered, another since it was asked, mode of its pages
  gbpfs,     \* the handle: initialized, the bank it believes in, the cartridge it knows and
             \* the one it should know
  frames,    \* the stack of functions
  gbret,     \* what the last one returned
  gbstatus,  \* by the byte that osGbpakGetStatus left last, the cartridge was powered
  data,      \* of which cartridge the blocks were read, powered, with its logo to be seen
  sure,      \* osGbpakGetStatus found all well, and nothing was replaced since (history)
  gbseen,    \* the cartridge when the status was last read                    (history)
  gbcounts   \* swaps, faults and calls so far

gbVars == << gbpak, gbpfs, frames, gbret, gbstatus, data, sure, gbseen, gbcounts >>

Unknown == 255    \* 0xFF
\* "hidden" shows its logo after a write only; "none" is an empty slot.
Cartridges == {"red", "blue", "hidden", "none"}

GbInit ==
  /\ gbpak \in {[new |-> FALSE, power |-> FALSE, bank |-> 0, plain |-> FALSE,
                 cart |-> cart, on |-> FALSE, pulled |-> FALSE, low |-> FALSE] : cart \in {"red", "hidden", "none"}}
  /\ gbpfs = [init |-> FALSE, bank |-> Unknown, cart |-> "none", right |-> "none"]
  /\ frames = << >> /\ gbret = "ok" /\ gbstatus = FALSE /\ data = << >> /\ sure = FALSE /\ gbseen = "none"
  /\ gbcounts = [swaps |-> 0, faults |-> 0, calls |-> 0]

------------------------------------------------------------------------------
(* The pak is replaced, by another or by a plain controller pak, or the cartridge is  *)
(* replaced, taken out or put in.                                                    *)

Swapped0 == gbcounts.swaps < MaxSwaps /\ gbcounts' = [gbcounts EXCEPT !.swaps = @ + 1]

SwapPak(cart, plain) ==
  /\ Swapped0 /\ sure' = FALSE
  /\ gbpak' = [new |-> TRUE, power |-> FALSE, bank |-> 0, plain |-> plain, cart |-> cart,
               on |-> FALSE, pulled |-> FALSE, low |-> FALSE]
  /\ UNCHANGED << gbpfs, frames, gbret, gbstatus, data, gbseen >>

SwapCart(cart) ==
  /\ Swapped0 /\ sure' = FALSE /\ ~gbpak.plain
  /\ gbpak' = [gbpak EXCEPT !.cart = cart, !.pulled = TRUE, !.on = FALSE, !.low = FALSE]
  /\ UNCHANGED << gbpfs, frames, gbret, gbstatus, data, gbseen >>

------------------------------------------------------------------------------
(* Frames and transfers                                                       *)

Top == frames[Len(frames)]
In(fn, at) == frames # << >> /\ Top.fn = fn /\ Top.at = at
Frame(fn) == [fn |-> fn, at |-> 1, x |-> 0, n |-> 0]

GoTo(at) == frames' = [frames EXCEPT ![Len(frames)].at = at]
Return(v) == frames' = SubSeq(frames, 1, Len(frames) - 1) /\ gbret' = v
\* The caller goes on at `at' when frame f has returned.
Call(f, at) == frames' = Append([frames EXCEPT ![Len(frames)].at = at], f) /\ UNCHANGED gbret

\* A transfer is answered by r; pak is the pak afterwards when it is taken.  A check sum that
\* is wrong has the status asked for, which says anything if there is no answer.
Ram(r, pak) ==
  \/ /\ r = "ok" /\ (gbpak.new => ~GbNoticed)
     /\ gbpak' = pak /\ UNCHANGED gbcounts
  \/ r = "NEW_PACK" /\ gbpak.new /\ gbpak' = [gbpak EXCEPT !.new = FALSE] /\ UNCHANGED gbcounts
  \/ /\ r # "ok" /\ gbcounts.faults < MaxGbFaults
     /\ gbcounts' = [gbcounts EXCEPT !.faults = @ + 1]
     /\ gbpak' \in {gbpak} \cup IF AnswerLost THEN {pak} ELSE {}

Answers == {"ok", "NEW_PACK", "CONTRFAIL", "NOPACK"}
Plainly(r) == IF r = "NEW_PACK" THEN "CONTRFAIL" ELSE r

Rest == UNCHANGED << gbpfs, gbstatus, data, sure, gbseen >>

------------------------------------------------------------------------------
(* osGbpakInit: the power is turned off and on, and read back each time.      *)

InitStarts == In("init", 1) /\ gbpfs' = [gbpfs EXCEPT !.init = FALSE] /\ GoTo(2)
              /\ UNCHANGED << gbpak, gbret, gbstatus, data, sure, gbseen, gbcounts >>

InitOff(r) ==
  /\ In("init", 2) \/ In("init", 3)
  /\ Ram(r, [gbpak EXCEPT !.power = FALSE, !.on = FALSE]) /\ Rest
  /\ IF r = "ok" THEN GoTo(4) /\ UNCHANGED gbret
     ELSE IF r = "NEW_PACK" /\ Top.at = 2 THEN GoTo(3) /\ UNCHANGED gbret
     ELSE Return(r)

\* A pak that gives back what was written is not this one.
InitIsOff(r) ==
  /\ In("init", 4) /\ Ram(r, gbpak) /\ Rest
  /\ IF r # "ok" THEN Return(Plainly(r))
     ELSE IF gbpak.plain THEN Return("DEVICE") ELSE GoTo(5) /\ UNCHANGED gbret

InitOn(r) ==
  /\ In("init", 5) /\ Ram(r, [gbpak EXCEPT !.power = TRUE]) /\ Rest
  /\ IF r = "ok" THEN GoTo(6) /\ UNCHANGED gbret ELSE Return(Plainly(r))

InitIsOn(r) ==
  /\ In("init", 6) /\ Ram(r, gbpak) /\ Rest
  /\ IF r # "ok" THEN Return(Plainly(r))
     ELSE IF ~gbpak.power /\ ~gbpak.plain THEN Return("DEVICE") ELSE GoTo(7) /\ UNCHANGED gbret

\* __osPfsGetStatus asks whether the pak was replaced.  Where there is no answer the
\* status that it tests first was not set.
PakStatus(r) ==
  \/ /\ r = (IF gbpak.new THEN "NEW_PACK" ELSE "ok")
     /\ gbpak' = [gbpak EXCEPT !.new = FALSE] /\ UNCHANGED gbcounts
  \/ /\ r \in {"NEW_PACK", "NOPACK"} \/ (r = "CONTRFAIL" /\ ~gbpak.new)
     /\ gbcounts.faults < MaxGbFaults
     /\ gbcounts' = [gbcounts EXCEPT !.faults = @ + 1]
     /\ gbpak' \in {gbpak, [gbpak EXCEPT !.new = FALSE]}

InitEnds(r) ==
  /\ In("init", 7) /\ PakStatus(r) /\ Return(r)
  /\ gbpfs' = IF r # "ok" THEN gbpfs
              ELSE [init |-> TRUE, bank |-> Unknown, cart |-> "none", right |-> "none"]
  /\ UNCHANGED << gbstatus, data, sure, gbseen >>

------------------------------------------------------------------------------
(* A write that finds a new pak initializes it and is made once more:         *)
(* osGbpakPower, __osGbpakSetBank, and __osGbpakGetBank for a read.           *)

Once(fn, r, pak) ==
  /\ In(fn, 1) /\ Ram(r, pak) /\ Rest
  /\ IF r = "NEW_PACK" THEN Call(Frame("init"), 2) ELSE GoTo(4) /\ gbret' = r

Initialized0(fn) ==
  /\ In(fn, 2) /\ (IF gbret = "ok" THEN GoTo(3) ELSE GoTo(4))
  /\ UNCHANGED << gbpak, gbret, gbcounts >> /\ Rest

OnceMore(fn, r, pak) ==
  /\ In(fn, 3) /\ Ram(r, pak) /\ GoTo(4) /\ gbret' = Plainly(r) /\ Rest

\* osGbpakPower: the cartridge's power follows the pak's.
Powered(on) == IF gbpak.power THEN [gbpak EXCEPT !.on = on] ELSE gbpak
Power(r) ==
  \/ Once("power", r, Powered(frames[Len(frames)].x = 1))
  \/ OnceMore("power", r, Powered(frames[Len(frames)].x = 1))
PowerEnds == In("power", 4) /\ Return(gbret) /\ UNCHANGED << gbpak, gbcounts >> /\ Rest

Banked == IF gbpak.power THEN [gbpak EXCEPT !.bank = Top.x] ELSE gbpak
SetBankRefuses ==
  In("setbank", 1) /\ Top.x > 2 /\ Return("INVALID") /\ UNCHANGED << gbpak, gbcounts >> /\ Rest
SetBank(r) ==
  \/ Once("setbank", r, Banked) /\ Top.x <= 2
  \/ OnceMore("setbank", r, Banked)

SetBankEnds ==
  /\ In("setbank", 4) /\ Return(gbret)
  /\ gbpfs' = IF gbret = "ok" THEN [gbpfs EXCEPT !.bank = Top.x] ELSE gbpfs
  /\ UNCHANGED << gbpak, gbcounts, gbstatus, data, sure, gbseen >>

GetBank(r) == Once("getbank", r, gbpak) \/ OnceMore("getbank", r, gbpak)
GetBankEnds ==
  /\ In("getbank", 4) /\ Return(gbret)
  /\ gbpfs' = IF gbret = "ok" THEN [gbpfs EXCEPT !.bank = gbpak.bank] ELSE gbpfs
  /\ UNCHANGED << gbpak, gbcounts, gbstatus, data, sure, gbseen >>

------------------------------------------------------------------------------
(* osGbpakGetStatus                                                           *)

\* A pak that is new or not powered is initialized; after another failure the buffer that
\* is looked at holds anything.
StatusPower(r) ==
  /\ In("status", 1) /\ Ram(r, gbpak) /\ Rest
  /\ \/ (r = "ok" => ~gbpak.power) /\ Call(Frame("init"), 2)
     \/ r # "NEW_PACK" /\ (IF r = "ok" THEN gbpak.power ELSE Leftover) /\ GoTo(3) /\ UNCHANGED gbret

StatusInitialized ==
  /\ In("status", 2) /\ (IF gbret = "ok" THEN GoTo(3) /\ UNCHANGED gbret ELSE Return(gbret))
  /\ UNCHANGED << gbpak, gbcounts >> /\ Rest

StatusRead(r) ==
  /\ In("status", 3) /\ Ram(r, [gbpak EXCEPT !.pulled = FALSE]) /\ UNCHANGED << gbpfs, gbstatus, data, sure >>
  /\ IF r # "ok" THEN Return(Plainly(r)) /\ UNCHANGED gbseen
     ELSE /\ gbseen' = gbpak.cart
          /\ frames' = [frames EXCEPT ![Len(frames)] =
                          [@ EXCEPT !.at = 4, !.x = IF gbpak.on THEN 1 ELSE 0,
                                    !.n = IF gbpak.cart = "none" THEN 2 ELSE IF gbpak.pulled THEN 1 ELSE 0]]
          /\ UNCHANGED gbret

\* x and n of the frame are the block that was read: the cartridge is powered; it is
\* there (0), another (1) or missing (2).
StatusEnds(r) ==
  /\ In("status", 4) /\ PakStatus(r) /\ UNCHANGED << gbpfs, data, gbseen >>
  /\ IF r # "ok" THEN Return(r) /\ UNCHANGED << gbstatus, sure >>
     ELSE /\ Return(CASE Top.n = 2 -> "NO_GBCART" [] Top.n = 1 -> "NEW_GBCART" [] OTHER -> "ok")
          /\ gbstatus' = (Top.x = 1)
          /\ sure' = (sure \/ (Top.n = 0 /\ Len(frames) = 1 /\ gbseen = gbpak.cart /\ ~gbpak.pulled))

------------------------------------------------------------------------------
(* osGbpakReadWrite: x of its frame is the block of the cartridge, n the blocks left. *)

BankOf(x) == x \div Window

RwStarts ==
  /\ In("rw", 1) /\ data' = << >>
  /\ IF BankOf(Top.x) # gbpfs.bank
     THEN Call([Frame("setbank") EXCEPT !.x = BankOf(Top.x)], 2)
     ELSE GoTo(3) /\ UNCHANGED gbret
  /\ UNCHANGED << gbpak, gbpfs, gbstatus, sure, gbseen, gbcounts >>

RwBanked ==
  /\ In("rw", 2) /\ (IF gbret = "ok" THEN GoTo(3) /\ UNCHANGED gbret ELSE Return(gbret))
  /\ UNCHANGED << gbpak, gbcounts >> /\ Rest

RwNothing ==
  In("rw", 3) /\ Top.n = 0 /\ Return("ok") /\ UNCHANGED << gbpak, gbcounts >> /\ Rest

\* A block; at the end of the window the next bank is set if there is more.
RwBlock(r) ==
  LET next == Top.x + 1
      moved == [frames EXCEPT ![Len(frames)] = [@ EXCEPT !.x = next, !.n = @ - 1]]
  IN /\ In("rw", 3) /\ Top.n > 0 /\ Ram(r, gbpak) /\ UNCHANGED << gbpfs, gbstatus, sure, gbseen >>
     /\ IF r # "ok" THEN Return(Plainly(r)) /\ UNCHANGED data
        ELSE /\ data' = Append(data, << gbpak.cart, gbpak.power /\ gbpak.on /\ gbpak.cart # "none",
                                     gbpak.cart = "hidden" => gbpak.low >>)
             /\ IF Top.n = 1 THEN Return("ok")
                ELSE IF next % Window = 0
                THEN /\ frames' = Append([moved EXCEPT ![Len(frames)].at = 2],
                                         [Frame("setbank") EXCEPT !.x = BankOf(next)])
                     /\ UNCHANGED gbret
                ELSE frames' = moved /\ UNCHANGED gbret

------------------------------------------------------------------------------
(* osGbpakReadId: the name and sum of the cartridge, with its pages as they are or, when   *)
(* the logo is not there, as a write to the cartridge makes them; x is the cartridge read. *)

Logo(d) == d # << >> /\ d[1][2] /\ d[1][3]
ReadsId(at) == Call([Frame("rw") EXCEPT !.n = 1], at)
\* The id is taken from the first block of the window.
Taken == IF data = << >> THEN "none" ELSE data[1][1]
KeepsAll == UNCHANGED << gbpak, gbcounts >> /\ Rest

IdStatus == In("readid", 1) /\ Call(Frame("status"), 2) /\ KeepsAll
IdAgain ==
  In("readid", 2) /\ gbret = "NEW_GBCART" /\ Call(Frame("status"), 3) /\ KeepsAll
IdPower ==
  /\ In("readid", 3) \/ (In("readid", 2) /\ gbret # "NEW_GBCART")
  /\ IF gbret # "ok" THEN Return(IF Top.at = 3 /\ gbret = "NEW_GBCART" THEN "CONTRFAIL" ELSE gbret)
     ELSE IF gbstatus THEN ReadsId(5) ELSE Call([Frame("power") EXCEPT !.x = 1], 4)
  /\ KeepsAll
IdRead ==
  /\ In("readid", 4) /\ (IF gbret = "ok" THEN ReadsId(5) ELSE Return(gbret)) /\ KeepsAll
IdCheck ==
  /\ In("readid", 5) /\ (IF gbret = "ok" THEN Call(Frame("status"), 6) ELSE Return(gbret)) /\ KeepsAll

\* The sum over the name is right, or IdFails.
IdTakes ==
  /\ Return("ok") /\ gbpfs' = [gbpfs EXCEPT !.cart = Taken, !.right = gbseen]
  /\ UNCHANGED << gbpak, gbcounts, gbstatus, data, sure, gbseen >>
IdFails(v) == Return(v) /\ KeepsAll

\* By the status just read, the reset line shows whether the cartridge has run since.
IdLogo ==
  /\ In("readid", 6)
  /\ IF gbret # "ok" THEN IdFails(IF gbret = "NEW_GBCART" THEN "CONTRFAIL" ELSE gbret)
     ELSE IF ~gbstatus THEN IdFails("CONTRFAIL")
     ELSE IF Logo(data) THEN IdTakes \/ IdFails("4")
     ELSE Call([Frame("rw") EXCEPT !.n = 1, !.x = Window], 7) /\ KeepsAll
IdMode ==
  /\ In("readid", 7)
  /\ IF gbret # "ok" THEN Return(gbret) /\ UNCHANGED gbpak
     ELSE ReadsId(8) /\ gbpak' = [gbpak EXCEPT !.low = @ \/ gbpak.on]
  /\ UNCHANGED gbcounts /\ Rest
IdSecond == In("readid", 8) /\ ReadsId(9) /\ KeepsAll
IdCheckSecond ==
  /\ In("readid", 9) /\ (IF gbret = "ok" THEN Call(Frame("status"), 10) ELSE Return(gbret)) /\ KeepsAll
IdLogoSecond ==
  /\ In("readid", 10)
  /\ IF gbret # "ok" THEN IdFails(IF gbret = "NEW_GBCART" THEN "CONTRFAIL" ELSE gbret)
     ELSE (Logo(data) /\ IdTakes) \/ IdFails("4")

------------------------------------------------------------------------------
\* The program calls.
GbCall ==
  /\ frames = << >> /\ gbcounts.calls < MaxGbCalls
  /\ gbcounts' = [gbcounts EXCEPT !.calls = @ + 1]
  /\ \/ frames' \in {<< Frame("init") >>, << Frame("status") >>}
     \/ /\ gbpfs.init
        /\ frames' \in {<< Frame("getbank") >>, << Frame("readid") >>}
                         \cup {<< [Frame("power") EXCEPT !.x = on] >> : on \in {0, 1}}
                         \cup {<< [Frame("rw") EXCEPT !.x = r[1] * Window + r[2], !.n = r[3]] >> : r \in Ranges}
  /\ UNCHANGED << gbpak, gbpfs, gbret, gbstatus, data, sure, gbseen >>

GbNext ==
  \/ GbCall
  \/ \E cart \in Cartridges : (\E plain \in BOOLEAN : SwapPak(cart, plain)) \/ SwapCart(cart)
  \/ InitStarts \/ PowerEnds \/ SetBankRefuses \/ SetBankEnds \/ GetBankEnds
  \/ StatusInitialized \/ RwStarts \/ RwBanked \/ RwNothing
  \/ \E fn \in {"power", "setbank", "getbank"} : Initialized0(fn)
  \/ \E r \in Answers :
       \/ InitOff(r) \/ InitIsOff(r) \/ InitOn(r) \/ InitIsOn(r) \/ InitEnds(r) \/ StatusEnds(r)
       \/ Power(r) \/ SetBank(r) \/ GetBank(r) \/ StatusPower(r) \/ StatusRead(r) \/ RwBlock(r)
  \/ IdStatus \/ IdAgain \/ IdPower \/ IdRead \/ IdCheck \/ IdLogo \/ IdMode \/ IdSecond
  \/ IdCheckSecond \/ IdLogoSecond

------------------------------------------------------------------------------
\* Once osGbpakGetStatus has found all well and nothing was replaced since, a block that
\* osGbpakReadWrite transfers is of the bank and block of the window that its address
\* says, whatever failed before and while it crosses banks; the identity of a cartridge
\* whose logo is seen at once is that of the one there was when its status was read; and
\* no other pak is taken for a Game Boy pak (osGbpakReadWrite, osGbpakGetStatus,
\* osGbpakReadId).
BlocksOfTheBank ==
  /\ sure /\ frames # << >> /\ Top.fn = "rw" /\ Top.at = 3 /\ Top.n > 0 =>
       gbpak.power /\ gbpak.bank = BankOf(Top.x)
  /\ sure /\ gbpfs.init /\ gbpfs.bank # Unknown /\ frames = << >> => gbpfs.bank = gbpak.bank
  /\ gbpfs.cart = gbpfs.right \/ gbpfs.cart = "hidden"
  /\ sure => ~gbpak.plain

------------------------------------------------------------------------------
(***************************************************************************)
(* osGbpakCheckConnector: the cartridge is read at each power of two from  *)
(* 0x80 to 0x4000, and what is there is compared with what is at the power *)
(* before and at 0, to see whether an address line has no contact.         *)
(*                                                                         *)
(* Each of the places has four blocks.  Three buffers keep those that were *)
(* read: of the address 0, and in turns of the last two powers.            *)
(***************************************************************************)


CONSTANTS
  Places,       \* how many powers of two are looked at
  Faults0,      \* the lines of a cartridge: sets of lines that are connected, or stuck
  Paddings      \* sets of << lines, block >>: the blocks of the cartridge that are padding

VARIABLES
  conn,      \* the lines' fault, the blocks that are padding, whether the cartridge has RAM
  place,     \* address: the power, counted from 1; its line is the line of that number
  comparing, \* what the place is compared with: "old", "zero", or "ram" behind them
  num,       \* the block
  bufs,      \* buf and buf_status: the blocks that were read
  bufn, oldbufn,
  verdict    \* "", or what the call returned

connVars == << conn, place, comparing, num, bufs, bufn, oldbufn, verdict >>

None == << "none" >>

\* What the cartridge sees of an address whose lines `high' are high
Seen(high) ==
  CASE conn.fault[1] = "low"  -> high \ conn.fault[2]
    [] conn.fault[1] = "high" -> high \cup conn.fault[2]
    [] conn.fault[1] = "short" -> IF high \cap conn.fault[2] # {} THEN high \cup conn.fault[2] ELSE high
    [] OTHER -> high
\* A block of the ROM, or of the RAM that the highest line selects
Top0 == Places + 1
Block0(high, n) ==
  << IF Top0 \in Seen(high) THEN "RAM" ELSE "ROM", IF << Seen(high), n >> \in conn.padding THEN "padding" ELSE "own",
     IF << Seen(high), n >> \in conn.padding THEN {} ELSE Seen(high), n >>
Lines(p) == IF p = 0 THEN {} ELSE {p}

ConnInit ==
  /\ conn \in [fault : Faults0, padding : Paddings, ram : BOOLEAN]
  /\ place = 1 /\ comparing = "old" /\ num = 0
  /\ bufs = [b \in 0..2 |-> [n \in 0..3 |-> None]] /\ bufn = 1 /\ oldbufn = 0 /\ verdict = ""

\* The block num of the buffer b, read again or only when it was not read before
Load(m, b, p, again) == IF again \/ m[b][num] = None THEN [m EXCEPT ![b][num] = Block0(Lines(p), num)] ELSE m

\* Four blocks that are alike end the call; else the next comparison begins.
Compared(same, onDifference) ==
  IF same
  THEN IF num = 3 THEN verdict' = "CONTRFAIL" /\ UNCHANGED << place, comparing, num, bufn, oldbufn >>
       ELSE num' = num + 1 /\ UNCHANGED << place, comparing, bufn, oldbufn, verdict >>
  ELSE num' = 0 /\ onDifference

\* The next power; the buffer of the last but one is used again.
NextPlace ==
  /\ oldbufn' = bufn /\ bufn' = 3 - bufn
  /\ IF place < Places THEN place' = place + 1 /\ comparing' = "old" /\ UNCHANGED verdict
     ELSE IF conn.ram THEN comparing' = "ram" /\ UNCHANGED << place, verdict >>
     ELSE verdict' = "ok" /\ UNCHANGED << place, comparing >>
\* bzero(buf_status[oldbufn]): the buffer of the first address is kept.
Forget(m) == IF oldbufn = 0 THEN m ELSE [m EXCEPT ![oldbufn] = [n \in 0..3 |-> None]]

ZeroNext == comparing' = "zero" /\ UNCHANGED << place, bufn, oldbufn, verdict >>

WithOld ==
  /\ verdict = "" /\ comparing = "old"
  /\ LET m == Load(Load(bufs, bufn, place, TRUE), oldbufn, place - 1, FALSE)
         same == m[bufn][num] = m[oldbufn][num]
     IN /\ bufs' = IF ~same /\ oldbufn = 0 THEN Forget(m) ELSE m
        /\ Compared(same, IF oldbufn = 0 THEN NextPlace ELSE ZeroNext)

WithZero ==
  /\ verdict = "" /\ comparing = "zero"
  /\ LET m == Load(Load(bufs, bufn, place, FALSE), 0, 0, FALSE)
         same == m[bufn][num] = m[0][num]
     IN bufs' = (IF same THEN m ELSE Forget(m)) /\ Compared(same, NextPlace)

\* The RAM of the cartridge with what is in the ROM at the same lines
WithRam ==
  /\ verdict = "" /\ comparing = "ram" /\ UNCHANGED bufs
  /\ Compared(Block0({Top0, Places - 1}, num) = Block0({Places - 1}, num),
              verdict' = "ok" /\ UNCHANGED << place, comparing, bufn, oldbufn >>)

\* A read, or the status behind them all, fails.
ReadFails ==
  /\ verdict = "" /\ verdict' = "failed"
  /\ UNCHANGED << place, comparing, num, bufs, bufn, oldbufn >>

ConnNext == UNCHANGED conn /\ (WithOld \/ WithZero \/ WithRam \/ ReadFails)

------------------------------------------------------------------------------
\* A line that is always low or high, or connected to the next, is found, that of the RAM
\* if there is RAM, and nothing else: whichever blocks are kept from the places before, a cartridge whose lines are
\* good and whose places differ passes (osGbpakCheckConnector).
LinesFound ==
  /\ verdict = "CONTRFAIL" => conn.fault[1] # "none"
  /\ verdict = "ok" => \/ conn.fault[1] = "none"
                       \/ conn.fault[2] = {Top0} /\ ~conn.ram
==============================================================================
