----------------------------- MODULE DevicesProofs -----------------------------
(***************************************************************************)
(* Theorems about the processor, its coprocessors and devices: Flash, for  *)
(* any number of pages, any sizes of sectors and blocks, and any sequence  *)
(* of calls; Contexts, for any threads and masks; RspTasks, for any tasks; *)
(* AudioOut, for any buffers, clocks and frequencies; Caches, for any      *)
(* caches, lines and spans of memory; and OSTimer, for any timers,         *)
(* settings, queue length and width of the Count register.                 *)
(***************************************************************************)
EXTENDS Flash, Contexts, RspTasks, AudioOut, Caches, OSTimer, Integers, FiniteSetTheorems, SequenceTheorems,
  WellFoundedInduction, TLAPS

------------------------------------------------------------------------------
(* Flash memory *)

FlashSpec == FlashInit /\ [][FlashNext]_flashVars

------------------------------------------------------------------------------
(* What the variables hold *)

IsChip(c) ==
  /\ DOMAIN c = {"mode", "buf", "pages", "busy", "status"}
  /\ c.pages = [p \in PageSet |-> c.pages[p]]

\* A chip that nothing was left to do for
ChipAtRest(c) == c.busy = NotBusy /\ c.status = {}

HandleFits ==
  /\ base \in {-1, 0, 1} /\ linked \in 0..1 /\ (base = -1 => linked = 0)
  /\ base # -1 => kinds[base + 1] = version
  /\ kinds \in ChipKinds /\ version \in {"old", "new"}

\* The chip erases the pages, or has ended and says so.
ErasesNow(o, c) ==
  /\ o.pages # {} /\ o.pages \subseteq PageSet
  /\ \/ c.busy = [what |-> "erase", pages |-> o.pages] /\ c.status = {}
     \/ c.busy = NotBusy /\ ("erase" \in c.status <=> \A p \in o.pages : c.pages[p] = "erased")
WritesNow(o, c) ==
  \E page \in PageSet :
    /\ o.pages = {page} /\ o.data \in FData
    /\ \/ /\ c.busy = [what |-> "write", pages |-> {page}] /\ c.status = {} /\ c.buf = o.data
          /\ o.erased => c.pages[page] = "erased"
       \/ c.busy = NotBusy /\ (o.erased => ("write" \in c.status <=> c.pages[page] = o.data))

\* What was read is what was asked for so far; a transfer ends with a block or with the call.
ReadsNow(o) ==
  /\ DOMAIN o = {"fn", "from", "n", "got", "page", "left", "dma"}
  /\ o.from \in Nat /\ o.n \in Nat /\ o.page \in Nat /\ o.left \in 1..o.n /\ o.dma \in 1..o.left
  /\ o.page = o.from + (o.n - o.left)
  /\ o.got = [i \in 1..(o.n - o.left) |-> o.from + i - 1]
  /\ (o.page % FBlock) + o.dma <= FBlock
  /\ o.dma < o.left => (o.page % FBlock) + o.dma = FBlock

CallFits ==
  \/ op = NoOp
  \/ op.fn = "reading" /\ ReadsNow(op)
  \/ op.fn \in {"erasing", "through"} /\ ErasesNow(op, chips[base])
  \/ op.fn = "writing" /\ WritesNow(op, chips[base])

ChipWorks == op.fn \in {"erasing", "through", "writing"}

FlashInv ==
  /\ chips = [c \in 0..1 |-> chips[c]] /\ \A c \in 0..1 : IsChip(chips[c])
  /\ HandleFits /\ CallFits /\ (op # NoOp => base # -1)
  /\ \A c \in 0..1 : ChipAtRest(chips[c]) \/ (ChipWorks /\ c = base)
  /\ ~said

------------------------------------------------------------------------------
(* Blocks of pages *)

LEMMA BlockOf ==
  ASSUME NEW x \in Nat
  PROVE  /\ x \div FBlock \in Nat /\ x % FBlock \in 0..(FBlock - 1)
         /\ x = (x \div FBlock) * FBlock + (x % FBlock)
<1>1. FBlock \in Nat \ {0}
  BY FlashAssumption
<1>2. x % FBlock = x - (x \div FBlock) * FBlock /\ x \div FBlock \in Nat /\ x % FBlock \in 0..(FBlock - 1)
  BY <1>1
<1> QED BY <1>1, <1>2

LEMMA Multiples ==
  ASSUME NEW a \in Int, NEW b \in Int, a < b, NEW k \in Nat \ {0}
  PROVE  a * k + k <= b * k
<1>1. PICK d \in Nat : b = a + 1 + d
  <2>1. b - a - 1 \in Nat
    OBVIOUS
  <2> QED BY <2>1
<1>2. d * k \in Nat
  OBVIOUS
<1>3. b * k = a * k + k + d * k
  BY <1>1
<1> QED BY <1>2, <1>3

\* A block is known by the multiple below.
LEMMA OneBlock ==
  ASSUME NEW x \in Nat, NEW q \in Nat, NEW r \in 0..(FBlock - 1), x = q * FBlock + r
  PROVE  x \div FBlock = q /\ x % FBlock = r
<1> DEFINE d == x \div FBlock
           m == x % FBlock
<1>1. d \in Nat /\ m \in 0..(FBlock - 1) /\ x = d * FBlock + m /\ FBlock \in Nat \ {0}
  BY BlockOf, FlashAssumption
<1> SUFFICES d = q /\ m = r
  OBVIOUS
<1> HIDE DEF d, m
<1>2. d * FBlock \in Nat /\ q * FBlock \in Nat
  BY <1>1
<1>3. ~(d < q)
  <2> SUFFICES ASSUME d < q PROVE FALSE
    OBVIOUS
  <2>1. d * FBlock + FBlock <= q * FBlock
    BY <1>1, Multiples
  <2> QED BY <1>1, <1>2, <2>1
<1>4. ~(q < d)
  <2> SUFFICES ASSUME q < d PROVE FALSE
    OBVIOUS
  <2>1. q * FBlock + FBlock <= d * FBlock
    BY <1>1, Multiples
  <2> QED BY <1>1, <1>2, <2>1
<1>5. d = q
  BY <1>1, <1>3, <1>4
<1> QED BY <1>1, <1>2, <1>5

LEMMA WithinBlock ==
  ASSUME NEW x \in Nat, NEW n \in Nat
  PROVE  /\ (x % FBlock) + n < FBlock => (x + n) \div FBlock = x \div FBlock /\ (x + n) % FBlock = (x % FBlock) + n
         /\ (x % FBlock) + n = FBlock => (x + n) % FBlock = 0
         /\ (x % FBlock) + n >= FBlock => (x + n) \div FBlock # x \div FBlock
<1> DEFINE d == x \div FBlock
           m == x % FBlock
<1>1. d \in Nat /\ m \in 0..(FBlock - 1) /\ x = d * FBlock + m /\ FBlock \in Nat \ {0}
  BY BlockOf, FlashAssumption
<1> HIDE DEF d, m
<1>2. d * FBlock \in Nat
  BY <1>1
<1>3. ASSUME m + n < FBlock PROVE (x + n) \div FBlock = d /\ (x + n) % FBlock = m + n
  <2>1. m + n \in 0..(FBlock - 1) /\ x + n \in Nat /\ x + n = d * FBlock + (m + n)
    BY <1>1, <1>2, <1>3
  <2>2. PICK y \in Nat, r \in 0..(FBlock - 1) : y = x + n /\ r = m + n
    BY <2>1
  <2>3. y \div FBlock = d /\ y % FBlock = r
    BY <1>1, <2>1, <2>2, OneBlock
  <2> QED BY <2>2, <2>3
<1>4. ASSUME m + n = FBlock PROVE (x + n) % FBlock = 0
  <2>1. (d + 1) * FBlock = d * FBlock + FBlock
    BY <1>1
  <2>2. PICK y \in Nat, e \in Nat : y = x + n /\ e = d + 1
    BY <1>1
  <2>3. y = e * FBlock + 0 /\ 0 \in 0..(FBlock - 1)
    BY <1>1, <1>2, <1>4, <2>1, <2>2
  <2>4. y % FBlock = 0
    BY <2>3, OneBlock
  <2> QED BY <2>2, <2>4
<1>5. ASSUME m + n >= FBlock, (x + n) \div FBlock = d PROVE FALSE
  <2>1. PICK y \in Nat : y = x + n
    BY <1>1
  <2>2. y = d * FBlock + (y % FBlock) /\ y % FBlock \in 0..(FBlock - 1)
    BY <1>5, <2>1, BlockOf
  <2>3. PICK r \in 0..(FBlock - 1) : r = y % FBlock
    BY <2>2
  <2> QED BY <1>1, <1>2, <1>5, <2>1, <2>2, <2>3
<1> QED BY <1>3, <1>4, <1>5 DEF d, m

------------------------------------------------------------------------------
(* The calls *)

LEMMA HandleStays ==
  ASSUME HandleFits, UNCHANGED << kinds, base, version, linked >> PROVE HandleFits'
BY DEF HandleFits

LEMMA Unmoved ==
  ASSUME FlashInv, UNCHANGED << chips, kinds, base, version, linked, op, said >> PROVE FlashInv'
<1>1. HandleFits'
  BY HandleStays DEF FlashInv
<1>2. CallFits'
  BY DEF FlashInv, CallFits
<1>3. \A c \in 0..1 : IsChip(chips'[c]) /\ (ChipAtRest(chips'[c]) \/ (ChipWorks' /\ c = base'))
  BY DEF FlashInv, ChipWorks
<1>4. chips' = [c \in 0..1 |-> chips'[c]] /\ ~said' /\ (op' # NoOp => base' # -1)
  BY DEF FlashInv
<1> QED BY <1>1, <1>2, <1>3, <1>4 DEF FlashInv

LEMMA InitsKeep == ASSUME ~ChangesBack, FlashInv, FlashInits PROVE FlashInv'
<1>1. /\ op = NoOp /\ UNCHANGED << kinds, op, said >>
  BY DEF FlashInits
<1>2. CASE base = 0
  <2>1. UNCHANGED << chips, base, version, linked >>
    BY <1>2 DEF FlashInits
  <2> QED BY <1>1, <2>1, Unmoved
<1>3. CASE base # 0
  <2>1. /\ base' = 0 /\ linked' = linked + 1 /\ version' = kinds[1]
        /\ chips' = [chips EXCEPT ![0] = [[chips[0] EXCEPT !.mode = "status"] EXCEPT !.mode = "id"]]
    BY <1>3 DEF FlashInits, Commanded, ReadStatus
  <2>2. base = -1 /\ linked = 0 /\ kinds \in {"old", "new"} \X {"old", "new"}
    BY <1>3, FlashAssumption DEF FlashInits, FlashInv, HandleFits
  <2>3. HandleFits'
    BY <1>1, <2>1, <2>2 DEF HandleFits, FlashInv
  <2>4. chips' = [c \in 0..1 |-> chips'[c]] /\ chips'[1] = chips[1]
        /\ chips'[0] = [[chips[0] EXCEPT !.mode = "status"] EXCEPT !.mode = "id"]
    <3>1. chips = [c \in 0..1 |-> chips[c]]
      BY DEF FlashInv
    <3> DEFINE e == [[chips[0] EXCEPT !.mode = "status"] EXCEPT !.mode = "id"]
    <3>2. chips' = [chips EXCEPT ![0] = e]
      BY <2>1
    <3> HIDE DEF e
    <3>3. DOMAIN chips = 0..1 /\ 0 \in 0..1 /\ 1 \in 0..1 /\ 0 # 1
      BY <3>1
    <3>4. chips'[1] = chips[1] /\ chips'[0] = e
      BY <3>2, <3>3
    <3>5. chips' = [c \in 0..1 |-> chips'[c]]
      BY <3>2, <3>3
    <3> QED BY <3>4, <3>5 DEF e
  <2>5. \A c \in 0..1 : IsChip(chips[c]) /\ ChipAtRest(chips[c])
    BY <1>1 DEF FlashInv, ChipWorks, NoOp
  <2>6. IsChip(chips'[0]) /\ ChipAtRest(chips'[0])
    BY <2>4, <2>5 DEF IsChip, ChipAtRest
  <2>7. \A c \in 0..1 : IsChip(chips'[c]) /\ ChipAtRest(chips'[c])
    BY <2>4, <2>5, <2>6
  <2> QED BY <1>1, <2>3, <2>4, <2>7 DEF FlashInv, CallFits
<1> QED BY <1>2, <1>3

LEMMA ChangeKeeps == ASSUME ~Mixed0, FlashInv, FlashChange PROVE FlashInv'
<1>1. /\ op = NoOp /\ base # -1 /\ UNCHANGED << chips, kinds, version, linked, op, said >>
      /\ \E c \in 0..1 : base' = c /\ kinds[c + 1] = version
  BY DEF FlashChange, FlashReady
<1>2. HandleFits'
  BY <1>1 DEF FlashInv, HandleFits
<1>3. \A c \in 0..1 : ChipAtRest(chips'[c])
  BY <1>1 DEF FlashInv, ChipWorks, NoOp
<1> QED BY <1>1, <1>2, <1>3 DEF FlashInv, CallFits

\* A step of a call changes the chip in use.
LEMMA ChipChanges ==
  ASSUME FlashInv, base # -1, NEW d, Sets(d), IsChip(d)
  PROVE  /\ chips' = [c \in 0..1 |-> chips'[c]] /\ chips'[base] = d /\ base \in 0..1
         /\ \A c \in 0..1 : IsChip(chips'[c]) /\ (c # base => chips'[c] = chips[c])
<1>1. base \in 0..1
  BY DEF FlashInv, HandleFits
<1>2. chips' = [chips EXCEPT ![base] = d]
  BY DEF Sets
<1> QED BY <1>1, <1>2 DEF FlashInv

\* The invariant after a step of a call: what is left to show
LEMMA CallKeeps ==
  ASSUME FlashInv, base # -1, NEW d, Sets(d), IsChip(d), UNCHANGED << kinds, base, version, linked >>,
         ~said', CallFits', ChipWorks' \/ ChipAtRest(d),
         \A c \in 0..1 : c # base => ChipAtRest(chips[c])
  PROVE  FlashInv'
<1>1. /\ chips' = [c \in 0..1 |-> chips'[c]] /\ chips'[base] = d /\ base \in 0..1
      /\ \A c \in 0..1 : IsChip(chips'[c]) /\ (c # base => chips'[c] = chips[c])
  BY ChipChanges
<1>2. HandleFits'
  BY HandleStays DEF FlashInv
<1>3. \A c \in 0..1 : ChipAtRest(chips'[c]) \/ (ChipWorks' /\ c = base')
  BY <1>1
<1> QED BY <1>1, <1>2, <1>3 DEF FlashInv

LEMMA Others ==
  ASSUME FlashInv PROVE \A c \in 0..1 : c # base => ChipAtRest(chips[c])
BY DEF FlashInv

LEMMA InUse == ASSUME FlashInv, base # -1 PROVE base \in 0..1 /\ IsChip(Chip) /\ Chip = chips[base]
BY DEF FlashInv, HandleFits, Chip

LEMMA EraseKeeps == ASSUME FlashInv, Erase PROVE FlashInv'
<1>1. /\ op = NoOp /\ base # -1 /\ UNCHANGED << kinds, base, version, linked, said >> /\ ~said
  BY DEF Erase, FlashReady, FlashInv
<1>2. PICK pages \in {SectorOf(p) : p \in PageSet} \cup {PageSet}, waits \in BOOLEAN :
        /\ Sets(StartErase(Chip, pages))
        /\ op' = [fn |-> IF waits THEN "erasing" ELSE "through", pages |-> pages]
  BY DEF Erase
<1>3. pages # {} /\ pages \subseteq PageSet
  <2>1. 0 \in PageSet
    <3>1. FPages \in Nat \ {0}
      BY FlashAssumption
    <3> QED BY <3>1 DEF PageSet
  <2>2. \A p \in PageSet : p \in SectorOf(p) /\ SectorOf(p) \subseteq PageSet
    BY DEF SectorOf
  <2> QED BY <2>1, <2>2
<1> DEFINE d == StartErase(Chip, pages)
<1>4. base \in 0..1 /\ IsChip(Chip) /\ Chip.status = {}
  BY <1>1, InUse DEF FlashInv, ChipWorks, NoOp, ChipAtRest
<1>5. IsChip(d) /\ d.busy = [what |-> "erase", pages |-> pages] /\ d.status = {}
  BY <1>4 DEF IsChip, StartErase
<1> HIDE DEF d
<1>6. Sets(d)
  BY <1>2 DEF d
<1>7. chips'[base] = d
  BY <1>1, <1>5, <1>6, ChipChanges
<1>8. op'.fn \in {"erasing", "through"} /\ op'.pages = pages
  BY <1>2
<1>9. ErasesNow(op', d)
  BY <1>3, <1>5, <1>8 DEF ErasesNow
<1>10. CallFits' /\ ChipWorks'
  BY <1>1, <1>7, <1>8, <1>9 DEF CallFits, ChipWorks
<1> QED BY <1>1, <1>5, <1>6, <1>10, CallKeeps, Others

LEMMA WriteArrayKeeps == ASSUME FlashInv, WriteArray PROVE FlashInv'
<1>1. /\ op = NoOp /\ base # -1 /\ UNCHANGED << kinds, base, version, linked, said >> /\ ~said
  BY DEF WriteArray, FlashReady, FlashInv
<1> DEFINE Put(datum) == WriteBuffer(Chip, datum)
           New(page, datum) ==
             StartProgram(IF version = "new" THEN Commanded(Put(datum), "program") ELSE Put(datum), page)
<1>2. PICK page \in PageSet, datum \in FData :
        /\ Sets(New(page, datum))
        /\ op' = [fn |-> "writing", pages |-> {page}, data |-> datum,
                  erased |-> Chip.pages[page] = "erased"]
  BY DEF WriteArray
<1>3. base \in 0..1 /\ IsChip(Chip) /\ Chip.status = {}
  BY <1>1, InUse DEF FlashInv, ChipWorks, NoOp, ChipAtRest
<1>4. /\ IsChip(Put(datum)) /\ Put(datum).status = {} /\ Put(datum).buf = datum
      /\ Put(datum).pages = Chip.pages
  BY <1>3 DEF IsChip, WriteBuffer
<1> DEFINE c == IF version = "new" THEN Commanded(Put(datum), "program") ELSE Put(datum)
<1>5. IsChip(c) /\ c.status = {} /\ c.buf = datum /\ c.pages = Chip.pages
  <2> HIDE DEF Put
  <2> QED BY <1>4 DEF IsChip, Commanded
<1> DEFINE d == StartProgram(c, page)
<1>6. /\ IsChip(d) /\ d.busy = [what |-> "write", pages |-> {page}] /\ d.status = {} /\ d.buf = datum
      /\ d.pages = Chip.pages
  <2> HIDE DEF c
  <2> QED BY <1>5 DEF IsChip, StartProgram
<1>7. Sets(d)
  BY <1>2
<1> HIDE DEF d
<1>8. chips'[base] = d
  BY <1>1, <1>6, <1>7, ChipChanges
<1>9. /\ op'.fn = "writing" /\ op'.pages = {page} /\ op'.data = datum
      /\ op'.erased = (Chip.pages[page] = "erased")
  BY <1>2
<1>10. WritesNow(op', d)
  BY <1>6, <1>9 DEF WritesNow
<1>11. CallFits' /\ ChipWorks'
  BY <1>1, <1>8, <1>9, <1>10 DEF CallFits, ChipWorks
<1> QED BY <1>1, <1>6, <1>7, <1>11, CallKeeps, Others

LEMMA ChipEndsKeeps == ASSUME FlashInv, ChipEnds PROVE FlashInv'
<1>1. /\ ChipWorks /\ Chip.busy # NotBusy /\ UNCHANGED << kinds, base, version, linked, op, said >> /\ ~said
  BY DEF ChipEnds, ChipWorks, FlashInv
<1>2. op # NoOp /\ base # -1 /\ base \in 0..1 /\ IsChip(Chip)
  BY <1>1, InUse DEF FlashInv, ChipWorks, NoOp
<1> DEFINE b == Chip.busy
           new(p, fails) == IF fails THEN Garbage
                            ELSE IF b.what = "erase" THEN "erased"
                            ELSE IF Chip.pages[p] = "erased" THEN Chip.buf ELSE Garbage
           End(fails) == [Chip EXCEPT !.busy = NotBusy, !.status = IF fails THEN @ ELSE @ \cup {b.what},
                            !.pages = [p \in PageSet |-> IF p \in b.pages THEN new(p, fails) ELSE @[p]]]
<1>3. PICK fails \in BOOLEAN : Sets(End(fails))
  BY DEF ChipEnds
<1> DEFINE d == End(fails)
<1>4. /\ IsChip(d) /\ d.busy = NotBusy /\ d.status = (IF fails THEN Chip.status ELSE Chip.status \cup {b.what})
      /\ \A p \in b.pages : p \in PageSet => d.pages[p] = new(p, fails)
  <2> HIDE DEF b
  <2> QED BY <1>2 DEF IsChip
<1> HIDE DEF d
<1>5. Sets(d)
  BY <1>3 DEF d
<1>6. chips'[base] = d
  BY <1>2, <1>4, <1>5, ChipChanges
<1>7. CASE op.fn \in {"erasing", "through"}
  <2>1. /\ op.pages # {} /\ op.pages \subseteq PageSet
        /\ b.what = "erase" /\ b.pages = op.pages /\ Chip.status = {}
    BY <1>1, <1>2, <1>7 DEF FlashInv, CallFits, ErasesNow, Chip, NoOp
  <2>2. "erase" \in d.status <=> \A p \in op.pages : d.pages[p] = "erased"
    BY <1>4, <2>1 DEF Garbage
  <2>3. ErasesNow(op, d)
    BY <1>4, <2>1, <2>2 DEF ErasesNow
  <2>4. CallFits' /\ ChipWorks'
    BY <1>1, <1>6, <1>7, <2>3 DEF CallFits, ChipWorks
  <2> QED BY <1>1, <1>2, <1>4, <1>5, <2>4, CallKeeps, Others
<1>8. CASE op.fn = "writing"
  <2>1. WritesNow(op, Chip)
    BY <1>2, <1>8 DEF FlashInv, CallFits, Chip, NoOp
  <2>2. PICK page \in PageSet :
          /\ op.pages = {page} /\ op.data \in FData
          /\ b = [what |-> "write", pages |-> {page}] /\ Chip.status = {} /\ Chip.buf = op.data
          /\ op.erased => Chip.pages[page] = "erased"
    BY <1>1, <2>1 DEF WritesNow
  <2>3. op.erased => ("write" \in d.status <=> d.pages[page] = op.data)
    <3>1. Garbage \notin FData
      BY FlashAssumption
    <3>2. b.what = "write" /\ page \in b.pages
      BY <2>2
    <3> QED BY <1>4, <2>2, <3>1, <3>2
  <2>4. WritesNow(op, d)
    BY <1>4, <2>2, <2>3 DEF WritesNow
  <2>5. CallFits' /\ ChipWorks'
    BY <1>1, <1>6, <1>8, <2>4 DEF CallFits, ChipWorks
  <2> QED BY <1>1, <1>2, <1>4, <1>5, <2>5, CallKeeps, Others
<1> QED BY <1>1, <1>7, <1>8 DEF ChipWorks

\* A call that waited for the chip has read its status.
LEMMA CallReturns ==
  ASSUME FlashInv, ChipWorks, Chip.busy = NotBusy, Sets(ClearStatus(Chip)), op' = NoOp, ~said',
         UNCHANGED << kinds, base, version, linked >>
  PROVE  FlashInv'
<1>1. op # NoOp /\ base # -1 /\ base \in 0..1 /\ IsChip(Chip)
  BY InUse DEF FlashInv, ChipWorks, NoOp
<1> DEFINE d == ClearStatus(Chip)
<1>2. IsChip(d) /\ ChipAtRest(d)
  BY <1>1 DEF IsChip, ChipAtRest, ClearStatus
<1> HIDE DEF d
<1>3. Sets(d) /\ CallFits'
  BY DEF d, CallFits
<1> QED BY <1>1, <1>2, <1>3, CallKeeps, Others

LEMMA CheckEraseEndKeeps == ASSUME FlashInv, CheckEraseEnd PROVE FlashInv'
<1>1. /\ op.fn \in {"erasing", "through"} /\ ChipWorks /\ Chip.busy = NotBusy /\ op # NoOp
      /\ Sets(ClearStatus(Chip)) /\ op' = NoOp /\ UNCHANGED << kinds, base, version, linked >>
  BY DEF CheckEraseEnd, ChipWorks, NoOp
<1>2. ErasesNow(op, Chip)
  BY <1>1 DEF FlashInv, CallFits, Chip
<1>3. "erase" \in Chip.status <=> \A p \in op.pages : Chip.pages[p] = "erased"
  BY <1>1, <1>2 DEF ErasesNow, NotBusy
<1>4. ~said'
  <2> DEFINE good == Succeeds("erase")
             is == \A p \in op.pages : Chip.pages[p] = "erased"
  <2>1. said' = (said \/ ~(good <=> is))
    BY DEF CheckEraseEnd
  <2>2. good <=> is
    BY <1>3 DEF Succeeds
  <2> HIDE DEF good, is
  <2>3. ~said
    BY DEF FlashInv
  <2> QED BY <2>1, <2>2, <2>3
<1> QED BY <1>1, <1>4, CallReturns

LEMMA WriteCheckedKeeps == ASSUME FlashInv, WriteChecked PROVE FlashInv'
<1>1. /\ op.fn = "writing" /\ ChipWorks /\ Chip.busy = NotBusy /\ op # NoOp
      /\ Sets(ClearStatus(Chip)) /\ op' = NoOp /\ UNCHANGED << kinds, base, version, linked >>
  BY DEF WriteChecked, ChipWorks, NoOp
<1>2. WritesNow(op, Chip)
  BY <1>1 DEF FlashInv, CallFits, Chip
<1>3. PICK page \in PageSet :
        /\ op.pages = {page}
        /\ op.erased => ("write" \in Chip.status <=> Chip.pages[page] = op.data)
  BY <1>1, <1>2 DEF WritesNow, NotBusy
<1>4. ~said'
  <2> DEFINE good == Succeeds("write")
             is == \A p \in op.pages : Chip.pages[p] = op.data
  <2>1. said' = (said \/ (op.erased /\ ~(good <=> is)))
    BY DEF WriteChecked
  <2>2. op.erased => (good <=> is)
    <3>1. good <=> "write" \in Chip.status
      BY DEF Succeeds
    <3>2. op.pages = {page}
      BY <1>3
    <3>3. is <=> \A p \in {page} : Chip.pages[p] = op.data
      BY <3>2
    <3>4. is <=> Chip.pages[page] = op.data
      BY <3>3
    <3> HIDE DEF good, is
    <3> QED BY <1>3, <3>1, <3>4
  <2> HIDE DEF good, is
  <2>3. ~said
    BY DEF FlashInv
  <2> QED BY <2>1, <2>2, <2>3
<1> QED BY <1>1, <1>4, CallReturns

LEMMA ReadArrayKeeps == ASSUME FlashInv, ReadArray PROVE FlashInv'
<1>1. /\ op = NoOp /\ base # -1 /\ Sets(Commanded(Chip, "array"))
      /\ UNCHANGED << kinds, base, version, linked, said >> /\ ~said
  BY DEF ReadArray, FlashReady, FlashInv
<1>2. base \in 0..1 /\ IsChip(Chip) /\ ChipAtRest(Chip)
  BY <1>1, InUse DEF FlashInv, ChipWorks, NoOp
<1> DEFINE d == Commanded(Chip, "array")
<1>3. IsChip(d) /\ ChipAtRest(d)
  BY <1>2 DEF IsChip, ChipAtRest, Commanded
<1> HIDE DEF d
<1>4. Sets(d)
  BY <1>1 DEF d
<1> DEFINE split(p, n) == (p + n - 1) \div FBlock # p \div FBlock
           len(p, n) == IF split(p, n) THEN FBlock - (p % FBlock) ELSE IF n > FBlock THEN FBlock ELSE n
<1>5. PICK r \in FReads :
        op' = [fn |-> "reading", from |-> r[1], n |-> r[2], got |-> << >>, page |-> r[1], left |-> r[2],
               dma |-> len(r[1], r[2])]
  BY DEF ReadArray
<1>6. PICK p \in Nat, n \in Nat \ {0} : p = r[1] /\ n = r[2]
  BY FlashAssumption
<1>7. FBlock \in Nat \ {0} /\ p % FBlock \in 0..(FBlock - 1)
  BY FlashAssumption, BlockOf
<1>8. split(p, n) => (p % FBlock) + n > FBlock
  <2>1. PICK k \in Nat : k = n - 1
    OBVIOUS
  <2>2. (p % FBlock) + k < FBlock => (p + k) \div FBlock = p \div FBlock
    BY WithinBlock
  <2>3. p + n - 1 = p + k
    BY <2>1
  <2> QED BY <1>7, <2>1, <2>2, <2>3
<1>9. ~split(p, n) => (p % FBlock) + n <= FBlock
  <2>1. PICK k \in Nat : k = n - 1
    OBVIOUS
  <2>2. (p % FBlock) + k >= FBlock => (p + k) \div FBlock # p \div FBlock
    BY WithinBlock
  <2>3. p + n - 1 = p + k
    BY <2>1
  <2> QED BY <1>7, <2>1, <2>2, <2>3
<1>10. PICK m \in 0..(FBlock - 1) : m = p % FBlock
  BY <1>7
<1> DEFINE l == len(p, n)
<1>11. l \in 1..n /\ m + l <= FBlock /\ (l < n => m + l = FBlock)
  <2>1. CASE split(p, n)
    <3>1. l = FBlock - m /\ m + n > FBlock
      BY <1>8, <1>10, <2>1
    <3> HIDE DEF l
    <3> QED BY <1>7, <3>1
  <2>2. CASE ~split(p, n)
    <3>1. m + n <= FBlock
      BY <1>9, <1>10, <2>2
    <3>2. l = n
      BY <1>7, <2>2, <3>1
    <3> HIDE DEF l
    <3> QED BY <3>1, <3>2
  <2> QED BY <2>1, <2>2
<1>12. op' = [fn |-> "reading", from |-> p, n |-> n, got |-> << >>, page |-> p, left |-> n, dma |-> l]
  BY <1>5, <1>6
<1> HIDE DEF l
<1>13. ReadsNow(op')
  <2>1. /\ DOMAIN op' = {"fn", "from", "n", "got", "page", "left", "dma"}
        /\ op'.from = p /\ op'.n = n /\ op'.page = p /\ op'.left = n /\ op'.dma = l /\ op'.got = << >>
    BY <1>12
  <2>2. << >> = [i \in 1..(n - n) |-> p + i - 1]
    OBVIOUS
  <2>3. p = p + (n - n)
    OBVIOUS
  <2> QED BY <1>10, <1>11, <2>1, <2>2, <2>3 DEF ReadsNow
<1>14. CallFits'
  BY <1>12, <1>13 DEF CallFits
<1> QED BY <1>1, <1>3, <1>4, <1>14, CallKeeps, Others

\* The page the chip takes the library's address for is the page that was meant.
LEMMA AddressMeetsPage ==
  ASSUME FlashInv, base # -1, NEW page \in Nat
  PROVE  PageAt(FlashGetAddr(page), kinds[base + 1]) = page
<1>1. kinds[base + 1] = version /\ version \in {"old", "new"}
  BY DEF FlashInv, HandleFits
<1>2. (page * 2) \div 2 = page
  OBVIOUS
<1> QED BY <1>1, <1>2 DEF PageAt, FlashGetAddr

LEMMA TransferKeeps == ASSUME FlashInv, Transfer0 PROVE FlashInv'
<1>1. /\ op.fn = "reading" /\ op # NoOp /\ base # -1 /\ ~said
      /\ UNCHANGED << chips, kinds, base, version, linked >>
  BY DEF Transfer0, NoOp, FlashInv
<1>2. ReadsNow(op)
  BY <1>1 DEF FlashInv, CallFits
<1>3. PICK from \in Nat, n \in Nat, page \in Nat, togo \in Nat, d \in Nat :
        /\ togo \in 1..n /\ d \in 1..togo
        /\ op.from = from /\ op.n = n /\ op.page = page /\ op.left = togo /\ op.dma = d
  <2>1. op.left \in Nat /\ op.dma \in Nat
    BY <1>2 DEF ReadsNow
  <2> QED BY <1>2, <2>1 DEF ReadsNow
<1>0. PICK m \in 0..(FBlock - 1) : m = page % FBlock
  BY BlockOf
<1>4. /\ page = from + (n - togo) /\ op.got = [i \in 1..(n - togo) |-> from + i - 1]
      /\ m + d <= FBlock /\ (d < togo => m + d = FBlock)
  BY <1>2, <1>3, <1>0 DEF ReadsNow
<1>5. FBlock \in Nat \ {0}
  BY FlashAssumption
<1>6. Fetched = [i \in 1..d |-> page + i - 1]
  BY <1>1, <1>3, AddressMeetsPage DEF Fetched
<1> DEFINE got == op.got \o Fetched
<1>7. got = [i \in 1..(n - (togo - d)) |-> from + i - 1]
  <2>1. PICK k \in Nat : k = n - togo
    BY <1>3
  <2>2. op.got = [i \in 1..k |-> from + i - 1] /\ page = from + k
    BY <1>4, <2>1
  <2>3. op.got \in Seq(Int) /\ Len(op.got) = k /\ \A i \in 1..k : op.got[i] = from + i - 1
    BY <2>2
  <2>4. Fetched \in Seq(Int) /\ Len(Fetched) = d /\ \A i \in 1..d : Fetched[i] = page + i - 1
    BY <1>6
  <2>5. got \in Seq(Int) /\ Len(got) = k + d
    BY <2>3, <2>4, ConcatProperties
  <2>6. \A i \in 1..(k + d) : got[i] = IF i <= k THEN op.got[i] ELSE Fetched[i - k]
    <3>1. \A i \in 1..(Len(op.got) + Len(Fetched)) :
            got[i] = IF i <= Len(op.got) THEN op.got[i] ELSE Fetched[i - Len(op.got)]
      BY <2>3, <2>4, ConcatProperties
    <3> HIDE DEF got
    <3> QED BY <2>3, <2>4, <3>1
  <2> HIDE DEF got
  <2>7. \A i \in 1..(k + d) : got[i] = from + i - 1
    <3> SUFFICES ASSUME NEW i \in 1..(k + d) PROVE got[i] = from + i - 1
      OBVIOUS
    <3>1. CASE i <= k
      BY <2>3, <2>6, <3>1
    <3>2. CASE i > k
      <4>1. i - k \in 1..d /\ got[i] = Fetched[i - k]
        BY <2>6, <3>2
      <4>2. Fetched[i - k] = page + (i - k) - 1
        BY <2>4, <4>1
      <4> QED BY <2>2, <4>1, <4>2
    <3> QED BY <3>1, <3>2
  <2>8. got = [i \in 1..(k + d) |-> from + i - 1]
    BY <2>5, <2>7
  <2>9. n - (togo - d) = k + d
    BY <2>1
  <2> QED BY <2>8, <2>9
<1>8. Fetched[1] \div FBlock = Fetched[d] \div FBlock
  <2>1. PICK j \in Nat : j = d - 1
    BY <1>3
  <2>2. (page % FBlock) + j < FBlock => (page + j) \div FBlock = page \div FBlock
    BY WithinBlock
  <2>3. (page + j) \div FBlock = page \div FBlock
    BY <1>0, <1>3, <1>4, <1>5, <2>1, <2>2
  <2>4. Fetched[1] = page /\ Fetched[d] = page + j
    BY <1>6, <2>1
  <2> QED BY <2>3, <2>4
<1> DEFINE rest == op.left - op.dma
           ends == Fetched[1] \div FBlock # Fetched[op.dma] \div FBlock
<1>9. rest = togo - d /\ ~ends
  BY <1>3, <1>8
<1>10. ~said'
  <2>1. said' = (said \/ ends \/ (rest = 0 /\ got # [i \in 1..op.n |-> op.from + i - 1]))
    BY DEF Transfer0
  <2>2. rest = 0 => got = [i \in 1..op.n |-> op.from + i - 1]
    <3>1. rest = 0 => n - (togo - d) = n
      BY <1>9
    <3> HIDE DEF got, rest
    <3> QED BY <1>3, <1>7, <3>1
  <2> HIDE DEF got, rest, ends
  <2> QED BY <1>1, <1>9, <2>1, <2>2
<1>11. op' = IF rest = 0 THEN NoOp
             ELSE [op EXCEPT !.got = got, !.left = rest, !.page = (@ - (@ % FBlock)) + FBlock,
                             !.dma = IF rest > FBlock THEN FBlock ELSE rest]
  BY DEF Transfer0
<1> HIDE DEF got, ends
<1>12. CASE rest = 0
  <2>1. op' = NoOp
    BY <1>11, <1>12
  <2>2. CallFits' /\ HandleFits'
    BY <1>1, <2>1, HandleStays DEF CallFits, FlashInv
  <2>3. \A c \in 0..1 : IsChip(chips'[c]) /\ ChipAtRest(chips'[c])
    BY <1>1 DEF FlashInv, ChipWorks
  <2> QED BY <1>1, <1>10, <2>1, <2>2, <2>3 DEF FlashInv
<1>13. CASE rest # 0
  <2>1. PICK r \in Nat : r = rest /\ r \in 1..n /\ r = togo - d
    <3>1. togo - d \in Nat /\ togo - d <= n
      BY <1>3
    <3> HIDE DEF rest
    <3> QED BY <1>3, <1>9, <1>13, <3>1
  <2> DEFINE len == IF r > FBlock THEN FBlock ELSE r
  <2>2. op' = [op EXCEPT !.got = got, !.left = r, !.page = (op.page - (op.page % FBlock)) + FBlock, !.dma = len]
    BY <1>11, <1>13, <2>1
  <2>3. len \in 1..r /\ len <= FBlock /\ (len < r => len = FBlock)
    BY <1>5, <2>1
  <2> HIDE DEF len
  <2>4. m + d = FBlock /\ (op.page - (op.page % FBlock)) + FBlock = page + d
    <3>1. m + d = FBlock
      BY <1>3, <1>4, <2>1
    <3>2. (op.page - (op.page % FBlock)) + FBlock = (page - m) + FBlock
      BY <1>0, <1>3
    <3> QED BY <1>0, <1>3, <1>5, <3>1, <3>2
  <2>5. (page + d) % FBlock = 0
    BY <1>0, <1>3, <2>4, WithinBlock
  <2>6. /\ DOMAIN op' = {"fn", "from", "n", "got", "page", "left", "dma"}
        /\ op'.fn = "reading" /\ op'.from = from /\ op'.n = n /\ op'.got = got
        /\ op'.left = r /\ op'.page = page + d /\ op'.dma = len
    BY <1>1, <1>2, <1>3, <2>2, <2>4 DEF ReadsNow
  <2>7. r = togo - d /\ page + d = from + (n - r) /\ n - (togo - d) = n - r
    BY <1>4, <1>9, <2>1
  <2>8. ReadsNow(op')
    <3>1. got = [i \in 1..(n - r) |-> from + i - 1]
      BY <1>7, <2>7
    <3>2. PICK y \in Nat : y = page + d
      OBVIOUS
    <3>3. (y % FBlock) + len <= FBlock /\ (len < r => (y % FBlock) + len = FBlock)
      BY <1>5, <2>3, <2>5, <3>2
    <3>4. op'.page = y /\ y = from + (n - r)
      BY <2>6, <2>7, <3>2
    <3> QED BY <1>3, <2>1, <2>3, <2>6, <3>1, <3>3, <3>4 DEF ReadsNow
  <2>9. CallFits' /\ HandleFits'
    BY <1>1, <2>6, <2>8, HandleStays DEF CallFits, FlashInv
  <2>10. \A c \in 0..1 : IsChip(chips'[c]) /\ ChipAtRest(chips'[c])
    BY <1>1 DEF FlashInv, ChipWorks
  <2> QED BY <1>1, <1>10, <2>9, <2>10 DEF FlashInv
<1> QED BY <1>12, <1>13

------------------------------------------------------------------------------
LEMMA FlashStart == FlashInit => FlashInv
<1> SUFFICES ASSUME FlashInit PROVE FlashInv
  OBVIOUS
<1>1. \A c \in 0..1 : IsChip(chips[c]) /\ ChipAtRest(chips[c])
  BY DEF FlashInit, IsChip, ChipAtRest
<1> QED BY <1>1 DEF FlashInit, FlashInv, HandleFits, CallFits

LEMMA FlashStep ==
  ASSUME ~Mixed0, ~ChangesBack PROVE FlashInv /\ [FlashNext]_flashVars => FlashInv'
<1> SUFFICES ASSUME FlashInv, [FlashNext]_flashVars PROVE FlashInv'
  OBVIOUS
<1>1. CASE UNCHANGED flashVars
  BY <1>1, Unmoved DEF flashVars
<1> QED BY <1>1, InitsKeep, ChangeKeeps, EraseKeeps, WriteArrayKeeps, ChipEndsKeeps, CheckEraseEndKeeps,
           WriteCheckedKeeps, ReadArrayKeeps, TransferKeeps DEF FlashNext

(* A call says that it erased or wrote exactly when it did, what is read is what was
   asked for, in transfers that end with their blocks, and the handle is linked once
   (osFlashSectorErase, osFlashWriteArray, osFlashReadArray, osFlashInit), for chips, blocks and
   sectors of any size and any calls; a chip in use is not exchanged for one of another
   kind (osFlashChange), and the first one is not initialised again behind it. *)
THEOREM FlashIsAsItSays ==
  ASSUME ~Mixed0, ~ChangesBack
  PROVE  FlashSpec => []FlashSaysSo
<1>1. FlashInv => FlashSaysSo
  BY DEF FlashInv, HandleFits, FlashSaysSo
<1> QED BY <1>1, FlashStart, FlashStep, PTL DEF FlashSpec

------------------------------------------------------------------------------
(***************************************************************************)
(* Masks and contexts                                                      *)
(***************************************************************************)
ContextFields == {"cpu", "rcp", "ie", "fp", "kept", "scratch"}
RegisterFields == {"cpu", "rcp", "ie", "usable", "kept", "scratch"}
IsContext(c) ==
  /\ DOMAIN c = ContextFields /\ c.ie \in BOOLEAN /\ c.fp \in BOOLEAN
  /\ c.cpu \subseteq CpuSources /\ c.rcp \subseteq RcpSources
IsRegisters(r) == DOMAIN r = RegisterFields /\ r.ie \in BOOLEAN /\ r.usable \in BOOLEAN

\* What a thread has of a call: nothing or what the last one returned; osSetIntMask under way;
\* or interrupts disabled or about to be.
Asking(c) ==
  /\ DOMAIN c = {"pc", "cpu", "glob", "wants", "returns"} /\ c.pc \in {"rcp", "cpu"}
  /\ c.wants \subseteq Everything
Disabling(c) ==
  /\ DOMAIN c = {"pc", "cpu", "glob", "why", "ie"} /\ c.pc \in {"disabling", "off", "back"}
  /\ c.cpu \subseteq CpuSources /\ c.ie \in BOOLEAN
Resting(c) == c = Idle \/ (DOMAIN c = {"pc", "returned", "before"} /\ c.pc = "idle")

\* Of a call c of a thread that asked for the mask a last, where the sources k stayed in the
\* global mask: what it has read is what was asked for.
CallAsAsked(c, a, k) ==
  /\ Resting(c) \/ Asking(c) \/ Disabling(c)
  /\ Asking(c) => k \subseteq c.glob /\ c.returns \cap k = a \cap k
  /\ Disabling(c) => c.ie
  /\ c.pc = "disabling" => c.cpu \cap k = a \cap CpuSources \cap k
  /\ "returned" \in DOMAIN c => c.returned \cap k = c.before \cap k

\* The masks cpu and rcp are the ones of a thread; osSetIntMask writes one before the other.
MasksAre(c, a, k, cpu, rcp) ==
  /\ cpu \subseteq CpuSources /\ rcp \subseteq RcpSources
  /\ cpu \cap k = a \cap CpuSources \cap k
  /\ rcp \cap k = (IF c.pc = "cpu" THEN c.wants ELSE a) \cap RcpSources \cap k
FloatsAre(t, f, kept, scratch) ==
  kept = << t, f.n >> /\ (f.yielded \/ scratch = << t, f.n >>)

\* The context x of a thread that waits, and the registers r of the one that runs
InContext(t, c, a, k, f, x) ==
  /\ IsContext(x) /\ MasksAre(c, a, k, x.cpu, x.rcp)
  /\ c.pc # "off" /\ (c.pc # "back" => x.ie)
  /\ FloatsAre(t, f, x.kept, x.scratch)
InRegisters(t, c, a, k, f, r) ==
  /\ IsRegisters(r) /\ MasksAre(c, a, k, r.cpu, r.rcp)
  /\ c.pc \notin {"off", "back"} => r.ie
  /\ c.pc = "off" => ~r.ie
  /\ r.usable => FloatsAre(t, f, r.kept, r.scratch)

CtxTypes ==
  /\ runs \in CThreads /\ glob \subseteq Everything /\ Known \subseteq glob
  /\ asked \in [CThreads -> SUBSET Everything]
  /\ inCall = [t \in CThreads |-> inCall[t]] /\ ctx = [t \in CThreads |-> ctx[t]]
  /\ floats = [t \in CThreads |-> floats[t]]
  /\ \A t \in CThreads : IsContext(ctx[t]) /\ DOMAIN floats[t] = {"n", "yielded"}
CallsAsAsked ==
  /\ \A t \in CThreads : CallAsAsked(inCall[t], asked[t], Known)
  /\ \A t \in CThreads : inCall[t].pc = "disabling" => inCall[t].glob = Cpu(glob)
Waiting == \A t \in CThreads \ {runs} : InContext(t, inCall[t], asked[t], Known, floats[t], ctx[t])
Running ==
  /\ InRegisters(runs, inCall[runs], asked[runs], Known, floats[runs], regs)
  /\ regs.usable <=> ctx[runs].fp
  /\ ~regs.usable => FloatsAre(runs, floats[runs], ctx[runs].kept, ctx[runs].scratch)

CtxInv == CtxTypes /\ CallsAsAsked /\ Waiting /\ Running

------------------------------------------------------------------------------
(* Sources that leave the global mask *)

LEMMA FewerMasks ==
  ASSUME NEW k, NEW few, few \subseteq k, NEW c, NEW a, NEW cpu, NEW rcp, MasksAre(c, a, k, cpu, rcp)
  PROVE  MasksAre(c, a, few, cpu, rcp)
BY DEF MasksAre

LEMMA FewerOfCall ==
  ASSUME NEW k, NEW few, few \subseteq k, NEW c, NEW a, CallAsAsked(c, a, k)
  PROVE  CallAsAsked(c, a, few)
<1>1. Asking(c) => few \subseteq c.glob /\ c.returns \cap few = a \cap few
  BY DEF CallAsAsked
<1>2. c.pc = "disabling" => c.cpu \cap few = a \cap CpuSources \cap few
  BY DEF CallAsAsked
<1>3. "returned" \in DOMAIN c => c.returned \cap few = c.before \cap few
  BY DEF CallAsAsked
<1> QED BY <1>1, <1>2, <1>3 DEF CallAsAsked

LEMMA FewerInContext ==
  ASSUME NEW k, NEW few, few \subseteq k, NEW t, NEW c, NEW a, NEW f, NEW x, InContext(t, c, a, k, f, x)
  PROVE  InContext(t, c, a, few, f, x)
BY FewerMasks DEF InContext

LEMMA FewerInRegisters ==
  ASSUME NEW k, NEW few, few \subseteq k, NEW t, NEW c, NEW a, NEW f, NEW r, InRegisters(t, c, a, k, f, r)
  PROVE  InRegisters(t, c, a, few, f, r)
BY FewerMasks DEF InRegisters

------------------------------------------------------------------------------
(* Saving and dispatching *)

LEMMA MaskIsWritten ==
  ASSUME NEW m, m \subseteq RcpSources, NEW old
  PROVE  WriteMi(ImTable(m), old) = m
<1>1. PICK word : word = ImTable(m)
  OBVIOUS
<1>2. \A s \in RcpSources : word[s] = IF s \in m THEN "set" ELSE "clr"
  BY <1>1 DEF ImTable
<1>3. \A s \in RcpSources : (word[s] = "set" \/ (s \in old /\ word[s] # "clr")) <=> s \in m
  BY <1>2
<1> QED BY <1>1, <1>3 DEF WriteMi

LEMMA MasksAreSaved ==
  ASSUME NEW c, NEW a, NEW k, k \subseteq glob, NEW x, IsContext(x),
         MasksAre(c, a, k, regs.cpu, regs.rcp)
  PROVE  MasksAre(c, a, k, SavedCpu(glob), SavedRcp(x, glob))
<1>1. SavedCpu(glob) \subseteq CpuSources /\ SavedCpu(glob) \cap k = regs.cpu \cap k
  BY DEF MasksAre, SavedCpu
<1>2. SavedRcp(x, glob) \subseteq RcpSources /\ SavedRcp(x, glob) \cap k = regs.rcp \cap k
  BY DEF MasksAre, SavedRcp, IsContext
<1> QED BY <1>1, <1>2 DEF MasksAre

LEMMA SaveMasksIs ==
  ASSUME NEW x, IsContext(x), NEW y, y = SaveMasks(x)
  PROVE  /\ DOMAIN y = ContextFields /\ y.cpu = SavedCpu(glob) /\ y.rcp = SavedRcp(x, glob)
         /\ y.ie = regs.ie /\ y.fp = x.fp /\ y.kept = x.kept /\ y.scratch = x.scratch
BY DEF SaveMasks, IsContext, ContextFields

LEMMA SaveAllIs ==
  ASSUME NEW x, IsContext(x), NEW y, y = SaveAll(x)
  PROVE  /\ DOMAIN y = ContextFields /\ y.cpu = SavedCpu(glob) /\ y.rcp = SavedRcp(x, glob)
         /\ y.ie = regs.ie /\ y.fp = x.fp
         /\ x.fp => y.kept = regs.kept /\ y.scratch = regs.scratch
         /\ ~x.fp => y.kept = x.kept /\ y.scratch = x.scratch
<1>1. PICK z : z = SaveMasks(x)
  OBVIOUS
<1>2. /\ DOMAIN z = ContextFields /\ z.cpu = SavedCpu(glob) /\ z.rcp = SavedRcp(x, glob)
      /\ z.ie = regs.ie /\ z.fp = x.fp /\ z.kept = x.kept /\ z.scratch = x.scratch
  BY <1>1, SaveMasksIs
<1>3. CASE x.fp
  <2>1. y = [z EXCEPT !.kept = regs.kept, !.scratch = regs.scratch]
    BY <1>1, <1>3 DEF SaveAll
  <2> QED BY <1>2, <1>3, <2>1 DEF ContextFields
<1>4. CASE ~x.fp
  BY <1>1, <1>2, <1>4 DEF SaveAll
<1> QED BY <1>3, <1>4

LEMMA SaveKeptIs ==
  ASSUME NEW x, IsContext(x), NEW y, y = SaveKept(x)
  PROVE  /\ DOMAIN y = ContextFields /\ y.cpu = SavedCpu(glob) /\ y.rcp = SavedRcp(x, glob)
         /\ y.ie = regs.ie /\ y.fp = x.fp
         /\ y.kept = IF x.fp THEN regs.kept ELSE x.kept
<1>1. PICK z : z = SaveMasks(x)
  OBVIOUS
<1>2. /\ DOMAIN z = ContextFields /\ z.cpu = SavedCpu(glob) /\ z.rcp = SavedRcp(x, glob)
      /\ z.ie = regs.ie /\ z.fp = x.fp /\ z.kept = x.kept
  BY <1>1, SaveMasksIs
<1>3. CASE x.fp
  <2>1. y = [z EXCEPT !.kept = regs.kept]
    BY <1>1, <1>3 DEF SaveKept
  <2> QED BY <1>2, <1>3, <2>1 DEF ContextFields
<1>4. CASE ~x.fp
  BY <1>1, <1>2, <1>4 DEF SaveKept
<1> QED BY <1>3, <1>4

LEMMA DispatchIs ==
  ASSUME NEW x, IsContext(x), NEW g, IsRegisters(regs), NEW d, d = Dispatch(x, g)
  PROVE  /\ DOMAIN d = RegisterFields /\ d.cpu = x.cpu \cap g /\ d.rcp = x.rcp \cap g
         /\ d.ie = x.ie /\ d.usable = x.fp
         /\ x.fp => d.kept = x.kept /\ d.scratch = x.scratch
<1>1. WriteMi(ImTable(x.rcp \cap g), regs.rcp) = x.rcp \cap g
  BY MaskIsWritten DEF IsContext
<1>2. d = [regs EXCEPT !.cpu = x.cpu \cap g, !.rcp = x.rcp \cap g, !.ie = x.ie, !.usable = x.fp,
             !.kept = IF x.fp THEN x.kept ELSE @, !.scratch = IF x.fp THEN x.scratch ELSE @]
  BY <1>1 DEF Dispatch
<1> QED BY <1>2 DEF IsRegisters, RegisterFields

LEMMA DispatchedRuns ==
  ASSUME NEW t, NEW c, NEW a, NEW k, NEW f, NEW x, InContext(t, c, a, k, f, x),
         NEW g, k \subseteq g, IsRegisters(regs)
  PROVE  InRegisters(t, c, a, k, f, Dispatch(x, g))
<1>1. PICK d : d = Dispatch(x, g)
  OBVIOUS
<1>2. IsContext(x)
  BY DEF InContext
<1>3. /\ DOMAIN d = RegisterFields /\ d.cpu = x.cpu \cap g /\ d.rcp = x.rcp \cap g
      /\ d.ie = x.ie /\ d.usable = x.fp
      /\ x.fp => d.kept = x.kept /\ d.scratch = x.scratch
  BY <1>1, <1>2, DispatchIs
<1>4. IsRegisters(d)
  BY <1>2, <1>3 DEF IsRegisters, IsContext
<1>5. MasksAre(c, a, k, d.cpu, d.rcp)
  <2>1. d.cpu \subseteq CpuSources /\ d.rcp \subseteq RcpSources
    BY <1>2, <1>3 DEF IsContext
  <2>2. d.cpu \cap k = x.cpu \cap k /\ d.rcp \cap k = x.rcp \cap k
    BY <1>3
  <2> QED BY <2>1, <2>2 DEF InContext, MasksAre
<1>6. d.usable => FloatsAre(t, f, d.kept, d.scratch)
  BY <1>3 DEF InContext
<1> QED BY <1>1, <1>3, <1>4, <1>5, <1>6 DEF InContext, InRegisters

LEMMA Resumed ==
  ASSUME CtxTypes, IsRegisters(regs), NEW t \in CThreads, NEW saved, NEW g, Resume(t, saved, g),
         Known' \subseteq g,
         InContext(runs, inCall'[runs], asked'[runs], Known', floats'[runs], saved),
         \A u \in CThreads \ {runs} :
           InContext(u, inCall'[u], asked'[u], Known', floats'[u], ctx[u])
  PROVE  /\ Waiting' /\ Running' /\ runs' \in CThreads
         /\ ctx' = [u \in CThreads |-> ctx'[u]] /\ \A u \in CThreads : IsContext(ctx'[u])
<1>1. PICK fresh : fresh = [ctx EXCEPT ![runs] = saved]
  OBVIOUS
<1>2. ctx' = fresh /\ runs' = t /\ regs' = Dispatch(IF t = runs THEN saved ELSE ctx[t], g)
  BY <1>1 DEF Resume
<1>3. /\ fresh = [u \in CThreads |-> fresh[u]] /\ fresh[runs] = saved
      /\ \A u \in CThreads \ {runs} : fresh[u] = ctx[u]
  BY <1>1 DEF CtxTypes
<1>4. \A u \in CThreads : InContext(u, inCall'[u], asked'[u], Known', floats'[u], fresh[u])
  BY <1>3
<1>5. regs' = Dispatch(fresh[t], g)
  BY <1>2, <1>3
<1>6. PICK x : x = fresh[t]
  OBVIOUS
<1>7. InContext(t, inCall'[t], asked'[t], Known', floats'[t], x) /\ IsContext(x)
  BY <1>4, <1>6 DEF InContext
<1>8. InRegisters(t, inCall'[t], asked'[t], Known', floats'[t], regs')
  BY <1>5, <1>6, <1>7, DispatchedRuns
<1>9. regs'.usable = x.fp
  BY <1>5, <1>6, <1>7, DispatchIs
<1>10. FloatsAre(t, floats'[t], x.kept, x.scratch)
  BY <1>7 DEF InContext
<1>11. Running'
  <2>1. ctx'[runs'] = x
    BY <1>2, <1>6
  <2> QED BY <1>2, <1>8, <1>9, <1>10, <2>1 DEF Running, InRegisters, FloatsAre
<1>12. Waiting'
  BY <1>2, <1>4 DEF Waiting
<1> QED BY <1>2, <1>3, <1>4, <1>11, <1>12 DEF InContext

------------------------------------------------------------------------------
(* Steps that switch threads *)

LEMMA CtxDefs ==
  ASSUME CtxInv
  PROVE  CtxTypes /\ CallsAsAsked /\ Waiting /\ Running /\ IsRegisters(regs) /\ IsContext(ctx[runs])
BY DEF CtxInv, Running, InRegisters, CtxTypes

LEMMA ExceptionKeeps ==
  ASSUME CtxInv, NEW t \in CThreads, NEW g, ExceptionTo(t, g), g \subseteq Everything,
         g = glob \/ \A u \in CThreads : inCall[u].pc # "disabling"
  PROVE  CtxInv'
<1>1. /\ absent' = absent \cup (Everything \ g) /\ glob' = g /\ inCall' = inCall /\ asked' = asked
      /\ floats' = floats /\ regs.ie /\ Resume(t, SaveAll(ctx[runs]), g)
  BY DEF ExceptionTo
<1>2. Known' \subseteq Known /\ Known' \subseteq g
  BY <1>1 DEF Known
<1>3. PICK saved : saved = SaveAll(ctx[runs])
  OBVIOUS
<1>4. PICK x : x = ctx[runs] /\ IsContext(x)
  BY CtxDefs
<1>5. /\ DOMAIN saved = ContextFields /\ saved.cpu = SavedCpu(glob) /\ saved.rcp = SavedRcp(x, glob)
      /\ saved.ie = regs.ie /\ saved.fp = x.fp
      /\ x.fp => saved.kept = regs.kept /\ saved.scratch = regs.scratch
      /\ ~x.fp => saved.kept = x.kept /\ saved.scratch = x.scratch
  BY <1>3, <1>4, SaveAllIs
<1>6. InRegisters(runs, inCall[runs], asked[runs], Known, floats[runs], regs)
  BY CtxDefs DEF Running
<1>7. MasksAre(inCall[runs], asked[runs], Known, saved.cpu, saved.rcp)
  BY <1>4, <1>5, <1>6, CtxDefs, MasksAreSaved DEF InRegisters, CtxTypes
<1>8. IsContext(saved)
  BY <1>4, <1>5, <1>7, CtxDefs DEF IsContext, IsRegisters, MasksAre
<1>9. FloatsAre(runs, floats[runs], saved.kept, saved.scratch)
  BY <1>4, <1>5, <1>6, CtxDefs DEF Running, InRegisters
<1>10. InContext(runs, inCall[runs], asked[runs], Known, floats[runs], saved)
  BY <1>1, <1>5, <1>6, <1>7, <1>8, <1>9 DEF InContext, InRegisters
<1>11. InContext(runs, inCall'[runs], asked'[runs], Known', floats'[runs], saved)
  BY <1>1, <1>2, <1>10, FewerInContext
<1>12. \A u \in CThreads \ {runs} : InContext(u, inCall'[u], asked'[u], Known', floats'[u], ctx[u])
  BY <1>1, <1>2, CtxDefs, FewerInContext DEF Waiting
<1>13. /\ Waiting' /\ Running' /\ runs' \in CThreads
       /\ ctx' = [u \in CThreads |-> ctx'[u]] /\ \A u \in CThreads : IsContext(ctx'[u])
  BY <1>1, <1>2, <1>3, <1>11, <1>12, CtxDefs, Resumed
<1>14. CtxTypes'
  BY <1>1, <1>2, <1>13, CtxDefs DEF CtxTypes
<1>15. CallsAsAsked'
  BY <1>1, <1>2, CtxDefs, FewerOfCall DEF CallsAsAsked
<1> QED BY <1>13, <1>14, <1>15 DEF CtxInv

LEMMA YieldKeeps ==
  ASSUME CtxInv, EnqueueAndYield
  PROVE  CtxInv'
<1>1. PICK c : c = [inCall[runs] EXCEPT !.pc = "back"]
  OBVIOUS
<1>2. PICK f : f = [floats[runs] EXCEPT !.yielded = TRUE]
  OBVIOUS
<1>3. /\ inCall[runs].pc = "off" /\ inCall' = [inCall EXCEPT ![runs] = c]
      /\ floats' = [floats EXCEPT ![runs] = f] /\ glob' = glob /\ asked' = asked /\ absent' = absent
  BY <1>1, <1>2, CtxDefs DEF EnqueueAndYield, CtxTypes
<1>4. PICK t \in CThreads : Resume(t, SaveKept(ctx[runs]), glob)
  BY DEF EnqueueAndYield
<1>5. Known' = Known
  BY <1>3 DEF Known
<1>6. runs \in CThreads /\ CallAsAsked(inCall[runs], asked[runs], Known)
  BY CtxDefs DEF CtxTypes, CallsAsAsked
<1>7. Disabling(inCall[runs])
  BY <1>3, <1>6 DEF CallAsAsked, Asking, Resting, Idle
<1>8. Disabling(c) /\ c.pc = "back" /\ c.ie
  BY <1>1, <1>3, <1>6, <1>7 DEF Disabling, CallAsAsked
<1>9. CallAsAsked(c, asked[runs], Known)
  BY <1>8 DEF CallAsAsked, Disabling, Asking
<1>10. DOMAIN f = {"n", "yielded"} /\ f.yielded /\ f.n = floats[runs].n
  BY <1>2, <1>6, CtxDefs DEF CtxTypes
<1>11. /\ inCall'[runs] = c /\ floats'[runs] = f
       /\ inCall' = [u \in CThreads |-> inCall'[u]] /\ floats' = [u \in CThreads |-> floats'[u]]
       /\ \A u \in CThreads \ {runs} : inCall'[u] = inCall[u] /\ floats'[u] = floats[u]
  BY <1>3, <1>6, CtxDefs DEF CtxTypes
<1>12. PICK saved : saved = SaveKept(ctx[runs])
  OBVIOUS
<1>13. PICK x : x = ctx[runs] /\ IsContext(x)
  BY CtxDefs
<1>14. /\ DOMAIN saved = ContextFields /\ saved.cpu = SavedCpu(glob) /\ saved.rcp = SavedRcp(x, glob)
       /\ saved.ie = regs.ie /\ saved.fp = x.fp
       /\ saved.kept = IF x.fp THEN regs.kept ELSE x.kept
  BY <1>12, <1>13, SaveKeptIs
<1>15. InRegisters(runs, inCall[runs], asked[runs], Known, floats[runs], regs)
  BY CtxDefs DEF Running
<1>16. MasksAre(inCall[runs], asked[runs], Known, saved.cpu, saved.rcp)
  BY <1>13, <1>14, <1>15, CtxDefs, MasksAreSaved DEF InRegisters, CtxTypes
<1>17. MasksAre(c, asked[runs], Known, saved.cpu, saved.rcp)
  BY <1>3, <1>8, <1>16 DEF MasksAre
<1>18. IsContext(saved)
  BY <1>13, <1>14, <1>16, CtxDefs DEF IsContext, IsRegisters, MasksAre
<1>19. FloatsAre(runs, f, saved.kept, saved.scratch)
  <2>1. saved.kept = << runs, floats[runs].n >>
    <3>1. CASE x.fp
      BY <1>13, <1>14, <1>15, <3>1, CtxDefs DEF Running, InRegisters, FloatsAre
    <3>2. CASE ~x.fp
      BY <1>13, <1>14, <1>15, <3>2, CtxDefs DEF Running, InRegisters, FloatsAre
    <3> QED BY <3>1, <3>2
  <2> QED BY <1>10, <2>1 DEF FloatsAre
<1>20. InContext(runs, inCall'[runs], asked'[runs], Known', floats'[runs], saved)
  BY <1>3, <1>5, <1>8, <1>11, <1>17, <1>18, <1>19 DEF InContext
<1>21. \A u \in CThreads \ {runs} : InContext(u, inCall'[u], asked'[u], Known', floats'[u], ctx[u])
  BY <1>3, <1>5, <1>11, CtxDefs DEF Waiting
<1>22. Known \subseteq glob
  BY CtxDefs DEF CtxTypes
<1>23. /\ Waiting' /\ Running' /\ runs' \in CThreads
       /\ ctx' = [u \in CThreads |-> ctx'[u]] /\ \A u \in CThreads : IsContext(ctx'[u])
  BY <1>4, <1>5, <1>12, <1>20, <1>21, <1>22, CtxDefs, Resumed
<1>24. CtxTypes'
  BY <1>3, <1>5, <1>10, <1>11, <1>23, CtxDefs DEF CtxTypes
<1>25. CallsAsAsked'
  BY <1>3, <1>5, <1>8, <1>9, <1>11, CtxDefs DEF CallsAsAsked
<1> QED BY <1>23, <1>24, <1>25 DEF CtxInv

LEMMA FpuKeeps ==
  ASSUME CtxInv, UnusableFpu
  PROVE  CtxInv'
<1>1. /\ ~regs.usable /\ inCall[runs].pc = "idle" /\ glob' = glob /\ inCall' = inCall /\ asked' = asked
      /\ floats' = floats /\ absent' = absent
      /\ Resume(runs, [SaveMasks(ctx[runs]) EXCEPT !.fp = TRUE], glob)
  BY DEF UnusableFpu
<1>2. Known' = Known
  BY <1>1 DEF Known
<1>3. PICK y : y = SaveMasks(ctx[runs])
  OBVIOUS
<1>4. PICK saved : saved = [y EXCEPT !.fp = TRUE]
  OBVIOUS
<1>5. PICK x : x = ctx[runs] /\ IsContext(x)
  BY CtxDefs
<1>6. /\ DOMAIN y = ContextFields /\ y.cpu = SavedCpu(glob) /\ y.rcp = SavedRcp(x, glob)
      /\ y.ie = regs.ie /\ y.fp = x.fp /\ y.kept = x.kept /\ y.scratch = x.scratch
  BY <1>3, <1>5, SaveMasksIs
<1>7. /\ DOMAIN saved = ContextFields /\ saved.cpu = SavedCpu(glob) /\ saved.rcp = SavedRcp(x, glob)
      /\ saved.ie = regs.ie /\ saved.fp = TRUE /\ saved.kept = x.kept /\ saved.scratch = x.scratch
  BY <1>4, <1>6 DEF ContextFields
<1>8. InRegisters(runs, inCall[runs], asked[runs], Known, floats[runs], regs)
  BY CtxDefs DEF Running
<1>9. MasksAre(inCall[runs], asked[runs], Known, saved.cpu, saved.rcp)
  BY <1>5, <1>7, <1>8, CtxDefs, MasksAreSaved DEF InRegisters, CtxTypes
<1>10. IsContext(saved)
  BY <1>5, <1>7, <1>9, CtxDefs DEF IsContext, IsRegisters, MasksAre
<1>11. FloatsAre(runs, floats[runs], saved.kept, saved.scratch)
  BY <1>1, <1>5, <1>7, CtxDefs DEF Running
<1>12. InContext(runs, inCall[runs], asked[runs], Known, floats[runs], saved)
  BY <1>1, <1>7, <1>8, <1>9, <1>10, <1>11 DEF InContext, InRegisters
<1>13. \A u \in CThreads \ {runs} : InContext(u, inCall[u], asked[u], Known, floats[u], ctx[u])
  BY CtxDefs DEF Waiting
<1>14. runs \in CThreads /\ Known \subseteq glob
  BY CtxDefs DEF CtxTypes
<1>15. /\ Waiting' /\ Running' /\ runs' \in CThreads
       /\ ctx' = [u \in CThreads |-> ctx'[u]] /\ \A u \in CThreads : IsContext(ctx'[u])
  BY <1>1, <1>2, <1>3, <1>4, <1>12, <1>13, <1>14, CtxDefs, Resumed
<1>16. CtxTypes'
  BY <1>1, <1>2, <1>15, CtxDefs DEF CtxTypes
<1>17. CallsAsAsked'
  BY <1>1, <1>2, CtxDefs DEF CallsAsAsked
<1> QED BY <1>15, <1>16, <1>17 DEF CtxInv

------------------------------------------------------------------------------
(* Steps of the running thread *)

\* The step leaves the thread t with the call c, the mask a and the floats f, and the registers r.
StepsTo(t, c, a, f, r, g, k) ==
  /\ a \subseteq Everything /\ DOMAIN f = {"n", "yielded"}
  /\ CallAsAsked(c, a, k) /\ (c.pc = "disabling" => c.glob = Cpu(g))
  /\ InRegisters(t, c, a, k, f, r) /\ (r.usable <=> regs.usable)
  /\ ~regs.usable => f = floats[t]

LEMMA OwnStep ==
  ASSUME CtxInv, UNCHANGED << runs, ctx >>, NEW c, NEW a, NEW f,
         inCall' = [inCall EXCEPT ![runs] = c], asked' = [asked EXCEPT ![runs] = a],
         floats' = [floats EXCEPT ![runs] = f],
         Known' \subseteq Known, Known' \subseteq glob', glob' \subseteq Everything,
         Cpu(glob') = Cpu(glob) \/ \A u \in CThreads : inCall[u].pc # "disabling",
         StepsTo(runs, c, a, f, regs', glob', Known')
  PROVE  CtxInv'
<1>1. runs \in CThreads
  BY CtxDefs DEF CtxTypes
<1>2. /\ inCall' = [u \in CThreads |-> inCall'[u]] /\ inCall'[runs] = c
      /\ \A u \in CThreads \ {runs} : inCall'[u] = inCall[u]
  BY <1>1, CtxDefs DEF CtxTypes
<1>3. /\ asked' \in [CThreads -> SUBSET Everything] /\ asked'[runs] = a
      /\ \A u \in CThreads \ {runs} : asked'[u] = asked[u]
  BY <1>1, CtxDefs DEF CtxTypes, StepsTo
<1>4. /\ floats' = [u \in CThreads |-> floats'[u]] /\ floats'[runs] = f
      /\ \A u \in CThreads \ {runs} : floats'[u] = floats[u]
  BY <1>1, CtxDefs DEF CtxTypes
<1>5. \A u \in CThreads : DOMAIN floats'[u] = {"n", "yielded"}
  BY <1>4, CtxDefs DEF CtxTypes, StepsTo
<1>6. CtxTypes'
  BY <1>1, <1>2, <1>3, <1>4, <1>5, CtxDefs DEF CtxTypes
<1>7. \A u \in CThreads : CallAsAsked(inCall'[u], asked'[u], Known')
  BY <1>2, <1>3, CtxDefs, FewerOfCall DEF CallsAsAsked, StepsTo
<1>8. \A u \in CThreads : inCall'[u].pc = "disabling" => inCall'[u].glob = Cpu(glob')
  BY <1>2, CtxDefs DEF CallsAsAsked, StepsTo
<1>9. CallsAsAsked'
  BY <1>7, <1>8 DEF CallsAsAsked, Cpu
<1>10. Waiting'
  BY <1>2, <1>3, <1>4, CtxDefs, FewerInContext DEF Waiting
<1>11. Running'
  <2>1. InRegisters(runs, c, a, Known', f, regs') /\ (regs'.usable <=> ctx[runs].fp)
    BY CtxDefs DEF StepsTo, Running
  <2>2. ~regs'.usable => FloatsAre(runs, f, ctx[runs].kept, ctx[runs].scratch)
    BY CtxDefs DEF StepsTo, Running
  <2> QED BY <1>2, <1>3, <1>4, <2>1, <2>2 DEF Running, InRegisters, FloatsAre
<1> QED BY <1>6, <1>9, <1>10, <1>11 DEF CtxInv

\* What a step of the running thread finds
LEMMA ThreadRuns ==
  ASSUME CtxInv
  PROVE  /\ runs \in CThreads /\ asked[runs] \subseteq Everything
         /\ glob \subseteq Everything /\ Known \subseteq glob
         /\ inCall = [t \in CThreads |-> inCall[t]] /\ asked = [t \in CThreads |-> asked[t]]
         /\ floats = [t \in CThreads |-> floats[t]] /\ DOMAIN floats[runs] = {"n", "yielded"}
         /\ CallAsAsked(inCall[runs], asked[runs], Known)
         /\ inCall[runs].pc = "disabling" => inCall[runs].glob = Cpu(glob)
         /\ InRegisters(runs, inCall[runs], asked[runs], Known, floats[runs], regs)
BY CtxDefs DEF CtxTypes, CallsAsAsked, Running

LEMMA MaskReturned ==
  ASSUME CtxInv, inCall[runs].pc = "idle",
         NEW m, m = regs.cpu \cup (CpuSources \ glob) \cup regs.rcp
                      \cup (IF regs.rcp = {} THEN {} ELSE RcpSources \ glob)
  PROVE  m \cap Known = asked[runs] \cap Known
<1>1. MasksAre(inCall[runs], asked[runs], Known, regs.cpu, regs.rcp)
  BY ThreadRuns DEF InRegisters
<1>2. regs.cpu \cap Known = asked[runs] \cap CpuSources \cap Known
  BY <1>1 DEF MasksAre
<1>3. regs.rcp \cap Known = asked[runs] \cap RcpSources \cap Known
  BY <1>1 DEF MasksAre
<1>4. m \cap Known = (regs.cpu \cap Known) \cup (regs.rcp \cap Known)
  BY ThreadRuns
<1>5. asked[runs] \cap Known
        = (asked[runs] \cap CpuSources \cap Known) \cup (asked[runs] \cap RcpSources \cap Known)
  BY ThreadRuns DEF Everything
<1> QED BY <1>2, <1>3, <1>4, <1>5

\* A call that has been begun or ended with the masks as they are.
LEMMA SameMasks ==
  ASSUME NEW t, NEW c, NEW d, NEW a, NEW k, NEW f, NEW r, InRegisters(t, c, a, k, f, r),
         c.pc = "idle", d.pc \in {"idle", "rcp", "disabling"}
  PROVE  InRegisters(t, d, a, k, f, r)
BY DEF InRegisters, MasksAre

BeginsWith(c) ==
  /\ inCall[runs].pc = "idle" /\ c.pc \in {"idle", "rcp", "disabling"}
  /\ CallAsAsked(c, asked[runs], Known)
  /\ c.pc = "disabling" => c.glob = Cpu(glob)
  /\ inCall' = [inCall EXCEPT ![runs] = c]
  /\ UNCHANGED << runs, regs, ctx, glob, asked, floats, absent >>

LEMMA BeginsCall ==
  ASSUME CtxInv, NEW c, BeginsWith(c)
  PROVE  CtxInv'
<1> USE DEF BeginsWith
<1>1. Known' = Known
  BY DEF Known
<1>2. asked' = [asked EXCEPT ![runs] = asked[runs]] /\ floats' = [floats EXCEPT ![runs] = floats[runs]]
  BY ThreadRuns
<1>3. InRegisters(runs, c, asked[runs], Known, floats[runs], regs)
  BY ThreadRuns, SameMasks
<1>4. StepsTo(runs, c, asked[runs], floats[runs], regs', glob', Known')
  BY <1>1, <1>3, ThreadRuns DEF StepsTo
<1> QED BY <1>1, <1>2, <1>4, ThreadRuns, OwnStep

LEMMA SetIntMaskKeeps ==
  ASSUME CtxInv, SetIntMask
  PROVE  CtxInv'
<1>1. PICK m \in AskedMasks :
        inCall' = [inCall EXCEPT ![runs] = [pc |-> "rcp", cpu |-> regs.cpu, glob |-> glob, wants |-> m,
          returns |-> regs.cpu \cup (CpuSources \ glob) \cup regs.rcp
                      \cup (IF regs.rcp = {} THEN {} ELSE RcpSources \ glob)]]
  BY DEF SetIntMask
<1>2. PICK ret : ret = regs.cpu \cup (CpuSources \ glob) \cup regs.rcp
                         \cup (IF regs.rcp = {} THEN {} ELSE RcpSources \ glob)
  OBVIOUS
<1>3. PICK c : c = [pc |-> "rcp", cpu |-> regs.cpu, glob |-> glob, wants |-> m, returns |-> ret]
  OBVIOUS
<1>4. inCall' = [inCall EXCEPT ![runs] = c]
  BY <1>1, <1>2, <1>3
<1>5. inCall[runs].pc = "idle" /\ UNCHANGED << runs, regs, ctx, glob, asked, floats, absent >>
  BY DEF SetIntMask
<1>6. ret \cap Known = asked[runs] \cap Known
  BY <1>2, <1>5, MaskReturned
<1>7. m \subseteq Everything
  BY ContextsAssumption DEF Everything, CpuSources, RcpSources
<1>8. /\ DOMAIN c = {"pc", "cpu", "glob", "wants", "returns"} /\ c.pc = "rcp" /\ c.wants = m
      /\ c.glob = glob /\ c.returns = ret
  BY <1>3
<1>9. Asking(c) /\ ~Disabling(c) /\ "returned" \notin DOMAIN c
  BY <1>7, <1>8 DEF Asking, Disabling
<1>10. CallAsAsked(c, asked[runs], Known)
  BY <1>6, <1>8, <1>9, ThreadRuns DEF CallAsAsked
<1>11. BeginsWith(c)
  BY <1>4, <1>5, <1>8, <1>10 DEF BeginsWith
<1> QED BY <1>11, BeginsCall

LEMMA GetIntMaskKeeps ==
  ASSUME CtxInv, GetIntMask
  PROVE  CtxInv'
<1>1. PICK ret : ret = regs.cpu \cup (CpuSources \ glob) \cup regs.rcp
                         \cup (IF regs.rcp = {} THEN {} ELSE RcpSources \ glob)
  OBVIOUS
<1>2. PICK c : c = [pc |-> "idle", before |-> asked[runs], returned |-> ret]
  OBVIOUS
<1>3. inCall' = [inCall EXCEPT ![runs] = c]
  BY <1>1, <1>2 DEF GetIntMask
<1>4. inCall[runs].pc = "idle" /\ UNCHANGED << runs, regs, ctx, glob, asked, floats, absent >>
  BY DEF GetIntMask
<1>5. ret \cap Known = asked[runs] \cap Known
  BY <1>1, <1>4, MaskReturned
<1>6. DOMAIN c = {"pc", "returned", "before"} /\ c.pc = "idle" /\ c.returned = ret /\ c.before = asked[runs]
  BY <1>2
<1>7. Resting(c) /\ ~Asking(c) /\ ~Disabling(c)
  BY <1>6 DEF Resting, Asking, Disabling
<1>8. CallAsAsked(c, asked[runs], Known)
  BY <1>5, <1>6, <1>7 DEF CallAsAsked
<1>9. BeginsWith(c)
  BY <1>3, <1>4, <1>6, <1>8 DEF BeginsWith
<1> QED BY <1>9, BeginsCall

LEMMA DisableIntKeeps ==
  ASSUME CtxInv, DisableInt
  PROVE  CtxInv'
<1>1. PICK why \in {"yield"} \cup (IF Drive THEN {"reset", "set"} ELSE {}) :
        inCall' = [inCall EXCEPT ![runs] = [pc |-> "disabling", cpu |-> regs.cpu, glob |-> Cpu(glob),
                                            why |-> why, ie |-> regs.ie]]
  BY DEF DisableInt
<1>2. PICK c : c = [pc |-> "disabling", cpu |-> regs.cpu, glob |-> Cpu(glob), why |-> why, ie |-> regs.ie]
  OBVIOUS
<1>3. inCall' = [inCall EXCEPT ![runs] = c]
  BY <1>1, <1>2
<1>4. inCall[runs].pc = "idle" /\ UNCHANGED << runs, regs, ctx, glob, asked, floats, absent >>
  BY DEF DisableInt
<1>5. regs.ie /\ regs.cpu \subseteq CpuSources /\ regs.cpu \cap Known = asked[runs] \cap CpuSources \cap Known
  BY <1>4, ThreadRuns DEF InRegisters, MasksAre
<1>6. /\ DOMAIN c = {"pc", "cpu", "glob", "why", "ie"} /\ c.pc = "disabling" /\ c.cpu = regs.cpu
      /\ c.glob = Cpu(glob) /\ c.ie = regs.ie
  BY <1>2
<1>7. regs.ie \in BOOLEAN
  BY ThreadRuns DEF InRegisters, IsRegisters
<1>8. Disabling(c) /\ ~Asking(c) /\ "returned" \notin DOMAIN c
  BY <1>5, <1>6, <1>7 DEF Asking, Disabling
<1>9. CallAsAsked(c, asked[runs], Known)
  BY <1>5, <1>6, <1>8 DEF CallAsAsked
<1>10. BeginsWith(c)
  BY <1>3, <1>4, <1>6, <1>9 DEF BeginsWith
<1> QED BY <1>10, BeginsCall

LEMMA SetRcpMaskKeeps ==
  ASSUME CtxInv, SetRcpMask
  PROVE  CtxInv'
<1>1. PICK d : d = inCall[runs]
  OBVIOUS
<1>2. PICK c : c = [d EXCEPT !.pc = "cpu"]
  OBVIOUS
<1>3. /\ d.pc = "rcp" /\ UNCHANGED << runs, ctx, glob, asked, floats, absent >>
      /\ regs' = [regs EXCEPT !.rcp = WriteMi(ImTable(RcpOf(d.wants) \cap d.glob), @)]
  BY <1>1 DEF SetRcpMask
<1>4. inCall' = [inCall EXCEPT ![runs] = c]
  BY <1>1, <1>2, ThreadRuns DEF SetRcpMask
<1>5. CallAsAsked(d, asked[runs], Known) /\ InRegisters(runs, d, asked[runs], Known, floats[runs], regs)
  BY <1>1, ThreadRuns
<1>6. Asking(d)
  BY <1>3, <1>5 DEF CallAsAsked, Disabling, Resting, Idle
<1>7. /\ DOMAIN c = {"pc", "cpu", "glob", "wants", "returns"} /\ c.pc = "cpu" /\ c.wants = d.wants
      /\ c.glob = d.glob /\ c.returns = d.returns
  BY <1>2, <1>6 DEF Asking
<1>8. Asking(c) /\ ~Disabling(c) /\ "returned" \notin DOMAIN c
  BY <1>6, <1>7 DEF Asking, Disabling
<1>9. CallAsAsked(c, asked[runs], Known)
  BY <1>5, <1>6, <1>7, <1>8 DEF CallAsAsked
<1>10. WriteMi(ImTable(RcpOf(d.wants) \cap d.glob), regs.rcp) = RcpOf(d.wants) \cap d.glob
  BY MaskIsWritten DEF RcpOf
<1>11. regs' = [regs EXCEPT !.rcp = RcpOf(d.wants) \cap d.glob]
  BY <1>3, <1>10
<1>12. /\ DOMAIN regs' = RegisterFields /\ regs'.rcp = RcpOf(d.wants) \cap d.glob
       /\ regs'.cpu = regs.cpu /\ regs'.ie = regs.ie /\ regs'.usable = regs.usable
       /\ regs'.kept = regs.kept /\ regs'.scratch = regs.scratch
  BY <1>5, <1>11 DEF InRegisters, IsRegisters, RegisterFields
<1>13. Known \subseteq d.glob
  BY <1>5, <1>6 DEF CallAsAsked
<1>14. MasksAre(c, asked[runs], Known, regs'.cpu, regs'.rcp)
  <2>1. regs.cpu \subseteq CpuSources /\ regs.cpu \cap Known = asked[runs] \cap CpuSources \cap Known
    BY <1>5 DEF InRegisters, MasksAre
  <2>2. (RcpOf(d.wants) \cap d.glob) \cap Known = d.wants \cap RcpSources \cap Known
    BY <1>13 DEF RcpOf
  <2>3. RcpOf(d.wants) \cap d.glob \subseteq RcpSources
    BY DEF RcpOf
  <2> QED BY <1>7, <1>12, <2>1, <2>2, <2>3 DEF MasksAre
<1>15. InRegisters(runs, c, asked[runs], Known, floats[runs], regs')
  BY <1>3, <1>5, <1>7, <1>12, <1>14 DEF InRegisters, IsRegisters
<1>16. Known' = Known
  BY <1>3 DEF Known
<1>17. StepsTo(runs, c, asked[runs], floats[runs], regs', glob', Known')
  BY <1>3, <1>7, <1>9, <1>12, <1>15, <1>16, ThreadRuns DEF StepsTo
<1>18. asked' = [asked EXCEPT ![runs] = asked[runs]] /\ floats' = [floats EXCEPT ![runs] = floats[runs]]
  BY <1>3, ThreadRuns
<1> QED BY <1>3, <1>4, <1>16, <1>17, <1>18, ThreadRuns, OwnStep

LEMMA SetCpuMaskKeeps ==
  ASSUME CtxInv, SetCpuMask
  PROVE  CtxInv'
<1>1. PICK d : d = inCall[runs]
  OBVIOUS
<1>2. PICK c : c = [pc |-> "idle", returned |-> d.returns, before |-> asked[runs]]
  OBVIOUS
<1>3. /\ d.pc = "cpu" /\ UNCHANGED << runs, ctx, glob, floats, absent >>
      /\ regs' = [regs EXCEPT !.cpu = Cpu(d.wants) \cap d.glob]
      /\ asked' = [asked EXCEPT ![runs] = d.wants]
  BY <1>1 DEF SetCpuMask
<1>4. inCall' = [inCall EXCEPT ![runs] = c]
  BY <1>1, <1>2, ThreadRuns DEF SetCpuMask
<1>5. CallAsAsked(d, asked[runs], Known) /\ InRegisters(runs, d, asked[runs], Known, floats[runs], regs)
  BY <1>1, ThreadRuns
<1>6. Asking(d)
  BY <1>3, <1>5 DEF CallAsAsked, Disabling, Resting, Idle
<1>7. /\ DOMAIN c = {"pc", "returned", "before"} /\ c.pc = "idle" /\ c.returned = d.returns
      /\ c.before = asked[runs]
  BY <1>2
<1>8. Resting(c) /\ ~Asking(c) /\ ~Disabling(c)
  BY <1>7 DEF Resting, Asking, Disabling
<1>9. CallAsAsked(c, d.wants, Known)
  BY <1>5, <1>6, <1>7, <1>8 DEF CallAsAsked
<1>10. /\ DOMAIN regs' = RegisterFields /\ regs'.cpu = Cpu(d.wants) \cap d.glob
       /\ regs'.rcp = regs.rcp /\ regs'.ie = regs.ie /\ regs'.usable = regs.usable
       /\ regs'.kept = regs.kept /\ regs'.scratch = regs.scratch
  BY <1>3, <1>5 DEF InRegisters, IsRegisters, RegisterFields
<1>11. Known \subseteq d.glob
  BY <1>5, <1>6 DEF CallAsAsked
<1>12. MasksAre(c, d.wants, Known, regs'.cpu, regs'.rcp)
  <2>1. regs.rcp \subseteq RcpSources /\ regs.rcp \cap Known = d.wants \cap RcpSources \cap Known
    BY <1>3, <1>5 DEF InRegisters, MasksAre
  <2>2. (Cpu(d.wants) \cap d.glob) \cap Known = d.wants \cap CpuSources \cap Known
    BY <1>11 DEF Cpu
  <2>3. Cpu(d.wants) \cap d.glob \subseteq CpuSources
    BY DEF Cpu
  <2> QED BY <1>7, <1>10, <2>1, <2>2, <2>3 DEF MasksAre
<1>13. InRegisters(runs, c, d.wants, Known, floats[runs], regs')
  BY <1>3, <1>5, <1>7, <1>10, <1>12 DEF InRegisters, IsRegisters
<1>14. Known' = Known
  BY <1>3 DEF Known
<1>15. d.wants \subseteq Everything
  BY <1>6 DEF Asking
<1>16. StepsTo(runs, c, d.wants, floats[runs], regs', glob', Known')
  BY <1>3, <1>7, <1>9, <1>10, <1>13, <1>14, <1>15, ThreadRuns DEF StepsTo
<1>17. floats' = [floats EXCEPT ![runs] = floats[runs]]
  BY <1>3, ThreadRuns
<1> QED BY <1>3, <1>4, <1>14, <1>16, <1>17, ThreadRuns, OwnStep

LEMMA DisabledIntKeeps ==
  ASSUME CtxInv, DisabledInt
  PROVE  CtxInv'
<1>1. PICK d : d = inCall[runs]
  OBVIOUS
<1>2. PICK c : c = [d EXCEPT !.pc = "off"]
  OBVIOUS
<1>3. d.pc = "disabling" /\ UNCHANGED << runs, ctx, glob, asked, floats, absent >>
  BY <1>1 DEF DisabledInt
<1>4. inCall' = [inCall EXCEPT ![runs] = c]
  BY <1>1, <1>2, ThreadRuns DEF DisabledInt
<1>5. CallAsAsked(d, asked[runs], Known) /\ InRegisters(runs, d, asked[runs], Known, floats[runs], regs)
  BY <1>1, ThreadRuns
<1>6. d.glob = Cpu(glob)
  BY <1>1, <1>3, ThreadRuns
<1>7. regs' = [regs EXCEPT !.ie = FALSE, !.cpu = d.cpu]
  <2>1. PICK garbage \in SUBSET CpuSources :
          /\ Cpu(glob) = d.glob => garbage = d.cpu
          /\ regs' = [regs EXCEPT !.ie = FALSE, !.cpu = IF Cpu(glob) = d.glob THEN garbage ELSE garbage \cap glob]
    BY <1>1 DEF DisabledInt
  <2> QED BY <1>6, <2>1
<1>8. Disabling(d)
  BY <1>3, <1>5 DEF CallAsAsked, Asking, Resting, Idle
<1>9. /\ DOMAIN c = {"pc", "cpu", "glob", "why", "ie"} /\ c.pc = "off" /\ c.cpu = d.cpu
      /\ c.ie = d.ie
  BY <1>2, <1>8 DEF Disabling
<1>10. Disabling(c) /\ ~Asking(c) /\ "returned" \notin DOMAIN c /\ c.ie
  BY <1>5, <1>8, <1>9 DEF Asking, Disabling, CallAsAsked
<1>11. CallAsAsked(c, asked[runs], Known)
  BY <1>9, <1>10 DEF CallAsAsked
<1>12. /\ DOMAIN regs' = RegisterFields /\ regs'.cpu = d.cpu /\ regs'.ie = FALSE
       /\ regs'.rcp = regs.rcp /\ regs'.usable = regs.usable
       /\ regs'.kept = regs.kept /\ regs'.scratch = regs.scratch
  BY <1>5, <1>7 DEF InRegisters, IsRegisters, RegisterFields
<1>13. MasksAre(c, asked[runs], Known, regs'.cpu, regs'.rcp)
  <2>1. regs.rcp \subseteq RcpSources /\ regs.rcp \cap Known = asked[runs] \cap RcpSources \cap Known
    BY <1>3, <1>5 DEF InRegisters, MasksAre
  <2>2. d.cpu \subseteq CpuSources /\ d.cpu \cap Known = asked[runs] \cap CpuSources \cap Known
    BY <1>3, <1>5, <1>8 DEF CallAsAsked, Disabling
  <2> QED BY <1>9, <1>12, <2>1, <2>2 DEF MasksAre
<1>14. InRegisters(runs, c, asked[runs], Known, floats[runs], regs')
  BY <1>5, <1>9, <1>12, <1>13 DEF InRegisters, IsRegisters
<1>15. Known' = Known
  BY <1>3 DEF Known
<1>16. StepsTo(runs, c, asked[runs], floats[runs], regs', glob', Known')
  BY <1>3, <1>9, <1>11, <1>12, <1>14, <1>15, ThreadRuns DEF StepsTo
<1>17. asked' = [asked EXCEPT ![runs] = asked[runs]] /\ floats' = [floats EXCEPT ![runs] = floats[runs]]
  BY <1>3, ThreadRuns
<1> QED BY <1>3, <1>4, <1>15, <1>16, <1>17, ThreadRuns, OwnStep

\* __osRestoreInt at the end of a call: the interrupts, that were enabled, are so again.
LEMMA RestoredInt ==
  ASSUME CtxInv, inCall[runs].pc \in {"off", "back"}, RestoreInt, UNCHANGED << runs, ctx, asked, floats >>,
         Known' \subseteq Known, Known' \subseteq glob', glob' \subseteq Everything,
         Cpu(glob') = Cpu(glob) \/ \A u \in CThreads : inCall[u].pc # "disabling"
  PROVE  CtxInv'
<1>1. PICK d : d = inCall[runs]
  OBVIOUS
<1>2. CallAsAsked(d, asked[runs], Known) /\ InRegisters(runs, d, asked[runs], Known, floats[runs], regs)
  BY <1>1, ThreadRuns
<1>3. d.pc \in {"off", "back"}
  BY <1>1
<1>4. Disabling(d) /\ d.ie
  BY <1>2, <1>3 DEF CallAsAsked, Asking, Resting, Idle
<1>5. regs' = [regs EXCEPT !.ie = @ \/ d.ie] /\ inCall' = [inCall EXCEPT ![runs] = Idle]
  BY <1>1 DEF RestoreInt
<1>6. /\ DOMAIN regs' = RegisterFields /\ regs'.cpu = regs.cpu /\ regs'.ie = TRUE
      /\ regs'.rcp = regs.rcp /\ regs'.usable = regs.usable
      /\ regs'.kept = regs.kept /\ regs'.scratch = regs.scratch
  BY <1>2, <1>4, <1>5 DEF InRegisters, IsRegisters, RegisterFields, Disabling
<1>7. Idle.pc = "idle" /\ DOMAIN Idle = {"pc"}
  BY DEF Idle
<1>8. CallAsAsked(Idle, asked[runs], Known')
  <2>1. Resting(Idle) /\ ~Asking(Idle) /\ ~Disabling(Idle) /\ "returned" \notin DOMAIN Idle
    BY <1>7 DEF Resting, Asking, Disabling
  <2> QED BY <1>7, <2>1 DEF CallAsAsked
<1>9. MasksAre(Idle, asked[runs], Known, regs'.cpu, regs'.rcp)
  BY <1>2, <1>3, <1>6, <1>7 DEF InRegisters, MasksAre
<1>10. InRegisters(runs, Idle, asked[runs], Known, floats[runs], regs')
  BY <1>2, <1>6, <1>7, <1>9 DEF InRegisters, IsRegisters
<1>11. InRegisters(runs, Idle, asked[runs], Known', floats[runs], regs')
  BY <1>10, FewerInRegisters
<1>12. StepsTo(runs, Idle, asked[runs], floats[runs], regs', glob', Known')
  BY <1>6, <1>7, <1>8, <1>11, ThreadRuns DEF StepsTo
<1>13. asked' = [asked EXCEPT ![runs] = asked[runs]] /\ floats' = [floats EXCEPT ![runs] = floats[runs]]
  BY ThreadRuns
<1> QED BY <1>5, <1>12, <1>13, OwnStep

LEMMA ChangeGlobalIntMaskKeeps ==
  ASSUME CtxInv, ChangeGlobalIntMask, ~Racing
  PROVE  CtxInv'
<1>1. /\ inCall[runs].pc = "off" /\ RestoreInt /\ UNCHANGED << runs, ctx, asked, floats >>
      /\ glob' = (IF inCall[runs].why = "reset" THEN glob \ {"pi"} ELSE glob \cup {"pi", "rcp", "cart"})
      /\ Cpu(glob') = Cpu(glob) \/ \A u \in CThreads : inCall[u].pc # "disabling"
      /\ absent' = absent \cup (Everything \ glob')
  BY DEF ChangeGlobalIntMask
<1>2. Known' \subseteq Known /\ Known' \subseteq glob'
  BY <1>1 DEF Known
<1>3. glob' \subseteq Everything
  BY <1>1, ThreadRuns DEF Everything, CpuSources, RcpSources
<1> QED BY <1>1, <1>2, <1>3, RestoredInt

LEMMA ComeBackKeeps ==
  ASSUME CtxInv, ComeBack
  PROVE  CtxInv'
<1>1. inCall[runs].pc = "back" /\ RestoreInt /\ UNCHANGED << runs, ctx, asked, floats, glob, absent >>
  BY DEF ComeBack
<1>2. Known' = Known
  BY <1>1 DEF Known
<1> QED BY <1>1, <1>2, ThreadRuns, RestoredInt

LEMMA ComputeKeeps ==
  ASSUME CtxInv, Compute
  PROVE  CtxInv'
<1>1. PICK f : f = [n |-> 1 - floats[runs].n, yielded |-> FALSE]
  OBVIOUS
<1>2. /\ regs.usable /\ inCall[runs].pc = "idle" /\ UNCHANGED << runs, ctx, glob, inCall, asked, absent >>
      /\ regs' = [regs EXCEPT !.kept = << runs, floats'[runs].n >>, !.scratch = << runs, floats'[runs].n >>]
  BY DEF Compute
<1>3. floats' = [floats EXCEPT ![runs] = f] /\ floats'[runs] = f
  BY <1>1, ThreadRuns DEF Compute
<1>4. PICK c : c = inCall[runs]
  OBVIOUS
<1>5. /\ CallAsAsked(c, asked[runs], Known) /\ InRegisters(runs, c, asked[runs], Known, floats[runs], regs)
      /\ c.pc = "idle"
  BY <1>2, <1>4, ThreadRuns
<1>6. /\ DOMAIN regs' = RegisterFields /\ regs'.cpu = regs.cpu /\ regs'.ie = regs.ie
      /\ regs'.rcp = regs.rcp /\ regs'.usable = regs.usable
      /\ regs'.kept = << runs, f.n >> /\ regs'.scratch = << runs, f.n >>
  BY <1>2, <1>3, <1>5 DEF InRegisters, IsRegisters, RegisterFields
<1>7. FloatsAre(runs, f, regs'.kept, regs'.scratch)
  BY <1>6 DEF FloatsAre
<1>8. InRegisters(runs, c, asked[runs], Known, f, regs')
  BY <1>5, <1>6, <1>7 DEF InRegisters, IsRegisters
<1>9. Known' = Known /\ DOMAIN f = {"n", "yielded"}
  BY <1>1, <1>2 DEF Known
<1>10. StepsTo(runs, c, asked[runs], f, regs', glob', Known')
  BY <1>2, <1>5, <1>6, <1>8, <1>9, ThreadRuns DEF StepsTo
<1>11. inCall' = [inCall EXCEPT ![runs] = c] /\ asked' = [asked EXCEPT ![runs] = asked[runs]]
  BY <1>2, <1>4, ThreadRuns
<1> QED BY <1>2, <1>3, <1>9, <1>10, <1>11, ThreadRuns, OwnStep

LEMMA DriveInterruptsKeeps ==
  ASSUME CtxInv, DriveInterrupts, ~Racing
  PROVE  CtxInv'
<1>1. PICK t \in CThreads, g \in {glob \ {"cart"}, glob \cup {"pi"}} : ExceptionTo(t, g)
  BY DEF DriveInterrupts
<1>2. \A u \in CThreads : inCall[u].pc # "disabling"
  BY DEF DriveInterrupts
<1>3. g \subseteq Everything
  BY ThreadRuns DEF Everything, RcpSources
<1> QED BY <1>1, <1>2, <1>3, ExceptionKeeps

LEMMA InterruptKeeps ==
  ASSUME CtxInv, Interrupt
  PROVE  CtxInv'
BY ThreadRuns, ExceptionKeeps DEF Interrupt

LEMMA ContextsBegin ==
  ASSUME CtxInit
  PROVE  CtxInv
<1>1. /\ runs \in CThreads /\ glob = Everything /\ absent = {}
      /\ regs = [cpu |-> CpuSources, rcp |-> RcpSources, ie |-> TRUE, usable |-> FALSE,
                 kept |-> << "none" >>, scratch |-> << "none" >>]
      /\ inCall = [t \in CThreads |-> Idle] /\ asked = [t \in CThreads |-> Everything]
      /\ floats = [t \in CThreads |-> [n |-> 0, yielded |-> FALSE]]
      /\ ctx = [t \in CThreads |-> NewContext(t)]
  BY DEF CtxInit
<1>2. Known = Everything
  BY <1>1 DEF Known
<1>3. Idle.pc = "idle" /\ DOMAIN Idle = {"pc"} /\ Resting(Idle)
  BY DEF Idle, Resting
<1>4. ~Asking(Idle) /\ ~Disabling(Idle) /\ "returned" \notin DOMAIN Idle
  BY <1>3 DEF Asking, Disabling
<1>5. CallAsAsked(Idle, Everything, Everything)
  BY <1>3, <1>4 DEF CallAsAsked
<1>6. ASSUME NEW t \in CThreads
      PROVE  /\ IsContext(ctx[t]) /\ InContext(t, Idle, Everything, Everything, floats[t], ctx[t])
             /\ ~ctx[t].fp /\ FloatsAre(t, floats[t], ctx[t].kept, ctx[t].scratch)
             /\ DOMAIN floats[t] = {"n", "yielded"}
  <2>1. PICK x : x = ctx[t]
    OBVIOUS
  <2>2. /\ DOMAIN x = ContextFields /\ x.cpu = CpuSources /\ x.rcp = RcpSources /\ x.ie = TRUE
        /\ x.fp = FALSE /\ x.kept = << t, 0 >> /\ x.scratch = << t, 0 >>
    BY <1>1, <2>1 DEF NewContext, ContextFields
  <2>3. DOMAIN floats[t] = {"n", "yielded"} /\ floats[t].n = 0
    BY <1>1
  <2>4. FloatsAre(t, floats[t], x.kept, x.scratch)
    BY <2>2, <2>3 DEF FloatsAre
  <2>5. MasksAre(Idle, Everything, Everything, x.cpu, x.rcp)
    BY <1>3, <2>2 DEF MasksAre, Everything
  <2>6. IsContext(x)
    BY <2>2 DEF IsContext
  <2> QED BY <1>3, <2>1, <2>2, <2>3, <2>4, <2>5, <2>6 DEF InContext
<1>7. CtxTypes
  BY <1>1, <1>2, <1>6 DEF CtxTypes
<1>8. CallsAsAsked
  BY <1>1, <1>2, <1>3, <1>5 DEF CallsAsAsked
<1>9. Waiting
  BY <1>1, <1>2, <1>6 DEF Waiting
<1>10. Running
  <2>1. /\ DOMAIN regs = RegisterFields /\ regs.cpu = CpuSources /\ regs.rcp = RcpSources
        /\ regs.ie = TRUE /\ regs.usable = FALSE
    BY <1>1 DEF RegisterFields
  <2>2. MasksAre(Idle, Everything, Everything, regs.cpu, regs.rcp)
    BY <1>3, <2>1 DEF MasksAre, Everything
  <2>3. InRegisters(runs, Idle, Everything, Everything, floats[runs], regs)
    BY <1>3, <2>1, <2>2 DEF InRegisters, IsRegisters
  <2> QED BY <1>1, <1>2, <1>6, <2>1, <2>3 DEF Running
<1> QED BY <1>7, <1>8, <1>9, <1>10 DEF CtxInv

LEMMA ContextsStep ==
  ASSUME CtxInv, [CtxNext]_ctxVars, ~Racing
  PROVE  CtxInv'
<1>1. CASE Interrupt
  BY <1>1, InterruptKeeps
<1>2. CASE DriveInterrupts
  BY <1>2, DriveInterruptsKeeps
<1>3. CASE SetIntMask
  BY <1>3, SetIntMaskKeeps
<1>4. CASE SetRcpMask
  BY <1>4, SetRcpMaskKeeps
<1>5. CASE SetCpuMask
  BY <1>5, SetCpuMaskKeeps
<1>6. CASE GetIntMask
  BY <1>6, GetIntMaskKeeps
<1>7. CASE DisableInt
  BY <1>7, DisableIntKeeps
<1>8. CASE DisabledInt
  BY <1>8, DisabledIntKeeps
<1>9. CASE ChangeGlobalIntMask
  BY <1>9, ChangeGlobalIntMaskKeeps
<1>10. CASE EnqueueAndYield
  BY <1>10, YieldKeeps
<1>11. CASE ComeBack
  BY <1>11, ComeBackKeeps
<1>12. CASE UnusableFpu
  BY <1>12, FpuKeeps
<1>13. CASE Compute
  BY <1>13, ComputeKeeps
<1>14. CASE UNCHANGED ctxVars
  BY <1>14 DEF ctxVars, CtxInv, CtxTypes, CallsAsAsked, Waiting, Running, Known
<1> QED BY <1>1, <1>2, <1>3, <1>4, <1>5, <1>6, <1>7, <1>8, <1>9, <1>10, <1>11, <1>12, <1>13, <1>14
        DEF CtxNext

\* Whatever preempts a thread and however often, when it goes on the sources that stayed in the global
\* mask are enabled exactly when it asked for them, osSetIntMask and osGetIntMask return what it
\* had asked for, its interrupts are enabled again, and the FPU's registers hold what it computed
\* (but those a call may change): for all threads and masks, as long as the global mask does not change
\* between the two steps of __osDisableInt (which, when it does, takes the mask of the thread's link).
THEOREM ContextsAreKept ==
  ASSUME ~Racing
  PROVE  CtxSpec => []ContextKept
<1>1. CtxInit => CtxInv
  BY ContextsBegin
<1>2. CtxInv /\ [CtxNext]_ctxVars => CtxInv'
  BY ContextsStep
<1>3. CtxInv => ContextKept
  <2> SUFFICES ASSUME CtxInv PROVE ContextKept
    OBVIOUS
  <2>1. ASSUME inCall[runs].pc = "idle"
        PROVE  (regs.cpu \cup regs.rcp) \cap Known = asked[runs] \cap Known /\ regs.ie
    <3>1. MasksAre(inCall[runs], asked[runs], Known, regs.cpu, regs.rcp) /\ regs.ie
      BY <2>1, ThreadRuns DEF InRegisters
    <3>2. /\ regs.cpu \cap Known = asked[runs] \cap CpuSources \cap Known
          /\ regs.rcp \cap Known = asked[runs] \cap RcpSources \cap Known
      BY <2>1, <3>1 DEF MasksAre
    <3>3. asked[runs] = (asked[runs] \cap CpuSources) \cup (asked[runs] \cap RcpSources)
      BY ThreadRuns DEF Everything
    <3> QED BY <3>1, <3>2, <3>3
  <2>2. \A t \in CThreads :
          "returned" \in DOMAIN inCall[t] => inCall[t].returned \cap Known = inCall[t].before \cap Known
    BY CtxDefs DEF CallsAsAsked, CallAsAsked
  <2>3. regs.usable => /\ regs.kept = << runs, floats[runs].n >>
                       /\ floats[runs].yielded \/ regs.scratch = << runs, floats[runs].n >>
    BY ThreadRuns DEF InRegisters, FloatsAre
  <2> QED BY <2>1, <2>2, <2>3 DEF ContextKept
<1> QED BY <1>1, <1>2, <1>3, PTL DEF CtxSpec

------------------------------------------------------------------------------
(***************************************************************************)
(* Tasks of the RSP                                                        *)
(***************************************************************************)
Kept0 == [at : Nat, ucode : {0, 1}]
Done0 == [n : Nat, ucode : {0, 1}, ok : BOOLEAN]
Copies == [task : RTasks, data : {"start", "yield"}, ucode : {0, 1}]
Runs0 == [task : RTasks, at : Nat, ucode : {0, 1}]

RspTypes ==
  /\ flags \in [RTasks -> SUBSET {"yielded", "dp_wait"}]
  /\ yieldData \in [RTasks -> Kept0] /\ did \in [RTasks -> Done0]
  /\ tmp \in Copies \cup {NoRspTask} /\ rsp \in Runs0 \cup {NoRspTask}
  /\ dma \in {"none", "header", "boot"} /\ imem \in BOOLEAN
  /\ current \in RTasks \cup {"none"}

\* What is loaded or runs is the task of the program, and the marks are of this load.
LoadInOrder ==
  /\ current = "none" => tmp = NoRspTask
  /\ tmp = NoRspTask => dma = "none" /\ ~imem
  /\ tmp # NoRspTask =>
       /\ tmp.task = current /\ "halt" \in status /\ "yielded" \notin status
       /\ dma # "header" => dmem = tmp
       /\ imem => dma = "none"
  /\ "halt" \notin status =>
       rsp # NoRspTask /\ rsp.task = current /\ tmp = NoRspTask /\ "yielded" \notin status
  /\ "yielded" \in status => "yield" \in status

\* The yield data of t is where its work has come to.
Resumes(t) == yieldData[t].at = did[t].n /\ yieldData[t].ucode = did[t].ucode
Begins(t) == did[t].n = 0 /\ did[t].ucode = 0

TaskOf(t) ==
  /\ did[t].ok
  /\ t \notin Loadable => did[t].ucode = 0
  /\ t # current => IF "yielded" \in flags[t] THEN Resumes(t) ELSE Begins(t)
  /\ t = current => "yielded" \notin flags[t]

\* What was done of the task that is loaded, runs or has stopped
WorkOfCurrent ==
  /\ tmp # NoRspTask =>
       /\ tmp.ucode = did[current].ucode
       /\ IF tmp.data = "yield" THEN yieldData[current].at = did[current].n ELSE did[current].n = 0
  /\ "halt" \notin status => rsp.at = did[current].n /\ rsp.ucode = did[current].ucode
  /\ current # "none" /\ tmp = NoRspTask /\ "halt" \in status =>
       IF "yielded" \in status THEN Resumes(current) ELSE did[current].n = Pieces

RspInv == RspTypes /\ LoadInOrder /\ (\A t \in RTasks : TaskOf(t)) /\ WorkOfCurrent

LEMMA RspDefs ==
  ASSUME RspInv
  PROVE  /\ RspTypes /\ LoadInOrder /\ WorkOfCurrent
         /\ \A t \in RTasks : TaskOf(t)
BY DEF RspInv

LEMMA TransferEndsKeeps ==
  ASSUME RspInv, TransferEnds
  PROVE  RspInv'
<1> USE RspTasksAssumption
<1>1. RspTypes'
  BY RspDefs DEF LoadInOrder, TransferEnds, RspTypes, Kept0, Done0, Copies, Runs0, NoRspTask, Fresh
<1>2. LoadInOrder'
  BY RspDefs DEF LoadInOrder, TransferEnds, RspTypes, Kept0, Done0, Copies, Runs0, NoRspTask, Fresh
<1>3. ASSUME NEW t \in RTasks PROVE TaskOf(t)'
  BY RspDefs DEF LoadInOrder, WorkOfCurrent, TaskOf, Resumes, Begins, TransferEnds, RspTypes, Kept0, Done0, Copies, Runs0, NoRspTask, Fresh
<1>4. WorkOfCurrent'
  BY RspDefs DEF LoadInOrder, WorkOfCurrent, TaskOf, Resumes, Begins, TransferEnds, RspTypes, Kept0, Done0, Copies, Runs0, NoRspTask, Fresh
<1> QED BY <1>1, <1>2, <1>3, <1>4 DEF RspInv

LEMMA TaskLoadKeeps ==
  ASSUME RspInv, TaskLoad
  PROVE  RspInv'
<1> USE RspTasksAssumption
<1>1. RspTypes'
  BY RspDefs DEF LoadInOrder, TaskLoad, RspTypes, Kept0, Done0, Copies, Runs0, NoRspTask, Fresh, Unmarked, RawStartDma
<1>2. LoadInOrder'
  BY RspDefs DEF LoadInOrder, TaskLoad, RspTypes, Kept0, Done0, Copies, Runs0, NoRspTask, Fresh, Unmarked, RawStartDma
<1>3. ASSUME NEW t \in RTasks PROVE TaskOf(t)'
  BY RspDefs DEF LoadInOrder, WorkOfCurrent, TaskOf, Resumes, Begins, TaskLoad, RspTypes, Kept0, Done0, Copies, Runs0, NoRspTask, Fresh, Unmarked, RawStartDma
<1>4. WorkOfCurrent'
  BY RspDefs DEF LoadInOrder, WorkOfCurrent, TaskOf, Resumes, Begins, TaskLoad, RspTypes, Kept0, Done0, Copies, Runs0, NoRspTask, Fresh, Unmarked, RawStartDma
<1> QED BY <1>1, <1>2, <1>3, <1>4 DEF RspInv

LEMMA LoadBootKeeps ==
  ASSUME RspInv, LoadBoot
  PROVE  RspInv'
<1> USE RspTasksAssumption
<1>1. RspTypes'
  BY RspDefs DEF LoadInOrder, LoadBoot, RspTypes, Kept0, Done0, Copies, Runs0, NoRspTask, Fresh, RawStartDma
<1>2. LoadInOrder'
  BY RspDefs DEF LoadInOrder, LoadBoot, RspTypes, Kept0, Done0, Copies, Runs0, NoRspTask, Fresh, RawStartDma
<1>3. ASSUME NEW t \in RTasks PROVE TaskOf(t)'
  BY RspDefs DEF LoadInOrder, WorkOfCurrent, TaskOf, Resumes, Begins, LoadBoot, RspTypes, Kept0, Done0, Copies, Runs0, NoRspTask, Fresh, RawStartDma
<1>4. WorkOfCurrent'
  BY RspDefs DEF LoadInOrder, WorkOfCurrent, TaskOf, Resumes, Begins, LoadBoot, RspTypes, Kept0, Done0, Copies, Runs0, NoRspTask, Fresh, RawStartDma
<1> QED BY <1>1, <1>2, <1>3, <1>4 DEF RspInv

LEMMA TaskStartGoKeeps ==
  ASSUME RspInv, TaskStartGo
  PROVE  RspInv'
<1> USE RspTasksAssumption
<1>1. RspTypes'
  <2>1. dmem \in Copies /\ tmp = dmem
    BY RspDefs DEF LoadInOrder, TaskStartGo, RspTypes, NoRspTask, Loaded, SpIdle
  <2>2. PICK from \in Nat : rsp' = [task |-> dmem.task, at |-> from, ucode |-> dmem.ucode]
    BY <2>1, RspDefs DEF TaskStartGo, RspTypes, Kept0, Copies
  <2>3. rsp' \in Runs0
    BY <2>1, <2>2 DEF Runs0, Copies
  <2>4. did' \in [RTasks -> Done0]
    BY <2>1, RspDefs DEF TaskStartGo, RspTypes, Done0, Copies
  <2> QED BY <2>3, <2>4, RspDefs DEF TaskStartGo, RspTypes, SpIdle
<1>2. LoadInOrder'
  BY RspDefs DEF LoadInOrder, TaskStartGo, RspTypes, Kept0, Done0, Copies, Runs0, NoRspTask, Fresh, Loaded, SpIdle
<1>3. ASSUME NEW t \in RTasks PROVE TaskOf(t)'
  BY RspDefs DEF LoadInOrder, WorkOfCurrent, TaskOf, Resumes, Begins, TaskStartGo, RspTypes, Kept0, Done0, Copies, Runs0, NoRspTask, Fresh, Loaded, SpIdle
<1>4. WorkOfCurrent'
  BY RspDefs DEF LoadInOrder, WorkOfCurrent, TaskOf, Resumes, Begins, TaskStartGo, RspTypes, Kept0, Done0, Copies, Runs0, NoRspTask, Fresh, Loaded, SpIdle
<1> QED BY <1>1, <1>2, <1>3, <1>4 DEF RspInv

LEMMA TaskYieldKeeps ==
  ASSUME RspInv, TaskYield
  PROVE  RspInv'
<1> USE RspTasksAssumption
<1>1. RspTypes'
  BY RspDefs DEF LoadInOrder, TaskYield, RspTypes, Kept0, Done0, Copies, Runs0, NoRspTask, Fresh, Loaded
<1>2. LoadInOrder'
  BY RspDefs DEF LoadInOrder, TaskYield, RspTypes, Kept0, Done0, Copies, Runs0, NoRspTask, Fresh, Loaded
<1>3. ASSUME NEW t \in RTasks PROVE TaskOf(t)'
  BY RspDefs DEF LoadInOrder, WorkOfCurrent, TaskOf, Resumes, Begins, TaskYield, RspTypes, Kept0, Done0, Copies, Runs0, NoRspTask, Fresh, Loaded
<1>4. WorkOfCurrent'
  BY RspDefs DEF LoadInOrder, WorkOfCurrent, TaskOf, Resumes, Begins, TaskYield, RspTypes, Kept0, Done0, Copies, Runs0, NoRspTask, Fresh, Loaded
<1> QED BY <1>1, <1>2, <1>3, <1>4 DEF RspInv

LEMMA RunMoves ==
  ASSUME NEW r \in Runs0, NEW u \in {0, 1}
  PROVE  [r EXCEPT !.at = @ + 1, !.ucode = u] \in Runs0
<1>1. PICK x : x = [r EXCEPT !.at = @ + 1, !.ucode = u]
  OBVIOUS
<1>2. DOMAIN r = {"task", "at", "ucode"} /\ r.task \in RTasks /\ r.at + 1 \in Nat
  BY DEF Runs0
<1>3. DOMAIN x = {"task", "at", "ucode"} /\ x.task = r.task /\ x.at = r.at + 1 /\ x.ucode = u
  BY <1>1, <1>2
<1>4. x = [task |-> x.task, at |-> x.at, ucode |-> x.ucode]
  BY <1>1, <1>3 DEF Runs0
<1>5. x \in Runs0
  BY <1>2, <1>3, <1>4 DEF Runs0
<1> QED BY <1>1, <1>5

LEMMA RspWorksKeeps ==
  ASSUME RspInv, RspWorks
  PROVE  RspInv'
<1> USE RspTasksAssumption
<1>1. RspTypes'
  <2>1. rsp \in Runs0
    BY RspDefs DEF LoadInOrder, RspWorks, RspTypes, Working
  <2>2. PICK u \in (IF rsp.task \in Loadable THEN {0, 1} ELSE {0}) :
          /\ rsp' = [rsp EXCEPT !.at = @ + 1, !.ucode = u]
          /\ did' = [did EXCEPT ![rsp.task] =
               [n |-> @.n + 1, ucode |-> u, ok |-> @.ok /\ rsp.at = @.n /\ rsp.ucode = @.ucode]]
    BY DEF RspWorks
  <2>3. u \in {0, 1}
    OBVIOUS
  <2>4. rsp' \in Runs0
    BY <2>1, <2>2, <2>3, RunMoves
  <2>5. did' \in [RTasks -> Done0]
    BY <2>1, <2>2, <2>3, RspDefs DEF Runs0, RspTypes, Done0
  <2> QED BY <2>4, <2>5, RspDefs DEF RspWorks, RspTypes
<1>2. LoadInOrder'
  BY RspDefs DEF LoadInOrder, RspWorks, RspTypes, Kept0, Done0, Copies, Runs0, NoRspTask, Fresh, Working
<1>3. ASSUME NEW t \in RTasks PROVE TaskOf(t)'
  BY RspDefs DEF LoadInOrder, WorkOfCurrent, TaskOf, Resumes, Begins, RspWorks, RspTypes, Kept0, Done0, Copies, Runs0, NoRspTask, Fresh, Working
<1>4. WorkOfCurrent'
  BY RspDefs DEF LoadInOrder, WorkOfCurrent, TaskOf, Resumes, Begins, RspWorks, RspTypes, Kept0, Done0, Copies, Runs0, NoRspTask, Fresh, Working
<1> QED BY <1>1, <1>2, <1>3, <1>4 DEF RspInv

LEMMA RspYieldsKeeps ==
  ASSUME RspInv, RspYields
  PROVE  RspInv'
<1> USE RspTasksAssumption
<1>1. RspTypes'
  BY RspDefs DEF LoadInOrder, RspYields, RspTypes, Kept0, Done0, Copies, Runs0, NoRspTask, Fresh, Working
<1>2. LoadInOrder'
  BY RspDefs DEF LoadInOrder, RspYields, RspTypes, Kept0, Done0, Copies, Runs0, NoRspTask, Fresh, Working
<1>3. ASSUME NEW t \in RTasks PROVE TaskOf(t)'
  BY RspDefs DEF LoadInOrder, WorkOfCurrent, TaskOf, Resumes, Begins, RspYields, RspTypes, Kept0, Done0, Copies, Runs0, NoRspTask, Fresh, Working
<1>4. WorkOfCurrent'
  BY RspDefs DEF LoadInOrder, WorkOfCurrent, TaskOf, Resumes, Begins, RspYields, RspTypes, Kept0, Done0, Copies, Runs0, NoRspTask, Fresh, Working
<1> QED BY <1>1, <1>2, <1>3, <1>4 DEF RspInv

LEMMA RspEndsKeeps ==
  ASSUME RspInv, RspEnds
  PROVE  RspInv'
<1> USE RspTasksAssumption
<1>1. RspTypes'
  BY RspDefs DEF LoadInOrder, RspEnds, RspTypes, Kept0, Done0, Copies, Runs0, NoRspTask, Fresh, Working
<1>2. LoadInOrder'
  BY RspDefs DEF LoadInOrder, RspEnds, RspTypes, Kept0, Done0, Copies, Runs0, NoRspTask, Fresh, Working
<1>3. ASSUME NEW t \in RTasks PROVE TaskOf(t)'
  BY RspDefs DEF LoadInOrder, WorkOfCurrent, TaskOf, Resumes, Begins, RspEnds, RspTypes, Kept0, Done0, Copies, Runs0, NoRspTask, Fresh, Working
<1>4. WorkOfCurrent'
  BY RspDefs DEF LoadInOrder, WorkOfCurrent, TaskOf, Resumes, Begins, RspEnds, RspTypes, Kept0, Done0, Copies, Runs0, NoRspTask, Fresh, Working
<1> QED BY <1>1, <1>2, <1>3, <1>4 DEF RspInv

LEMMA TaskYieldedKeeps ==
  ASSUME RspInv, TaskYielded
  PROVE  RspInv'
<1> USE RspTasksAssumption
<1>1. RspTypes'
  BY RspDefs DEF LoadInOrder, TaskYielded, RspTypes, Kept0, Done0, Copies, Runs0, NoRspTask, Fresh
<1>2. LoadInOrder'
  BY RspDefs DEF LoadInOrder, TaskYielded, RspTypes, Kept0, Done0, Copies, Runs0, NoRspTask, Fresh
<1>3. ASSUME NEW t \in RTasks PROVE TaskOf(t)'
  BY RspDefs DEF LoadInOrder, WorkOfCurrent, TaskOf, Resumes, Begins, TaskYielded, RspTypes, Kept0, Done0, Copies, Runs0, NoRspTask, Fresh
<1>4. WorkOfCurrent'
  BY RspDefs DEF LoadInOrder, WorkOfCurrent, TaskOf, Resumes, Begins, TaskYielded, RspTypes, Kept0, Done0, Copies, Runs0, NoRspTask, Fresh
<1> QED BY <1>1, <1>2, <1>3, <1>4 DEF RspInv

LEMMA RspInvHolds == RspSpec => []RspInv
<1>1. RspInit => RspInv
  <2> SUFFICES ASSUME RspInit PROVE RspInv
    OBVIOUS
  <2>1. RspTypes
    BY DEF RspInit, RspTypes, Kept0, Done0, NoRspTask, Fresh
  <2>2. LoadInOrder
    BY DEF RspInit, LoadInOrder, NoRspTask
  <2>3. ASSUME NEW t \in RTasks PROVE TaskOf(t)
    BY RspTasksAssumption DEF RspInit, TaskOf, Begins, Fresh
  <2>4. WorkOfCurrent
    BY DEF RspInit, WorkOfCurrent
  <2> QED BY <2>1, <2>2, <2>3, <2>4 DEF RspInv
<1>2. RspInv /\ [RspNext]_rspVars => RspInv'
  <2> SUFFICES ASSUME RspInv, [RspNext]_rspVars PROVE RspInv'
    OBVIOUS
  <2>1. CASE UNCHANGED rspVars
    BY <2>1 DEF rspVars, RspInv, LoadInOrder, WorkOfCurrent, TaskOf, Resumes, Begins, RspTypes
  <2>2. CASE TransferEnds
    BY <2>2, TransferEndsKeeps
  <2>3. CASE TaskLoad
    BY <2>3, TaskLoadKeeps
  <2>4. CASE LoadBoot
    BY <2>4, LoadBootKeeps
  <2>5. CASE TaskStartGo
    BY <2>5, TaskStartGoKeeps
  <2>6. CASE TaskYield
    BY <2>6, TaskYieldKeeps
  <2>7. CASE RspWorks
    BY <2>7, RspWorksKeeps
  <2>8. CASE RspYields
    BY <2>8, RspYieldsKeeps
  <2>9. CASE RspEnds
    BY <2>9, RspEndsKeeps
  <2>10. CASE TaskYielded
    BY <2>10, TaskYieldedKeeps
  <2> QED BY <2>1, <2>2, <2>3, <2>4, <2>5, <2>6, <2>7, <2>8, <2>9, <2>10 DEF RspNext
<1> QED BY <1>1, <1>2, PTL DEF RspSpec

\* Whenever and however often a task is asked to yield, each of its pieces is done once and in order,
\* with the microcode it had reached, and the RSP runs no task before it is loaded: for all tasks and
\* lengths (osSpTaskLoad, osSpTaskStartGo, osSpTaskYielded).
THEOREM TasksResume == RspSpec => []WorkDoneOnce
<1>1. RspInv => WorkDoneOnce
  BY DEF RspInv, TaskOf, WorkDoneOnce
<1> QED BY <1>1, RspInvHolds, PTL

------------------------------------------------------------------------------
LEMMA DivisionAddsUp ==
  ASSUME NEW a \in Nat, NEW u \in Nat \ {0}
  PROVE  a = (u * (a \div u)) + (a % u) /\ a % u \in 0 .. u - 1 /\ a \div u \in Nat
OBVIOUS

(***************************************************************************)
(* The audio interface                                                     *)
(***************************************************************************)

\* Whether the interface moves the n-th of its buffers: the one before it, that still
\* plays or was the last, ends at a multiple of Turn.
MovedOn(n) == (n = 1 /\ carry) \/ (n > 1 /\ BugNext(wanted[n - 1]))
AsQueued(n) ==
  /\ fifo[n][2] = wanted[n][2]
  /\ fifo[n][1] = IF MovedOn(n) THEN wanted[n][1] - Turn ELSE wanted[n][1]

AiTypes ==
  /\ fifo \in Seq(Int \X Nat) /\ wanted \in Seq(Nat \X Nat) /\ Len(fifo) = Len(wanted)
  /\ carry \in BOOLEAN /\ hdwrBugFlag \in BOOLEAN /\ misplaced \in BOOLEAN
AiInv ==
  /\ AiTypes /\ ~misplaced
  /\ \A n \in 1..Len(fifo) : AsQueued(n)
  /\ hdwrBugFlag <=> MovedOn(Len(wanted) + 1)

LEMMA BuffersQueued ==
  ASSUME AiInv, SetNextBuffer
  PROVE  AiInv'
<1>1. PICK b \in Buffers0 :
        /\ fifo' = Append(fifo, << IF hdwrBugFlag THEN b[1] - Turn ELSE b[1], b[2] >>)
        /\ hdwrBugFlag' = BugNext(b)
        /\ wanted' = Append(wanted, b)
  BY DEF SetNextBuffer
<1>2. b \in Nat \X Nat /\ b[1] \in Nat /\ b[2] \in Nat /\ Turn \in Nat
  BY AudioOutAssumption
<1>3. PICK a : a = (IF hdwrBugFlag THEN b[1] - Turn ELSE b[1])
  OBVIOUS
<1> a \in Int
  <2>1. CASE hdwrBugFlag
    BY <1>2, <1>3, <2>1
  <2>2. CASE ~hdwrBugFlag
    BY <1>2, <1>3, <2>2
  <2> QED BY <2>1, <2>2
<1>4. PICK c : c = << a, b[2] >>
  OBVIOUS
<1>5. fifo' = Append(fifo, c) /\ c \in Int \X Nat /\ c[1] = a /\ c[2] = b[2]
  BY <1>1, <1>2, <1>3, <1>4
<1>6. /\ fifo' \in Seq(Int \X Nat) /\ wanted' \in Seq(Nat \X Nat)
      /\ Len(fifo') = Len(fifo) + 1 /\ Len(wanted') = Len(wanted) + 1 /\ Len(fifo) = Len(wanted)
      /\ Len(fifo) \in Nat
      /\ \A n \in 1..Len(fifo) : fifo'[n] = fifo[n] /\ wanted'[n] = wanted[n]
      /\ fifo'[Len(fifo) + 1] = c /\ wanted'[Len(fifo) + 1] = b
  BY <1>1, <1>2, <1>5 DEF AiInv, AiTypes
<1>7. carry' = carry /\ misplaced' = misplaced
  BY DEF SetNextBuffer
<1>8. AiTypes'
  BY <1>1, <1>6, <1>7 DEF AiInv, AiTypes, BugNext
<1>9. ASSUME NEW n \in 1..Len(fifo) + 1 PROVE MovedOn(n)' <=> MovedOn(n)
  <2>1. CASE n = 1
    BY <2>1, <1>7 DEF MovedOn
  <2>2. CASE n # 1
    <3>1. PICK k \in Nat : k = Len(fifo) /\ \A i \in 1..k : wanted'[i] = wanted[i]
      BY <1>6
    <3>2. n \in 1..k + 1 /\ n \in Int
      BY <3>1
    <3>3. n - 1 \in 1..k /\ n > 1
      BY <2>2, <3>2
    <3>4. wanted'[n - 1] = wanted[n - 1]
      BY <3>1, <3>3
    <3> QED BY <2>2, <3>3, <3>4 DEF MovedOn, BugNext
  <2> QED BY <2>1, <2>2
<1>10. ASSUME NEW n \in 1..Len(fifo') PROVE AsQueued(n)'
  <2>1. CASE n \in 1..Len(fifo)
    <3>1. AsQueued(n) /\ (MovedOn(n)' <=> MovedOn(n)) /\ fifo'[n] = fifo[n] /\ wanted'[n] = wanted[n]
      BY <2>1, <1>6, <1>9 DEF AiInv
    <3> QED BY <3>1 DEF AsQueued
  <2>2. CASE n = Len(fifo) + 1
    <3>1. hdwrBugFlag <=> MovedOn(n)'
      BY <2>2, <1>6, <1>9 DEF AiInv
    <3> QED BY <2>2, <3>1, <1>3, <1>4, <1>6 DEF AsQueued
  <2> QED BY <2>1, <2>2, <1>6
<1>11. hdwrBugFlag' <=> MovedOn(Len(wanted) + 1)'
  BY <1>1, <1>6 DEF MovedOn
<1> QED BY <1>6, <1>7, <1>8, <1>10, <1>11 DEF AiInv, MovedOn, BugNext

LEMMA BuffersPlayed ==
  ASSUME AiInv, BufferEnds
  PROVE  AiInv'
<1>1. /\ fifo \in Seq(Int \X Nat) /\ wanted \in Seq(Nat \X Nat) /\ fifo # << >> /\ wanted # << >>
      /\ Len(fifo) = Len(wanted) /\ Len(fifo) \in Nat \ {0}
  BY DEF AiInv, AiTypes, BufferEnds
<1>2. /\ fifo' = Tail(fifo) /\ wanted' = Tail(wanted) /\ hdwrBugFlag' = hdwrBugFlag
  BY DEF BufferEnds
<1>3. /\ fifo' \in Seq(Int \X Nat) /\ wanted' \in Seq(Nat \X Nat)
      /\ Len(fifo') = Len(fifo) - 1 /\ Len(wanted') = Len(fifo) - 1
      /\ \A n \in 1..Len(fifo) - 1 : fifo'[n] = fifo[n + 1] /\ wanted'[n] = wanted[n + 1]
  BY <1>1, <1>2
<1>4. fifo[1] \in Int \X Nat /\ wanted[1] \in Nat \X Nat /\ Turn \in Nat
  BY <1>1, AudioOutAssumption
<1>5. fifo[1][1] + (IF carry THEN Turn ELSE 0) = wanted[1][1] /\ fifo[1][2] = wanted[1][2]
  BY <1>1, <1>4 DEF AiInv, AsQueued, MovedOn
<1>6. misplaced' = misplaced /\ carry' = BugNext(wanted[1])
  BY <1>5 DEF BufferEnds, BugNext, AiInv, AiTypes
<1>7. ASSUME NEW n \in 1..Len(fifo) PROVE MovedOn(n)' <=> MovedOn(n + 1)
  <2>1. CASE n = 1
    <3>1. MovedOn(1)' <=> carry'
      BY DEF MovedOn
    <3>2. MovedOn(2) <=> BugNext(wanted[1])
      BY DEF MovedOn
    <3> QED BY <1>6, <2>1, <3>1, <3>2
  <2>2. CASE n # 1
    <3>0. PICK i \in 1..Len(fifo) - 1 : i = n - 1
      BY <2>2, <1>1
    <3>1. wanted'[n - 1] = wanted[(n + 1) - 1] /\ n > 1 /\ n + 1 > 1 /\ n + 1 # 1
      BY <1>1, <1>3, <2>2, <3>0
    <3> QED BY <2>2, <3>1 DEF MovedOn, BugNext
  <2> QED BY <2>1, <2>2
<1>8. AiTypes'
  BY <1>2, <1>3, <1>6 DEF AiInv, AiTypes, BugNext
<1>9. ASSUME NEW n \in 1..Len(fifo') PROVE AsQueued(n)'
  <2>1. AsQueued(n + 1)
    BY <1>1, <1>3 DEF AiInv
  <2>2. n \in 1..Len(fifo) - 1 /\ n \in 1..Len(fifo)
    BY <1>1, <1>3
  <2>3. fifo'[n] = fifo[n + 1] /\ wanted'[n] = wanted[n + 1]
    BY <1>3, <2>2
  <2>4. MovedOn(n)' <=> MovedOn(n + 1)
    BY <1>7, <2>2
  <2> QED BY <2>1, <2>3, <2>4 DEF AsQueued
<1>10. hdwrBugFlag' <=> MovedOn(Len(wanted) + 1)'
  <2>1. PICK k \in Nat \ {0} : k = Len(fifo) /\ Len(wanted) = k /\ Len(wanted') + 1 = k
    BY <1>1, <1>3
  <2>2. hdwrBugFlag <=> BugNext(wanted[k])
    <3>1. k + 1 # 1 /\ k + 1 > 1 /\ (k + 1) - 1 = k
      OBVIOUS
    <3>2. hdwrBugFlag <=> MovedOn(k + 1)
      BY <2>1 DEF AiInv
    <3> QED BY <3>1, <3>2 DEF MovedOn
  <2>3. MovedOn(Len(wanted) + 1)' <=> (k = 1 /\ carry') \/ (k > 1 /\ BugNext(wanted'[k - 1]))
    BY <2>1 DEF MovedOn, BugNext
  <2>4. k > 1 => wanted'[k - 1] = wanted[k]
    <3>1. \A n \in 1..k - 1 : wanted'[n] = wanted[n + 1]
      BY <1>3, <2>1
    <3>2. k > 1 => k - 1 \in 1..k - 1 /\ (k - 1) + 1 = k
      OBVIOUS
    <3> QED BY <3>1, <3>2
  <2>5. CASE k = 1
    <3>1. carry' <=> BugNext(wanted[k])
      BY <1>6, <2>5
    <3>2. hdwrBugFlag' <=> BugNext(wanted[k])
      BY <1>2, <2>2
    <3>3. ~(k > 1)
      BY <2>5
    <3>4. MovedOn(Len(wanted) + 1)' <=> carry'
      BY <2>3, <2>5, <3>3
    <3> QED BY <3>1, <3>2, <3>4
  <2>6. CASE k > 1
    <3>1. hdwrBugFlag' <=> BugNext(wanted[k])
      BY <1>2, <2>2
    <3>2. MovedOn(Len(wanted) + 1)' <=> BugNext(wanted[k])
      BY <2>3, <2>4, <2>6
    <3> QED BY <3>1, <3>2
  <2> QED BY <2>5, <2>6
<1> QED BY <1>6, <1>8, <1>9, <1>10 DEF AiInv, MovedOn, BugNext

------------------------------------------------------------------------------
\* No frequency is so low that the bit rate does not fit the unsigned char it is put into.
NoneTooLow ==
  \A c \in Clocks, f \in Frequencies : ((2 * c + f) \div (2 * f)) \div 66 < 256

RatesFit == \E c \in Clocks, f \in Frequencies : rates = [clock |-> c, f |-> f, set |-> SetFrequency(c, f)]

\* What the period d is of the clock c and the frequency f
IsNearest(c, f, d) == 2 * (d * f - c) <= f /\ -2 * (d * f - c) <= f

LEMMA DoublesOf ==
  ASSUME NEW d \in Nat, NEW f \in Nat
  PROVE  (2 * f) * d = 2 * (d * f) /\ d * f \in Nat
OBVIOUS

LEMMA NearestPeriod ==
  ASSUME NEW c \in Nat, NEW f \in Nat \ {0}
  PROVE  LET d == (2 * c + f) \div (2 * f) IN d \in Nat /\ IsNearest(c, f, d)
<1>1. PICK n \in Nat : n = 2 * c + f
  OBVIOUS
<1>2. PICK m \in Nat \ {0} : m = 2 * f
  OBVIOUS
<1>3. PICK d : d = n \div m
  OBVIOUS
<1>4. PICK r : r = n % m
  OBVIOUS
<1>5. n = (m * d) + r /\ r \in 0 .. m - 1 /\ d \in Nat
  BY <1>3, <1>4, DivisionAddsUp
<1>6. PICK p \in Nat : p = d * f /\ m * d = 2 * p
  BY <1>2, <1>5, DoublesOf
<1>7. 2 * (p - c) <= f /\ -2 * (p - c) <= f
  BY <1>1, <1>2, <1>5, <1>6
<1> QED BY <1>1, <1>2, <1>3, <1>5, <1>6, <1>7 DEF IsNearest

LEMMA BitRateFits ==
  ASSUME NEW d \in Nat, d >= MinDacRate, d \div 66 < 256
  PROVE  BitRate(d) \in 2..MaxBitRate /\ d >= 66 * BitRate(d)
<1>1. PICK q \in Nat : q = d \div 66 /\ 66 * q <= d /\ q >= 2 /\ q < 256
  BY DEF MinDacRate
<1>2. q % 256 = q
  BY <1>1
<1> QED BY <1>1, <1>2 DEF BitRate, MaxBitRate, LessOf

LEMMA RatesAreKept == AiSpec => []RatesFit
<1>1. AiInit => RatesFit
  BY DEF AiInit, RatesFit
<1>2. RatesFit /\ [AiNext]_aiVars => RatesFit'
  BY DEF RatesFit, AiNext, aiVars, SetNextBuffer, BufferEnds
<1> QED BY <1>1, <1>2, PTL DEF AiSpec

LEMMA RatesAsAsked ==
  ASSUME NoneTooLow, RatesFit, ~rates.set.refused
  PROVE  /\ rates.set.bit \in 2..MaxBitRate /\ rates.set.dac >= 66 * rates.set.bit
         /\ LET apart == rates.set.dac * rates.f - rates.clock
            IN 2 * apart <= rates.f /\ -2 * apart <= rates.f
<1>1. PICK c \in Clocks, f \in Frequencies :
        rates = [clock |-> c, f |-> f, set |-> SetFrequency(c, f)]
  BY DEF RatesFit
<1>2. c \in Nat /\ f \in Nat \ {0}
  BY AudioOutAssumption
<1>3. PICK d : d = (2 * c + f) \div (2 * f)
  OBVIOUS
<1>4. d \in Nat /\ IsNearest(c, f, d) /\ d \div 66 < 256
  BY <1>2, <1>3, NearestPeriod DEF NoneTooLow
<1>5. rates.clock = c /\ rates.f = f /\ rates.set = SetFrequency(c, f)
  BY <1>1
<1>6. d >= MinDacRate /\ rates.set.dac = d /\ rates.set.bit = BitRate(d)
  BY <1>3, <1>4, <1>5 DEF SetFrequency, MinDacRate
<1> QED BY <1>4, <1>5, <1>6, BitRateFits DEF IsNearest

LEMMA AiInvHolds == AiSpec => []AiInv
<1>1. AiInit => AiInv
  <2> SUFFICES ASSUME AiInit PROVE AiInv
    OBVIOUS
  <2>1. /\ fifo = << >> /\ wanted = << >> /\ Len(fifo) = 0 /\ Len(wanted) = 0 /\ ~carry /\ ~hdwrBugFlag
        /\ ~misplaced /\ carry \in BOOLEAN /\ hdwrBugFlag \in BOOLEAN /\ misplaced \in BOOLEAN
    BY DEF AiInit
  <2>2. fifo \in Seq(Int \X Nat) /\ wanted \in Seq(Nat \X Nat)
    BY <2>1
  <2> QED BY <2>1, <2>2 DEF AiInv, AiTypes, MovedOn
<1>2. AiInv /\ [AiNext]_aiVars => AiInv'
  <2>1. ASSUME AiInv, UNCHANGED aiVars PROVE AiInv'
    BY <2>1 DEF aiVars, AiInv, AiTypes, AsQueued, MovedOn, BugNext
  <2> QED BY <2>1, BuffersQueued, BuffersPlayed DEF AiNext
<1> QED BY <1>1, <1>2, PTL DEF AiSpec

(* Every buffer plays from its own place, and a frequency that is not refused
   gives rates the hardware can have, unless it is so low that the bit rate
   does not fit (osAiSetNextBuffer, osAiSetFrequency). *)
THEOREM BuffersInPlace ==
  ASSUME NoneTooLow
  PROVE  AiSpec => []AudioAsAsked
<1>1. AiInv /\ RatesFit => AudioAsAsked
  BY RatesAsAsked DEF AiInv, AudioAsAsked
<1> QED BY <1>1, AiInvHolds, RatesAreKept, PTL

------------------------------------------------------------------------------
(* The caches *)

(* What the processor's caches hold.  A line is what was put there last, and
   memory is too if it was not written; what memory lacks is held, unless a
   device is about to write it. *)
LineHolds(l, i) ==
  /\ l = [at |-> l.at, dirty |-> l.dirty, data |-> l.data]
  /\ l.at \in LinesOf(DLine) /\ DIndex(l.at) = i /\ l.dirty \in BOOLEAN
  /\ l.data = [b \in InLine(l.at, DLine) |-> truth[b]]
  /\ l.at \notin Lines0(device)
  /\ ~l.dirty => \A b \in InLine(l.at, DLine) : mem[b] = truth[b]

\* A line of code is as it was put there, but for what changed since.
CodeHolds(l) ==
  /\ l = [at |-> l.at, dirty |-> l.dirty, data |-> l.data]
  /\ l.at \in LinesOf(ILine)
  /\ \A b \in DOMAIN l.data : b \in InLine(l.at, ILine) /\ (b \in changed \/ l.data[b] = truth[b])

DIndexes == 0..(DSize \div DLine - 1)
IIndexes == 0..(ISize \div ILine - 1)

CacheTypes ==
  /\ mem = [b \in Bytes0 |-> mem[b]] /\ truth = [b \in Bytes0 |-> truth[b]]
  /\ \A b \in Bytes0 : truth[b] \in {0, 1}
  /\ dcache = [i \in DIndexes |-> dcache[i]] /\ icache = [i \in IIndexes |-> icache[i]]
  /\ device = << 0, 0 >> \/ device \in Spans

StaleIsHeld ==
  \A b \in Bytes0 \ Range0(device) : mem[b] # truth[b] => dcache[DIndex(LineAt(b, DLine))].at = LineAt(b, DLine)

CodeFits == \A i \in IIndexes : icache[i] = NoLine \/ CodeHolds(icache[i])
LinesFit == \A i \in DIndexes : dcache[i] = NoLine \/ LineHolds(dcache[i], i)
UnchangedFits == \A b \in Bytes0 \ changed : mem[b] = truth[b]

CacheInv == CacheTypes /\ ~staleSent /\ StaleIsHeld /\ LinesFit /\ CodeFits /\ UnchangedFits

------------------------------------------------------------------------------
(* Lines of bytes *)

MultipleOf(a, k) == \E q \in Int : a = q * k

LEMMA LineBegins ==
  ASSUME NEW x \in Int, NEW k \in Nat \ {0}
  PROVE  /\ LineAt(x, k) \in Int /\ MultipleOf(LineAt(x, k), k)
         /\ LineAt(x, k) <= x /\ x < LineAt(x, k) + k
<1>1. x % k = x - (x \div k) * k /\ x \div k \in Int /\ x % k \in 0..(k - 1)
  OBVIOUS
<1>2. PICK q \in Int, m \in 0..(k - 1) : q = x \div k /\ m = x % k
  BY <1>1
<1>3. PICK y \in Int : y = q * k
  OBVIOUS
<1>4. m = x - y /\ LineAt(x, k) = y
  BY <1>1, <1>2, <1>3 DEF LineAt
<1>5. MultipleOf(y, k)
  BY <1>3 DEF MultipleOf
<1> QED BY <1>4, <1>5

LEMMA LinesApart ==
  ASSUME NEW a \in Int, NEW b \in Int, NEW k \in Nat \ {0}, MultipleOf(a, k), MultipleOf(b, k), a < b
  PROVE  a + k <= b
<1>1. PICK p \in Int, q \in Int : a = p * k /\ b = q * k
  BY DEF MultipleOf
<1>2. p < q
  <2> SUFFICES ASSUME q < p PROVE FALSE
    BY <1>1
  <2> QED BY <1>1, Multiples
<1> QED BY <1>1, <1>2, Multiples

LEMMA OneLine ==
  ASSUME NEW a \in Int, NEW x \in Int, NEW k \in Nat \ {0}, MultipleOf(a, k), a <= x, x < a + k
  PROVE  LineAt(x, k) = a
<1>1. PICK y \in Int : y = LineAt(x, k) /\ MultipleOf(y, k) /\ y <= x /\ x < y + k
  BY LineBegins
<1>2. ~(a < y)
  <2> SUFFICES ASSUME a < y PROVE FALSE
    OBVIOUS
  <2> QED BY <1>1, LinesApart
<1>3. ~(y < a)
  <2> SUFFICES ASSUME y < a PROVE FALSE
    OBVIOUS
  <2> QED BY <1>1, LinesApart
<1> QED BY <1>1, <1>2, <1>3

LEMMA LineIsMultiple ==
  ASSUME NEW a \in Int, NEW k \in Nat \ {0}
  PROVE  MultipleOf(a, k) <=> a % k = 0
<1>1. a % k \in Int
  OBVIOUS
<1>2. ASSUME MultipleOf(a, k) PROVE a % k = 0
  <2>1. LineAt(a, k) = a
    BY <1>2, OneLine
  <2> QED BY <1>1, <2>1 DEF LineAt
<1>3. ASSUME a % k = 0 PROVE MultipleOf(a, k)
  <2>1. LineAt(a, k) = a
    BY <1>3 DEF LineAt
  <2> QED BY <2>1, LineBegins
<1> QED BY <1>2, <1>3

LEMMA NextLine ==
  ASSUME NEW a \in Int, NEW k \in Nat \ {0}, MultipleOf(a, k)
  PROVE  MultipleOf(a + k, k)
<1>1. PICK q \in Int : a = q * k
  BY DEF MultipleOf
<1>2. a + k = (q + 1) * k /\ q + 1 \in Int
  BY <1>1
<1> QED BY <1>2 DEF MultipleOf

LEMMA LinesInOrder ==
  ASSUME NEW x \in Int, NEW y \in Int, NEW k \in Nat \ {0}, x <= y
  PROVE  LineAt(x, k) <= LineAt(y, k)
<1>1. PICK c \in Int, d \in Int :
        /\ c = LineAt(x, k) /\ MultipleOf(c, k) /\ c <= x /\ x < c + k
        /\ d = LineAt(y, k) /\ MultipleOf(d, k) /\ d <= y /\ y < d + k
  BY LineBegins
<1>2. ~(d < c)
  <2> SUFFICES ASSUME d < c PROVE FALSE
    OBVIOUS
  <2> QED BY <1>1, LinesApart
<1> QED BY <1>1, <1>2

LEMMA SizesOfLines ==
  /\ DLine \in Nat \ {0} /\ ILine \in Nat \ {0} /\ \A k \in {DLine, ILine} : k \in Nat \ {0}
  /\ Bytes0 \subseteq Nat
BY CachesAssumption

LEMMA BytesHaveLines ==
  ASSUME NEW b \in Bytes0, NEW k \in {DLine, ILine}
  PROVE  LineAt(b, k) \in LinesOf(k) /\ b \in InLine(LineAt(b, k), k)
<1>1. k \in Nat \ {0} /\ b \in Int
  BY SizesOfLines
<1>2. PICK a \in Int : a = LineAt(b, k) /\ MultipleOf(a, k) /\ a <= b /\ b < a + k
  BY <1>1, LineBegins
<1>3. a..(a + k - 1) \subseteq Bytes0
  BY <1>2, CachesAssumption DEF LineAt
<1>4. a % k = 0 /\ a \in Bytes0 /\ b \in a..(a + k - 1)
  BY <1>1, <1>2, <1>3, LineIsMultiple
<1> QED BY <1>2, <1>4 DEF LinesOf, InLine

LEMMA BytesOfLine ==
  ASSUME NEW k \in {DLine, ILine}, NEW a \in LinesOf(k), NEW b \in InLine(a, k)
  PROVE  a \in Nat /\ MultipleOf(a, k) /\ b \in Bytes0 /\ LineAt(b, k) = a
<1>1. k \in Nat \ {0} /\ a \in Bytes0 /\ a \in Nat /\ a % k = 0
  BY SizesOfLines DEF LinesOf
<1>2. MultipleOf(a, k)
  BY <1>1, LineIsMultiple
<1>3. b \in Int /\ a <= b /\ b < a + k
  BY <1>1 DEF InLine
<1>4. LineAt(a, k) = a
  BY <1>1, <1>2, OneLine
<1>5. a..(a + k - 1) \subseteq Bytes0
  BY <1>1, <1>4, CachesAssumption DEF LineAt
<1> QED BY <1>1, <1>2, <1>3, <1>5, OneLine

------------------------------------------------------------------------------
(* Which lines a call names *)

LEMMA SpanFields ==
  ASSUME NEW s \in Spans
  PROVE  s[1] \in Nat /\ s[2] \in Int /\ Range0(s) \subseteq Bytes0 /\ Range0(s) = s[1]..(s[1] + s[2] - 1)
<1>1. s \in Nat \X Int
  BY CachesAssumption
<1> QED BY <1>1, CachesAssumption DEF Range0

LEMMA LoopNames ==
  ASSUME NEW k \in {DLine, ILine}, NEW s \in Spans, NEW b \in Range0(s)
  PROVE  LineAt(b, k) \in LoopLines(s[1] - (s[1] % k), s[1] + s[2] - k, k)
<1>1. s[1] \in Nat /\ s[2] \in Int /\ b \in Bytes0 /\ b \in s[1]..(s[1] + s[2] - 1) /\ k \in Nat \ {0} /\ b \in Int
  BY SpanFields, SizesOfLines
<1>2. PICK x \in Int : x = s[1] /\ x <= b
  BY <1>1
<1>3. PICK a \in Int, t0 \in Int : a = LineAt(b, k) /\ a <= b /\ t0 = LineAt(s[1], k) /\ t0 <= a
  <2>1. LineAt(b, k) \in Int /\ LineAt(b, k) <= b /\ LineAt(x, k) \in Int
    BY <1>1, LineBegins
  <2>2. LineAt(x, k) <= LineAt(b, k)
    BY <1>2, <1>1, LinesInOrder
  <2> QED BY <1>2, <2>1, <2>2
<1>4. a \in LinesOf(k)
  BY <1>1, <1>3, BytesHaveLines
<1>5. a - k < s[1] + s[2] - k
  BY <1>1, <1>3
<1> QED BY <1>3, <1>4, <1>5 DEF LoopLines, LineAt

\* Tail0 of lines from t on, to a span that ends at e + DLine
LEMMA TailNames ==
  ASSUME NEW back, NEW t \in Int, NEW e \in Int, MultipleOf(t, DLine), t < e + DLine
  PROVE  \E d : /\ d = Tail0(back, t, e) /\ back \subseteq d.back
                /\ \A a \in LinesOf(DLine) : t <= a /\ a < e + DLine => a \in d.back \cup d.only
                /\ \A a \in d.only : a \in LinesOf(DLine) /\ t <= a /\ a <= e
<1>1. PICK k \in Nat \ {0} : k = DLine
  BY SizesOfLines
<1>2. PICK y \in Int : y = e - (e % k) /\ MultipleOf(y, k) /\ y <= e /\ e < y + k
  BY LineBegins DEF LineAt
<1>3. \A a \in LinesOf(k) : a \in Int /\ MultipleOf(a, k)
  BY <1>1, SizesOfLines, LineIsMultiple DEF LinesOf
<1>4. CASE e % k = 0
  <2>1. PICK d : d = [back |-> back, only |-> LoopLines(t, e, k)] /\ d = Tail0(back, t, e)
    BY <1>1, <1>4 DEF Tail0
  <2>2. t <= e
    <3> SUFFICES ASSUME e < t PROVE FALSE
      OBVIOUS
    <3>1. MultipleOf(e, k) /\ MultipleOf(t, k) /\ t < e + k
      BY <1>1, <1>4, LineIsMultiple
    <3> QED BY <3>1, LinesApart
  <2>3. ASSUME NEW a \in LinesOf(k), t <= a, a < e + k PROVE a \in d.only
    BY <2>1, <2>3, <1>3 DEF LoopLines
  <2>4. ASSUME NEW a \in d.only PROVE a \in LinesOf(k) /\ t <= a /\ a <= e
    <3>1. a \in LinesOf(k) /\ (a = t \/ (a > t /\ a - k < e))
      BY <2>1, <2>4 DEF LoopLines
    <3>2. a \in Int /\ MultipleOf(a, k) /\ MultipleOf(e, k) /\ (a < e + k \/ a = t)
      BY <3>1, <1>3, <1>4, LineIsMultiple
    <3>3. CASE a = t
      BY <3>1, <3>3, <2>2
    <3>4. CASE a # t
      <4> SUFFICES ASSUME e < a PROVE FALSE
        BY <3>1, <3>2, <3>4
      <4> QED BY <3>2, <3>4, LinesApart
    <3> QED BY <3>3, <3>4
  <2> QED BY <1>1, <2>1, <2>3, <2>4
<1>5. CASE e % k # 0
  <2>1. PICK lines : lines = IF y < t THEN {} ELSE LoopLines(t, y, k)
    OBVIOUS
  <2>2. PICK d : d = [back |-> back \cup {y + k}, only |-> lines] /\ d = Tail0(back, t, e)
    BY <1>1, <1>2, <1>5, <2>1 DEF Tail0
  <2>3. ASSUME NEW a \in LinesOf(k), t <= a, a < e + k PROVE a \in d.back \cup d.only
    <3>1. a \in Int /\ MultipleOf(a, k) /\ MultipleOf(y + k, k)
      BY <1>2, <1>3, <2>3, NextLine
    <3>2. CASE y + k < a
      BY <1>2, <2>3, <3>1, <3>2, LinesApart
    <3>3. CASE a = y + k
      BY <2>2, <3>3
    <3>4. CASE a < y + k
      <4>1. a <= y
        BY <1>2, <3>1, <3>4, LinesApart
      <4>2. a \in LoopLines(t, y, k)
        <5>1. a - k < y
          BY <1>2, <3>1, <4>1
        <5> QED BY <1>2, <2>3, <3>1, <5>1 DEF LoopLines
      <4>3. ~(y < t)
        BY <1>2, <2>3, <3>1, <4>1
      <4>4. lines = LoopLines(t, y, k) /\ d.only = lines
        BY <2>1, <2>2, <4>3
      <4> QED BY <4>2, <4>4
    <3>5. y + k < a \/ a = y + k \/ a < y + k
      BY <1>2, <3>1
    <3> QED BY <3>2, <3>3, <3>4, <3>5
  <2>4. ASSUME NEW a \in d.only PROVE a \in LinesOf(k) /\ t <= a /\ a <= e
    <3>1. ~(y < t) /\ a \in LinesOf(k) /\ (a = t \/ (a > t /\ a - k < y))
      BY <2>1, <2>2, <2>4 DEF LoopLines
    <3>2. a \in Int /\ MultipleOf(a, k)
      BY <1>3, <3>1
    <3>3. CASE a = t
      BY <1>2, <3>1, <3>3
    <3>4. CASE a # t
      <4>1. ASSUME y < a PROVE FALSE
        <5>1. y + k <= a
          BY <1>2, <3>2, <4>1, LinesApart
        <5> QED BY <1>2, <3>1, <3>2, <3>4, <5>1
      <4> QED BY <1>2, <3>1, <3>2, <3>4, <4>1
    <3> QED BY <3>3, <3>4
  <2> QED BY <1>1, <2>2, <2>3, <2>4
<1> QED BY <1>4, <1>5

\* osInvalDCache names every line of the span, and drops none but those that lie in it unwritten.
LEMMA InvalNames ==
  ASSUME NEW s \in Spans
  PROVE  \E d : /\ d = InvalDLines(s)
                /\ \A b \in Range0(s) : LineAt(b, DLine) \in d.back \cup d.only
                /\ \A a \in d.only : \A b \in InLine(a, DLine) : b \in Range0(s)
<1>1. PICK k \in Nat \ {0} : k = DLine
  BY SizesOfLines
<1>2. PICK x \in Nat, n \in Int : x = s[1] /\ n = s[2]
  BY SpanFields
<1>3. Range0(s) = x..(x + n - 1) /\ Range0(s) \subseteq Bytes0
  BY <1>2, SpanFields
<1>4. PICK t0 \in Int : t0 = x - (x % k) /\ t0 = LineAt(x, k) /\ MultipleOf(t0, k) /\ t0 <= x /\ x < t0 + k
  <2>1. x - (x % k) = LineAt(x, k) /\ x \in Int
    BY DEF LineAt
  <2>2. PICK y \in Int : y = LineAt(x, k) /\ MultipleOf(y, k) /\ y <= x /\ x < y + k
    BY <2>1, LineBegins
  <2> QED BY <2>1, <2>2
<1>5. InvalDLines(s) =
        IF n <= 0 THEN Nothing
        ELSE IF n >= DSize THEN [back |-> LinesOf(k), only |-> {}]
        ELSE IF x = t0 THEN Tail0({}, t0, x + n - k)
        ELSE IF t0 >= x + n - k THEN [back |-> {t0}, only |-> {}]
        ELSE Tail0({t0}, t0 + k, x + n - k)
  BY <1>1, <1>2, <1>4 DEF InvalDLines
<1>6. ASSUME NEW b \in Range0(s)
      PROVE  LineAt(b, k) \in LinesOf(k) /\ LineAt(b, k) \in Int /\ t0 <= LineAt(b, k) /\ LineAt(b, k) < x + n
  <2>1. b \in Bytes0 /\ b \in Int /\ x <= b /\ b < x + n
    BY <1>3, <1>6, SizesOfLines
  <2>2. LineAt(b, k) \in LinesOf(k) /\ LineAt(b, k) \in Int /\ LineAt(b, k) <= b
    BY <1>1, <2>1, BytesHaveLines, LineBegins
  <2>3. t0 <= LineAt(b, k)
    BY <1>4, <2>1, LinesInOrder
  <2> QED BY <2>1, <2>2, <2>3
<1>7. CASE n <= 0
  <2>1. InvalDLines(s) = Nothing /\ Range0(s) = {}
    BY <1>5, <1>3, <1>7
  <2> QED BY <2>1 DEF Nothing
<1>8. CASE n > 0 /\ n >= DSize
  <2>1. InvalDLines(s) = [back |-> LinesOf(k), only |-> {}]
    BY <1>5, <1>8
  <2> QED BY <1>1, <1>6, <2>1
<1>9. CASE n > 0 /\ ~(n >= DSize) /\ x = t0
  <2>1. PICK e \in Int : e = x + n - k
    OBVIOUS
  <2>2. InvalDLines(s) = Tail0({}, t0, e)
    BY <1>5, <1>9, <2>1
  <2>3. t0 < e + k
    BY <1>9, <2>1
  <2>4. PICK d : /\ d = Tail0({}, t0, e)
                 /\ \A a \in LinesOf(k) : t0 <= a /\ a < e + k => a \in d.back \cup d.only
                 /\ \A a \in d.only : a \in LinesOf(k) /\ t0 <= a /\ a <= e
    BY <1>1, <1>4, <2>3, TailNames
  <2>5. ASSUME NEW b \in Range0(s) PROVE LineAt(b, k) \in d.back \cup d.only
    <3>1. LineAt(b, k) < e + k
      BY <1>6, <2>1
    <3> QED BY <1>6, <2>4, <3>1
  <2>6. ASSUME NEW a \in d.only, NEW b \in InLine(a, k) PROVE b \in Range0(s)
    <3>1. a \in Nat /\ t0 <= a /\ a <= e
      BY <1>1, <2>4, <2>6, BytesOfLine
    <3> QED BY <1>3, <1>9, <2>1, <2>6, <3>1 DEF InLine
  <2> QED BY <1>1, <2>2, <2>4, <2>5, <2>6
<1>10. CASE n > 0 /\ ~(n >= DSize) /\ x # t0 /\ t0 >= x + n - k
  <2>1. InvalDLines(s) = [back |-> {t0}, only |-> {}]
    BY <1>5, <1>10
  <2>2. ASSUME NEW b \in Range0(s) PROVE LineAt(b, k) = t0
    <3>1. b \in Int /\ t0 <= b /\ b < t0 + k
      BY <1>3, <1>4, <1>10
    <3> QED BY <1>4, <3>1, OneLine
  <2> QED BY <1>1, <2>1, <2>2
<1>11. CASE n > 0 /\ ~(n >= DSize) /\ x # t0 /\ ~(t0 >= x + n - k)
  <2>1. PICK e \in Int, t \in Int : e = x + n - k /\ t = t0 + k
    OBVIOUS
  <2>2. InvalDLines(s) = Tail0({t0}, t, e)
    BY <1>5, <1>11, <2>1
  <2>3. t < e + k /\ MultipleOf(t, k)
    BY <1>4, <1>11, <2>1, NextLine
  <2>4. PICK d : /\ d = Tail0({t0}, t, e) /\ {t0} \subseteq d.back
                 /\ \A a \in LinesOf(k) : t <= a /\ a < e + k => a \in d.back \cup d.only
                 /\ \A a \in d.only : a \in LinesOf(k) /\ t <= a /\ a <= e
    BY <1>1, <2>3, TailNames
  <2>5. ASSUME NEW b \in Range0(s) PROVE LineAt(b, k) \in d.back \cup d.only
    <3>1. PICK a \in LinesOf(k) : a = LineAt(b, k) /\ a \in Int /\ t0 <= a /\ a < e + k
      BY <1>6, <2>1
    <3>2. CASE a = t0
      BY <2>4, <3>1, <3>2
    <3>3. CASE a # t0
      <4>1. MultipleOf(a, k)
        BY <1>1, <3>1, SizesOfLines, LineIsMultiple DEF LinesOf
      <4>2. t <= a
        BY <1>4, <2>1, <3>1, <3>3, <4>1, LinesApart
      <4> QED BY <2>4, <3>1, <4>2
    <3> QED BY <3>2, <3>3
  <2>6. ASSUME NEW a \in d.only, NEW b \in InLine(a, k) PROVE b \in Range0(s)
    <3>1. a \in Nat /\ t <= a /\ a <= e
      BY <1>1, <2>4, <2>6, BytesOfLine
    <3> QED BY <1>3, <1>4, <2>1, <2>6, <3>1 DEF InLine
  <2> QED BY <1>1, <2>2, <2>4, <2>5, <2>6
<1> QED BY <1>7, <1>8, <1>9, <1>10, <1>11

------------------------------------------------------------------------------
(* What is written back *)

WrittenTo(m, is) ==
  /\ m = [b \in Bytes0 |-> m[b]]
  /\ \A b \in Bytes0 : m[b] = truth[b] \/ m[b] = mem[b]
  /\ \A i \in is : \A b \in InLine(dcache[i].at, DLine) : m[b] = truth[b]

LEMMA CacheDefs ==
  ASSUME CacheInv
  PROVE  CacheTypes /\ ~staleSent /\ StaleIsHeld /\ LinesFit /\ CodeFits /\ UnchangedFits
BY DEF CacheInv

LEMMA IndexesOfLines ==
  /\ \A a \in LinesOf(DLine) : DIndex(a) \in DIndexes
  /\ \A a \in LinesOf(ILine) : IIndex(a) \in IIndexes
<1>1. ASSUME NEW a \in Nat, NEW k \in Nat \ {0}, NEW n \in Nat, n >= k
      PROVE  (a \div k) % (n \div k) \in 0..(n \div k - 1)
  <2>1. PICK q \in Int, m \in 0..(k - 1) : q = n \div k /\ n = q * k + m
    BY <1>1
  <2>2. q > 0
    <3> SUFFICES ASSUME q <= 0 PROVE FALSE
      OBVIOUS
    <3>1. CASE q = 0
      BY <2>1, <3>1, <1>1
    <3>2. CASE q < 0
      <4>1. q * k + k <= 0 * k
        BY <3>2, Multiples
      <4> QED BY <2>1, <4>1, <1>1
    <3> QED BY <3>1, <3>2
  <2>3. PICK p \in Int : p = a \div k
    BY <1>1
  <2>4. p % q \in 0..(q - 1)
    BY <2>2
  <2> QED BY <2>1, <2>3, <2>4
<1> QED BY <1>1, SizesOfLines, CachesAssumption DEF LinesOf, DIndex, IIndex, DIndexes, IIndexes

LEMMA NoLineFields == NoLine.at = -1 /\ NoLine.dirty = FALSE
BY DEF NoLine

LEMMA LineFields ==
  ASSUME NEW l, NEW i, LineHolds(l, i)
  PROVE  /\ l.at \in LinesOf(DLine) /\ l.at \in Nat /\ l # NoLine /\ DIndex(l.at) = i
         /\ DOMAIN l.data = InLine(l.at, DLine)
         /\ \A b \in InLine(l.at, DLine) : l.data[b] = truth[b] /\ b \in Bytes0 /\ LineAt(b, DLine) = l.at
<1>1. l.at \in LinesOf(DLine) /\ DIndex(l.at) = i /\ l.data = [b \in InLine(l.at, DLine) |-> truth[b]]
  BY DEF LineHolds
<1>2. l.at \in Nat
  BY <1>1, SizesOfLines DEF LinesOf
<1>3. \A b \in InLine(l.at, DLine) : b \in Bytes0 /\ LineAt(b, DLine) = l.at
  BY <1>1, BytesOfLine
<1> QED BY <1>1, <1>2, <1>3, NoLineFields

LEMMA LinesAreWritten ==
  ASSUME CacheInv, NEW lines, NEW is, is \subseteq Written(lines)
  PROVE  WrittenTo(MemWith(is), is)
<1>1. ASSUME NEW i \in is PROVE i \in DIndexes /\ LineHolds(dcache[i], i)
  <2>1. i \in DOMAIN dcache /\ dcache[i].dirty
    BY <1>1 DEF Written
  <2>2. i \in DIndexes
    BY <2>1, CacheDefs DEF CacheTypes
  <2> QED BY <2>1, <2>2, CacheDefs, NoLineFields DEF LinesFit
<1>2. ASSUME NEW b \in Bytes0, NEW i \in is, b \in DOMAIN dcache[i].data PROVE MemWith(is)[b] = truth[b]
  <2>1. PICK c \in is : c = (CHOOSE j \in is : b \in DOMAIN dcache[j].data) /\ b \in DOMAIN dcache[c].data
    BY <1>2
  <2>2. MemWith(is)[b] = dcache[c].data[b]
    BY <1>2, <2>1 DEF MemWith
  <2> QED BY <2>1, <2>2, <1>1, LineFields
<1>3. ASSUME NEW b \in Bytes0, ~ \E i \in is : b \in DOMAIN dcache[i].data PROVE MemWith(is)[b] = mem[b]
  BY <1>3 DEF MemWith
<1>4. ASSUME NEW i \in is, NEW b \in InLine(dcache[i].at, DLine) PROVE MemWith(is)[b] = truth[b]
  <2>1. b \in Bytes0 /\ b \in DOMAIN dcache[i].data
    BY <1>1, <1>4, LineFields
  <2> QED BY <1>2, <2>1
<1>5. MemWith(is) = [b \in Bytes0 |-> MemWith(is)[b]]
  BY DEF MemWith
<1> QED BY <1>2, <1>3, <1>4, <1>5 DEF WrittenTo

\* Where memory lacks something, a line holds it, and that line was written.
LEMMA StaleIsWritten ==
  ASSUME CacheInv, NEW b \in Bytes0 \ Range0(device), mem[b] # truth[b]
  PROVE  LET i == DIndex(LineAt(b, DLine)) IN
           /\ i \in DIndexes /\ LineHolds(dcache[i], i) /\ dcache[i].at = LineAt(b, DLine) /\ dcache[i].dirty
           /\ b \in InLine(dcache[i].at, DLine)
<1>1. PICK i : i = DIndex(LineAt(b, DLine))
  OBVIOUS
<1>2. dcache[i].at = LineAt(b, DLine) /\ LineAt(b, DLine) \in LinesOf(DLine) /\ b \in InLine(LineAt(b, DLine), DLine)
  BY <1>1, CacheDefs, BytesHaveLines DEF StaleIsHeld
<1>3. i \in DIndexes
  BY <1>1, <1>2, IndexesOfLines
<1>4. dcache[i] # NoLine
  <2>1. LineAt(b, DLine) \in Nat
    BY <1>2, SizesOfLines DEF LinesOf
  <2> QED BY <1>2, <2>1, NoLineFields
<1>5. LineHolds(dcache[i], i)
  BY <1>3, <1>4, CacheDefs DEF LinesFit
<1>6. dcache[i].dirty
  BY <1>2, <1>5 DEF LineHolds
<1> QED BY <1>1, <1>2, <1>3, <1>5, <1>6

LEMMA IdleDevice ==
  ASSUME CacheInv, device[2] = 0
  PROVE  Range0(device) = {} /\ Lines0(device) = {}
<1>1. device[1] \in Nat
  BY CacheDefs, SpanFields DEF CacheTypes
<1>2. Range0(device) = {}
  BY <1>1 DEF Range0
<1> QED BY <1>2 DEF Lines0

\* Code that is left alone still fits, when what changed is among what is known to have changed.
LEMMA CodeStays ==
  ASSUME CacheInv, icache' = icache, changed \subseteq changed',
         \A b \in Bytes0 : b \in changed' \/ truth'[b] = truth[b]
  PROVE  CodeFits'
<1> SUFFICES ASSUME NEW i \in IIndexes, icache[i] # NoLine PROVE CodeHolds(icache[i])'
  BY DEF CodeFits
<1>1. CodeHolds(icache[i])
  BY CacheDefs DEF CodeFits
<1>2. \A b \in InLine(icache[i].at, ILine) : b \in Bytes0
  BY <1>1, BytesOfLine DEF CodeHolds
<1> QED BY <1>1, <1>2 DEF CodeHolds

------------------------------------------------------------------------------
(* The steps *)

LEMMA CachesBegin ==
  ASSUME CacheInit
  PROVE  CacheInv
<1>1. CacheTypes
  BY DEF CacheInit, CacheTypes, DIndexes, IIndexes
<1>2. StaleIsHeld /\ UnchangedFits /\ ~staleSent
  BY DEF CacheInit, StaleIsHeld, UnchangedFits
<1>3. LinesFit /\ CodeFits
  BY DEF CacheInit, LinesFit, CodeFits, DIndexes, IIndexes
<1> QED BY <1>1, <1>2, <1>3 DEF CacheInv

LineOf(x, y, z) == [at |-> x, dirty |-> y, data |-> z]
MadeDirty(l, v) == [l EXCEPT !.dirty = v]
MadeWith(l, b, v) == [l EXCEPT !.data[b] = v]
MadeBoth(l, w, b, v) == [l EXCEPT !.dirty = w, !.data[b] = v]
MadeClean(l) == [l EXCEPT !.dirty = FALSE]
WrittenAt(l, b, v) == [l EXCEPT !.dirty = TRUE, !.data[b] = v]
CleanLine(x, z) == [at |-> x, dirty |-> FALSE, data |-> z]
DirtyLine(x, z) == [at |-> x, dirty |-> TRUE, data |-> z]

LEMMA DirtyIsSet ==
  ASSUME NEW l, NEW x, NEW y, NEW z, NEW v, l = LineOf(x, y, z)
  PROVE  MadeDirty(l, v) = LineOf(x, v, z)
BY DEF LineOf, MadeDirty

LEMMA LineIsClean ==
  ASSUME NEW l, NEW x, NEW y, NEW z, l = LineOf(x, y, z)
  PROVE  MadeClean(l) = CleanLine(x, z)
<1>1. PICK v : v = FALSE
  OBVIOUS
<1>2. MadeDirty(l, v) = LineOf(x, v, z)
  BY DirtyIsSet
<1> QED BY <1>1, <1>2, Zenon DEF MadeClean, CleanLine, MadeDirty, LineOf

LEMMA LineIsWritten ==
  ASSUME NEW l, NEW x, NEW y, NEW z, NEW b, NEW v, l = LineOf(x, y, z)
  PROVE  WrittenAt(l, b, v) = DirtyLine(x, [z EXCEPT ![b] = v])
<1>1. PICK w : w = TRUE
  OBVIOUS
<1>2. PICK l1 : l1 = MadeDirty(l, w)
  OBVIOUS
<1>3. l1 = LineOf(x, w, z)
  BY <1>2, DirtyIsSet
<1>4. MadeWith(l1, b, v) = LineOf(x, w, [z EXCEPT ![b] = v])
  BY <1>3 DEF LineOf, MadeWith
<1>5. MadeBoth(l, w, b, v) = MadeWith(MadeDirty(l, w), b, v)
  BY DEF MadeBoth, MadeWith, MadeDirty
<1>6. MadeBoth(l, w, b, v) = LineOf(x, w, [z EXCEPT ![b] = v])
  BY <1>2, <1>4, <1>5
<1> QED BY <1>1, <1>6, Zenon DEF WrittenAt, DirtyLine, MadeBoth, LineOf

\* The line l1 that a byte b of line a is read from or written to, from the line l it had
LineFor(l, l1, a, b, writes) ==
  /\ l1 = [at |-> a, dirty |-> l1.dirty, data |-> l1.data] /\ l1.dirty \in BOOLEAN
  /\ l1.data = [x \in InLine(a, DLine) |-> IF writes /\ x = b THEN 1 - truth[b] ELSE truth[x]]
  /\ ~l1.dirty => ~writes /\ ~l.dirty

LineToUse(l, a) ==
  /\ l = [at |-> a, dirty |-> l.dirty, data |-> l.data] /\ l.dirty \in BOOLEAN
  /\ l.data = [x \in InLine(a, DLine) |-> truth[x]]
Used(l, b, writes) == IF writes THEN [l EXCEPT !.dirty = TRUE, !.data[b] = 1 - truth[b]] ELSE l

LEMMA LineIsUsed ==
  ASSUME NEW a, NEW b \in InLine(a, DLine), NEW writes \in BOOLEAN, NEW l,
         l = [at |-> a, dirty |-> l.dirty, data |-> l.data], l.dirty \in BOOLEAN,
         l.data = [x \in InLine(a, DLine) |-> truth[x]]
  PROVE  LineFor(l, IF writes THEN [l EXCEPT !.dirty = TRUE, !.data[b] = 1 - truth[b]] ELSE l, a, b, writes)
<1>1. CASE ~writes
  BY <1>1 DEF LineFor
<1>2. CASE writes
  <2>1. PICK d : d = [x \in InLine(a, DLine) |-> IF x = b THEN 1 - truth[b] ELSE truth[x]]
    OBVIOUS
  <2>2. [l.data EXCEPT ![b] = 1 - truth[b]] = d
    BY <2>1
  <2>3. PICK c, m : l = [at |-> a, dirty |-> c, data |-> m] /\ m = l.data
    OBVIOUS
  <2>4. [l EXCEPT !.dirty = TRUE, !.data[b] = 1 - truth[b]] = [at |-> a, dirty |-> TRUE, data |-> d]
    <3>1. l = LineOf(a, c, m)
      BY <2>3 DEF LineOf
    <3>2. PICK v : v = 1 - truth[b]
      OBVIOUS
    <3>3. WrittenAt(l, b, v) = DirtyLine(a, [m EXCEPT ![b] = v])
      BY <3>1, LineIsWritten
    <3>4. WrittenAt(l, b, 1 - truth[b]) = DirtyLine(a, [m EXCEPT ![b] = 1 - truth[b]])
      BY <3>2, <3>3, Zenon
    <3>5. [m EXCEPT ![b] = 1 - truth[b]] = d
      BY <2>2, <2>3
    <3>6. WrittenAt(l, b, 1 - truth[b]) = DirtyLine(a, d)
      BY <3>4, <3>5
    <3> QED BY <3>6, Zenon DEF WrittenAt, DirtyLine
  <2> QED BY <1>2, <2>1, <2>4 DEF LineFor
<1> QED BY <1>1, <1>2

LEMMA LineIsMade ==
  ASSUME NEW a, NEW b \in InLine(a, DLine), NEW writes \in BOOLEAN, NEW l, LineToUse(l, a)
  PROVE  LineFor(l, Used(l, b, writes), a, b, writes)
BY LineIsUsed DEF LineToUse, Used

\* A line stays as it should be while its bytes and what the device writes leave it alone.
LEMMA LineStays ==
  ASSUME NEW l, NEW i, LineHolds(l, i), l.at \notin Lines0(device'),
         \A b \in InLine(l.at, DLine) : truth'[b] = truth[b] /\ (mem[b] = truth[b] => mem'[b] = truth[b])
  PROVE  LineHolds(l, i)'
<1>1. /\ l = [at |-> l.at, dirty |-> l.dirty, data |-> l.data]
      /\ l.at \in LinesOf(DLine) /\ DIndex(l.at) = i /\ l.dirty \in BOOLEAN
      /\ l.data = [b \in InLine(l.at, DLine) |-> truth[b]]
      /\ ~l.dirty => \A b \in InLine(l.at, DLine) : mem[b] = truth[b]
  BY DEF LineHolds
<1>2. l.data = [b \in InLine(l.at, DLine) |-> truth'[b]]
  BY <1>1
<1>3. ~l.dirty => \A b \in InLine(l.at, DLine) : mem'[b] = truth'[b]
  BY <1>1
<1>4. l.at \notin Lines0(device)'
  BY DEF Lines0, Range0
<1> QED BY <1>1, <1>2, <1>3, <1>4 DEF LineHolds

LEMMA BytesAreTouched ==
  ASSUME CacheInv, NEW b \in Bytes0, NEW writes \in BOOLEAN, LineAt(b, DLine) \notin Lines0(device),
         Touch(b, writes), UNCHANGED << icache, device, staleSent >>
  PROVE  CacheInv'
<1>1. PICK a \in LinesOf(DLine) : a = LineAt(b, DLine) /\ b \in InLine(a, DLine)
  BY BytesHaveLines
<1>2. PICK i \in DIndexes : i = DIndex(a)
  BY IndexesOfLines
<1>3. /\ mem' = IF dcache[i].at # a THEN MemWith({i} \cap Written({dcache[i].at})) ELSE mem
      /\ dcache' = [dcache EXCEPT ![i] =
           IF writes THEN [(IF dcache[i].at # a
                            THEN LoadedFrom(IF dcache[i].at # a THEN MemWith({i} \cap Written({dcache[i].at})) ELSE mem, a, DLine)
                            ELSE dcache[i]) EXCEPT !.dirty = TRUE, !.data[b] = 1 - truth[b]]
           ELSE IF dcache[i].at # a
                THEN LoadedFrom(IF dcache[i].at # a THEN MemWith({i} \cap Written({dcache[i].at})) ELSE mem, a, DLine)
                ELSE dcache[i]]
  BY <1>1, <1>2, Zenon DEF Touch
<1>4. /\ dcache[i].at # a => mem' = MemWith({i} \cap Written({dcache[i].at}))
      /\ dcache[i].at = a => mem' = mem
  BY <1>3, Zenon
<1>5. PICK is : is = IF dcache[i].at # a THEN {i} \cap Written({dcache[i].at}) ELSE {}
  OBVIOUS
<1>6. /\ is \subseteq Written({dcache[i].at})
      /\ dcache[i].at # a /\ dcache[i].dirty => i \in is
      /\ is \subseteq {i} /\ (dcache[i].at = a => is = {})
      /\ mem' = IF dcache[i].at # a THEN MemWith(is) ELSE mem
  <2>1. CASE dcache[i].at # a
    <3>1. mem' = MemWith({i} \cap Written({dcache[i].at}))
      BY <1>4, <2>1
    <3>2. is = {i} \cap Written({dcache[i].at})
      BY <1>5, <2>1
    <3>3. dcache[i].dirty => i \in Written({dcache[i].at})
      BY CacheDefs DEF Written, CacheTypes
    <3> QED BY <2>1, <3>1, <3>3, <3>2
  <2>2. CASE dcache[i].at = a
    <3>1. mem' = mem
      BY <1>4, <2>2
    <3>2. is = {}
      BY <1>5, <2>2
    <3> QED BY <2>2, <3>1, <3>2
  <2> QED BY <2>1, <2>2
<1>7. /\ mem' = [x \in Bytes0 |-> mem'[x]] /\ \A x \in Bytes0 : mem'[x] = truth[x] \/ mem'[x] = mem[x]
      /\ \A x \in InLine(dcache[i].at, DLine) : i \in is => mem'[x] = truth[x]
  <2>1. CASE dcache[i].at # a
    BY <2>1, <1>6, LinesAreWritten DEF WrittenTo
  <2>2. CASE dcache[i].at = a
    BY <2>2, <1>6, CacheDefs DEF CacheTypes
  <2> QED BY <2>1, <2>2
<1>8. ASSUME NEW x \in InLine(a, DLine)
      PROVE  x \in Bytes0 /\ LineAt(x, DLine) = a /\ x \notin Range0(device)
             /\ (dcache[i].at # a => mem[x] = truth[x])
  <2>1. x \in Bytes0 /\ LineAt(x, DLine) = a
    BY <1>8, BytesOfLine
  <2>2. x \notin Range0(device)
    BY <1>1, <2>1 DEF Lines0
  <2> QED BY <1>2, <2>1, <2>2, CacheDefs DEF StaleIsHeld
<1>9. PICK l : l = IF dcache[i].at # a THEN LoadedFrom(mem', a, DLine) ELSE dcache[i]
  OBVIOUS
<1>10. dcache' = [dcache EXCEPT ![i] = IF writes THEN [l EXCEPT !.dirty = TRUE, !.data[b] = 1 - truth[b]] ELSE l]
  <2>1. PICK m : m = IF dcache[i].at # a THEN MemWith({i} \cap Written({dcache[i].at})) ELSE mem
    OBVIOUS
  <2>2. PICK k : k = IF dcache[i].at # a THEN LoadedFrom(m, a, DLine) ELSE dcache[i]
    OBVIOUS
  <2>3. dcache' = [dcache EXCEPT ![i] = IF writes THEN [k EXCEPT !.dirty = TRUE, !.data[b] = 1 - truth[b]] ELSE k]
    BY <1>3, <2>1, <2>2, Zenon
  <2>4. m = mem'
    BY <1>3, <2>1, Zenon
  <2>5. k = l
    <3>1. CASE dcache[i].at # a
      <4>1. k = LoadedFrom(m, a, DLine) /\ l = LoadedFrom(mem', a, DLine)
        BY <1>9, <2>2, <3>1
      <4> QED BY <2>4, <4>1
    <3>2. CASE dcache[i].at = a
      <4>1. k = dcache[i] /\ l = dcache[i]
        BY <1>9, <2>2, <3>2
      <4> QED BY <4>1
    <3> QED BY <3>1, <3>2
  <2> QED BY <2>3, <2>5, Zenon
<1>11. LineToUse(l, a) /\ (~l.dirty => \A x \in InLine(a, DLine) : mem'[x] = truth[x])
  <2>1. CASE dcache[i].at # a
    <3>1. l = [at |-> a, dirty |-> FALSE, data |-> [x \in InLine(a, DLine) |-> mem'[x]]]
      BY <1>9, <2>1 DEF LoadedFrom
    <3>2. \A x \in InLine(a, DLine) : mem'[x] = truth[x]
      BY <1>7, <1>8, <2>1
    <3>3. LineToUse(l, a)
      BY <3>1, <3>2 DEF LineToUse
    <3> QED BY <3>2, <3>3
  <2>2. CASE dcache[i].at = a
    <3>1. l = dcache[i] /\ mem' = mem
      BY <1>6, <1>9, <2>2
    <3>2. l # NoLine
      <4>1. a \in Nat
        BY SizesOfLines DEF LinesOf
      <4> QED BY <2>2, <3>1, <4>1, NoLineFields
    <3>3. LineHolds(l, i)
      BY <3>1, <3>2, CacheDefs DEF LinesFit
    <3>4. LineToUse(l, a)
      BY <2>2, <3>1, <3>3 DEF LineHolds, LineToUse
    <3>5. ~l.dirty => \A x \in InLine(a, DLine) : mem'[x] = truth[x]
      BY <2>2, <3>1, <3>3 DEF LineHolds
    <3> QED BY <3>4, <3>5
  <2> QED BY <2>1, <2>2
<1>12. PICK l1 : LineFor(l, l1, a, b, writes) /\ dcache' = [dcache EXCEPT ![i] = l1]
  <2>1. LineFor(l, Used(l, b, writes), a, b, writes)
    BY <1>1, <1>11, LineIsMade
  <2>2. dcache' = [dcache EXCEPT ![i] = Used(l, b, writes)]
    BY <1>10, Zenon DEF Used
  <2> QED BY <2>1, <2>2, Zenon
<1>13. /\ truth' = [x \in Bytes0 |-> IF writes /\ x = b THEN 1 - truth[b] ELSE truth[x]]
      /\ changed' = IF writes THEN changed \cup {b} ELSE changed
  <2>1. truth = [x \in Bytes0 |-> truth[x]]
    BY CacheDefs DEF CacheTypes
  <2> QED BY <2>1 DEF Touch
<1>14. \A j \in DIndexes : dcache'[j] = IF j = i THEN l1 ELSE dcache[j]
  BY <1>12, CacheDefs DEF CacheTypes
<1>15. LineHolds(l1, i)'
  <2>1. l1 = [at |-> a, dirty |-> l1.dirty, data |-> l1.data] /\ l1.dirty \in BOOLEAN /\ l1.at = a
    BY <1>12 DEF LineFor
  <2>2. l1.data = [x \in InLine(a, DLine) |-> truth'[x]]
    BY <1>8, <1>12, <1>13 DEF LineFor
  <2>3. ~l1.dirty => \A x \in InLine(a, DLine) : mem'[x] = truth'[x]
    <3> SUFFICES ASSUME ~l1.dirty, NEW x \in InLine(a, DLine) PROVE mem'[x] = truth'[x]
      OBVIOUS
    <3>1. ~writes /\ ~l.dirty
      BY <1>12 DEF LineFor
    <3>2. mem'[x] = truth[x]
      BY <1>11, <3>1
    <3>3. truth'[x] = truth[x]
      BY <1>8, <1>13, <3>1
    <3> QED BY <3>2, <3>3
  <2> QED BY <1>1, <1>2, <2>1, <2>2, <2>3 DEF LineHolds
<1>16. ASSUME NEW j \in DIndexes, j # i, NEW l2, l2 = dcache[j], l2 # NoLine PROVE LineHolds(l2, j)'
  <2>1. LineHolds(l2, j)
    BY <1>16, CacheDefs DEF LinesFit
  <2>2. ASSUME NEW x \in InLine(l2.at, DLine) PROVE x \in Bytes0 /\ x # b
    <3>1. x \in Bytes0 /\ LineAt(x, DLine) = l2.at /\ DIndex(l2.at) = j
      BY <2>1, <2>2, LineFields
    <3> QED BY <1>1, <1>2, <1>16, <3>1
  <2>3. \A x \in InLine(l2.at, DLine) : truth'[x] = truth[x] /\ (mem[x] = truth[x] => mem'[x] = truth[x])
    BY <1>7, <1>13, <2>2
  <2>4. l2.at \notin Lines0(device')
    BY <2>1 DEF LineHolds
  <2> QED BY <2>1, <2>3, <2>4, LineStays
<1>17. LinesFit'
  <2> SUFFICES ASSUME NEW j \in DIndexes PROVE dcache'[j] = NoLine \/ LineHolds(dcache[j], j)'
    BY DEF LinesFit
  <2>1. PICK l2 : l2 = dcache'[j]
    OBVIOUS
  <2>2. l2 = NoLine \/ LineHolds(l2, j)'
    BY <1>14, <1>15, <1>16, <2>1
  <2> QED BY <2>1, <2>2 DEF LineHolds
<1>18. StaleIsHeld'
  <2> SUFFICES ASSUME NEW x \in Bytes0 \ Range0(device), mem'[x] # truth'[x]
               PROVE  dcache'[DIndex(LineAt(x, DLine))].at = LineAt(x, DLine)
    BY DEF StaleIsHeld
  <2>1. CASE LineAt(x, DLine) = a
    BY <1>2, <1>12, <1>14, <2>1 DEF LineFor
  <2>2. CASE LineAt(x, DLine) # a
    <3>1. x # b /\ truth'[x] = truth[x] /\ mem'[x] = mem[x] /\ mem[x] # truth[x]
      BY <1>1, <1>7, <1>13, <2>2
    <3>2. PICK j \in DIndexes : /\ j = DIndex(LineAt(x, DLine)) /\ dcache[j].at = LineAt(x, DLine)
                                /\ dcache[j].dirty /\ x \in InLine(dcache[j].at, DLine)
      BY <3>1, StaleIsWritten
    <3>3. j # i
      BY <1>6, <1>7, <2>2, <3>1, <3>2
    <3> QED BY <1>14, <3>2, <3>3
  <2> QED BY <2>1, <2>2
<1>19. UnchangedFits'
  BY <1>7, <1>13, CacheDefs DEF UnchangedFits
<1>20. CodeFits'
  BY <1>13, CodeStays
<1>21. CacheTypes'
  <2>1. CacheTypes
    BY CacheDefs
  <2>2. \A x \in Bytes0 : truth'[x] \in {0, 1}
    <3>1. \A x \in Bytes0 : truth[x] \in {0, 1}
      BY <2>1 DEF CacheTypes
    <3> QED BY <1>13, <3>1
  <2>3. dcache' = [j \in DIndexes |-> dcache'[j]]
    BY <1>12, <2>1 DEF CacheTypes
  <2>4. truth' = [x \in Bytes0 |-> truth'[x]]
    BY <1>13
  <2> QED BY <1>7, <2>1, <2>2, <2>3, <2>4 DEF CacheTypes
<1> QED BY <1>17, <1>18, <1>19, <1>20, <1>21, CacheDefs DEF CacheInv

LEMMA CodeIsFetched ==
  ASSUME CacheInv, Fetch
  PROVE  CacheInv'
<1>1. PICK a \in LinesOf(ILine) :
        icache' = [icache EXCEPT ![IIndex(a)] = IF @.at = a THEN @ ELSE LoadedFrom(mem, a, ILine)]
  BY DEF Fetch
<1>2. UNCHANGED << mem, dcache, truth, changed, device, staleSent >>
  BY DEF Fetch
<1>3. \A b \in InLine(a, ILine) : b \in Bytes0
  BY BytesOfLine
<1>4. PICK l : l = [at |-> a, dirty |-> FALSE, data |-> [b \in InLine(a, ILine) |-> mem[b]]]
               /\ l = LoadedFrom(mem, a, ILine)
  BY DEF LoadedFrom
<1>5. CodeHolds(l)
  BY <1>3, <1>4, CacheDefs DEF CodeHolds, UnchangedFits
<1>6. ASSUME NEW i \in IIndexes PROVE icache'[i] = icache[i] \/ icache'[i] = l
  BY <1>1, <1>4, CacheDefs DEF CacheTypes
<1>7. CodeFits
  BY CacheDefs
<1>8. \A x : CodeHolds(x)' <=> CodeHolds(x)
  BY <1>2 DEF CodeHolds
<1>9. CodeFits'
  BY <1>5, <1>6, <1>7, <1>8 DEF CodeFits
<1>10. CacheTypes'
  BY <1>1, <1>2, CacheDefs DEF CacheTypes
<1>11. LinesFit' /\ StaleIsHeld' /\ UnchangedFits'
  <2>1. LinesFit /\ StaleIsHeld /\ UnchangedFits
    BY CacheDefs
  <2>2. \A x, i : LineHolds(x, i)' <=> LineHolds(x, i)
    BY <1>2 DEF LineHolds, Lines0
  <2> QED BY <1>2, <2>1, <2>2 DEF LinesFit, StaleIsHeld, UnchangedFits
<1> QED BY <1>2, <1>9, <1>10, <1>11, CacheDefs DEF CacheInv

LEMMA TransfersStart ==
  ASSUME CacheInv, StartTransfer
  PROVE  CacheInv'
<1>1. PICK s \in Spans :
        LET d == InvalDLines(s) IN
          /\ mem' = MemWith(Written(d.back)) /\ dcache' = Without(dcache, d.back \cup d.only)
          /\ device' = s
          /\ truth' = [b \in Bytes0 |-> IF b \in Range0(s) THEN 1 - truth[b] ELSE truth[b]]
          /\ changed' = changed \cup Range0(s)
  BY DEF StartTransfer
<1>2. icache' = icache /\ staleSent' = staleSent /\ device[2] = 0
  BY DEF StartTransfer
<1>3. PICK d : /\ d = InvalDLines(s)
               /\ \A b \in Range0(s) : LineAt(b, DLine) \in d.back \cup d.only
               /\ \A a \in d.only : \A b \in InLine(a, DLine) : b \in Range0(s)
  BY InvalNames
<1>4. /\ mem' = [b \in Bytes0 |-> mem'[b]]
      /\ \A b \in Bytes0 : mem'[b] = truth[b] \/ mem'[b] = mem[b]
      /\ \A i \in Written(d.back) : \A b \in InLine(dcache[i].at, DLine) : mem'[b] = truth[b]
  BY <1>1, <1>3, LinesAreWritten DEF WrittenTo
<1>5. \A i \in DIndexes : dcache'[i] = IF dcache[i].at \in d.back \cup d.only THEN NoLine ELSE dcache[i]
  BY <1>1, <1>3, CacheDefs DEF Without, CacheTypes
<1>6. ASSUME NEW i \in DIndexes, NEW l, l = dcache[i], l # NoLine, l.at \notin d.back \cup d.only
      PROVE  LineHolds(l, i)'
  <2>1. LineHolds(l, i)
    BY <1>6, CacheDefs DEF LinesFit
  <2>2. l.at \notin Lines0(device')
    BY <1>1, <1>3, <1>6 DEF Lines0
  <2>3. ASSUME NEW b \in InLine(l.at, DLine)
        PROVE  truth'[b] = truth[b] /\ (mem[b] = truth[b] => mem'[b] = truth[b])
    <3>1. b \in Bytes0 /\ LineAt(b, DLine) = l.at
      BY <2>1, <2>3, LineFields
    <3>2. b \notin Range0(s)
      BY <1>3, <1>6, <3>1
    <3> QED BY <1>1, <1>4, <3>1, <3>2
  <2> QED BY <2>1, <2>2, <2>3, LineStays
<1>7. LinesFit'
  <2> SUFFICES ASSUME NEW j \in DIndexes PROVE dcache'[j] = NoLine \/ LineHolds(dcache[j], j)'
    BY DEF LinesFit
  <2>1. PICK l : l = dcache'[j]
    OBVIOUS
  <2>2. l = NoLine \/ LineHolds(l, j)'
    BY <1>5, <1>6, <2>1
  <2> QED BY <2>1, <2>2 DEF LineHolds
<1>8. StaleIsHeld'
  <2> SUFFICES ASSUME NEW b \in Bytes0 \ Range0(s), mem'[b] # truth'[b]
               PROVE  dcache'[DIndex(LineAt(b, DLine))].at = LineAt(b, DLine)
    BY <1>1 DEF StaleIsHeld
  <2>1. truth'[b] = truth[b] /\ mem'[b] = mem[b] /\ mem[b] # truth[b] /\ b \in Bytes0 \ Range0(device)
    BY <1>1, <1>2, <1>4, IdleDevice
  <2>2. PICK i \in DIndexes : /\ i = DIndex(LineAt(b, DLine)) /\ dcache[i].at = LineAt(b, DLine)
                              /\ dcache[i].dirty /\ b \in InLine(dcache[i].at, DLine)
    BY <2>1, StaleIsWritten
  <2>3. dcache[i].at \notin d.back
    <3> SUFFICES ASSUME dcache[i].at \in d.back PROVE FALSE
      OBVIOUS
    <3>1. i \in Written(d.back)
      BY <2>2, CacheDefs DEF Written, CacheTypes
    <3> QED BY <1>4, <2>1, <2>2, <3>1
  <2>4. dcache[i].at \notin d.only
    BY <1>3, <2>2
  <2> QED BY <1>5, <2>2, <2>3, <2>4
<1>9. UnchangedFits'
  BY <1>1, <1>4, CacheDefs DEF UnchangedFits
<1>10. CodeFits'
  BY <1>1, <1>2, CodeStays
<1>11. CacheTypes'
  <2>1. \A b \in Bytes0 : truth'[b] \in {0, 1}
    BY <1>1, CacheDefs DEF CacheTypes
  <2>2. dcache' = [i \in DIndexes |-> dcache'[i]]
    BY <1>1, CacheDefs DEF Without, CacheTypes
  <2> QED BY <1>1, <1>2, <1>4, <2>1, <2>2, CacheDefs DEF CacheTypes
<1> QED BY <1>2, <1>7, <1>8, <1>9, <1>10, <1>11, CacheDefs DEF CacheInv

LEMMA TransfersEnd ==
  ASSUME CacheInv, EndTransfer
  PROVE  CacheInv'
<1>1. /\ device' = << 0, 0 >> /\ UNCHANGED << dcache, icache, truth, changed, staleSent >>
      /\ mem' = [b \in Bytes0 |-> IF b \in Range0(device) THEN truth[b] ELSE mem[b]]
  BY DEF EndTransfer
<1>2. Range0(device') = {} /\ Lines0(device') = {}
  BY <1>1 DEF Range0, Lines0
<1>3. LinesFit'
  <2> SUFFICES ASSUME NEW i \in DIndexes, dcache'[i] # NoLine PROVE LineHolds(dcache[i], i)'
    BY DEF LinesFit
  <2>1. PICK l : l = dcache'[i]
    OBVIOUS
  <2>2. LineHolds(l, i)
    BY <1>1, <2>1, CacheDefs DEF LinesFit
  <2>3. \A b \in InLine(l.at, DLine) : b \in Bytes0
    BY <2>2, LineFields
  <2>4. \A b \in InLine(l.at, DLine) : truth'[b] = truth[b] /\ (mem[b] = truth[b] => mem'[b] = truth[b])
    BY <1>1, <2>3
  <2>5. LineHolds(l, i)'
    BY <1>2, <2>2, <2>4, LineStays
  <2> QED BY <2>1, <2>5 DEF LineHolds
<1>4. StaleIsHeld' /\ UnchangedFits'
  BY <1>1, CacheDefs DEF StaleIsHeld, UnchangedFits
<1>5. CodeFits'
  BY <1>1, CodeStays
<1>6. CacheTypes'
  BY <1>1, CacheDefs DEF CacheTypes
<1> QED BY <1>1, <1>3, <1>4, <1>5, <1>6, CacheDefs DEF CacheInv

LEMMA OutputIsSent ==
  ASSUME CacheInv, SendOut
  PROVE  CacheInv'
<1>1. PICK s \in Spans :
        LET w == WritebackDLines(s) IN
          /\ mem' = MemWith(Written(w))
          /\ dcache' = (IF WritebackDrops(s) THEN Without(dcache, w) ELSE Cleaned(w))
          /\ staleSent' = \E b \in Range0(s) : mem'[b] # truth[b]
  BY DEF SendOut
<1>2. UNCHANGED << icache, truth, changed, device >> /\ device[2] = 0
  BY DEF SendOut
<1>3. PICK w : w = WritebackDLines(s)
  OBVIOUS
<1>4. /\ mem' = [b \in Bytes0 |-> mem'[b]]
      /\ \A b \in Bytes0 : mem'[b] = truth[b] \/ mem'[b] = mem[b]
      /\ \A i \in Written(w) : \A b \in InLine(dcache[i].at, DLine) : mem'[b] = truth[b]
  BY <1>1, <1>3, LinesAreWritten DEF WrittenTo
<1>5. ASSUME NEW b \in Range0(s) PROVE LineAt(b, DLine) \in w /\ b \in Bytes0
  <2>1. b \in Bytes0 /\ s[2] > 0 /\ LineAt(b, DLine) \in LinesOf(DLine)
    BY <1>5, SpanFields, BytesHaveLines
  <2>2. LineAt(b, DLine) \in LoopLines(s[1] - (s[1] % DLine), s[1] + s[2] - DLine, DLine)
    BY <1>5, LoopNames
  <2>3. w = IF s[2] <= 0 THEN {} ELSE IF s[2] >= DSize THEN LinesOf(DLine)
            ELSE LoopLines(s[1] - (s[1] % DLine), s[1] + s[2] - DLine, DLine)
    BY <1>3 DEF WritebackDLines
  <2>4. ~(s[2] <= 0)
    BY <2>1, SpanFields
  <2> QED BY <2>1, <2>2, <2>3, <2>4
<1>6. ASSUME NEW b \in Bytes0 \ Range0(device), mem'[b] # truth[b]
      PROVE  \E i \in DIndexes : /\ i = DIndex(LineAt(b, DLine)) /\ dcache[i].at = LineAt(b, DLine)
                                 /\ dcache[i].at \notin w
  <2>1. mem[b] # truth[b]
    BY <1>4, <1>6
  <2>2. PICK i \in DIndexes : /\ i = DIndex(LineAt(b, DLine)) /\ dcache[i].at = LineAt(b, DLine)
                              /\ dcache[i].dirty /\ b \in InLine(dcache[i].at, DLine)
    BY <2>1, StaleIsWritten
  <2>3. dcache[i].at \notin w
    <3> SUFFICES ASSUME dcache[i].at \in w PROVE FALSE
      OBVIOUS
    <3>1. i \in Written(w)
      BY <2>2, CacheDefs DEF Written, CacheTypes
    <3> QED BY <1>4, <1>6, <2>2, <3>1
  <2> QED BY <2>2, <2>3
<1>7. ~staleSent'
  <2> SUFFICES ASSUME NEW b \in Range0(s), mem'[b] # truth[b] PROVE FALSE
    BY <1>1
  <2>1. b \in Bytes0 \ Range0(device) /\ LineAt(b, DLine) \in w
    BY <1>2, <1>5, IdleDevice
  <2> QED BY <1>6, <2>1
<1>8. \A i \in DIndexes :
        \/ dcache[i].at \notin w /\ dcache'[i] = dcache[i]
        \/ dcache[i].at \in w /\ (dcache'[i] = NoLine \/ dcache'[i] = [dcache[i] EXCEPT !.dirty = FALSE])
  BY <1>1, <1>3, CacheDefs DEF Without, Cleaned, CacheTypes
<1>9. ASSUME NEW i \in DIndexes, NEW l, l = dcache[i], l # NoLine
      PROVE  /\ LineHolds(l, i)'
             /\ l.at \in w => \E l1 : l1 = [l EXCEPT !.dirty = FALSE] /\ LineHolds(l1, i)'
  <2>1. LineHolds(l, i)
    BY <1>9, CacheDefs DEF LinesFit
  <2>2. \A b \in InLine(l.at, DLine) : b \in Bytes0 /\ (mem[b] = truth[b] => mem'[b] = truth[b])
    BY <1>4, <2>1, LineFields
  <2>3. l.at \notin Lines0(device')
    BY <1>2, <2>1 DEF LineHolds
  <2>4. LineHolds(l, i)'
    BY <1>2, <2>1, <2>2, <2>3, LineStays
  <2>5. ASSUME l.at \in w PROVE \E l1 : l1 = [l EXCEPT !.dirty = FALSE] /\ LineHolds(l1, i)'
    <3>1. \A b \in InLine(l.at, DLine) : mem'[b] = truth'[b]
      <4>1. CASE l.dirty
        <5>1. i \in Written(w)
          BY <1>9, <2>5, <4>1, CacheDefs DEF Written, CacheTypes
        <5> QED BY <1>2, <1>4, <1>9, <5>1
      <4>2. CASE ~l.dirty
        BY <2>4, <4>2 DEF LineHolds
      <4> QED BY <4>1, <4>2
    <3>2. PICK x, y, z : l = [at |-> x, dirty |-> y, data |-> z] /\ x = l.at /\ z = l.data
      BY <2>1 DEF LineHolds
    <3>3. PICK l1 : l1 = [at |-> x, dirty |-> FALSE, data |-> z]
      OBVIOUS
    <3>4. l1 = [l EXCEPT !.dirty = FALSE]
      <4>1. l = LineOf(x, y, z)
        BY <3>2 DEF LineOf
      <4>2. MadeClean(l) = CleanLine(x, z)
        BY <4>1, LineIsClean
      <4> QED BY <3>3, <4>2, Zenon DEF MadeClean, CleanLine
    <3>5. /\ l1.at = l.at /\ l1.dirty = FALSE /\ l1.data = l.data
          /\ l1 = [at |-> l1.at, dirty |-> l1.dirty, data |-> l1.data]
      BY <3>2, <3>3
    <3>6. LineHolds(l1, i)'
      BY <2>4, <3>1, <3>5 DEF LineHolds
    <3> QED BY <3>4, <3>6
  <2> QED BY <2>4, <2>5
<1>10. LinesFit'
  <2> SUFFICES ASSUME NEW j \in DIndexes PROVE dcache'[j] = NoLine \/ LineHolds(dcache[j], j)'
    BY DEF LinesFit
  <2>1. PICK l : l = dcache[j]
    OBVIOUS
  <2>2. CASE l = NoLine
    <3>1. PICK y : NoLine = LineOf(-1, y, << >>) /\ NoLine = CleanLine(-1, << >>)
      BY Zenon DEF NoLine, LineOf, CleanLine
    <3>2. MadeClean(NoLine) = NoLine
      BY <3>1, LineIsClean
    <3>3. [NoLine EXCEPT !.dirty = FALSE] = NoLine
      BY <3>2, Zenon DEF MadeClean
    <3> QED BY <1>8, <2>1, <2>2, <3>3
  <2>3. CASE l # NoLine
    <3>1. PICK l1 : l1 = dcache'[j]
      OBVIOUS
    <3>2. l1 = NoLine \/ LineHolds(l1, j)'
      <4>1. CASE l.at \notin w
        BY <1>8, <1>9, <2>1, <2>3, <3>1, <4>1
      <4>2. CASE l.at \in w
        <5>1. PICK l3 : l3 = [l EXCEPT !.dirty = FALSE] /\ LineHolds(l3, j)'
          BY <1>9, <2>1, <2>3, <4>2
        <5>2. l1 = NoLine \/ l1 = l3
          BY <1>8, <2>1, <3>1, <4>2, <5>1
        <5> QED BY <5>1, <5>2
      <4> QED BY <4>1, <4>2
    <3> QED BY <3>1, <3>2 DEF LineHolds
  <2> QED BY <2>2, <2>3
<1>11. StaleIsHeld'
  <2> SUFFICES ASSUME NEW b \in Bytes0 \ Range0(device), mem'[b] # truth[b]
               PROVE  dcache'[DIndex(LineAt(b, DLine))].at = LineAt(b, DLine)
    BY <1>2 DEF StaleIsHeld
  <2> QED BY <1>6, <1>8
<1>12. UnchangedFits'
  BY <1>2, <1>4, CacheDefs DEF UnchangedFits
<1>13. CodeFits'
  BY <1>2, CodeStays
<1>14. CacheTypes'
  <2>1. dcache' = [i \in DIndexes |-> dcache'[i]]
    BY <1>1, CacheDefs DEF Without, Cleaned, CacheTypes
  <2> QED BY <1>2, <1>4, <2>1, CacheDefs DEF CacheTypes
<1> QED BY <1>7, <1>10, <1>11, <1>12, <1>13, <1>14 DEF CacheInv

LEMMA CodeIsDropped ==
  ASSUME CacheInv, InvalICache
  PROVE  CacheInv'
<1>1. PICK s \in Spans :
        /\ icache' = Without(icache, InvalILines(s))
        /\ changed' = changed \ {b \in Range0(s) : mem[b] = truth[b]}
  BY DEF InvalICache
<1>2. UNCHANGED << mem, dcache, truth, device, staleSent >>
  BY DEF InvalICache
<1>3. ASSUME NEW b \in Range0(s) PROVE LineAt(b, ILine) \in InvalILines(s) /\ b \in Bytes0
  <2>1. b \in Bytes0 /\ s[2] > 0 /\ LineAt(b, ILine) \in LinesOf(ILine)
    BY <1>3, SpanFields, BytesHaveLines
  <2>2. LineAt(b, ILine) \in LoopLines(s[1] - (s[1] % ILine), s[1] + s[2] - ILine, ILine)
    BY <1>3, LoopNames
  <2>3. InvalILines(s) =
          IF s[2] <= 0 THEN {} ELSE IF s[2] >= ISize THEN LinesOf(ILine)
          ELSE LoopLines(s[1] - (s[1] % ILine), s[1] + s[2] - ILine, ILine)
    BY DEF InvalILines
  <2>4. ~(s[2] <= 0)
    BY <2>1, SpanFields
  <2> QED BY <2>1, <2>2, <2>3, <2>4
<1>4. \A i \in IIndexes : icache'[i] = IF icache[i].at \in InvalILines(s) THEN NoLine ELSE icache[i]
  BY <1>1, CacheDefs DEF Without, CacheTypes
<1>5. ASSUME NEW i \in IIndexes, NEW l, l = icache[i], l # NoLine, l.at \notin InvalILines(s) PROVE CodeHolds(l)'
  <2>1. CodeHolds(l)
    BY <1>5, CacheDefs DEF CodeFits
  <2>2. ASSUME NEW b \in DOMAIN l.data PROVE b \notin Range0(s)
    <3>1. LineAt(b, ILine) = l.at
      BY <2>1, <2>2, BytesOfLine DEF CodeHolds
    <3> QED BY <1>3, <1>5, <3>1
  <2> QED BY <1>1, <1>2, <2>1, <2>2 DEF CodeHolds
<1>6. CodeFits'
  <2> SUFFICES ASSUME NEW i \in IIndexes PROVE icache'[i] = NoLine \/ CodeHolds(icache[i])'
    BY DEF CodeFits
  <2>1. PICK l : l = icache'[i]
    OBVIOUS
  <2>2. l = NoLine \/ CodeHolds(l)'
    BY <1>4, <1>5, <2>1
  <2> QED BY <2>1, <2>2 DEF CodeHolds
<1>7. UnchangedFits'
  BY <1>1, <1>2, CacheDefs DEF UnchangedFits
<1>8. LinesFit' /\ StaleIsHeld'
  <2>1. LinesFit /\ StaleIsHeld
    BY CacheDefs
  <2>2. \A x, i : LineHolds(x, i)' <=> LineHolds(x, i)
    BY <1>2 DEF LineHolds, Lines0
  <2> QED BY <1>2, <2>1, <2>2 DEF LinesFit, StaleIsHeld
<1>9. CacheTypes'
  <2>1. icache' = [i \in IIndexes |-> icache'[i]]
    BY <1>1, CacheDefs DEF Without, CacheTypes
  <2> QED BY <1>2, <2>1, CacheDefs DEF CacheTypes
<1> QED BY <1>2, <1>6, <1>7, <1>8, <1>9, CacheDefs DEF CacheInv

\* Whatever the ends of the spans are and whichever lines the caches hold: the program sees at every
\* byte what was put there last, a device reads what the program wrote, and code that was
\* invalidated after it was loaded is the code that runs, for any sizes of the caches and their
\* lines (osInvalDCache, osWritebackDCache, osInvalICache).
THEOREM CachesStayInStep == CacheSpec => []CachesInStep
<1>1. CacheInit => CacheInv
  BY CachesBegin
<1>2. CacheInv /\ [CacheNext]_cacheVars => CacheInv'
  <2> SUFFICES ASSUME CacheInv, [CacheNext]_cacheVars PROVE CacheInv'
    OBVIOUS
  <2>1. CASE Access
    BY <2>1, BytesAreTouched DEF Access
  <2>2. CASE UNCHANGED cacheVars
    <3>1. \A x, i : LineHolds(x, i)' <=> LineHolds(x, i)
      BY <2>2 DEF LineHolds, Lines0, cacheVars
    <3>2. \A x : CodeHolds(x)' <=> CodeHolds(x)
      BY <2>2 DEF CodeHolds, cacheVars
    <3>3. LinesFit' /\ CodeFits'
      BY <2>2, <3>1, <3>2, CacheDefs DEF LinesFit, CodeFits, cacheVars
    <3>4. CacheTypes' /\ StaleIsHeld' /\ UnchangedFits' /\ ~staleSent'
      BY <2>2, CacheDefs DEF CacheTypes, StaleIsHeld, UnchangedFits, cacheVars
    <3> QED BY <3>3, <3>4 DEF CacheInv
  <2> QED BY <2>1, <2>2, CodeIsFetched, TransfersStart, TransfersEnd, OutputIsSent, CodeIsDropped DEF CacheNext
<1>3. CacheInv => CachesInStep
  <2> SUFFICES ASSUME CacheInv PROVE CachesInStep
    OBVIOUS
  <2>1. ASSUME NEW b \in Bytes0 \ Range0(device) PROVE Seen0(b) = truth[b]
    <3>1. PICK a \in LinesOf(DLine), i \in DIndexes : a = LineAt(b, DLine) /\ i = DIndex(a) /\ b \in InLine(a, DLine)
      BY BytesHaveLines, IndexesOfLines
    <3>2. CASE dcache[i].at = a
      <4>1. a \in Nat
        BY SizesOfLines DEF LinesOf
      <4>2. LineHolds(dcache[i], i)
        BY <3>2, <4>1, CacheDefs, NoLineFields DEF LinesFit
      <4>3. dcache[i].data[b] = truth[b]
        BY <3>1, <3>2, <4>2, LineFields
      <4> QED BY <3>1, <3>2, <4>3 DEF Seen0
    <3>3. CASE dcache[i].at # a
      BY <3>1, <3>3, CacheDefs DEF Seen0, StaleIsHeld
    <3> QED BY <3>2, <3>3
  <2>2. ASSUME NEW i \in DOMAIN icache, NEW b \in DOMAIN icache[i].data \ changed PROVE icache[i].data[b] = truth[b]
    <3>1. i \in IIndexes
      BY <2>2, CacheDefs DEF CacheTypes
    <3>2. CASE icache[i] = NoLine
      <4>1. DOMAIN NoLine.data = {}
        BY DEF NoLine
      <4> QED BY <2>2, <3>2, <4>1
    <3>3. CASE icache[i] # NoLine
      BY <2>2, <3>1, <3>3, CacheDefs DEF CodeFits, CodeHolds
    <3> QED BY <3>2, <3>3
  <2> QED BY <2>1, <2>2, CacheDefs DEF CachesInStep
<1> QED BY <1>1, <1>2, <1>3, PTL DEF CacheSpec

------------------------------------------------------------------------------
(* The timers: by the list none is due too early, and while one is active something
   will look at the list in time.  The inductive invariant *)

Reading == 0..(CountMod - 1)

TimerTypeOK ==
  /\ list \in Seq(Timers) /\ IsInjective(list)
  /\ value \in [Timers -> Nat] /\ interval \in [Timers -> Nat] /\ left \in [Timers -> Nat]
  /\ counter \in Reading /\ count \in Reading /\ compare \in Reading
  /\ queue \in Seq({"COUNTER", "VI"})
  /\ walk \in {"idle", "walk"} \cup Timers /\ ~InList(walk)
  /\ stopping \in [Apps -> Timers \cup {NoTimer}]

(* The timer that has just expired is not due again too early either. *)
RearmDue == walk \in Timers => left[walk] = 0 \/ interval[walk] - Elapsed >= left[walk]

TimerInv == TimerTypeOK /\ DueInTime /\ RearmDue /\ Watched

------------------------------------------------------------------------------
(* Numbers *)

(* A set of naturals with 0, and with the successor of each member, has them all. *)
LEMMA Induction ==
  ASSUME NEW S, 0 \in S, \A n \in Nat : n \in S => n + 1 \in S
  PROVE  \A n \in Nat : n \in S
<1> DEFINE T == Nat \ S
<1>1. SUFFICES ASSUME T # {} PROVE FALSE
  OBVIOUS
<1>2. PICK x \in T : \A y \in T : ~ (<<y, x>> \in OpToRel(<, Nat))
  BY <1>1, NatLessThanWellFounded, WFMin
<1>3. \A y \in T : ~ (y < x)
  BY <1>2 DEF OpToRel
<1>4. x # 0 /\ x \in Nat
  BY DEF T
<1>5. x - 1 \in Nat /\ x - 1 < x /\ (x - 1) + 1 = x
  BY <1>4
<1>6. x - 1 \in S
  BY <1>3, <1>5
<1> QED BY <1>5, <1>6

LEMMA Wrap ==
  ASSUME NEW c \in Nat \ {0}
  PROVE  \A x \in (0 - c)..(2 * c - 1) :
           x % c = IF x < 0 THEN x + c ELSE IF x < c THEN x ELSE x - c
<1> SUFFICES ASSUME NEW x \in (0 - c)..(2 * c - 1)
             PROVE  x % c = IF x < 0 THEN x + c ELSE IF x < c THEN x ELSE x - c
  OBVIOUS
<1>1. CASE x < 0            BY <1>1
<1>2. CASE 0 <= x /\ x < c  BY <1>2
<1>3. CASE c <= x           BY <1>3
<1> QED BY <1>1, <1>2, <1>3

LEMMA ModLoses ==
  ASSUME NEW c \in Nat \ {0}, NEW x \in Nat
  PROVE  x % c \in 0..(c - 1) /\ \E m \in Nat : (m = 0 \/ m >= c) /\ x % c = x - m
<1>1. x % c = x - (x \div c) * c /\ x \div c \in Nat /\ x % c \in 0..(c - 1)
  OBVIOUS
<1>2. ASSUME NEW q \in Nat PROVE q * c \in Nat /\ (q * c = 0 \/ q * c >= c)
  <2>1. CASE q = 0   BY <2>1
  <2>2. CASE q >= 1  BY <2>2
  <2> QED BY <2>1, <2>2
<1> QED BY <1>1, <1>2

------------------------------------------------------------------------------
(* Sums along a list *)

Sums(f, l, v, n) == f = [j \in 0..n |-> IF j = 0 THEN 0 ELSE f[j - 1] + v[l[j]]]
Sum(l, v, n)     == (CHOOSE f : Sums(f, l, v, n))[n]

LEMMA DueAtIsSum ==
  \A v, i : DueAt(v, i) = Sum(list, v, i) /\ DueAt(v, i)' = Sum(list', v', i)
BY DEF DueAt, Sum, Sums

LEMMA SumsExist == \A l, v : \A n \in Nat : \E f : Sums(f, l, v, n)
<1> SUFFICES ASSUME NEW l, NEW v PROVE \A n \in Nat : \E f : Sums(f, l, v, n)
  OBVIOUS
<1> DEFINE S == {n \in Nat : \E f : Sums(f, l, v, n)}
<1>1. 0 \in S
  <2>1. Sums([j \in 0..0 |-> 0], l, v, 0)
    BY DEF Sums
  <2> QED BY <2>1
<1>2. ASSUME NEW n \in Nat, n \in S PROVE n + 1 \in S
  <2>1. PICK f : Sums(f, l, v, n)
    BY <1>2
  <2> DEFINE g == [j \in 0..(n + 1) |-> IF j = n + 1 THEN f[n] + v[l[n + 1]] ELSE f[j]]
  <2>2. \A j \in 0..n : f[j] = IF j = 0 THEN 0 ELSE f[j - 1] + v[l[j]]
    BY <2>1 DEF Sums
  <2>3. ASSUME NEW j \in 0..(n + 1)
        PROVE  g[j] = IF j = 0 THEN 0 ELSE g[j - 1] + v[l[j]]
    <3>1. CASE j = n + 1
      <4>1. j # 0 /\ j - 1 = n /\ n \in 0..(n + 1) /\ n # n + 1
        BY <3>1
      <4> QED BY <3>1, <4>1
    <3>2. CASE j # n + 1 /\ j # 0
      <4>1. j \in 0..n /\ j - 1 \in 0..(n + 1) /\ j - 1 # n + 1
        BY <3>2
      <4> QED BY <2>2, <3>2, <4>1
    <3>3. CASE j = 0
      BY <2>2, <3>3
    <3> QED BY <3>1, <3>2, <3>3
  <2>4. Sums(g, l, v, n + 1)
    <3>1. g = [j \in 0..(n + 1) |-> g[j]]
      OBVIOUS
    <3> HIDE DEF g
    <3> QED BY <2>3, <3>1 DEF Sums
  <2> QED BY <2>4
<1> HIDE DEF S
<1>3. \A n \in Nat : n \in S
  BY <1>1, <1>2, Induction
<1> QED BY <1>3 DEF S

LEMMA SumsAgree ==
  ASSUME NEW l, NEW v, NEW m \in Nat, NEW n \in Nat, NEW f, NEW g,
         Sums(f, l, v, m), Sums(g, l, v, n)
  PROVE  \A k \in Nat : k <= m /\ k <= n => f[k] = g[k]
<1> DEFINE S == {k \in Nat : k <= m /\ k <= n => f[k] = g[k]}
<1>1. /\ \A j \in 0..m : f[j] = IF j = 0 THEN 0 ELSE f[j - 1] + v[l[j]]
      /\ \A j \in 0..n : g[j] = IF j = 0 THEN 0 ELSE g[j - 1] + v[l[j]]
  BY DEF Sums
<1>2. 0 \in S
  BY <1>1
<1>3. ASSUME NEW k \in Nat, k \in S PROVE k + 1 \in S
  <2> SUFFICES ASSUME k + 1 <= m, k + 1 <= n PROVE f[k + 1] = g[k + 1]
    OBVIOUS
  <2>1. f[k] = g[k]
    BY <1>3
  <2>2. k + 1 # 0 /\ (k + 1) - 1 = k /\ k + 1 \in 0..m /\ k + 1 \in 0..n
    OBVIOUS
  <2> QED BY <1>1, <2>1, <2>2
<1> HIDE DEF S
<1>4. \A k \in Nat : k \in S
  BY <1>2, <1>3, Induction
<1> QED BY <1>4 DEF S

LEMMA SumStep ==
  ASSUME NEW l, NEW v
  PROVE  /\ Sum(l, v, 0) = 0
         /\ \A n \in Nat \ {0} : Sum(l, v, n) = Sum(l, v, n - 1) + v[l[n]]
<1> DEFINE F(n) == CHOOSE f : Sums(f, l, v, n)
<1>1. \A n \in Nat : Sums(F(n), l, v, n)
  BY SumsExist
<1>2. \A n \in Nat : Sum(l, v, n) = F(n)[n]
  BY DEF Sum
<1> HIDE DEF F
<1>3. \A n \in Nat : \A j \in 0..n : F(n)[j] = IF j = 0 THEN 0 ELSE F(n)[j - 1] + v[l[j]]
  BY <1>1 DEF Sums
<1>4. Sum(l, v, 0) = 0
  BY <1>2, <1>3
<1>5. ASSUME NEW n \in Nat \ {0} PROVE Sum(l, v, n) = Sum(l, v, n - 1) + v[l[n]]
  <2>1. n - 1 \in Nat /\ n - 1 <= n /\ n \in 0..n
    OBVIOUS
  <2>2. F(n)[n - 1] = F(n - 1)[n - 1]
    BY <1>1, <2>1, SumsAgree
  <2> QED BY <1>2, <1>3, <2>1, <2>2
<1> QED BY <1>4, <1>5

(* The first n values are the same on both sides. *)
Alike(l, v, a, k, w, b, n) ==
  \A j \in 1..n : w[k[b + j]] = v[l[a + j]] /\ v[l[a + j]] \in Int

(* So are the sums, but for a constant. *)
Shifted(l, v, a, k, w, b, n, d) == \A i \in 0..n : Sum(k, w, b + i) = Sum(l, v, a + i) + d

IntSums(l, v, a, n) == \A i \in Nat : i <= n => Sum(l, v, a + i) \in Int

(* From a place on, two sums differ by as much as they did there. *)
LEMMA SumsApart ==
  ASSUME NEW l, NEW v, NEW k, NEW w, NEW a \in Nat, NEW b \in Nat, NEW n \in Nat, NEW d \in Int,
         IntSums(l, v, a, n), Sum(k, w, b) = Sum(l, v, a) + d, Alike(l, v, a, k, w, b, n)
  PROVE  Shifted(l, v, a, k, w, b, n, d)
<1> USE DEF IntSums, Alike
<1> DEFINE S == {i \in Nat : i <= n => Sum(k, w, b + i) = Sum(l, v, a + i) + d}
<1>1. 0 \in S
  OBVIOUS
<1>2. ASSUME NEW i \in Nat, i \in S PROVE i + 1 \in S
  <2> SUFFICES ASSUME i + 1 <= n PROVE Sum(k, w, b + (i + 1)) = Sum(l, v, a + (i + 1)) + d
    OBVIOUS
  <2>1. /\ b + (i + 1) \in Nat \ {0} /\ (b + (i + 1)) - 1 = b + i
        /\ a + (i + 1) \in Nat \ {0} /\ (a + (i + 1)) - 1 = a + i
        /\ i + 1 \in 1..n /\ i <= n
    OBVIOUS
  <2>2. Sum(k, w, b + i) = Sum(l, v, a + i) + d
    BY <1>2, <2>1
  <2>3. Sum(l, v, a + (i + 1)) = Sum(l, v, a + i) + v[l[a + (i + 1)]]
    <3>1. PICK x : x = a + (i + 1)
      OBVIOUS
    <3>2. PICK y : y = a + i
      OBVIOUS
    <3>3. x \in Nat \ {0} /\ x - 1 = y
      BY <3>1, <3>2
    <3>4. Sum(l, v, x) = Sum(l, v, x - 1) + v[l[x]]
      BY <3>3, SumStep
    <3> QED BY <3>1, <3>2, <3>3, <3>4
  <2>4. Sum(k, w, b + (i + 1)) = Sum(k, w, b + i) + w[k[b + (i + 1)]]
    <3>1. PICK x : x = b + (i + 1)
      OBVIOUS
    <3>2. PICK y : y = b + i
      OBVIOUS
    <3>3. x \in Nat \ {0} /\ x - 1 = y
      BY <3>1, <3>2
    <3>4. Sum(k, w, x) = Sum(k, w, x - 1) + w[k[x]]
      BY <3>3, SumStep
    <3> QED BY <3>1, <3>2, <3>3, <3>4
  <2>5. /\ w[k[b + (i + 1)]] = v[l[a + (i + 1)]] /\ v[l[a + (i + 1)]] \in Int
        /\ Sum(l, v, a + i) \in Int
    BY <2>1
  <2> QED BY <2>2, <2>3, <2>4, <2>5
<1> HIDE DEF S
<1>3. \A i \in Nat : i \in S
  BY <1>1, <1>2, Induction
<1> QED BY <1>3 DEF S, Shifted

LEMMA SumType ==
  ASSUME NEW l, NEW v, NEW n \in Nat, \A j \in 1..n : v[l[j]] \in Nat
  PROVE  \A i \in 0..n : Sum(l, v, i) \in Nat
<1> DEFINE S == {i \in Nat : i <= n => Sum(l, v, i) \in Nat}
<1>1. 0 \in S
  BY SumStep
<1>2. ASSUME NEW i \in Nat, i \in S PROVE i + 1 \in S
  <2> SUFFICES ASSUME i + 1 <= n PROVE Sum(l, v, i + 1) \in Nat
    OBVIOUS
  <2>1. i + 1 \in Nat \ {0} /\ (i + 1) - 1 = i /\ i + 1 \in 1..n
    OBVIOUS
  <2>2. Sum(l, v, i + 1) = Sum(l, v, i) + v[l[i + 1]]
    BY <2>1, SumStep
  <2> QED BY <1>2, <2>1, <2>2
<1> HIDE DEF S
<1>3. \A i \in Nat : i \in S
  BY <1>1, <1>2, Induction
<1> QED BY <1>3 DEF S


------------------------------------------------------------------------------
(* Lists of timers *)

LEMMA InsertAtProperties ==
  ASSUME NEW l \in Seq(Timers), NEW p \in 1..(Len(l) + 1), NEW t \in Timers,
         IsInjective(l), \A j \in 1..Len(l) : l[j] # t
  PROVE  /\ InsertAt(l, p, t) \in Seq(Timers) /\ IsInjective(InsertAt(l, p, t))
         /\ Len(InsertAt(l, p, t)) = Len(l) + 1
         /\ \A j \in 1..(p - 1) : InsertAt(l, p, t)[j] = l[j]
         /\ InsertAt(l, p, t)[p] = t
         /\ \A j \in p..Len(l) : InsertAt(l, p, t)[j + 1] = l[j]
<1> DEFINE u == SubSeq(l, 1, p - 1)
           v == SubSeq(l, p, Len(l))
           k == InsertAt(l, p, t)
<1>0. Len(l) \in Nat /\ p \in Nat /\ DOMAIN l = 1..Len(l)
  BY LenProperties
<1>1. /\ u \in Seq(Timers) /\ Len(u) = p - 1
      /\ \A j \in 1..(p - 1) : u[j] = l[j]
  <2>1. \A j \in 1..(p - 1) : l[j] \in Timers
    BY <1>0, ElementOfSeq
  <2> QED BY <1>0, <2>1, SubSeqProperties
<1>2. /\ v \in Seq(Timers) /\ Len(v) = Len(l) - p + 1
      /\ \A j \in 1..(Len(l) - p + 1) : v[j] = l[p + j - 1]
  <2>1. \A j \in p..Len(l) : l[j] \in Timers
    BY <1>0, ElementOfSeq
  <2>2. /\ v \in Seq(Timers)
        /\ Len(v) = IF p <= Len(l) THEN Len(l) - p + 1 ELSE 0
        /\ \A j \in 1..(Len(l) - p + 1) : v[j] = l[p + j - 1]
    BY <1>0, <2>1, SubSeqProperties
  <2> QED BY <1>0, <2>2
<1>3. <<t>> \in Seq(Timers) /\ Len(<<t>>) = 1 /\ <<t>>[1] = t
  OBVIOUS
<1> HIDE DEF u, v
<1>4. /\ u \o <<t>> \in Seq(Timers) /\ Len(u \o <<t>>) = p
      /\ \A j \in 1..p : (u \o <<t>>)[j] = IF j < p THEN l[j] ELSE t
  <2>1. /\ u \o <<t>> \in Seq(Timers) /\ Len(u \o <<t>>) = Len(u) + 1
        /\ \A j \in 1..(Len(u) + 1) :
             (u \o <<t>>)[j] = IF j <= Len(u) THEN u[j] ELSE <<t>>[j - Len(u)]
    BY <1>1, <1>3, ConcatProperties
  <2> QED BY <1>0, <1>1, <1>3, <2>1
<1>5. /\ (u \o <<t>>) \o v \in Seq(Timers)
      /\ Len((u \o <<t>>) \o v) = p + Len(v)
      /\ \A j \in 1..(p + Len(v)) :
           ((u \o <<t>>) \o v)[j] = IF j <= p THEN (u \o <<t>>)[j] ELSE v[j - p]
  BY <1>2, <1>4, ConcatProperties
<1>6. k = (u \o <<t>>) \o v
  BY DEF InsertAt, u, v
<1>7. k \in Seq(Timers) /\ Len(k) = Len(l) + 1
  <2>1. p + Len(v) = Len(l) + 1
    BY <1>0, <1>2
  <2> QED BY <1>5, <1>6, <2>1
<1> HIDE DEF k
<1>8. \A j \in 1..(Len(l) + 1) : k[j] = IF j < p THEN l[j] ELSE IF j = p THEN t ELSE l[j - 1]
  <2> SUFFICES ASSUME NEW j \in 1..(Len(l) + 1)
               PROVE  k[j] = IF j < p THEN l[j] ELSE IF j = p THEN t ELSE l[j - 1]
    OBVIOUS
  <2>1. k[j] = IF j <= p THEN (u \o <<t>>)[j] ELSE v[j - p]
    <3>1. j \in 1..(p + Len(v))
      BY <1>0, <1>2
    <3> QED BY <1>5, <1>6, <3>1
  <2>2. CASE j <= p
    BY <1>0, <1>4, <2>1, <2>2
  <2>3. CASE j > p
    <3>1. j - p \in 1..(Len(l) - p + 1) /\ p + (j - p) - 1 = j - 1
      BY <1>0, <2>3
    <3>2. v[j - p] = l[j - 1]
      BY <1>2, <3>1
    <3> QED BY <1>0, <2>1, <2>3, <3>2
  <2> QED BY <1>0, <2>2, <2>3
<1>9. \A j \in p..Len(l) : k[j + 1] = l[j]
  <2> SUFFICES ASSUME NEW j \in p..Len(l) PROVE k[j + 1] = l[j]
    OBVIOUS
  <2>1. j + 1 \in 1..(Len(l) + 1) /\ (j + 1) - 1 = j /\ ~(j + 1 < p) /\ j + 1 # p
    BY <1>0
  <2> QED BY <1>8, <2>1
<1>10. IsInjective(k)
  <2> SUFFICES ASSUME NEW i \in 1..(Len(l) + 1), NEW j \in 1..(Len(l) + 1), k[i] = k[j]
               PROVE  i = j
    BY <1>7 DEF IsInjective
  <2>1. \A a, b \in 1..Len(l) : l[a] = l[b] => a = b
    BY <1>0 DEF IsInjective
  <2>2. \/ i < p /\ i \in 1..Len(l) /\ k[i] = l[i]
        \/ i = p /\ k[i] = t
        \/ i > p /\ i - 1 \in 1..Len(l) /\ k[i] = l[i - 1]
    BY <1>0, <1>8
  <2>3. \/ j < p /\ j \in 1..Len(l) /\ k[j] = l[j]
        \/ j = p /\ k[j] = t
        \/ j > p /\ j - 1 \in 1..Len(l) /\ k[j] = l[j - 1]
    BY <1>0, <1>8
  <2>4. CASE i > p /\ j > p
    <3>1. i - 1 = j - 1
      BY <1>0, <2>1, <2>2, <2>3, <2>4
    <3> QED BY <1>0, <3>1
  <2>5. CASE i > p /\ j < p
    <3>1. i - 1 = j
      BY <1>0, <2>1, <2>2, <2>3, <2>5
    <3> QED BY <1>0, <2>5, <3>1
  <2>6. CASE i < p /\ j > p
    <3>1. i = j - 1
      BY <1>0, <2>1, <2>2, <2>3, <2>6
    <3> QED BY <1>0, <2>6, <3>1
  <2> QED BY <1>0, <2>1, <2>2, <2>3, <2>4, <2>5, <2>6
<1> QED BY <1>0, <1>7, <1>8, <1>9, <1>10 DEF k

LEMMA RemoveAtProperties ==
  ASSUME NEW l \in Seq(Timers), NEW p \in 1..Len(l), IsInjective(l)
  PROVE  /\ RemoveAt(l, p) \in Seq(Timers) /\ IsInjective(RemoveAt(l, p))
         /\ Len(RemoveAt(l, p)) = Len(l) - 1
         /\ \A j \in 1..(p - 1) : RemoveAt(l, p)[j] = l[j]
         /\ \A j \in p..(Len(l) - 1) : RemoveAt(l, p)[j] = l[j + 1]
<1> DEFINE u == SubSeq(l, 1, p - 1)
           v == SubSeq(l, p + 1, Len(l))
           k == RemoveAt(l, p)
<1>0. Len(l) \in Nat /\ p \in Nat /\ DOMAIN l = 1..Len(l)
  BY LenProperties
<1>1. /\ u \in Seq(Timers) /\ Len(u) = p - 1
      /\ \A j \in 1..(p - 1) : u[j] = l[j]
  <2>1. \A j \in 1..(p - 1) : l[j] \in Timers
    BY <1>0, ElementOfSeq
  <2> QED BY <1>0, <2>1, SubSeqProperties
<1>2. /\ v \in Seq(Timers) /\ Len(v) = Len(l) - p
      /\ \A j \in 1..(Len(l) - p) : v[j] = l[p + j]
  <2>1. \A j \in (p + 1)..Len(l) : l[j] \in Timers
    BY <1>0, ElementOfSeq
  <2>2. /\ v \in Seq(Timers)
        /\ Len(v) = IF p + 1 <= Len(l) THEN Len(l) - (p + 1) + 1 ELSE 0
        /\ \A j \in 1..(Len(l) - (p + 1) + 1) : v[j] = l[(p + 1) + j - 1]
    BY <1>0, <2>1, SubSeqProperties
  <2> HIDE DEF v
  <2>3. ASSUME NEW j \in 1..(Len(l) - p) PROVE v[j] = l[p + j]
    <3>1. j \in 1..(Len(l) - (p + 1) + 1) /\ (p + 1) + j - 1 = p + j
      BY <1>0
    <3> QED BY <2>2, <3>1
  <2>4. Len(v) = Len(l) - p
    <3>1. PICK n : n = Len(l)
      OBVIOUS
    <3>2. n \in Nat /\ p \in 1..n /\ Len(v) = IF p + 1 <= n THEN n - (p + 1) + 1 ELSE 0
      BY <1>0, <2>2, <3>1
    <3>3. (IF p + 1 <= n THEN n - (p + 1) + 1 ELSE 0) = n - p
      BY <3>2
    <3> QED BY <3>1, <3>2, <3>3
  <2> QED BY <2>2, <2>3, <2>4
<1> HIDE DEF u, v
<1>3. /\ u \o v \in Seq(Timers) /\ Len(u \o v) = Len(u) + Len(v)
      /\ \A j \in 1..(Len(u) + Len(v)) :
           (u \o v)[j] = IF j <= Len(u) THEN u[j] ELSE v[j - Len(u)]
  BY <1>1, <1>2, ConcatProperties
<1>4. k = u \o v
  BY DEF RemoveAt, u, v
<1>5. k \in Seq(Timers) /\ Len(k) = Len(l) - 1
  <2>1. Len(u) + Len(v) = Len(l) - 1
    BY <1>0, <1>1, <1>2
  <2> QED BY <1>3, <1>4, <2>1
<1> HIDE DEF k
<1>6. \A j \in 1..(p - 1) : k[j] = l[j]
  <2> SUFFICES ASSUME NEW j \in 1..(p - 1) PROVE k[j] = l[j]
    OBVIOUS
  <2>1. j \in 1..(Len(u) + Len(v)) /\ j <= Len(u)
    BY <1>0, <1>1, <1>2
  <2> QED BY <1>1, <1>3, <1>4, <2>1
<1>7. \A j \in p..(Len(l) - 1) : k[j] = l[j + 1]
  <2> SUFFICES ASSUME NEW j \in p..(Len(l) - 1) PROVE k[j] = l[j + 1]
    OBVIOUS
  <2>1. /\ j \in 1..(Len(u) + Len(v)) /\ ~(j <= Len(u)) /\ j - Len(u) = j - p + 1
        /\ j - p + 1 \in 1..(Len(l) - p) /\ p + (j - p + 1) = j + 1
    BY <1>0, <1>1, <1>2
  <2>2. k[j] = v[j - p + 1]
    BY <1>3, <1>4, <2>1
  <2>3. v[j - p + 1] = l[p + (j - p + 1)]
    BY <1>2, <2>1
  <2> QED BY <2>1, <2>2, <2>3
<1>8. IsInjective(k)
  <2> SUFFICES ASSUME NEW i \in 1..(Len(l) - 1), NEW j \in 1..(Len(l) - 1), k[i] = k[j]
               PROVE  i = j
    BY <1>5 DEF IsInjective
  <2>1. \A a, b \in 1..Len(l) : l[a] = l[b] => a = b
    BY <1>0 DEF IsInjective
  <2>2. \/ i < p /\ i \in 1..Len(l) /\ k[i] = l[i]
        \/ i >= p /\ i + 1 \in 1..Len(l) /\ k[i] = l[i + 1]
    BY <1>0, <1>6, <1>7
  <2>3. \/ j < p /\ j \in 1..Len(l) /\ k[j] = l[j]
        \/ j >= p /\ j + 1 \in 1..Len(l) /\ k[j] = l[j + 1]
    BY <1>0, <1>6, <1>7
  <2>4. CASE i >= p /\ j >= p
    <3>1. i + 1 = j + 1
      BY <1>0, <2>1, <2>2, <2>3, <2>4
    <3> QED BY <1>0, <3>1
  <2>5. CASE i >= p /\ j < p
    <3>1. i + 1 = j
      BY <1>0, <2>1, <2>2, <2>3, <2>5
    <3> QED BY <1>0, <2>5, <3>1
  <2>6. CASE i < p /\ j >= p
    <3>1. i = j + 1
      BY <1>0, <2>1, <2>2, <2>3, <2>6
    <3> QED BY <1>0, <2>6, <3>1
  <2> QED BY <1>0, <2>1, <2>2, <2>3, <2>4, <2>5, <2>6
<1> QED BY <1>5, <1>6, <1>7, <1>8 DEF k


------------------------------------------------------------------------------
(* Due times through the operations on the list *)

InTime(l, v, x, e) == \A i \in 1..Len(l) : x[l[i]] = 0 \/ Sum(l, v, i) - e >= x[l[i]]

Active(l, v) == l \in Seq(Timers) /\ IsInjective(l) /\ v \in [Timers -> Nat]

LEMMA ActiveSums ==
  ASSUME NEW l, NEW v, Active(l, v)
  PROVE  /\ \A j \in 1..Len(l) : l[j] \in Timers /\ v[l[j]] \in Nat
         /\ \A i \in 0..Len(l) : Sum(l, v, i) \in Nat
         /\ \A i, j \in 1..Len(l) : l[i] = l[j] => i = j
         /\ Len(l) \in Nat
<1>1. \A j \in 1..Len(l) : l[j] \in Timers /\ v[l[j]] \in Nat
  BY DEF Active
<1>2. Len(l) \in Nat
  BY DEF Active
<1>3. \A i \in 0..Len(l) : Sum(l, v, i) \in Nat
  BY <1>1, <1>2, SumType
<1> QED BY <1>1, <1>2, <1>3 DEF Active, IsInjective

(* t goes to place p: everybody before it is due earlier than it, and the *)
(* timer that is there now is not.                                        *)
Goes(l, v, t, p) ==
  /\ Active(l, v) /\ t \in Timers /\ \A j \in 1..Len(l) : l[j] # t
  /\ p \in 1..(Len(l) + 1)
  /\ \A j \in 1..(p - 1) : v[t] > Sum(l, v, j)
  /\ p <= Len(l) => v[t] <= Sum(l, v, p)

Inserted(l, v, t, p) ==
  [u \in Timers |->
     IF u = t THEN v[t] - Sum(l, v, p - 1)
     ELSE IF p <= Len(l) /\ u = l[p] THEN v[u] - (v[t] - Sum(l, v, p - 1))
     ELSE v[u]]

LEMMA GoesTo ==
  ASSUME NEW l, NEW v, NEW t, NEW p, Goes(l, v, t, p)
  PROVE  /\ InsertAt(l, p, t) \in Seq(Timers) /\ IsInjective(InsertAt(l, p, t))
         /\ Len(InsertAt(l, p, t)) = Len(l) + 1
         /\ \A j \in 1..(p - 1) : InsertAt(l, p, t)[j] = l[j]
         /\ InsertAt(l, p, t)[p] = t
         /\ \A j \in p..Len(l) : InsertAt(l, p, t)[j + 1] = l[j]
BY InsertAtProperties DEF Goes, Active

(* __osInsertTimer: t is due when it should be, everybody else as before. *)
LEMMA InsertSums ==
  ASSUME NEW l, NEW v, NEW t, NEW p, Goes(l, v, t, p),
         NEW k, k = InsertAt(l, p, t), NEW w, w = Inserted(l, v, t, p)
  PROVE  /\ w \in [Timers -> Nat]
         /\ Sum(k, w, p) = v[t]
         /\ \A i \in 1..(p - 1) : Sum(k, w, i) = Sum(l, v, i)
         /\ \A i \in p..Len(l) : Sum(k, w, i + 1) = Sum(l, v, i)
<1> DEFINE d == v[t] - Sum(l, v, p - 1)
<1>1. /\ Len(l) \in Nat /\ p \in Nat \ {0} /\ p \in 1..(Len(l) + 1)
      /\ t \in Timers /\ v \in [Timers -> Nat]
      /\ \A j \in 1..Len(l) : l[j] # t
      /\ \A j \in 1..(p - 1) : v[t] > Sum(l, v, j)
      /\ p <= Len(l) => v[t] <= Sum(l, v, p)
  BY DEF Goes, Active
<1>2. /\ \A j \in 1..(p - 1) : k[j] = l[j]
      /\ k[p] = t
      /\ \A j \in p..Len(l) : k[j + 1] = l[j]
  BY GoesTo
<1>3. /\ \A j \in 1..Len(l) : l[j] \in Timers /\ v[l[j]] \in Nat
      /\ \A i, j \in 1..Len(l) : l[i] = l[j] => i = j
  BY ActiveSums DEF Goes
<1>4. \A i \in 0..Len(l) : Sum(l, v, i) \in Nat
  BY ActiveSums DEF Goes
<1>5. p - 1 \in 0..Len(l) /\ Sum(l, v, p - 1) \in Nat /\ v[t] \in Nat
  BY <1>1, <1>4
<1>6. d \in Nat
  <2>1. CASE p = 1
    BY <1>5, <2>1, SumStep
  <2>2. CASE p # 1
    <3>1. p - 1 \in 1..(p - 1)
      BY <1>1, <2>2
    <3>2. v[t] > Sum(l, v, p - 1)
      BY <1>1, <3>1
    <3> QED BY <1>5, <3>2
  <2> QED BY <2>1, <2>2
<1>7. ASSUME p <= Len(l)
      PROVE  /\ Sum(l, v, p) = Sum(l, v, p - 1) + v[l[p]] /\ v[l[p]] \in Nat /\ l[p] \in Timers
             /\ l[p] # t /\ v[l[p]] - d \in Nat
  <2>1. Sum(l, v, p) = Sum(l, v, p - 1) + v[l[p]]
    BY <1>1, SumStep
  <2>2. p \in 1..Len(l) /\ Sum(l, v, p) \in Nat
    BY <1>1, <1>4, <1>7
  <2> QED BY <1>1, <1>3, <1>5, <1>7, <2>1, <2>2
<1> HIDE DEF d
<1>8. /\ w[t] = d
      /\ p <= Len(l) => w[l[p]] = v[l[p]] - d
      /\ \A j \in 1..Len(l) : j # p => w[l[j]] = v[l[j]]
  BY <1>1, <1>3, <1>7 DEF d, Inserted
<1>9. w \in [Timers -> Nat]
  <2>1. \A u \in Timers : w[u] \in Nat
    BY <1>1, <1>6, <1>7 DEF d, Inserted
  <2> QED BY <2>1 DEF Inserted
<1>10. \A i \in 0..(p - 1) : Sum(k, w, i) = Sum(l, v, i)
  <2>1. PICK n \in Nat : n = p - 1
    BY <1>1
  <2>2. Alike(l, v, 0, k, w, 0, n)
    <3> SUFFICES ASSUME NEW j \in 1..n
                 PROVE  w[k[0 + j]] = v[l[0 + j]] /\ v[l[0 + j]] \in Int
      BY DEF Alike
    <3>1. 0 + j = j /\ j \in 1..(p - 1) /\ j \in 1..Len(l) /\ j # p
      BY <1>1, <2>1
    <3>2. k[j] = l[j] /\ w[l[j]] = v[l[j]] /\ v[l[j]] \in Int
      BY <1>2, <1>3, <1>8, <3>1
    <3> QED BY <3>1, <3>2
  <2>3. IntSums(l, v, 0, n)
    <3> SUFFICES ASSUME NEW i \in Nat, i <= n PROVE Sum(l, v, 0 + i) \in Int
      BY DEF IntSums
    <3>1. 0 + i = i /\ i \in 0..Len(l)
      BY <1>1, <2>1
    <3> QED BY <1>4, <3>1
  <2>4. Sum(k, w, 0) = Sum(l, v, 0) + 0
    BY SumStep
  <2>5. Shifted(l, v, 0, k, w, 0, n, 0)
    BY <2>2, <2>3, <2>4, SumsApart
  <2> SUFFICES ASSUME NEW i \in 0..(p - 1) PROVE Sum(k, w, i) = Sum(l, v, i)
    OBVIOUS
  <2>6. i \in 0..n /\ 0 + i = i /\ i \in 0..Len(l)
    BY <1>1, <2>1
  <2>7. Sum(k, w, 0 + i) = Sum(l, v, 0 + i) + 0
    BY <2>5, <2>6 DEF Shifted
  <2> QED BY <1>4, <2>6, <2>7
<1>11. Sum(k, w, p) = v[t]
  <2>1. Sum(k, w, p) = Sum(k, w, p - 1) + w[k[p]]
    BY <1>1, SumStep
  <2>2. Sum(k, w, p - 1) = Sum(l, v, p - 1)
    BY <1>1, <1>10
  <2> QED BY <1>2, <1>5, <1>8, <2>1, <2>2 DEF d
<1>12. ASSUME NEW i \in p..Len(l) PROVE Sum(k, w, i + 1) = Sum(l, v, i)
  <2>1. p <= Len(l) /\ p \in 1..Len(l) /\ p \in p..Len(l)
    BY <1>1
  <2>2. PICK q \in Nat \ {0} : q = p + 1 /\ q - 1 = p
    BY <1>1
  <2>3. Sum(k, w, q) = Sum(l, v, p) + 0
    <3>1. Sum(k, w, q) = Sum(k, w, q - 1) + w[k[q]]
      BY <2>2, SumStep
    <3>2. k[q] = l[p]
      BY <1>2, <2>1, <2>2
    <3>3. Sum(l, v, p) = Sum(l, v, p - 1) + v[l[p]] /\ w[l[p]] = v[l[p]] - d /\ v[l[p]] \in Nat
      BY <1>7, <1>8, <2>1
    <3> QED BY <1>5, <1>6, <1>11, <2>2, <3>1, <3>2, <3>3 DEF d
  <2>4. PICK n \in Nat : n = Len(l) - p
    BY <1>1, <2>1
  <2>5. IntSums(l, v, p, n)
    <3> SUFFICES ASSUME NEW j \in Nat, j <= n PROVE Sum(l, v, p + j) \in Int
      BY DEF IntSums
    <3>1. p + j \in 0..Len(l)
      BY <1>1, <2>4
    <3> QED BY <1>4, <3>1
  <2>6. Alike(l, v, p, k, w, q, n)
    <3> SUFFICES ASSUME NEW j \in 1..n
                 PROVE  w[k[q + j]] = v[l[p + j]] /\ v[l[p + j]] \in Int
      BY DEF Alike
    <3>1. PICK y : y = p + j
      OBVIOUS
    <3>2. y \in p..Len(l) /\ y \in 1..Len(l) /\ y # p /\ q + j = y + 1
      BY <1>1, <2>2, <2>4, <3>1
    <3>3. k[y + 1] = l[y] /\ w[l[y]] = v[l[y]] /\ v[l[y]] \in Int
      BY <1>2, <1>3, <1>8, <3>2
    <3> QED BY <3>1, <3>2, <3>3
  <2>7. Shifted(l, v, p, k, w, q, n, 0)
    BY <1>1, <2>2, <2>3, <2>5, <2>6, SumsApart
  <2>8. PICK j \in 0..n : j = i - p
    BY <1>1, <2>4
  <2>9. Sum(k, w, q + j) = Sum(l, v, p + j) + 0
    BY <2>7 DEF Shifted
  <2>10. q + j = i + 1 /\ p + j = i /\ i \in 0..Len(l)
    BY <1>1, <2>2, <2>8
  <2> QED BY <1>4, <2>9, <2>10
<1>13. \A i \in 1..(p - 1) : i \in 0..(p - 1)
  BY <1>1
<1> QED BY <1>9, <1>10, <1>11, <1>12, <1>13

LEMMA InsertInTime ==
  ASSUME NEW l, NEW v, NEW t, NEW p, Goes(l, v, t, p), NEW x, NEW e,
         InTime(l, v, x, e), x[t] = 0 \/ v[t] - e >= x[t]
  PROVE  InTime(InsertAt(l, p, t), Inserted(l, v, t, p), x, e)
<1> DEFINE k == InsertAt(l, p, t)
           w == Inserted(l, v, t, p)
<1>1. /\ Sum(k, w, p) = v[t]
      /\ \A i \in 1..(p - 1) : Sum(k, w, i) = Sum(l, v, i)
      /\ \A i \in p..Len(l) : Sum(k, w, i + 1) = Sum(l, v, i)
  BY InsertSums
<1>2. /\ Len(k) = Len(l) + 1
      /\ \A j \in 1..(p - 1) : k[j] = l[j]
      /\ k[p] = t
      /\ \A j \in p..Len(l) : k[j + 1] = l[j]
  BY GoesTo
<1>3. Len(l) \in Nat /\ p \in 1..(Len(l) + 1)
  BY DEF Goes, Active
<1> HIDE DEF k, w
<1>4. ASSUME NEW i \in 1..Len(k)
      PROVE  x[k[i]] = 0 \/ Sum(k, w, i) - e >= x[k[i]]
  <2>1. CASE i < p
    <3>1. i \in 1..(p - 1) /\ i \in 1..Len(l)
      BY <1>2, <1>3, <2>1
    <3>2. k[i] = l[i] /\ Sum(k, w, i) = Sum(l, v, i)
      BY <1>1, <1>2, <3>1
    <3>3. x[l[i]] = 0 \/ Sum(l, v, i) - e >= x[l[i]]
      BY <3>1 DEF InTime
    <3> QED BY <3>2, <3>3
  <2>2. CASE i = p
    BY <1>1, <1>2, <2>2
  <2>3. CASE i > p
    <3>1. PICK j \in p..Len(l) : i = j + 1
      <4>1. i - 1 \in p..Len(l) /\ i = (i - 1) + 1
        BY <1>2, <1>3, <2>3
      <4> QED BY <4>1
    <3>2. j \in 1..Len(l)
      BY <1>3
    <3>3. k[i] = l[j] /\ Sum(k, w, i) = Sum(l, v, j)
      BY <1>1, <1>2, <3>1
    <3>4. x[l[j]] = 0 \/ Sum(l, v, j) - e >= x[l[j]]
      BY <3>2 DEF InTime
    <3> QED BY <3>3, <3>4
  <2> QED BY <1>2, <1>3, <2>1, <2>2, <2>3
<1> QED BY <1>4 DEF InTime, k, w

(* The first timer leaves: the others lose its value. *)
LEMMA TailSums ==
  ASSUME NEW l, NEW v, Active(l, v), l # <<>>
  PROVE  \A i \in 1..(Len(l) - 1) : Sum(Tail(l), v, i) = Sum(l, v, i + 1) - v[Head(l)]
<1> DEFINE k == Tail(l)
           d == 0 - v[l[1]]
<1>1. /\ Len(l) \in Nat \ {0} /\ Head(l) = l[1]
      /\ \A j \in 1..(Len(l) - 1) : k[j] = l[j + 1]
  BY DEF Active
<1> HIDE DEF k
<1>2. /\ \A j \in 1..Len(l) : v[l[j]] \in Nat
      /\ \A i \in 0..Len(l) : Sum(l, v, i) \in Nat
  BY ActiveSums
<1>3. Sum(l, v, 1) = v[l[1]] /\ v[l[1]] \in Nat
  <2>1. Sum(l, v, 1) = Sum(l, v, 1 - 1) + v[l[1]] /\ Sum(l, v, 0) = 0 /\ 1 - 1 = 0
    BY SumStep
  <2>2. v[l[1]] \in Nat
    BY <1>1, <1>2
  <2> QED BY <2>1, <2>2
<1>4. Sum(k, v, 0) = Sum(l, v, 1) + d /\ d \in Int
  BY <1>3, SumStep
<1> HIDE DEF d
<1>5. PICK n \in Nat : n = Len(l) - 1
  BY <1>1
<1>6. IntSums(l, v, 1, n)
  <2> SUFFICES ASSUME NEW i \in Nat, i <= n PROVE Sum(l, v, 1 + i) \in Int
    BY DEF IntSums
  <2>1. 1 + i \in 0..Len(l)
    BY <1>1, <1>5
  <2> QED BY <1>2, <2>1
<1>7. Alike(l, v, 1, k, v, 0, n)
  <2> SUFFICES ASSUME NEW j \in 1..n
               PROVE  v[k[0 + j]] = v[l[1 + j]] /\ v[l[1 + j]] \in Int
    BY DEF Alike
  <2>1. PICK y \in 1..Len(l) : y = j + 1
    BY <1>1, <1>5
  <2>2. 0 + j = j /\ 1 + j = y /\ j \in 1..(Len(l) - 1)
    BY <1>5, <2>1
  <2>3. k[j] = l[y] /\ v[l[y]] \in Int
    BY <1>1, <1>2, <2>1, <2>2
  <2> QED BY <2>2, <2>3
<1>8. Shifted(l, v, 1, k, v, 0, n, d)
  BY <1>4, <1>6, <1>7, SumsApart
<1>9. ASSUME NEW i \in 1..(Len(l) - 1) PROVE Sum(k, v, i) = Sum(l, v, i + 1) - v[l[1]]
  <2>1. i \in 0..n /\ 0 + i = i /\ 1 + i = i + 1 /\ i + 1 \in 0..Len(l)
    BY <1>1, <1>5
  <2>2. Sum(k, v, 0 + i) = Sum(l, v, 1 + i) + d
    BY <1>8, <2>1 DEF Shifted
  <2>3. Sum(l, v, i + 1) \in Nat
    BY <1>2, <2>1
  <2> QED BY <1>3, <2>1, <2>2, <2>3 DEF d
<1> QED BY <1>1, <1>9 DEF k

(* A timer leaves and its value goes to the next: nobody else notices. *)
Folded(l, v, p) == IF p < Len(l) THEN [v EXCEPT ![l[p + 1]] = @ + v[l[p]]] ELSE v

LEMMA RemoveSums ==
  ASSUME NEW l, NEW v, Active(l, v), NEW p \in 1..Len(l),
         NEW k, k = RemoveAt(l, p), NEW w, w = Folded(l, v, p)
  PROVE  /\ w \in [Timers -> Nat]
         /\ \A i \in 1..(p - 1) : Sum(k, w, i) = Sum(l, v, i)
         /\ \A i \in p..(Len(l) - 1) : Sum(k, w, i) = Sum(l, v, i + 1)
<1>1. Len(l) \in Nat /\ p \in Nat \ {0} /\ v \in [Timers -> Nat]
  BY DEF Active
<1>2. /\ \A j \in 1..(p - 1) : k[j] = l[j]
      /\ \A j \in p..(Len(l) - 1) : k[j] = l[j + 1]
  BY RemoveAtProperties DEF Active
<1>3. /\ \A j \in 1..Len(l) : l[j] \in Timers /\ v[l[j]] \in Nat
      /\ \A i, j \in 1..Len(l) : l[i] = l[j] => i = j
  BY ActiveSums
<1>4. \A i \in 0..Len(l) : Sum(l, v, i) \in Nat
  BY ActiveSums
<1>5. /\ w \in [Timers -> Nat]
      /\ p < Len(l) => w[l[p + 1]] = v[l[p + 1]] + v[l[p]]
      /\ \A j \in 1..Len(l) : j # p + 1 => w[l[j]] = v[l[j]]
  <2>1. CASE p < Len(l)
    <3>1. PICK y \in 1..Len(l) : y = p + 1
      BY <1>1, <2>1
    <3>2. l[y] \in Timers /\ v[l[y]] + v[l[p]] \in Nat
      BY <1>3, <3>1
    <3>3. \A j \in 1..Len(l) : j # y => l[j] # l[y] /\ l[j] \in Timers
      BY <1>3, <3>1
    <3>4. w = [v EXCEPT ![l[y]] = v[l[y]] + v[l[p]]]
      BY <2>1, <3>1 DEF Folded
    <3>5. w \in [Timers -> Nat] /\ w[l[y]] = v[l[y]] + v[l[p]]
      BY <1>1, <3>2, <3>4
    <3>6. \A j \in 1..Len(l) : j # y => w[l[j]] = v[l[j]]
      BY <1>1, <3>3, <3>4
    <3> QED BY <3>1, <3>5, <3>6
  <2>2. CASE ~(p < Len(l))
    BY <1>1, <2>2 DEF Folded
  <2> QED BY <2>1, <2>2
<1>6. \A i \in 0..(p - 1) : Sum(k, w, i) = Sum(l, v, i)
  <2>1. PICK n \in Nat : n = p - 1
    BY <1>1
  <2>2. Alike(l, v, 0, k, w, 0, n)
    <3> SUFFICES ASSUME NEW j \in 1..n
                 PROVE  w[k[0 + j]] = v[l[0 + j]] /\ v[l[0 + j]] \in Int
      BY DEF Alike
    <3>1. 0 + j = j /\ j \in 1..(p - 1) /\ j \in 1..Len(l) /\ j # p + 1
      BY <1>1, <2>1
    <3>2. k[j] = l[j] /\ w[l[j]] = v[l[j]] /\ v[l[j]] \in Int
      BY <1>2, <1>3, <1>5, <3>1
    <3> QED BY <3>1, <3>2
  <2>3. IntSums(l, v, 0, n)
    <3> SUFFICES ASSUME NEW i \in Nat, i <= n PROVE Sum(l, v, 0 + i) \in Int
      BY DEF IntSums
    <3>1. 0 + i = i /\ i \in 0..Len(l)
      BY <1>1, <2>1
    <3> QED BY <1>4, <3>1
  <2>4. Sum(k, w, 0) = Sum(l, v, 0) + 0
    BY SumStep
  <2>5. Shifted(l, v, 0, k, w, 0, n, 0)
    BY <2>2, <2>3, <2>4, SumsApart
  <2> SUFFICES ASSUME NEW i \in 0..(p - 1) PROVE Sum(k, w, i) = Sum(l, v, i)
    OBVIOUS
  <2>6. i \in 0..n /\ 0 + i = i /\ i \in 0..Len(l)
    BY <1>1, <2>1
  <2>7. Sum(k, w, 0 + i) = Sum(l, v, 0 + i) + 0
    BY <2>5, <2>6 DEF Shifted
  <2> QED BY <1>4, <2>6, <2>7
<1>7. ASSUME NEW i \in p..(Len(l) - 1) PROVE Sum(k, w, i) = Sum(l, v, i + 1)
  <2>1. p < Len(l) /\ p \in 1..Len(l) /\ p \in p..(Len(l) - 1)
    BY <1>1
  <2>2. PICK q \in 1..Len(l) : q = p + 1 /\ q - 1 = p
    BY <1>1, <2>1
  <2>3. Sum(k, w, p) = Sum(l, v, q) + 0
    <3>0. q \in Nat \ {0}
      BY <1>1, <2>2
    <3>1. Sum(l, v, q) = Sum(l, v, q - 1) + v[l[q]]
      BY <3>0, SumStep
    <3>2. Sum(l, v, p) = Sum(l, v, p - 1) + v[l[p]]
      BY <1>1, SumStep
    <3>3. Sum(k, w, p) = Sum(k, w, p - 1) + w[k[p]]
      BY <1>1, SumStep
    <3>4. k[p] = l[q] /\ w[l[q]] = v[l[q]] + v[l[p]]
      BY <1>2, <1>5, <2>1, <2>2
    <3>5. p - 1 \in 0..(p - 1) /\ p - 1 \in 0..Len(l)
      BY <1>1
    <3>6. Sum(k, w, p - 1) = Sum(l, v, p - 1) /\ Sum(l, v, p - 1) \in Nat
      BY <1>4, <1>6, <3>5
    <3>7. v[l[q]] \in Nat /\ v[l[p]] \in Nat
      BY <1>3, <2>1, <2>2
    <3> QED BY <2>2, <3>1, <3>2, <3>3, <3>4, <3>6, <3>7
  <2>4. PICK n \in Nat : n = Len(l) - (p + 1)
    <3>1. PICK y : y = p + 1
      OBVIOUS
    <3>2. y \in Nat /\ y <= Len(l)
      BY <1>1, <2>1, <3>1
    <3>3. Len(l) - y \in Nat
      BY <1>1, <3>2
    <3> QED BY <3>1, <3>3
  <2>5. IntSums(l, v, q, n)
    <3> SUFFICES ASSUME NEW j \in Nat, j <= n PROVE Sum(l, v, q + j) \in Int
      BY DEF IntSums
    <3>1. q + j \in 0..Len(l)
      BY <1>1, <2>2, <2>4
    <3> QED BY <1>4, <3>1
  <2>6. Alike(l, v, q, k, w, p, n)
    <3> SUFFICES ASSUME NEW j \in 1..n
                 PROVE  w[k[p + j]] = v[l[q + j]] /\ v[l[q + j]] \in Int
      BY DEF Alike
    <3>1. PICK y : y = p + j
      OBVIOUS
    <3>2. PICK z : z = q + j
      OBVIOUS
    <3>3. y \in p..(Len(l) - 1) /\ z = y + 1 /\ z \in 1..Len(l) /\ z # p + 1
      BY <1>1, <2>2, <2>4, <3>1, <3>2
    <3>4. k[y] = l[z] /\ w[l[z]] = v[l[z]] /\ v[l[z]] \in Int
      BY <1>2, <1>3, <1>5, <3>3
    <3> QED BY <3>1, <3>2, <3>4
  <2>7. Shifted(l, v, q, k, w, p, n, 0)
    BY <1>1, <2>2, <2>3, <2>5, <2>6, SumsApart
  <2>8. PICK j \in 0..n : j = i - p
    BY <1>1, <2>4
  <2>9. Sum(k, w, p + j) = Sum(l, v, q + j) + 0
    BY <2>7 DEF Shifted
  <2>10. p + j = i /\ q + j = i + 1 /\ i + 1 \in 0..Len(l)
    BY <1>1, <2>2, <2>8
  <2> QED BY <1>4, <2>9, <2>10
<1>8. \A i \in 1..(p - 1) : i \in 0..(p - 1)
  BY <1>1
<1> QED BY <1>5, <1>6, <1>7, <1>8


------------------------------------------------------------------------------
(* Registers *)

LEMMA Distance ==
  ASSUME NEW a \in Reading, NEW b \in Reading
  PROVE  /\ (a - b) % CountMod = IF a >= b THEN a - b ELSE (a - b) + CountMod
         /\ ((a - b) - 1) % CountMod = IF a > b THEN (a - b) - 1 ELSE ((a - b) - 1) + CountMod
         /\ (a + 1) % CountMod = IF a + 1 < CountMod THEN a + 1 ELSE 0
<1>1. CountMod \in Nat \ {0} /\ a \in 0..(CountMod - 1) /\ b \in 0..(CountMod - 1)
  BY TimerAssumption DEF Reading
<1> DEFINE R == (0 - CountMod)..(2 * CountMod - 1)
<1>2. \A x \in R : x % CountMod = IF x < 0 THEN x + CountMod
                                  ELSE IF x < CountMod THEN x ELSE x - CountMod
  BY <1>1, Wrap
<1>3. PICK x \in Int : x = a - b
  BY <1>1
<1>4. PICK y \in Int : y = (a - b) - 1
  BY <1>1
<1>5. PICK z \in Int : z = a + 1
  BY <1>1
<1>6. x \in R /\ y \in R /\ z \in R
  BY <1>1, <1>3, <1>4, <1>5
<1> HIDE DEF R
<1>7. /\ x % CountMod = IF x < 0 THEN x + CountMod
                        ELSE IF x < CountMod THEN x ELSE x - CountMod
      /\ y % CountMod = IF y < 0 THEN y + CountMod
                        ELSE IF y < CountMod THEN y ELSE y - CountMod
      /\ z % CountMod = IF z < 0 THEN z + CountMod
                        ELSE IF z < CountMod THEN z ELSE z - CountMod
  BY <1>2, <1>6
<1>8. x % CountMod = IF a >= b THEN a - b ELSE (a - b) + CountMod
  BY <1>1, <1>3, <1>7
<1>9. y % CountMod = IF a > b THEN (a - b) - 1 ELSE ((a - b) - 1) + CountMod
  BY <1>1, <1>4, <1>7
<1>10. z % CountMod = IF a + 1 < CountMod THEN a + 1 ELSE 0
  BY <1>1, <1>5, <1>7
<1> QED BY <1>3, <1>4, <1>5, <1>8, <1>9, <1>10

LEMMA Registers ==
  ASSUME counter \in Reading, count \in Reading, compare \in Reading
  PROVE  /\ Elapsed = IF count >= counter THEN count - counter ELSE (count - counter) + CountMod
         /\ ToCompare = IF compare > count THEN compare - count ELSE (compare - count) + CountMod
         /\ Elapsed \in Nat /\ ToCompare \in Nat
<1>1. CountMod \in Nat \ {0} /\ counter \in 0..(CountMod - 1) /\ count \in 0..(CountMod - 1)
      /\ compare \in 0..(CountMod - 1)
  BY TimerAssumption DEF Reading
<1>2. Elapsed = IF count >= counter THEN count - counter ELSE (count - counter) + CountMod
  BY Distance DEF Elapsed
<1>3. PICK x : x = ((compare - count) - 1) % CountMod
  OBVIOUS
<1>4. x = IF compare > count THEN (compare - count) - 1 ELSE ((compare - count) - 1) + CountMod
  BY <1>3, Distance
<1>5. ToCompare = x + 1
  BY <1>3 DEF ToCompare
<1>6. x + 1 = IF compare > count THEN compare - count ELSE (compare - count) + CountMod
  BY <1>1, <1>4
<1>7. Elapsed \in Nat /\ ToCompare \in Nat
  <2>1. /\ (IF count >= counter THEN count - counter ELSE (count - counter) + CountMod) \in Nat
        /\ (IF compare > count THEN compare - count ELSE (compare - count) + CountMod) \in Nat
    BY <1>1
  <2> QED BY <1>2, <1>5, <1>6, <2>1
<1> QED BY <1>2, <1>5, <1>6, <1>7

LEMMA RegistersNext ==
  ASSUME counter' \in Reading, count' \in Reading, compare' \in Reading
  PROVE  /\ Elapsed' = IF count' >= counter' THEN count' - counter'
                       ELSE (count' - counter') + CountMod
         /\ ToCompare' = IF compare' > count' THEN compare' - count'
                         ELSE (compare' - count') + CountMod
         /\ Elapsed' \in Nat /\ ToCompare' \in Nat
<1>1. CountMod \in Nat \ {0} /\ counter' \in 0..(CountMod - 1) /\ count' \in 0..(CountMod - 1)
      /\ compare' \in 0..(CountMod - 1)
  BY TimerAssumption DEF Reading
<1>2. Elapsed' = IF count' >= counter' THEN count' - counter'
                 ELSE (count' - counter') + CountMod
  BY Distance DEF Elapsed
<1>3. PICK x : x = ((compare' - count') - 1) % CountMod
  OBVIOUS
<1>4. x = IF compare' > count' THEN (compare' - count') - 1
          ELSE ((compare' - count') - 1) + CountMod
  BY <1>3, Distance
<1>5. ToCompare' = x + 1
  BY <1>3 DEF ToCompare
<1>6. x + 1 = IF compare' > count' THEN compare' - count' ELSE (compare' - count') + CountMod
  BY <1>1, <1>4
<1>7. Elapsed' \in Nat /\ ToCompare' \in Nat
  <2>1. \A a, b \in 0..(CountMod - 1) :
          /\ (IF a >= b THEN a - b ELSE (a - b) + CountMod) \in Nat
          /\ (IF a > b THEN a - b ELSE (a - b) + CountMod) \in Nat
    BY <1>1
  <2>2. Elapsed' \in Nat
    BY <1>1, <1>2, <2>1
  <2>3. (IF compare' > count' THEN compare' - count'
         ELSE (compare' - count') + CountMod) \in Nat
    BY <1>1, <2>1
  <2>4. ToCompare' \in Nat
    BY <1>5, <1>6, <2>3
  <2> QED BY <2>2, <2>4
<1> QED BY <1>2, <1>5, <1>6, <1>7

LEMMA MaxOfPair ==
  ASSUME NEW a \in Int, NEW b \in Int
  PROVE  MaxOf({a, b}) = IF a >= b THEN a ELSE b
<1> DEFINE m == IF a >= b THEN a ELSE b
<1>1. m \in {a, b} /\ \A y \in {a, b} : y <= m
  OBVIOUS
<1>2. \A x \in {a, b} : (\A y \in {a, b} : y <= x) => x = m
  OBVIOUS
<1>3. m = CHOOSE x \in {a, b} : \A y \in {a, b} : y <= x
  BY <1>1, <1>2
<1> QED BY <1>3 DEF MaxOf

(* __osSetTimerIntr: Compare is v or MinDelay away, or nearer in the ring. *)
LEMMA Programmed ==
  ASSUME NEW v \in Nat, count \in Reading, count' = count, counter' = count,
         compare' = (count + (IF v < MinDelay THEN MinDelay ELSE v)) % CountMod
  PROVE  /\ counter' \in Reading /\ count' \in Reading /\ compare' \in Reading
         /\ Elapsed' = 0
         /\ ToCompare' <= MaxOf({MinDelay, v - Elapsed'})
<1>1. /\ CountMod \in Nat \ {0} /\ count \in 0..(CountMod - 1)
      /\ MinDelay \in Nat /\ MinDelay >= 1
  BY TimerAssumption DEF Reading
<1>2. PICK m \in Nat : m = IF v < MinDelay THEN MinDelay ELSE v
  BY <1>1
<1>3. PICK x \in Nat : x = count + m
  BY <1>1
<1>4. PICK o \in Nat : (o = 0 \/ o >= CountMod) /\ x % CountMod = x - o
  BY <1>1, ModLoses
<1>5. x % CountMod \in 0..(CountMod - 1)
  BY <1>1, ModLoses
<1>6. compare' = x % CountMod
  BY <1>2, <1>3
<1>7. counter' \in Reading /\ count' \in Reading /\ compare' \in Reading
  BY <1>5, <1>6 DEF Reading
<1>8. /\ Elapsed' = 0
      /\ ToCompare' = IF compare' > count THEN compare' - count ELSE (compare' - count) + CountMod
  BY <1>1, <1>7, RegistersNext
<1>9. compare' = (count + m) - o /\ compare' \in Int
  BY <1>1, <1>3, <1>4, <1>5, <1>6
<1>10. ToCompare' <= m
  BY <1>1, <1>2, <1>4, <1>8, <1>9
<1>11. MaxOf({MinDelay, v}) = m /\ v - Elapsed' = v
  BY <1>1, <1>2, <1>8, MaxOfPair
<1> QED BY <1>7, <1>8, <1>10, <1>11

------------------------------------------------------------------------------
(* The invariant in terms of sums *)

LEMMA DueInTimeSums ==
  /\ DueInTime = InTime(list, value, left, Elapsed)
  /\ DueInTime' = InTime(list', value', left', Elapsed')
BY DEF DueInTime, InTime, DueAt, Sum, Sums

LEMMA FirstSum ==
  ASSUME NEW l, NEW v, Active(l, v), l # <<>>
  PROVE  /\ Sum(l, v, 1) = v[Head(l)] /\ v[Head(l)] \in Nat /\ Head(l) = l[1]
         /\ Head(l) \in Timers /\ 1 \in 1..Len(l) /\ Len(l) \in Nat \ {0}
<1>1. Len(l) \in Nat \ {0} /\ Head(l) = l[1] /\ 1 \in 1..Len(l)
  BY DEF Active
<1>2. l[1] \in Timers /\ v[l[1]] \in Nat
  BY <1>1, ActiveSums
<1>3. Sum(l, v, 1) = Sum(l, v, 1 - 1) + v[l[1]] /\ Sum(l, v, 0) = 0 /\ 1 - 1 = 0
  BY SumStep
<1> QED BY <1>1, <1>2, <1>3

(* Only the first timer's value changes: all due times change by as much. *)
LEMMA HeadChanged ==
  ASSUME NEW l, NEW v, NEW w, Active(l, v), Active(l, w), l # <<>>,
         \A j \in 2..Len(l) : w[l[j]] = v[l[j]]
  PROVE  \A i \in 1..Len(l) : Sum(l, w, i) = Sum(l, v, i) + (w[l[1]] - v[l[1]])
<1>1. /\ Sum(l, v, 1) = v[l[1]] /\ v[l[1]] \in Nat /\ Len(l) \in Nat \ {0}
      /\ Sum(l, w, 1) = w[l[1]] /\ w[l[1]] \in Nat
  BY FirstSum
<1>2. \A j \in 1..Len(l) : v[l[j]] \in Nat
  BY ActiveSums
<1>3. \A i \in 0..Len(l) : Sum(l, v, i) \in Nat
  BY ActiveSums
<1>4. PICK n \in Nat : n = Len(l) - 1
  BY <1>1
<1>5. PICK d \in Int : d = w[l[1]] - v[l[1]]
  BY <1>1
<1>6. IntSums(l, v, 1, n)
  <2> SUFFICES ASSUME NEW i \in Nat, i <= n PROVE Sum(l, v, 1 + i) \in Int
    BY DEF IntSums
  <2>1. 1 + i \in 0..Len(l)
    BY <1>1, <1>4
  <2> QED BY <1>3, <2>1
<1>7. Alike(l, v, 1, l, w, 1, n)
  <2> SUFFICES ASSUME NEW j \in 1..n
               PROVE  w[l[1 + j]] = v[l[1 + j]] /\ v[l[1 + j]] \in Int
    BY DEF Alike
  <2>1. PICK y \in 2..Len(l) : y = 1 + j
    BY <1>1, <1>4
  <2>2. w[l[y]] = v[l[y]] /\ v[l[y]] \in Int
    BY <1>1, <1>2, <2>1
  <2> QED BY <2>1, <2>2
<1>8. Sum(l, w, 1) = Sum(l, v, 1) + d
  BY <1>1, <1>5
<1>9. Shifted(l, v, 1, l, w, 1, n, d)
  BY <1>6, <1>7, <1>8, SumsApart
<1>10. ASSUME NEW i \in 1..Len(l) PROVE Sum(l, w, i) = Sum(l, v, i) + (w[l[1]] - v[l[1]])
  <2>1. PICK j \in 0..n : j = i - 1
    BY <1>1, <1>4
  <2>2. Sum(l, w, 1 + j) = Sum(l, v, 1 + j) + d /\ 1 + j = i
    BY <1>9, <2>1 DEF Shifted
  <2> QED BY <1>5, <2>2
<1> QED BY <1>10

(* Nothing but the list counts for the sums. *)
LEMMA SameSums ==
  ASSUME NEW l, NEW v, NEW w, Active(l, v), \A j \in 1..Len(l) : w[l[j]] = v[l[j]]
  PROVE  \A i \in 1..Len(l) : Sum(l, w, i) = Sum(l, v, i)
<1>1. /\ Len(l) \in Nat /\ \A j \in 1..Len(l) : v[l[j]] \in Nat
      /\ \A i \in 0..Len(l) : Sum(l, v, i) \in Nat
  BY ActiveSums
<1>2. PICK n \in Nat : n = Len(l)
  BY <1>1
<1>3. IntSums(l, v, 0, n)
  <2> SUFFICES ASSUME NEW i \in Nat, i <= n PROVE Sum(l, v, 0 + i) \in Int
    BY DEF IntSums
  <2>1. 0 + i = i /\ i \in 0..Len(l)
    BY <1>1, <1>2
  <2> QED BY <1>1, <2>1
<1>4. Alike(l, v, 0, l, w, 0, n)
  <2> SUFFICES ASSUME NEW j \in 1..n
               PROVE  w[l[0 + j]] = v[l[0 + j]] /\ v[l[0 + j]] \in Int
    BY DEF Alike
  <2>1. 0 + j = j /\ j \in 1..Len(l)
    BY <1>1, <1>2
  <2> QED BY <1>1, <2>1
<1>5. Sum(l, w, 0) = Sum(l, v, 0) + 0
  BY SumStep
<1>6. Shifted(l, v, 0, l, w, 0, n, 0)
  BY <1>3, <1>4, <1>5, SumsApart
<1>7. ASSUME NEW i \in 1..Len(l) PROVE Sum(l, w, i) = Sum(l, v, i)
  <2>1. i \in 0..n /\ 0 + i = i /\ i \in 0..Len(l)
    BY <1>1, <1>2
  <2>2. Sum(l, w, 0 + i) = Sum(l, v, 0 + i) + 0 /\ Sum(l, v, i) \in Nat
    BY <1>1, <1>6, <2>1 DEF Shifted
  <2> QED BY <2>1, <2>2
<1> QED BY <1>7

(* __osInsertTimer finds a place, for any number of active timers. *)
LEMMA PlaceExists ==
  ASSUME NEW l, NEW v, Active(l, v), NEW t \in Timers
  PROVE  \E p \in 1..(Len(l) + 1) :
           /\ \A j \in 1..(p - 1) : v[t] > Sum(l, v, j)
           /\ p <= Len(l) => v[t] <= Sum(l, v, p)
<1> DEFINE P(p) == /\ \A j \in 1..(p - 1) : v[t] > Sum(l, v, j)
                   /\ p <= Len(l) => v[t] <= Sum(l, v, p)
           S == {n \in Nat : n <= Len(l) => \/ \E p \in 1..(Len(l) + 1) : P(p)
                                            \/ \A j \in 1..n : v[t] > Sum(l, v, j)}
<1>1. /\ Len(l) \in Nat /\ v[t] \in Nat
      /\ \A i \in 0..Len(l) : Sum(l, v, i) \in Nat
  BY ActiveSums DEF Active
<1>2. 0 \in S
  OBVIOUS
<1>3. ASSUME NEW n \in Nat, n \in S PROVE n + 1 \in S
  <2> SUFFICES ASSUME n + 1 <= Len(l), ~ \E p \in 1..(Len(l) + 1) : P(p)
               PROVE  \A j \in 1..(n + 1) : v[t] > Sum(l, v, j)
    OBVIOUS
  <2>1. \A j \in 1..n : v[t] > Sum(l, v, j)
    BY <1>1, <1>3
  <2>2. PICK q \in 1..(Len(l) + 1) : q = n + 1
    BY <1>1
  <2>3. ~ P(q)
    OBVIOUS
  <2>4. \A j \in 1..(q - 1) : v[t] > Sum(l, v, j)
    BY <2>1, <2>2
  <2>5. ~ (v[t] <= Sum(l, v, q)) /\ q \in 0..Len(l)
    BY <1>1, <2>2, <2>3, <2>4
  <2>6. v[t] > Sum(l, v, q)
    BY <1>1, <2>5
  <2>7. \A j \in 1..(n + 1) : j \in 1..n \/ j = q
    BY <2>2
  <2> QED BY <2>1, <2>6, <2>7
<1> HIDE DEF S
<1>4. \A n \in Nat : n \in S
  BY <1>2, <1>3, Induction
<1>5. \/ \E p \in 1..(Len(l) + 1) : P(p)
      \/ \A j \in 1..Len(l) : v[t] > Sum(l, v, j)
  BY <1>1, <1>4 DEF S
<1>6. ASSUME \A j \in 1..Len(l) : v[t] > Sum(l, v, j)
      PROVE  \E p \in 1..(Len(l) + 1) : P(p)
  <2>1. PICK q \in 1..(Len(l) + 1) : q = Len(l) + 1 /\ q - 1 = Len(l)
    BY <1>1
  <2>2. P(q)
    BY <1>1, <1>6, <2>1
  <2> QED BY <2>2
<1> QED BY <1>5, <1>6

LEMMA InsertTimerGoes ==
  ASSUME NEW v, NEW t \in Timers, Active(list, v), ~ InList(t), InsertTimer(v, t)
  PROVE  \E p : /\ Goes(list, v, t, p)
                /\ list' = InsertAt(list, p, t) /\ value' = Inserted(list, v, t, p)
<1> DEFINE pos == CHOOSE i \in 1..(Len(list) + 1) :
                    /\ \A j \in 1..(i - 1) : v[t] > Sum(list, v, j)
                    /\ i <= Len(list) => v[t] <= Sum(list, v, i)
<1>1. list' = InsertAt(list, pos, t) /\ value' = Inserted(list, v, t, pos)
  BY DEF InsertTimer, Inserted, DueAt, Sum, Sums
<1>2. /\ pos \in 1..(Len(list) + 1)
      /\ \A j \in 1..(pos - 1) : v[t] > Sum(list, v, j)
      /\ pos <= Len(list) => v[t] <= Sum(list, v, pos)
  BY PlaceExists
<1> HIDE DEF pos
<1>3. Goes(list, v, t, pos)
  BY <1>2 DEF Goes, InList
<1> QED BY <1>1, <1>3


------------------------------------------------------------------------------
(* The calls of threads *)

LEMMA TypeFacts ==
  ASSUME TimerTypeOK
  PROVE  /\ Active(list, value) /\ Len(list) \in Nat
         /\ \A i \in 1..Len(list) : list[i] \in Timers
         /\ \A i, j \in 1..Len(list) : list[i] = list[j] => i = j
         /\ Elapsed \in Nat /\ ToCompare \in Nat
<1>1. Active(list, value)
  BY DEF TimerTypeOK, Active
<1>2. Elapsed \in Nat /\ ToCompare \in Nat
  BY Registers DEF TimerTypeOK
<1> QED BY <1>1, <1>2, ActiveSums

LEMMA NotInList ==
  ASSUME TimerAssumption
  PROVE  /\ "idle" \notin Timers /\ "walk" \notin Timers
         /\ list' \in Seq(Timers) => \A i \in 1..Len(list') : list'[i] \in Timers
BY DEF TimerAssumption

(* Watched holds when the first timer is no earlier and nothing else changes. *)
LEMMA WatchedStays ==
  ASSUME TimerTypeOK, Watched, list # <<>>, list' # <<>>, NEW a \in Nat, NEW b \in Nat,
         a = value[Head(list)], b = value'[Head(list')], b >= a,
         UNCHANGED << ip8, dropped, compare, count, counter, walk >>,
         Contains(queue, "COUNTER") => Contains(queue', "COUNTER")
  PROVE  Watched'
<1>1. Elapsed \in Nat /\ ToCompare \in Nat /\ Elapsed' = Elapsed /\ ToCompare' = ToCompare
  BY TypeFacts DEF Elapsed, ToCompare
<1>2. MinDelay \in Int
  BY TimerAssumption
<1>3. a - Elapsed \in Int /\ b - Elapsed \in Int /\ b - Elapsed >= a - Elapsed
  BY <1>1
<1>4. MaxOf({MinDelay, a - Elapsed}) <= MaxOf({MinDelay, b - Elapsed})
  BY <1>2, <1>3, MaxOfPair
<1>5. ASSUME ToCompare <= MaxOf({MinDelay, a - Elapsed})
      PROVE  ToCompare <= MaxOf({MinDelay, b - Elapsed})
  <2>1. PICK x \in Int : x = MaxOf({MinDelay, a - Elapsed})
    BY <1>2, <1>3, MaxOfPair
  <2>2. PICK y \in Int : y = MaxOf({MinDelay, b - Elapsed})
    BY <1>2, <1>3, MaxOfPair
  <2> QED BY <1>1, <1>4, <1>5, <2>1, <2>2
<1>6. \/ walk # "idle" \/ ip8 \/ dropped \/ Contains(queue, "COUNTER")
      \/ ToCompare <= MaxOf({MinDelay, a - Elapsed})
  BY DEF Watched
<1>7. \/ (walk # "idle")' \/ ip8' \/ dropped' \/ Contains(queue', "COUNTER")
      \/ ToCompare <= MaxOf({MinDelay, b - Elapsed})
  BY <1>5, <1>6
<1>8. \/ (walk # "idle")' \/ ip8' \/ dropped' \/ Contains(queue', "COUNTER")
      \/ ToCompare' <= MaxOf({MinDelay, b - Elapsed'})
  BY <1>1, <1>7
<1> QED BY <1>8 DEF Watched

LEMMA CaughtUpInTime ==
  ASSUME TimerTypeOK, DueInTime
  PROVE  CaughtUp \in [Timers -> Nat] /\ InTime(list, CaughtUp, left, 0)
<1> DEFINE w == CaughtUp
<1>1. /\ Active(list, value) /\ Len(list) \in Nat
      /\ \A i \in 1..Len(list) : list[i] \in Timers
      /\ \A i, j \in 1..Len(list) : list[i] = list[j] => i = j
      /\ Elapsed \in Nat
  BY TypeFacts
<1>2. value \in [Timers -> Nat] /\ left \in [Timers -> Nat]
  BY DEF TimerTypeOK
<1>3. CASE list = <<>>
  BY <1>2, <1>3 DEF CaughtUp, InTime
<1>4. CASE list # <<>>
  <2>1. /\ value[list[1]] \in Nat /\ Head(list) = list[1] /\ list[1] \in Timers
        /\ 1 \in 1..Len(list)
    BY <1>1, <1>4, FirstSum
  <2>2. PICK h : h = HeadNow
    OBVIOUS
  <2>3. h \in Nat /\ h >= value[list[1]] - Elapsed
    BY <1>1, <2>1, <2>2 DEF HeadNow
  <2>4. w = [value EXCEPT ![list[1]] = h]
    BY <1>4, <2>1, <2>2 DEF CaughtUp
  <2>5. w \in [Timers -> Nat] /\ w[list[1]] = h
    BY <1>2, <2>1, <2>3, <2>4
  <2>6. \A j \in 2..Len(list) : w[list[j]] = value[list[j]]
    <3> SUFFICES ASSUME NEW j \in 2..Len(list) PROVE w[list[j]] = value[list[j]]
      OBVIOUS
    <3>1. j \in 1..Len(list) /\ j # 1
      BY <1>1
    <3>2. list[j] \in Timers /\ list[j] # list[1]
      BY <1>1, <2>1, <3>1
    <3> QED BY <1>2, <2>4, <3>2
  <2> HIDE DEF w
  <2>7. Active(list, w)
    BY <1>1, <2>5 DEF Active
  <2>8. \A i \in 1..Len(list) : Sum(list, w, i) = Sum(list, value, i) + (w[list[1]] - value[list[1]])
    BY <1>1, <1>4, <2>6, <2>7, HeadChanged
  <2>9. ASSUME NEW i \in 1..Len(list)
        PROVE  left[list[i]] = 0 \/ Sum(list, w, i) - 0 >= left[list[i]]
    <3>1. left[list[i]] = 0 \/ Sum(list, value, i) - Elapsed >= left[list[i]]
      BY DueInTimeSums DEF InTime
    <3>2. left[list[i]] \in Nat
      BY <1>1, <1>2
    <3>3. Sum(list, value, i) \in Nat
      <4>1. i \in 0..Len(list)
        OBVIOUS
      <4> QED BY <1>1, <4>1, ActiveSums
    <3>4. Sum(list, w, i) = Sum(list, value, i) + (h - value[list[1]])
      BY <2>5, <2>8
    <3> QED BY <1>1, <2>1, <2>3, <3>1, <3>2, <3>3, <3>4
  <2>10. InTime(list, w, left, 0)
    BY <2>9 DEF InTime
  <2> QED BY <2>5, <2>10 DEF w
<1> QED BY <1>3, <1>4

LEMMA SetTimerStep ==
  ASSUME TimerInv, NEW p \in Apps, NEW t \in Timers, NEW s \in Settings, SetTimer(p, t, s)
  PROVE  TimerInv'
<1> USE DEF TimerInv
<1> DEFINE first == IF s[1] # 0 THEN s[1] ELSE s[2]
           v == [CaughtUp EXCEPT ![t] = first]
<1>1. s[1] \in Nat /\ s[2] \in Nat /\ first \in Nat
  BY TimerAssumption
<1>2. /\ walk = "idle" /\ walk' = "idle" /\ ~ InList(t)
      /\ interval' = [interval EXCEPT ![t] = s[2]]
      /\ InsertTimer(v, t)
      /\ left' = [left EXCEPT ![t] = first]
      /\ count' = count /\ counter' = count /\ ip8' = FALSE /\ dropped' = FALSE
      /\ queue' = queue /\ stopping' = stopping
  BY DEF SetTimer, AppRuns, SetTimerIntr
<1>3. compare' = (count + (IF value'[Head(list')] < MinDelay THEN MinDelay
                           ELSE value'[Head(list')])) % CountMod
  BY DEF SetTimer, SetTimerIntr
<1>4. /\ Len(list) \in Nat /\ list \in Seq(Timers) /\ IsInjective(list)
      /\ \A i \in 1..Len(list) : list[i] \in Timers /\ list[i] # t
  BY <1>2, TypeFacts DEF TimerTypeOK, InList
<1>5. /\ interval \in [Timers -> Nat] /\ left \in [Timers -> Nat] /\ count \in Reading
      /\ queue \in Seq({"COUNTER", "VI"}) /\ stopping \in [Apps -> Timers \cup {NoTimer}]
  BY DEF TimerTypeOK
<1>6. CaughtUp \in [Timers -> Nat] /\ InTime(list, CaughtUp, left, 0)
  BY CaughtUpInTime
<1>7. v \in [Timers -> Nat] /\ v[t] = first /\ \A i \in 1..Len(list) : v[list[i]] = CaughtUp[list[i]]
  <2> HIDE DEF first
  <2> QED BY <1>1, <1>4, <1>6
<1> HIDE DEF first, v
<1>8. Active(list, v) /\ Active(list, CaughtUp)
  BY <1>4, <1>6, <1>7 DEF Active
<1>9. \A i \in 1..Len(list) : Sum(list, v, i) = Sum(list, CaughtUp, i)
  BY <1>7, <1>8, SameSums
<1>10. left' \in [Timers -> Nat] /\ left'[t] = first
       /\ \A i \in 1..Len(list) : left'[list[i]] = left[list[i]]
  BY <1>1, <1>2, <1>4, <1>5
<1>11. InTime(list, v, left', 0)
  BY <1>6, <1>9, <1>10 DEF InTime
<1>12. PICK q : /\ Goes(list, v, t, q)
                /\ list' = InsertAt(list, q, t) /\ value' = Inserted(list, v, t, q)
  BY <1>2, <1>8, InsertTimerGoes
<1>13. v[t] - 0 >= left'[t]
  BY <1>1, <1>7, <1>10
<1>14. InTime(list', value', left', 0)
  BY <1>11, <1>12, <1>13, InsertInTime
<1>15. /\ list' \in Seq(Timers) /\ IsInjective(list') /\ list' # <<>>
  <2>1. /\ list' \in Seq(Timers) /\ IsInjective(list') /\ Len(list') = Len(list) + 1
    BY <1>12, GoesTo
  <2> QED BY <1>4, <2>1
<1>16. value' \in [Timers -> Nat]
  BY <1>12, InsertSums
<1>17. Active(list', value')
  BY <1>15, <1>16 DEF Active
<1>18. PICK a \in Nat : a = value'[Head(list')]
  BY <1>15, <1>17, FirstSum
<1>19. /\ counter' \in Reading /\ count' \in Reading /\ compare' \in Reading /\ Elapsed' = 0
       /\ ToCompare' <= MaxOf({MinDelay, a - Elapsed'})
  <2>1. compare' = (count + (IF a < MinDelay THEN MinDelay ELSE a)) % CountMod
    BY <1>3, <1>18
  <2> QED BY <1>2, <1>5, <2>1, Programmed
<1>20. Watched'
  BY <1>18, <1>19 DEF Watched
<1>21. DueInTime'
  BY <1>14, <1>19, DueInTimeSums
<1>22. TimerTypeOK'
  <2>1. interval' \in [Timers -> Nat]
    BY <1>1, <1>2, <1>5
  <2>2. ~ InList(walk)'
    BY <1>2, <1>15, NotInList, TimerAssumption DEF InList
  <2> QED BY <1>2, <1>5, <1>10, <1>15, <1>16, <1>19, <2>1, <2>2 DEF TimerTypeOK
<1>23. RearmDue'
  BY <1>2, NotInList, TimerAssumption DEF RearmDue
<1> QED BY <1>20, <1>21, <1>22, <1>23

LEMMA StopTimerTestStep ==
  ASSUME TimerInv, NEW p \in Apps, NEW t \in Timers, StopTimerTest(p, t)
  PROVE  TimerInv'
<1> USE DEF TimerInv
<1>1. /\ UNCHANGED << list, value, interval, counter, compare, ip8, dropped, count, queue, walk, left >>
      /\ stopping' = [stopping EXCEPT ![p] = t]
  BY DEF StopTimerTest, clockVars
<1>2. TimerTypeOK'
  BY <1>1 DEF TimerTypeOK, InList
<1>3. DueInTime'
  BY <1>1, DueInTimeSums DEF Elapsed
<1>4. Watched' /\ RearmDue'
  BY <1>1 DEF Watched, RearmDue, ToCompare, Elapsed
<1> QED BY <1>2, <1>3, <1>4

LEMMA StopTimerStep ==
  ASSUME TimerInv, NEW p \in Apps, StopTimer(p)
  PROVE  TimerInv'
<1> USE DEF TimerInv
<1>1. /\ UNCHANGED << interval, counter, dropped, count, queue, walk, left >>
      /\ stopping' = [stopping EXCEPT ![p] = NoTimer] /\ walk = "idle"
  BY DEF StopTimer, AppRuns
<1>2. /\ interval \in [Timers -> Nat] /\ left \in [Timers -> Nat] /\ count \in Reading
      /\ counter \in Reading /\ compare \in Reading
      /\ queue \in Seq({"COUNTER", "VI"}) /\ stopping' \in [Apps -> Timers \cup {NoTimer}]
  BY <1>1 DEF TimerTypeOK
<1>3. CASE UNCHANGED << list, value, compare, ip8 >>
  <2>1. TimerTypeOK'
    BY <1>1, <1>2, <1>3 DEF TimerTypeOK, InList
  <2>2. DueInTime'
    BY <1>1, <1>3, DueInTimeSums DEF Elapsed
  <2>3. Watched' /\ RearmDue'
    BY <1>1, <1>3 DEF Watched, RearmDue, ToCompare, Elapsed
  <2> QED BY <2>1, <2>2, <2>3
<1>4. ASSUME NEW i \in 1..Len(list), value' = FoldStopped(i), list' = RemoveAt(list, i),
             IF list' = <<>> THEN SetCompareZero ELSE UNCHANGED << compare, ip8 >>
      PROVE  TimerInv'
  <2>1. /\ Active(list, value) /\ Len(list) \in Nat /\ Elapsed \in Nat
    BY TypeFacts
  <2>2. value' = Folded(list, value, i)
    BY <1>4 DEF FoldStopped, Folded
  <2>3. /\ value' \in [Timers -> Nat]
        /\ \A j \in 1..(i - 1) : Sum(list', value', j) = Sum(list, value, j)
        /\ \A j \in i..(Len(list) - 1) : Sum(list', value', j) = Sum(list, value, j + 1)
    BY <1>4, <2>1, <2>2, RemoveSums
  <2>4. /\ list' \in Seq(Timers) /\ IsInjective(list') /\ Len(list') = Len(list) - 1
        /\ \A j \in 1..(i - 1) : list'[j] = list[j]
        /\ \A j \in i..(Len(list) - 1) : list'[j] = list[j + 1]
    BY <1>4, <2>1, RemoveAtProperties DEF Active
  <2>5. InTime(list, value, left, Elapsed)
    BY DueInTimeSums
  <2>6. ASSUME NEW j \in 1..Len(list')
        PROVE  left[list'[j]] = 0 \/ Sum(list', value', j) - Elapsed >= left[list'[j]]
    <3>1. CASE j < i
      <4>1. j \in 1..(i - 1) /\ j \in 1..Len(list)
        BY <2>1, <2>4, <3>1
      <4>2. list'[j] = list[j] /\ Sum(list', value', j) = Sum(list, value, j)
        BY <2>3, <2>4, <4>1
      <4> QED BY <2>5, <4>1, <4>2 DEF InTime
    <3>2. CASE ~ (j < i)
      <4>1. PICK y \in 1..Len(list) : y = j + 1
        BY <2>1, <2>4
      <4>2. j \in i..(Len(list) - 1)
        BY <2>1, <2>4, <3>2
      <4>3. list'[j] = list[y] /\ Sum(list', value', j) = Sum(list, value, y)
        BY <2>3, <2>4, <4>1, <4>2
      <4> QED BY <2>5, <4>1, <4>3 DEF InTime
    <3> QED BY <3>1, <3>2
  <2>7. DueInTime'
    <3>1. InTime(list', value', left', Elapsed')
      BY <1>1, <2>6 DEF InTime, Elapsed
    <3> QED BY <3>1, DueInTimeSums
  <2>8. Watched'
    <3>1. CASE list' = <<>>
      BY <3>1 DEF Watched
    <3>2. CASE list' # <<>>
      <4>1. list # <<>> /\ Len(list') \in Nat \ {0} /\ 1 \in 1..Len(list')
        BY <2>1, <2>4, <3>2
      <4>2. Active(list', value')
        BY <2>3, <2>4 DEF Active
      <4>3. PICK a \in Nat : a = value[Head(list)] /\ a = Sum(list, value, 1)
        BY <2>1, <4>1, FirstSum
      <4>4. PICK b \in Nat : b = value'[Head(list')] /\ b = Sum(list', value', 1)
        BY <3>2, <4>2, FirstSum
      <4>5. b >= a
        <5>1. CASE 1 < i
          <6>1. 1 \in 1..(i - 1)
            BY <5>1
          <6> QED BY <2>3, <4>3, <4>4, <6>1
        <5>2. CASE ~ (1 < i)
          <6>1. 1 \in i..(Len(list) - 1) /\ 2 \in 1..Len(list)
            BY <2>1, <2>4, <4>1, <5>2
          <6>2. b = Sum(list, value, 1 + 1) /\ 1 + 1 = 2
            BY <2>3, <4>4, <6>1
          <6>3. Sum(list, value, 2) = Sum(list, value, 1) + value[list[2]]
            <7>1. PICK y \in Nat \ {0} : y = 2 /\ y - 1 = 1
              OBVIOUS
            <7>2. Sum(list, value, y) = Sum(list, value, y - 1) + value[list[y]]
              BY <7>1, SumStep
            <7> QED BY <7>1, <7>2
          <6>4. value[list[2]] \in Nat
            BY <2>1, <6>1, ActiveSums
          <6> QED BY <4>3, <6>2, <6>3, <6>4
        <5> QED BY <5>1, <5>2
      <4>6. UNCHANGED << compare, ip8 >>
        BY <1>4, <3>2
      <4> QED BY <1>1, <3>2, <4>1, <4>3, <4>4, <4>5, <4>6, WatchedStays
    <3> QED BY <3>1, <3>2
  <2>9. compare' \in Reading
    BY <1>2, <1>4, TimerAssumption DEF SetCompareZero, Reading
  <2>10. TimerTypeOK'
    <3>1. ~ InList(walk)'
      BY <1>1, <2>4, NotInList, TimerAssumption DEF InList
    <3> QED BY <1>1, <1>2, <2>3, <2>4, <2>9, <3>1 DEF TimerTypeOK
  <2>11. RearmDue'
    BY <1>1, NotInList, TimerAssumption DEF RearmDue
  <2> QED BY <2>7, <2>8, <2>10, <2>11
<1> QED BY <1>3, <1>4 DEF StopTimer


------------------------------------------------------------------------------
(* Time and interrupts *)

LEMMA TickStep ==
  ASSUME TimerInv, Tick
  PROVE  TimerInv'
<1> USE DEF TimerInv
<1>1. /\ UNCHANGED << list, value, interval, counter, compare, dropped, queue, walk, stopping >>
      /\ count' = (count + 1) % CountMod
      /\ left' = [t \in Timers |-> IF left[t] > 0 THEN left[t] - 1 ELSE 0]
      /\ ip8' = (ip8 \/ count' = compare)
  BY DEF Tick, Cycle
<1>2. /\ interval \in [Timers -> Nat] /\ left \in [Timers -> Nat]
      /\ count \in Reading /\ counter \in Reading /\ compare \in Reading
  BY DEF TimerTypeOK
<1>3. CountMod \in Nat \ {0} /\ MinDelay \in Nat
  BY TimerAssumption
<1>4. count' \in Reading /\ count' = IF count + 1 < CountMod THEN count + 1 ELSE 0
  <2>1. count' = IF count + 1 < CountMod THEN count + 1 ELSE 0
    BY <1>1, <1>2, Distance
  <2> QED BY <1>2, <1>3, <2>1 DEF Reading
<1>5. /\ Active(list, value) /\ Len(list) \in Nat /\ Elapsed \in Nat /\ ToCompare \in Nat
      /\ \A i \in 1..Len(list) : list[i] \in Timers
  BY TypeFacts
<1>6. /\ Elapsed = IF count >= counter THEN count - counter ELSE (count - counter) + CountMod
      /\ ToCompare = IF compare > count THEN compare - count ELSE (compare - count) + CountMod
  BY <1>2, Registers
<1>7. /\ Elapsed' = IF count' >= counter THEN count' - counter ELSE (count' - counter) + CountMod
      /\ ToCompare' = IF compare > count' THEN compare - count' ELSE (compare - count') + CountMod
      /\ Elapsed' \in Nat /\ ToCompare' \in Nat
  BY <1>1, <1>2, <1>4, RegistersNext
<1>8. Elapsed' <= Elapsed + 1
  BY <1>2, <1>3, <1>4, <1>6, <1>7 DEF Reading
<1>9. count' # compare => ToCompare' <= ToCompare - 1
  BY <1>2, <1>3, <1>4, <1>6, <1>7 DEF Reading
<1>10. \A t \in Timers : left[t] \in Nat /\ left'[t] = IF left[t] > 0 THEN left[t] - 1 ELSE 0
  BY <1>1, <1>2
<1>11. TimerTypeOK'
  <2>1. left' \in [Timers -> Nat]
    BY <1>1, <1>2
  <2> QED BY <1>1, <1>2, <1>4, <2>1 DEF TimerTypeOK, InList
<1>12. DueInTime'
  <2>1. ASSUME NEW i \in 1..Len(list)
        PROVE  left'[list[i]] = 0 \/ Sum(list, value, i) - Elapsed' >= left'[list[i]]
    <3>1. left[list[i]] = 0 \/ Sum(list, value, i) - Elapsed >= left[list[i]]
      BY DueInTimeSums DEF InTime
    <3>2. PICK x \in Nat : x = left[list[i]]
      BY <1>5, <1>10
    <3>3. left'[list[i]] = IF x > 0 THEN x - 1 ELSE 0
      BY <1>5, <1>10, <3>2
    <3>4. Sum(list, value, i) \in Nat
      <4>1. i \in 0..Len(list)
        OBVIOUS
      <4> QED BY <1>5, <4>1, ActiveSums
    <3> QED BY <1>5, <1>7, <1>8, <3>1, <3>2, <3>3, <3>4
  <2>2. InTime(list', value', left', Elapsed')
    BY <1>1, <2>1 DEF InTime
  <2> QED BY <2>2, DueInTimeSums
<1>13. RearmDue'
  <2> SUFFICES ASSUME walk \in Timers
               PROVE  left'[walk] = 0 \/ interval[walk] - Elapsed' >= left'[walk]
    BY <1>1 DEF RearmDue
  <2>1. left[walk] = 0 \/ interval[walk] - Elapsed >= left[walk]
    BY DEF RearmDue
  <2>2. PICK x \in Nat : x = left[walk]
    BY <1>10
  <2>3. left'[walk] = IF x > 0 THEN x - 1 ELSE 0
    BY <1>10, <2>2
  <2>4. interval[walk] \in Nat
    BY <1>2
  <2> QED BY <1>5, <1>7, <1>8, <2>1, <2>2, <2>3, <2>4
<1>14. Watched'
  <2> SUFFICES ASSUME list # <<>>, walk = "idle", ~ ip8', ~ dropped, ~ Contains(queue, "COUNTER")
               PROVE  ToCompare' <= MaxOf({MinDelay, value[Head(list)] - Elapsed'})
    BY <1>1 DEF Watched
  <2>1. ~ ip8 /\ count' # compare
    BY <1>1
  <2>2. PICK a \in Nat : a = value[Head(list)]
    BY <1>5, FirstSum
  <2>3. ToCompare <= MaxOf({MinDelay, a - Elapsed})
    BY <2>1, <2>2 DEF Watched
  <2>4. MaxOf({MinDelay, a - Elapsed}) = IF MinDelay >= a - Elapsed THEN MinDelay ELSE a - Elapsed
    BY <1>3, <1>5, MaxOfPair
  <2>5. MaxOf({MinDelay, a - Elapsed'}) = IF MinDelay >= a - Elapsed' THEN MinDelay ELSE a - Elapsed'
    BY <1>3, <1>7, MaxOfPair
  <2>6. ToCompare <= IF MinDelay >= a - Elapsed THEN MinDelay ELSE a - Elapsed
    BY <2>3, <2>4
  <2>7. ToCompare' <= IF MinDelay >= a - Elapsed' THEN MinDelay ELSE a - Elapsed'
    BY <1>3, <1>5, <1>7, <1>8, <1>9, <2>1, <2>6
  <2> QED BY <2>2, <2>5, <2>7
<1> QED BY <1>11, <1>12, <1>13, <1>14

LEMMA Appended ==
  ASSUME NEW Q, NEW q \in Seq(Q), NEW m \in Q, NEW x
  PROVE  /\ Append(q, m) \in Seq(Q) /\ Contains(Append(q, m), m)
         /\ Contains(q, x) => Contains(Append(q, m), x)
<1>1. /\ Append(q, m) \in Seq(Q) /\ Len(Append(q, m)) = Len(q) + 1 /\ Len(q) \in Nat
      /\ \A i \in 1..Len(q) : Append(q, m)[i] = q[i]
      /\ Append(q, m)[Len(q) + 1] = m
  OBVIOUS
<1>2. Contains(Append(q, m), m)
  BY <1>1 DEF Contains
<1>3. ASSUME Contains(q, x) PROVE Contains(Append(q, m), x)
  <2>1. PICK i \in 1..Len(q) : q[i] = x
    BY <1>3 DEF Contains
  <2>2. i \in 1..Len(Append(q, m)) /\ Append(q, m)[i] = x
    BY <1>1, <2>1
  <2> QED BY <2>2 DEF Contains
<1> QED BY <1>1, <1>2, <1>3

(* Nothing of the list, the registers and the manager changes. *)
LEMMA ListUntouched ==
  ASSUME TimerInv, NEW q \in Seq({"COUNTER", "VI"}), queue' = q,
         UNCHANGED << list, value, interval, counter, compare, count, walk, stopping, left >>
  PROVE  TimerTypeOK' /\ DueInTime' /\ RearmDue'
<1>1. TimerTypeOK'
  BY DEF TimerInv, TimerTypeOK, InList
<1>2. DueInTime'
  BY DueInTimeSums DEF TimerInv, Elapsed
<1>3. RearmDue'
  BY DEF TimerInv, RearmDue, Elapsed
<1> QED BY <1>1, <1>2, <1>3

LEMMA CounterInterruptStep ==
  ASSUME TimerInv, CounterInterrupt
  PROVE  TimerInv'
<1>1. UNCHANGED << list, value, interval, counter, compare, count, walk, stopping, left >>
  BY DEF CounterInterrupt, appVars
<1>2. \/ queue' = Append(queue, "COUNTER") /\ dropped' = dropped
      \/ queue' = queue /\ dropped' = TRUE
  BY DEF CounterInterrupt
<1>3. queue \in Seq({"COUNTER", "VI"}) /\ "COUNTER" \in {"COUNTER", "VI"}
  BY DEF TimerInv, TimerTypeOK
<1>4. queue' \in Seq({"COUNTER", "VI"})
  BY <1>2, <1>3, Appended
<1>5. dropped' \/ Contains(queue', "COUNTER")
  BY <1>2, <1>3, Appended
<1>6. Watched'
  BY <1>5 DEF Watched
<1>7. TimerTypeOK' /\ DueInTime' /\ RearmDue'
  BY <1>1, <1>4, ListUntouched
<1> QED BY <1>6, <1>7 DEF TimerInv

LEMMA RetraceStep ==
  ASSUME TimerInv, Retrace
  PROVE  TimerInv'
<1>1. /\ UNCHANGED << list, value, interval, counter, compare, ip8, dropped, count, walk,
                      stopping, left >>
      /\ queue' = Append(queue, "VI")
  BY DEF Retrace, appVars, clockVars
<1>2. queue \in Seq({"COUNTER", "VI"}) /\ "VI" \in {"COUNTER", "VI"}
  BY DEF TimerInv, TimerTypeOK
<1>3. queue' \in Seq({"COUNTER", "VI"}) /\ (Contains(queue, "COUNTER") => Contains(queue', "COUNTER"))
  BY <1>1, <1>2, Appended
<1>4. Elapsed' = Elapsed /\ ToCompare' = ToCompare
  BY <1>1 DEF Elapsed, ToCompare
<1>5. Watched'
  BY <1>1, <1>3, <1>4 DEF TimerInv, Watched
<1>6. TimerTypeOK' /\ DueInTime' /\ RearmDue'
  BY <1>1, <1>3, ListUntouched
<1> QED BY <1>5, <1>6 DEF TimerInv

------------------------------------------------------------------------------
(* The manager's thread *)

LEMMA ViMgrRecvStep ==
  ASSUME TimerInv, ViMgrRecv
  PROVE  TimerInv'
<1> USE DEF TimerInv
<1>1. /\ UNCHANGED << list, value, interval, counter, compare, ip8, dropped, count,
                      stopping, left >>
      /\ walk = "idle" /\ queue # <<>> /\ queue' = Tail(queue)
      /\ walk' = IF Head(queue) = "COUNTER" /\ list # <<>> THEN "walk" ELSE "idle"
  BY DEF ViMgrRecv, appVars, clockVars
<1>2. queue \in Seq({"COUNTER", "VI"}) /\ list \in Seq(Timers)
  BY DEF TimerTypeOK
<1>3. /\ queue' \in Seq({"COUNTER", "VI"})
      /\ Len(queue) \in Nat \ {0} /\ Len(queue') = Len(queue) - 1 /\ Head(queue) = queue[1]
      /\ \A i \in 1..(Len(queue) - 1) : queue'[i] = queue[i + 1]
  BY <1>1, <1>2
<1>4. ASSUME Contains(queue, "COUNTER"), Head(queue) # "COUNTER"
      PROVE  Contains(queue', "COUNTER")
  <2>1. PICK i \in 1..Len(queue) : queue[i] = "COUNTER"
    BY <1>4 DEF Contains
  <2>2. PICK j : j = i - 1
    OBVIOUS
  <2>3. j \in 1..(Len(queue) - 1) /\ i = j + 1
    BY <1>3, <1>4, <2>1, <2>2
  <2>4. j \in 1..Len(queue') /\ queue'[j] = "COUNTER"
    BY <1>3, <2>1, <2>3
  <2> QED BY <2>4 DEF Contains
<1>5. Elapsed' = Elapsed /\ ToCompare' = ToCompare
  BY <1>1 DEF Elapsed, ToCompare
<1>6. Watched'
  BY <1>1, <1>4, <1>5 DEF Watched
<1>7. walk' \notin Timers /\ walk' \in {"idle", "walk"}
  BY <1>1, NotInList, TimerAssumption
<1>8. RearmDue'
  BY <1>7 DEF RearmDue
<1>9. DueInTime'
  BY <1>1, <1>5, DueInTimeSums
<1>10. ~ InList(walk)'
  BY <1>1, <1>2, <1>7, NotInList, TimerAssumption DEF InList
<1>11. TimerTypeOK'
  BY <1>1, <1>3, <1>7, <1>10 DEF TimerTypeOK
<1> QED BY <1>6, <1>8, <1>9, <1>11

LEMMA WalkEndStep ==
  ASSUME TimerInv, WalkEnd
  PROVE  TimerInv'
<1> USE DEF TimerInv
<1>1. /\ UNCHANGED << list, value, interval, dropped, count, queue, stopping, left >>
      /\ list = <<>> /\ walk' = "idle" /\ counter' = 0 /\ compare' = 0
  BY DEF WalkEnd, SetCompareZero, appVars
<1>2. 0 \in Reading
  BY TimerAssumption DEF Reading
<1>3. TimerTypeOK'
  BY <1>1, <1>2 DEF TimerTypeOK, InList
<1>4. DueInTime' /\ Watched'
  BY <1>1 DEF DueInTime, Watched
<1>5. RearmDue'
  BY <1>1, NotInList, TimerAssumption DEF RearmDue
<1> QED BY <1>3, <1>4, <1>5

LEMMA WalkWaitStep ==
  ASSUME TimerInv, WalkWait
  PROVE  TimerInv'
<1> USE DEF TimerInv
<1>1. /\ UNCHANGED << list, interval, count, queue, stopping, left >>
      /\ list # <<>> /\ walk' = "idle" /\ counter' = count
      /\ Elapsed < value[Head(list)]
      /\ value' = [value EXCEPT ![Head(list)] = value[Head(list)] - Elapsed]
  BY DEF WalkWait, SetTimerIntr, appVars
<1>2. compare' = (count + (IF value'[Head(list)] < MinDelay THEN MinDelay
                           ELSE value'[Head(list)])) % CountMod
  BY DEF WalkWait, SetTimerIntr
<1>3. /\ Active(list, value) /\ Len(list) \in Nat /\ Elapsed \in Nat
      /\ \A i \in 1..Len(list) : list[i] \in Timers
      /\ \A i, j \in 1..Len(list) : list[i] = list[j] => i = j
  BY TypeFacts
<1>4. /\ value[list[1]] \in Nat /\ Head(list) = list[1] /\ list[1] \in Timers
      /\ 1 \in 1..Len(list)
  BY <1>1, <1>3, FirstSum
<1>5. /\ value \in [Timers -> Nat] /\ interval \in [Timers -> Nat] /\ left \in [Timers -> Nat]
      /\ count \in Reading /\ queue \in Seq({"COUNTER", "VI"}) /\ list \in Seq(Timers)
  BY DEF TimerTypeOK
<1>6. PICK a \in Nat : a = value[list[1]] - Elapsed
  BY <1>1, <1>3, <1>4
<1>7. value' = [value EXCEPT ![list[1]] = a]
  BY <1>1, <1>4, <1>6
<1>8. value' \in [Timers -> Nat] /\ value'[list[1]] = a
  BY <1>4, <1>5, <1>7
<1>9. \A j \in 2..Len(list) : value'[list[j]] = value[list[j]]
  <2> SUFFICES ASSUME NEW j \in 2..Len(list) PROVE value'[list[j]] = value[list[j]]
    OBVIOUS
  <2>1. j \in 1..Len(list) /\ j # 1
    BY <1>3
  <2>2. list[j] \in Timers /\ list[j] # list[1]
    BY <1>3, <1>4, <2>1
  <2> QED BY <1>5, <1>7, <2>2
<1>10. Active(list, value')
  BY <1>3, <1>8 DEF Active
<1>11. \A i \in 1..Len(list) :
         Sum(list, value', i) = Sum(list, value, i) + (value'[list[1]] - value[list[1]])
  BY <1>1, <1>3, <1>9, <1>10, HeadChanged
<1>12. /\ counter' \in Reading /\ count' \in Reading /\ compare' \in Reading /\ Elapsed' = 0
       /\ ToCompare' <= MaxOf({MinDelay, a - Elapsed'})
  <2>1. compare' = (count + (IF a < MinDelay THEN MinDelay ELSE a)) % CountMod
    BY <1>2, <1>4, <1>8
  <2> QED BY <1>1, <1>5, <2>1, Programmed
<1>13. ASSUME NEW i \in 1..Len(list)
       PROVE  left[list[i]] = 0 \/ Sum(list, value', i) - 0 >= left[list[i]]
  <2>1. left[list[i]] = 0 \/ Sum(list, value, i) - Elapsed >= left[list[i]]
    BY DueInTimeSums DEF InTime
  <2>2. left[list[i]] \in Nat
    BY <1>3, <1>5
  <2>3. Sum(list, value, i) \in Nat
    <3>1. i \in 0..Len(list)
      OBVIOUS
    <3> QED BY <1>3, <3>1, ActiveSums
  <2>4. Sum(list, value', i) = Sum(list, value, i) + (a - value[list[1]])
    BY <1>8, <1>11
  <2> QED BY <1>3, <1>4, <1>6, <2>1, <2>2, <2>3, <2>4
<1>14. DueInTime'
  <2>1. InTime(list', value', left', Elapsed')
    BY <1>1, <1>12, <1>13 DEF InTime
  <2> QED BY <2>1, DueInTimeSums
<1>15. Watched'
  <2>1. value'[Head(list')] = a
    BY <1>1, <1>4, <1>8
  <2> QED BY <1>12, <2>1 DEF Watched
<1>16. ~ InList(walk)'
  BY <1>1, <1>5, NotInList, TimerAssumption DEF InList
<1>17. TimerTypeOK'
  BY <1>1, <1>8, <1>12, <1>16 DEF TimerTypeOK
<1>18. RearmDue'
  BY <1>1, NotInList, TimerAssumption DEF RearmDue
<1> QED BY <1>14, <1>15, <1>17, <1>18

LEMMA ExpireStep ==
  ASSUME TimerInv, NEW t \in Timers, Expire(t)
  PROVE  TimerInv' /\ left[t] = 0
<1> USE DEF TimerInv
<1>1. /\ UNCHANGED << value, interval, compare, count, queue, stopping >>
      /\ list # <<>> /\ t = Head(list) /\ Elapsed >= value[t]
      /\ list' = Tail(list) /\ counter' = count /\ walk' = t
      /\ left' = [left EXCEPT ![t] = interval[t]]
  BY DEF Expire, IsDue
<1>2. /\ Active(list, value) /\ Len(list) \in Nat /\ Elapsed \in Nat
      /\ \A i \in 1..Len(list) : list[i] \in Timers
      /\ \A i, j \in 1..Len(list) : list[i] = list[j] => i = j
  BY TypeFacts
<1>3. /\ Sum(list, value, 1) = value[t] /\ value[t] \in Nat /\ t = list[1]
      /\ 1 \in 1..Len(list)
  BY <1>1, <1>2, FirstSum
<1>4. /\ value \in [Timers -> Nat] /\ interval \in [Timers -> Nat] /\ left \in [Timers -> Nat]
      /\ count \in Reading /\ compare \in Reading /\ list \in Seq(Timers)
  BY DEF TimerTypeOK
<1>5. InTime(list, value, left, Elapsed)
  BY DueInTimeSums
<1>6. left[t] = 0
  <2>1. left[t] = 0 \/ value[t] - Elapsed >= left[t]
    BY <1>3, <1>5 DEF InTime
  <2>2. left[t] \in Nat
    BY <1>4
  <2> QED BY <1>1, <1>2, <1>3, <2>1, <2>2
<1>7. /\ list' \in Seq(Timers) /\ Len(list') = Len(list) - 1
      /\ \A j \in 1..(Len(list) - 1) : list'[j] = list[j + 1]
  BY <1>1, <1>4
<1>8. \A j \in 1..Len(list') : list'[j] # t /\ j + 1 \in 1..Len(list) /\ list'[j] = list[j + 1]
  <2> SUFFICES ASSUME NEW j \in 1..Len(list')
               PROVE  list'[j] # t /\ j + 1 \in 1..Len(list) /\ list'[j] = list[j + 1]
    OBVIOUS
  <2>1. PICK y : y = j + 1
    OBVIOUS
  <2>2. y \in 1..Len(list) /\ y # 1 /\ list'[j] = list[y]
    BY <1>2, <1>7, <2>1
  <2>3. list[y] # list[1]
    BY <1>2, <1>3, <2>2
  <2> QED BY <1>3, <2>1, <2>2, <2>3
<1>9. IsInjective(list')
  <2> SUFFICES ASSUME NEW i \in 1..Len(list'), NEW j \in 1..Len(list'), list'[i] = list'[j]
               PROVE  i = j
    BY <1>7 DEF IsInjective
  <2>1. i + 1 = j + 1
    BY <1>2, <1>8
  <2> QED BY <2>1
<1>10. /\ counter' \in Reading /\ Elapsed' = 0
  <2>1. count' \in Reading /\ counter' \in Reading /\ compare' \in Reading
    BY <1>1, <1>4
  <2>2. Elapsed' = count' - counter'
    BY <1>1, <2>1, RegistersNext DEF Reading
  <2> QED BY <1>1, <1>4, <2>1, <2>2 DEF Reading
<1>11. \A i \in 1..(Len(list) - 1) : Sum(list', value, i) = Sum(list, value, i + 1) - value[t]
  BY <1>1, <1>2, TailSums
<1>12. left' \in [Timers -> Nat] /\ left'[t] = interval[t]
       /\ \A u \in Timers : u # t => left'[u] = left[u]
  BY <1>1, <1>4
<1>13. ASSUME NEW i \in 1..Len(list')
       PROVE  left'[list'[i]] = 0 \/ Sum(list', value, i) - 0 >= left'[list'[i]]
  <2>1. PICK y \in 1..Len(list) : y = i + 1
    BY <1>8
  <2>2. list'[i] = list[y] /\ list[y] # t
    BY <1>8, <2>1
  <2>3. left'[list'[i]] = left[list[y]] /\ left[list[y]] \in Nat
    BY <1>2, <1>4, <1>12, <2>2
  <2>4. left[list[y]] = 0 \/ Sum(list, value, y) - Elapsed >= left[list[y]]
    BY <1>5 DEF InTime
  <2>5. Sum(list, value, y) \in Nat
    <3>1. y \in 0..Len(list)
      OBVIOUS
    <3> QED BY <1>2, <3>1, ActiveSums
  <2>6. Sum(list', value, i) = Sum(list, value, y) - value[t]
    BY <1>7, <1>11, <2>1
  <2> QED BY <1>1, <1>2, <1>3, <2>3, <2>4, <2>5, <2>6
<1>14. DueInTime'
  <2>1. InTime(list', value', left', Elapsed')
    BY <1>1, <1>10, <1>13 DEF InTime
  <2> QED BY <2>1, DueInTimeSums
<1>15. walk' # "idle"
  BY <1>1, NotInList, TimerAssumption
<1>16. Watched'
  BY <1>15 DEF Watched
<1>17. TimerTypeOK'
  <2>1. ~ InList(walk)'
    BY <1>1, <1>8 DEF InList
  <2> QED BY <1>1, <1>4, <1>7, <1>9, <1>10, <1>12, <2>1 DEF TimerTypeOK
<1>18. RearmDue'
  <2>1. interval[t] \in Nat
    BY <1>4
  <2>2. interval[t] - 0 >= left'[t]
    BY <1>12, <2>1
  <2> QED BY <1>1, <1>10, <2>2 DEF RearmDue
<1> QED BY <1>6, <1>14, <1>16, <1>17, <1>18

LEMMA ViMgrRearmStep ==
  ASSUME TimerInv, ViMgrRearm
  PROVE  TimerInv'
<1> USE DEF TimerInv
<1>1. PICK t \in Timers : Rearm(t)
  BY DEF ViMgrRearm
<1>2. /\ UNCHANGED << interval, counter, compare, count, queue, stopping, left >>
      /\ walk' = "walk" /\ walk = t
  BY <1>1 DEF ViMgrRearm, Rearm, appVars, clockVars
<1>3. /\ Active(list, value) /\ Len(list) \in Nat /\ Elapsed \in Nat
      /\ \A i \in 1..Len(list) : list[i] \in Timers
  BY TypeFacts
<1>4. /\ value \in [Timers -> Nat] /\ interval \in [Timers -> Nat] /\ list \in Seq(Timers)
      /\ IsInjective(list) /\ ~ InList(t)
  BY <1>2 DEF TimerTypeOK
<1>5. InTime(list, value, left, Elapsed) /\ Elapsed' = Elapsed
  BY <1>2, DueInTimeSums DEF Elapsed
<1>6. /\ list' \in Seq(Timers) /\ IsInjective(list') /\ value' \in [Timers -> Nat]
      /\ InTime(list', value', left, Elapsed)
  <2>1. CASE interval[t] = 0
    BY <1>1, <1>4, <1>5, <2>1 DEF Rearm
  <2>2. CASE interval[t] # 0
    <3> DEFINE v == [value EXCEPT ![t] = interval[t]]
    <3>1. InsertTimer(v, t)
      BY <1>1, <2>2 DEF Rearm
    <3>2. /\ v \in [Timers -> Nat] /\ v[t] = interval[t]
          /\ \A i \in 1..Len(list) : v[list[i]] = value[list[i]]
      BY <1>3, <1>4 DEF InList
    <3> HIDE DEF v
    <3>3. Active(list, v)
      BY <1>4, <3>2 DEF Active
    <3>4. \A i \in 1..Len(list) : Sum(list, v, i) = Sum(list, value, i)
      BY <1>3, <3>2, SameSums
    <3>5. InTime(list, v, left, Elapsed)
      BY <1>5, <3>4 DEF InTime
    <3>6. left[t] = 0 \/ v[t] - Elapsed >= left[t]
      BY <1>2, <3>2 DEF RearmDue
    <3>7. PICK q : /\ Goes(list, v, t, q)
                   /\ list' = InsertAt(list, q, t) /\ value' = Inserted(list, v, t, q)
      BY <1>4, <3>1, <3>3, InsertTimerGoes
    <3>8. InTime(list', value', left, Elapsed)
      BY <3>5, <3>6, <3>7, InsertInTime
    <3>9. list' \in Seq(Timers) /\ IsInjective(list')
      BY <3>7, GoesTo
    <3>10. value' \in [Timers -> Nat]
      BY <3>7, InsertSums
    <3> QED BY <3>8, <3>9, <3>10
  <2> QED BY <2>1, <2>2
<1>7. DueInTime'
  BY <1>2, <1>5, <1>6, DueInTimeSums
<1>8. walk' # "idle" /\ walk' \notin Timers
  BY <1>2, NotInList, TimerAssumption
<1>9. Watched' /\ RearmDue'
  BY <1>8 DEF Watched, RearmDue
<1>10. ~ InList(walk)'
  BY <1>6, <1>8, NotInList, TimerAssumption DEF InList
<1>11. TimerTypeOK'
  BY <1>2, <1>6, <1>10 DEF TimerTypeOK
<1> QED BY <1>7, <1>9, <1>11

------------------------------------------------------------------------------
LEMMA TimerInvInit == Init => TimerInv
<1> SUFFICES ASSUME Init PROVE TimerInv
  OBVIOUS
<1>1. 0 \in Reading /\ NoTimer \in Timers \cup {NoTimer}
  BY TimerAssumption DEF Reading
<1>2. /\ list = <<>> /\ walk = "idle" /\ counter = 0 /\ count = 0 /\ compare = 0 /\ queue = <<>>
      /\ value = [t \in Timers |-> 0] /\ interval = [t \in Timers |-> 0]
      /\ left = [t \in Timers |-> 0] /\ stopping = [p \in Apps |-> NoTimer]
  BY DEF Init
<1>3. list \in Seq(Timers) /\ IsInjective(list) /\ Len(list) = 0
  BY <1>2 DEF IsInjective
<1>4. ~ InList(walk)
  BY <1>3 DEF InList
<1>5. TimerTypeOK
  BY <1>1, <1>2, <1>3, <1>4 DEF TimerTypeOK
<1>6. DueInTime /\ Watched
  BY <1>2, <1>3 DEF DueInTime, Watched
<1>7. RearmDue
  BY <1>2, TimerAssumption DEF RearmDue
<1> QED BY <1>5, <1>6, <1>7 DEF TimerInv

LEMMA TimerInvStep == TimerInv /\ [Next]_vars => TimerInv'
<1> SUFFICES ASSUME TimerInv, [Next]_vars PROVE TimerInv'
  OBVIOUS
<1>1. CASE Tick
  BY <1>1, TickStep
<1>2. CASE CounterInterrupt
  BY <1>2, CounterInterruptStep
<1>3. CASE Retrace
  BY <1>3, RetraceStep
<1>4. CASE ViMgr
  BY <1>4, ViMgrRecvStep, WalkEndStep, WalkWaitStep, ViMgrRearmStep, ExpireStep DEF ViMgr
<1>5. ASSUME NEW p \in Apps, App(p) PROVE TimerInv'
  BY <1>5, SetTimerStep, StopTimerTestStep, StopTimerStep DEF App
<1>6. CASE UNCHANGED vars
  <2>1. /\ UNCHANGED << list, value, interval, counter, compare, count, walk, stopping, left >>
        /\ UNCHANGED << ip8, dropped, queue >>
    BY <1>6 DEF vars
  <2>2. queue \in Seq({"COUNTER", "VI"})
    BY DEF TimerInv, TimerTypeOK
  <2>3. TimerTypeOK' /\ DueInTime' /\ RearmDue'
    BY <2>1, <2>2, ListUntouched
  <2>4. Watched'
    BY <2>1 DEF TimerInv, Watched, ToCompare, Elapsed
  <2> QED BY <2>3, <2>4 DEF TimerInv
<1> QED BY <1>1, <1>2, <1>3, <1>4, <1>5, <1>6 DEF Next

(* The list tells the truth: by the relative values of __osTimerList no timer *)
(* is due before its time, whatever was inserted, stopped or re-armed in      *)
(* front of it, and while the list is not empty Compare, the interrupt, the   *)
(* queue or the manager brings somebody to look at it in time, unless a       *)
(* message was dropped (settimer.c, stoptimer.c, timerintr.c).                *)
THEOREM TimersAreTrue == Spec => []ListTrue
<1>1. TimerInv => ListTrue
  BY DEF TimerInv, ListTrue
<1> QED BY <1>1, TimerInvInit, TimerInvStep, PTL DEF Spec

(* No timer fires before its countdown, and no periodic one twice within its *)
(* interval, for any number of timers and any interleaving of the calls with *)
(* Count, the interrupt and the manager's walk (__osTimerInterrupt).         *)
THEOREM NoTimerIsEarly == Spec => NeverEarly
<1>1. TimerInv /\ [Next]_vars => [\A t \in Timers : Expire(t) => left[t] = 0]_vars
  BY ExpireStep
<1> QED BY <1>1, TimerInvInit, TimerInvStep, PTL DEF Spec, NeverEarly
================================================================================
