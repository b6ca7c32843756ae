--------------------------------- MODULE PiMgr ---------------------------------
(***************************************************************************)
(* The parallel interface: the access queue (piacs.c), programmed I/O      *)
(* (piread.c, epiread.c ...), DMA requests (pidma.c, epidma.c), the PI     *)
(* manager thread (pimgr.c, devmgr.c), the host's use of the bus           *)
(* (ramromMain) and the 64DD interrupt handler (leointerrupt.c).           *)
(*                                                                         *)
(* The access queue holds one token; whoever took it owns the bus.  The    *)
(* manager serves one request at a time: take the token, start the DMA,    *)
(* wait for the PI event, answer, give the token back.  For a disk         *)
(* transfer it starts the drive's buffer manager instead and masks the PI  *)
(* interrupt; the cartridge interrupt handler then starts one DMA for each *)
(* sector and posts the event itself when a block ends.                    *)
(***************************************************************************)
EXTENDS Integers, Sequences, FiniteSets

CONSTANTS
  Threads,      \* application threads
  Boot,         \* the thread that runs alone until the access queue is made
  RaceAtBoot,   \* the other threads may run before that
  Mesgs,        \* OSIoMesg blocks
  Owner,        \* the thread a block belongs to; it waits for the answer
  NoMesg,
  DiskMesgs,    \* the block the 64DD library uses, if there is a drive
  Handles,      \* OSPiHandle structures of cartridges
  Disk,         \* LeoDiskHandle
  TypeOf, DomainOf, SpeedOf,   \* what each handle holds (the four timings as one)
  BootSpeed,    \* the timings both domains start with
  CmdLen,       \* length of the command queue
  RetLen,       \* length of a reply queue
  Sectors,      \* data sectors of a block (85)
  Parity,       \* C2 sectors after them (3)
  Spare,        \* 17: a read in sector mode goes no further, C1 errors apart
  MaxC1,        \* C1 errors that C1ErrSector can hold, less one (3)
  MaxCalls      \* bound on the calls of the threads

ASSUME PiAssumption ==
  /\ Boot \in Threads /\ RaceAtBoot \in BOOLEAN
  /\ NoMesg \notin Mesgs /\ DiskMesgs \subseteq Mesgs /\ Disk \notin Handles
  /\ \A m, n \in DiskMesgs : m = n   \* the handle has room for one transfer
  /\ Owner \in [Mesgs -> Threads]
  /\ DomainOf \in [Handles \cup {Disk} -> {1, 2}]
  /\ CmdLen \in Nat \ {0} /\ RetLen \in Nat \ {0} /\ MaxCalls \in Nat
  /\ Sectors \in Nat \ {0} /\ Parity \in Nat \ {0} /\ Spare \in Nat /\ MaxC1 \in Nat

VARIABLES
  enabled,    \* __osPiAccessQueueEnabled
  made,       \* __osPiAccessQueue has been created
  token,      \* messages in __osPiAccessQueue
  active,     \* __osPiDevMgr.active
  cmdQ,       \* command queue: blocks to serve
  evtQ,       \* piEventBuf, of length 1
  retQ,       \* reply queue of each thread
  req,        \* what each block asks for: [kind, handle]
  mgr,        \* the manager: [pc, mb, twice]; twice is messageSend
  thr,        \* each thread: [pc, op, h]
  host,       \* ramromMain: "wait", "get", "own"
  dma,        \* block whose DMA is on the bus, NoMesg when it is idle
  intr,       \* the PI interrupt is raised
  piOn,       \* OS_IM_PI is set in __OSGlobalIntMask
  cartOn,     \* SR_IBIT4 is
  drive,      \* the drive's buffer manager runs
  info,       \* LeoDiskHandle.transferInfo
  regs,       \* timing registers of the two domains
  cur,        \* __osCurrentHandle of the two domains: [type, speed]
  out,        \* blocks handed to the manager, not answered yet   (history)
  slip,       \* the handler went past a point it should not have (history)
  calls,      \* calls so far                                  (history)
  diskInit    \* osLeoDiskInit has been called                    (history)

busVars  == << dma, intr, regs, cur >>
diskVars == << drive, info, cartOn, slip, diskInit >>
acsVars  == << enabled, made, token >>
devVars  == << active, cmdQ, evtQ, retQ, req, mgr, out >>
restVars == << calls, host, busVars, piOn, diskVars >>
vars == << enabled, made, token, active, cmdQ, evtQ, retQ, req, mgr, thr, host,
           dma, intr, piOn, cartOn, drive, info, regs, cur, out, slip, calls, diskInit >>

Kinds  == {"DMA", "EDMA", "LOOPBACK"}
Errors == {"GOOD", "4", "22", "23", "24", "29"}
TypeInit == "INIT"     \* DEVICE_TYPE_INIT, the type before any handle was used

Idle(d) == [type |-> TypeInit, speed |-> BootSpeed]
AtRest == [pc |-> "idle", op |-> "raw", h |-> Disk]
Blank  == [kind |-> "DMA", h |-> Disk]
NoTransfer == [cmd |-> 0, mode |-> "BLOCK", blk |-> 0, sec |-> 0,
               err |-> [b \in 0..1 |-> "GOOD"], c1 |-> [b \in 0..1 |-> 0]]

\* After __osInitialize_common; __createSpeedParam has read the timing registers.
Init ==
  /\ enabled = FALSE /\ made = FALSE /\ token = 0 /\ active = FALSE
  /\ cmdQ = <<>> /\ evtQ = <<>> /\ retQ = [t \in Threads |-> <<>>]
  /\ req = [m \in Mesgs |-> Blank]
  /\ mgr = [pc |-> "off", mb |-> NoMesg, twice |-> FALSE]
  /\ thr = [t \in Threads |-> AtRest]
  /\ host = "wait" /\ dma = NoMesg /\ intr = FALSE /\ piOn = TRUE /\ cartOn = TRUE
  /\ drive = FALSE /\ info = NoTransfer
  /\ regs = [d \in 1..2 |-> BootSpeed] /\ cur = [d \in 1..2 |-> Idle(d)]
  /\ out = {} /\ calls = 0 /\ slip = "no" /\ diskInit = FALSE

------------------------------------------------------------------------------
\* Mutant: the registers are written for the first handle only.
SyncRegsOnce(h) ==
  LET d == DomainOf[h]
  IN IF cur[d].type = TypeInit THEN [regs EXCEPT ![d] = SpeedOf[h]] ELSE regs

\* EPI_SYNC: the registers of the handle's domain are written when its type is
\* not the one used last there, and then only those that differ from the record.
SyncRegs(h) ==
  LET d == DomainOf[h]
  IN IF cur[d].type # TypeOf[h] /\ cur[d].speed # SpeedOf[h]
     THEN [regs EXCEPT ![d] = SpeedOf[h]] ELSE regs

SyncRecord(h) ==
  LET d == DomainOf[h]
  IN IF cur[d].type # TypeOf[h]
     THEN [cur EXCEPT ![d] = [type |-> TypeOf[h], speed |-> SpeedOf[h]]] ELSE cur

Sync(h) == regs' = SyncRegs(h) /\ cur' = SyncRecord(h)

\* osSendMesg(retQueue, mb, OS_MESG_NOBLOCK)
Answer(m) ==
  LET q == retQ[Owner[m]]
  IN retQ' = [retQ EXCEPT ![Owner[m]] = IF Len(q) < RetLen THEN Append(q, m) ELSE q]

\* The last answer for m: its owner may use the block again.
Finished(m) == out' = out \ {m} /\ req' = [req EXCEPT ![m] = Blank]

\* A message for a queue of one: dropped when the queue is full.
Posted(q) == IF q = <<>> THEN <<"PI">> ELSE q

------------------------------------------------------------------------------
(* Application threads *)

\* The answer for m is in its owner's queue.
Waits(m) == \E i \in 1..Len(retQ[Owner[m]]) : retQ[Owner[m]][i] = m

CanRun(t) == t = Boot \/ RaceAtBoot \/ (made /\ \A u \in Threads : thr[u].pc # "give")

Goes(t, pc) == thr' = [thr EXCEPT ![t].pc = pc]

\* The call returns; what it was about no longer matters.
Returns(t) == thr' = [thr EXCEPT ![t] = AtRest]

\* Mutant: osCreatePiManager makes the access queue whether or not it is there.
CallUntested(t, op, h) ==
  /\ CanRun(t) /\ thr[t].pc = "idle" /\ calls < MaxCalls
  /\ op = "mgr" => t = Boot /\ ~active
  /\ op = "epi" \/ h = Disk
  /\ thr' = [thr EXCEPT ![t] = [pc |-> IF ~enabled \/ op = "mgr" THEN "flag" ELSE "acs",
                                op |-> op, h |-> h]]
  /\ calls' = calls + 1
  /\ UNCHANGED << acsVars, devVars, host, busVars, piOn, diskVars >>

\* The first test of __osPiGetAccess, or of osCreatePiManager.
Call(t, op, h) ==
  /\ CanRun(t) /\ thr[t].pc = "idle" /\ calls < MaxCalls
  /\ op = "mgr" => t = Boot /\ ~active
  /\ op = "epi" \/ h = Disk   \* no handle is used
  /\ thr' = [thr EXCEPT ![t] = [pc |-> IF ~enabled THEN "flag" ELSE IF op = "mgr" THEN "mgr" ELSE "acs",
                                op |-> op, h |-> h]]
  /\ calls' = calls + 1
  /\ UNCHANGED << acsVars, devVars, host, busVars, piOn, diskVars >>

\* __osPiCreateAccessQueue, a statement at a time: another thread may run between.
SetFlag(t) ==
  /\ thr[t].pc = "flag" /\ enabled' = TRUE /\ Goes(t, "make")
  /\ UNCHANGED << made, token, devVars, restVars >>

MakeQueue(t) ==
  /\ thr[t].pc = "make" /\ made' = TRUE /\ token' = 0 /\ Goes(t, "give")
  /\ UNCHANGED << enabled, devVars, restVars >>

FirstToken(t) ==
  /\ thr[t].pc = "give" /\ token' = 1
  /\ Goes(t, IF thr[t].op = "mgr" THEN "mgr" ELSE "acs")
  /\ UNCHANGED << enabled, made, devVars, restVars >>

\* The rest of osCreatePiManager.
CreateManager(t) ==
  /\ thr[t].pc = "mgr" /\ Returns(t)
  /\ active' = TRUE /\ cmdQ' = <<>> /\ evtQ' = <<>>
  /\ mgr' = [mgr EXCEPT !.pc = "recv"]
  /\ UNCHANGED << acsVars, retQ, req, out, restVars >>

\* osRecvMesg on the access queue.
GetAccess(t) ==
  /\ thr[t].pc = "acs" /\ made /\ token = 1
  /\ token' = 0 /\ Goes(t, "io")
  /\ UNCHANGED << enabled, made, devVars, restVars >>

\* WAIT_ON_IOBUSY, then a word is read or written; through a handle (op "epi")
\* its timings are set first.  osCartRomInit does the same and puts the timings back.
ProgrammedIo(t) ==
  /\ thr[t].pc = "io" /\ dma = NoMesg
  /\ IF thr[t].op = "epi" THEN Sync(thr[t].h) ELSE UNCHANGED << regs, cur >>
  /\ Goes(t, "rel")
  /\ UNCHANGED << acsVars, devVars, calls, host, dma, intr, piOn, diskVars >>

RelAccess(t) ==
  /\ thr[t].pc = "rel" /\ token' = 1 /\ Returns(t)
  /\ UNCHANGED << enabled, made, devVars, restVars >>

\* osPiStartDma and osEPiStartDma; a loopback message is sent to the command queue
\* as it is.  With the queue full the block is written but not queued; it is written
\* again before it is next queued.
StartDma(t, m, kind, h, urgent) ==
  /\ CanRun(t) /\ thr[t].pc = "idle" /\ calls < MaxCalls
  /\ active /\ Owner[m] = t /\ m \notin out /\ ~Waits(m)
  /\ calls' = calls + 1 /\ UNCHANGED thr
  /\ kind = "EDMA" \/ h = Disk   \* piHandle is NULL
  /\ IF Len(cmdQ) < CmdLen
     THEN /\ req' = [req EXCEPT ![m] = [kind |-> kind, h |-> h]]
          /\ cmdQ' = IF urgent THEN <<m>> \o cmdQ ELSE Append(cmdQ, m)
          /\ out' = out \cup {m}
     ELSE UNCHANGED << req, cmdQ, out >>
  /\ UNCHANGED << acsVars, active, evtQ, retQ, mgr, host, busVars, piOn, drive, cartOn, slip, diskInit >>

StartCart(t, m, kind, h, urgent) ==
  /\ m \notin DiskMesgs
  /\ h \in Handles \/ kind # "EDMA"
  /\ StartDma(t, m, kind, h, urgent) /\ UNCHANGED info

\* The 64DD library fills in the transfer before it asks for it: a read (0) or a
\* write (1) of sectors, or (2) a plain DMA of the drive's buffers.
StartDisk(t, m, cmd, mode) ==
  /\ m \in DiskMesgs /\ diskInit
  /\ (mode = "SECTOR" => cmd = 0) /\ (cmd = 2 => mode = "BLOCK")
  /\ StartDma(t, m, "EDMA", Disk, FALSE)
  /\ info' = [NoTransfer EXCEPT !.cmd = cmd, !.mode = mode, !.err = [b \in 0..1 |-> "4"]]

Receive(t) ==
  /\ retQ[t] # <<>> /\ retQ' = [retQ EXCEPT ![t] = Tail(@)]
  /\ UNCHANGED << acsVars, active, cmdQ, evtQ, req, mgr, thr, out, restVars >>

\* osLeoDiskInit writes the registers of domain 2 and leaves the record alone.
LeoDiskInit(t) ==
  /\ CanRun(t) /\ thr[t].pc = "idle" /\ ~diskInit /\ \E m \in DiskMesgs : Owner[m] = t
  /\ diskInit' = TRUE /\ regs' = [regs EXCEPT ![2] = SpeedOf[Disk]]
  /\ info' = NoTransfer
  /\ UNCHANGED << acsVars, devVars, thr, calls, host, dma, intr, cur, piOn, drive, cartOn, slip >>

(* ramromMain: the host asks for the cartridge bus and frees it. *)

HostAsks ==
  /\ active /\ host = "wait" /\ host' = "get"
  /\ UNCHANGED << acsVars, devVars, thr, calls, busVars, piOn, diskVars >>

HostGets ==
  /\ host = "get" /\ token = 1 /\ token' = 0 /\ host' = "own"
  /\ UNCHANGED << enabled, made, devVars, thr, calls, busVars, piOn, diskVars >>

HostFrees ==
  /\ host = "own" /\ token' = 1 /\ host' = "wait"
  /\ UNCHANGED << enabled, made, devVars, thr, calls, busVars, piOn, diskVars >>

------------------------------------------------------------------------------
(* The manager thread, __osDevMgrMain *)

At(pc) == mgr.pc = pc
MgrGoes(pc) == mgr' = [mgr EXCEPT !.pc = pc]

\* The request is a transfer of disk sectors.
ForDrive(m) == req[m].kind = "EDMA" /\ req[m].h = Disk /\ info.cmd \in {0, 1}

RecvDisk ==
  LET m == Head(cmdQ)
  IN /\ ForDrive(m)
     /\ info' = [info EXCEPT !.sec = -1]
     /\ mgr' = [pc |-> "leoAcs", mb |-> m, twice |-> info.mode = "TRACK" /\ info.cmd = 0]
     /\ UNCHANGED << retQ, out, req >>

RecvDma ==
  LET m == Head(cmdQ)
  IN /\ ~ForDrive(m) /\ req[m].kind # "LOOPBACK"
     /\ mgr' = [mgr EXCEPT !.pc = "acs", !.mb = m]
     /\ UNCHANGED << retQ, out, req, info >>

RecvLoopback ==
  LET m == Head(cmdQ)
  IN /\ req[m].kind = "LOOPBACK" /\ Answer(m) /\ Finished(m)
     /\ UNCHANGED << mgr, info >>

MgrRecv ==
  /\ At("recv") /\ cmdQ # <<>> /\ cmdQ' = Tail(cmdQ)
  /\ RecvDisk \/ RecvDma \/ RecvLoopback
  /\ UNCHANGED << acsVars, active, evtQ, thr, calls, host, busVars, piOn, drive, cartOn, slip, diskInit >>

\* osRecvMesg(dm->acsQueue): the token, and for the drive the PI interrupt goes off.
MgrAccess ==
  /\ token = 1 /\ token' = 0
  /\ \/ At("acs") /\ MgrGoes("start") /\ UNCHANGED piOn
     \/ At("leoAcs") /\ MgrGoes("leoStart") /\ piOn' = FALSE
  /\ UNCHANGED << enabled, made, active, cmdQ, evtQ, retQ, req, out, thr, calls, host, busVars, diskVars >>

\* __osPiRawStartDma or __osEPiRawStartDma, once the bus is idle.
MgrStart ==
  /\ At("start") /\ dma = NoMesg
  /\ IF req[mgr.mb].kind = "EDMA" THEN Sync(req[mgr.mb].h) ELSE UNCHANGED << regs, cur >>
  /\ dma' = mgr.mb /\ MgrGoes("wait")
  /\ UNCHANGED << acsVars, active, cmdQ, evtQ, retQ, req, out, thr, calls, host, intr, piOn, diskVars >>

MgrLeoStart ==
  /\ At("leoStart") /\ dma = NoMesg
  /\ Sync(Disk) /\ drive' = TRUE /\ MgrGoes("leoWait")
  /\ UNCHANGED << acsVars, active, cmdQ, evtQ, retQ, req, out, thr, calls, host, dma, intr, piOn,
                  info, cartOn, slip, diskInit >>

\* osRecvMesg(dm->evtQueue)
MgrEvent ==
  /\ evtQ # <<>> /\ evtQ' = <<>>
  /\ \/ At("wait") /\ MgrGoes("reply")
     \/ At("leoWait") /\ MgrGoes("leoReply")
  /\ UNCHANGED << acsVars, active, cmdQ, retQ, req, out, thr, restVars >>

MgrReply ==
  /\ At("reply") /\ Answer(mgr.mb) /\ Finished(mgr.mb) /\ MgrGoes("rel")
  /\ UNCHANGED << acsVars, active, cmdQ, evtQ, thr, restVars >>

\* Mutant: the PI interrupt stays off.
ResetDriveMasked ==
  IF info.err[info.blk] = "29"
  THEN /\ dma = NoMesg
       /\ Sync(Disk) /\ drive' = FALSE /\ intr' = FALSE /\ cartOn' = TRUE
       /\ info' = [info EXCEPT !.err[info.blk] = "4"]
       /\ UNCHANGED piOn
  ELSE UNCHANGED << regs, cur, drive, intr, piOn, cartOn, info >>

\* The drive interrupted a DMA: it is reset and both interrupts come on again.
ResetDrive ==
  IF info.err[info.blk] = "29"
  THEN /\ dma = NoMesg
       /\ Sync(Disk) /\ drive' = FALSE /\ intr' = FALSE
       /\ piOn' = TRUE /\ cartOn' = TRUE
       /\ info' = [info EXCEPT !.err[info.blk] = "4"]
  ELSE UNCHANGED << regs, cur, drive, intr, piOn, cartOn, info >>

\* A track read that read its first block goes back for the second one.
MgrLeoReply ==
  /\ At("leoReply") /\ ResetDrive /\ Answer(mgr.mb)
  /\ IF mgr.twice /\ info'.err[0] = "GOOD"
     THEN mgr' = [mgr EXCEPT !.pc = "leoWait", !.twice = FALSE] /\ UNCHANGED << out, req >>
     ELSE MgrGoes("rel") /\ Finished(mgr.mb)
  /\ UNCHANGED << acsVars, active, cmdQ, evtQ, thr, calls, host, dma, slip, diskInit >>

MgrRelease ==
  /\ At("rel") /\ token' = 1
  /\ mgr' = [mgr EXCEPT !.pc = "recv", !.mb = NoMesg]
  /\ UNCHANGED << enabled, made, active, cmdQ, evtQ, retQ, req, out, thr, restVars >>

------------------------------------------------------------------------------
(* The bus and the PI interrupt *)

DmaEnds ==
  /\ dma # NoMesg /\ dma' = NoMesg /\ intr' = TRUE
  /\ UNCHANGED << acsVars, devVars, thr, calls, host, regs, cur, piOn, diskVars >>

PiInterrupt ==
  /\ intr /\ piOn /\ intr' = FALSE /\ evtQ' = Posted(evtQ)
  /\ UNCHANGED << acsVars, active, cmdQ, retQ, req, mgr, out, thr, calls, host, dma, regs, cur, piOn, diskVars >>

------------------------------------------------------------------------------
(* The drive's interrupt, __osLeoInterrupt.  Sectors take milliseconds and the  *)
(* manager is more urgent than any thread that uses the bus, so the drive's     *)
(* next interrupt comes after the manager has seen the last event.              *)

Statuses == [data : BOOLEAN, c2 : BOOLEAN, c1err : BOOLEAN, c2data : BOOLEAN]

DriveInterrupts == drive /\ cartOn /\ At("leoWait") /\ evtQ = <<>>

\* __osLeoResume
Resume == evtQ' = Posted(evtQ)

\* Mutant: the interrupt of the last sector's DMA is left pending.
PiComesOnPending == piOn' = TRUE /\ UNCHANGED intr

\* The end of a block: the pending PI interrupt is cleared and comes on again.
PiComesOn == intr' = FALSE /\ piOn' = TRUE

\* __osLeoAbnormalResume
AbnormalResume(i, b, err) ==
  /\ info' = [i EXCEPT !.err[b] = err] /\ drive' = FALSE
  /\ Resume /\ PiComesOn

leoRest == << acsVars, active, cmdQ, retQ, req, mgr, out, thr, calls, host, diskInit >>

\* A DMA is still running: the cartridge interrupt goes off until the manager acts.
LeoBusy ==
  /\ DriveInterrupts /\ dma # NoMesg
  /\ cartOn' = FALSE /\ info' = [info EXCEPT !.err[info.blk] = "29"] /\ Resume
  /\ UNCHANGED << leoRest, busVars, piOn, drive, slip >>

LeoBufferError ==
  /\ DriveInterrupts /\ dma = NoMesg /\ info.cmd # 2
  /\ info' = [info EXCEPT !.err[info.blk] = "22"] /\ drive' = FALSE
  /\ Resume /\ PiComesOn
  /\ UNCHANGED << leoRest, dma, regs, cur, cartOn, slip >>

Blocks(mode) == CASE mode = "BLOCK" -> 1 [] mode = "TRACK" -> 2 [] mode = "SECTOR" -> 3

\* The DMA of a sector or of the C2 data; it answers the manager's request.
SectorDma == Sync(Disk) /\ dma' = mgr.mb

WriteSector(stat) ==
  /\ stat.data /\ info.sec < 2 * Sectors
  /\ info' = [info EXCEPT !.sec = @ + 1] /\ SectorDma
  /\ UNCHANGED << evtQ, intr, piOn, drive >>

WriteEnds(stat) ==
  /\ ~stat.data
  /\ AbnormalResume(info, info.blk,
       IF info.sec + 1 = Blocks(info.mode) * Sectors THEN "GOOD" ELSE "24")
  /\ UNCHANGED << dma, regs, cur >>

LeoWrite(stat) ==
  /\ DriveInterrupts /\ dma = NoMesg /\ info.cmd = 1
  /\ WriteSector(stat) \/ WriteEnds(stat)
  /\ UNCHANGED << leoRest, cartOn, slip >>

\* The C1 errors of the sector just read are counted.
Counted(stat) == [info EXCEPT !.c1[info.blk] = IF stat.c1err THEN @ + 1 ELSE @]

SectorModeEnds(stat) ==
  info.mode = "SECTOR" /\ (info.sec > info.c1[info.blk] + Spare \/ ~stat.data)

TooManyC1(stat) ==
  /\ stat.c1err /\ info.c1[info.blk] > MaxC1
  /\ info.mode # "SECTOR" \/ info.sec > Sectors - 3

ReadStops(stat) ==
  /\ \/ /\ SectorModeEnds(stat)
        /\ AbnormalResume(info, info.blk,
             IF info.sec > info.c1[info.blk] + Spare THEN "GOOD" ELSE "23")
     \/ /\ ~SectorModeEnds(stat) /\ TooManyC1(stat)
        /\ AbnormalResume(info, info.blk, "23")
  /\ UNCHANGED << dma, regs, cur, slip >>

WrongC2 == info.sec + 1 # Sectors + Parity

\* The C2 data of the block.  A wrong sector count resumes the manager, and the
\* handler goes on with the transfer all the same.
ReadC2(stat) ==
  /\ ~SectorModeEnds(stat) /\ ~TooManyC1(stat) /\ stat.c2
  /\ slip' = IF WrongC2 THEN "C2" ELSE slip
  /\ evtQ' = IF WrongC2 THEN Posted(evtQ) ELSE evtQ
  /\ LET i == Counted(stat)
     IN IF info.mode = "TRACK" /\ info.blk = 0
        THEN /\ info' = [i EXCEPT !.blk = 1, !.sec = -1, !.err[0] = "22"]
             /\ drive' = ~WrongC2
             /\ IF WrongC2 THEN PiComesOn ELSE UNCHANGED << intr, piOn >>
        ELSE /\ info' = [i EXCEPT !.cmd = 2, !.err[info.blk] = "GOOD"]
             /\ drive' = FALSE /\ PiComesOn
  /\ SectorDma

\* The second block of a track read begins: the first one can be answered now.
FirstBlockRead == info.sec = -1 /\ info.mode = "TRACK" /\ info.blk = 1

BadFirstBlock(stat) == FirstBlockRead /\ info.c1[0] = 0 /\ stat.c2data

ReadSector(stat) ==
  /\ ~SectorModeEnds(stat) /\ ~TooManyC1(stat) /\ ~stat.c2
  /\ IF BadFirstBlock(stat)
     THEN AbnormalResume(Counted(stat), 0, "24") /\ UNCHANGED << dma, regs, cur, slip >>
     ELSE LET sec == info.sec + 1
              i   == [Counted(stat) EXCEPT !.sec = sec,
                                           !.err[0] = IF FirstBlockRead THEN "GOOD" ELSE @]
          IN \/ /\ stat.data /\ sec < Sectors
                /\ info' = [i EXCEPT !.err[info.blk] = "GOOD"] /\ SectorDma
                /\ evtQ' = IF FirstBlockRead THEN Posted(evtQ) ELSE evtQ
                /\ UNCHANGED << intr, piOn, drive, slip >>
             \/ /\ stat.data # (sec < Sectors)
                /\ AbnormalResume(i, info.blk, "24")
                /\ slip' = IF FirstBlockRead /\ slip # "C2" THEN "TWICE" ELSE slip
                /\ UNCHANGED << dma, regs, cur >>
             \/ /\ ~stat.data /\ sec \in Sectors..(Sectors + Parity - 1)
                /\ info' = i
                /\ UNCHANGED << evtQ, dma, regs, cur, intr, piOn, drive, slip >>

LeoRead(stat) ==
  /\ DriveInterrupts /\ dma = NoMesg /\ info.cmd = 0
  /\ ReadStops(stat) \/ ReadC2(stat) \/ ReadSector(stat)
  /\ UNCHANGED << leoRest, cartOn >>

\* Any status at any sector: the drive's faults are among them.
LeoTransfer == \E stat \in Statuses : LeoWrite(stat) \/ LeoRead(stat)

------------------------------------------------------------------------------
Thread(t) ==
  \/ \E op \in {"raw", "epi", "mgr"}, h \in Handles \cup {Disk} : Call(t, op, h)
  \/ SetFlag(t) \/ MakeQueue(t) \/ FirstToken(t) \/ CreateManager(t)
  \/ GetAccess(t) \/ ProgrammedIo(t) \/ RelAccess(t)
  \/ \E m \in Mesgs, kind \in Kinds, h \in Handles \cup {Disk}, urgent \in BOOLEAN :
       StartCart(t, m, kind, h, urgent)
  \/ \E m \in Mesgs, cmd \in 0..2, mode \in {"BLOCK", "TRACK", "SECTOR"} :
       StartDisk(t, m, cmd, mode)
  \/ Receive(t) \/ LeoDiskInit(t)

Manager ==
  MgrRecv \/ MgrAccess \/ MgrStart \/ MgrLeoStart \/ MgrEvent \/ MgrReply \/ MgrLeoReply \/ MgrRelease

Hardware == DmaEnds \/ PiInterrupt \/ LeoBusy \/ LeoBufferError \/ LeoTransfer

Next == (\E t \in Threads : Thread(t)) \/ HostAsks \/ HostGets \/ HostFrees \/ Manager \/ Hardware

Spec == Init /\ [][Next]_vars

\* The manager's priority puts it first at the access queue, whoever else waits.
Fairness ==
  /\ WF_vars(MgrRecv) /\ SF_vars(MgrAccess) /\ WF_vars(MgrStart) /\ WF_vars(MgrLeoStart)
  /\ WF_vars(MgrEvent) /\ WF_vars(MgrReply) /\ WF_vars(MgrLeoReply) /\ WF_vars(MgrRelease)
  /\ WF_vars(DmaEnds) /\ WF_vars(PiInterrupt) /\ WF_vars(LeoTransfer) /\ WF_vars(HostFrees)
  /\ \A t \in Threads : WF_vars(ProgrammedIo(t)) /\ WF_vars(RelAccess(t))

LiveSpec == Spec /\ Fairness

------------------------------------------------------------------------------
Owners ==
  {t \in Threads : thr[t].pc \in {"io", "rel"}}
    \cup (IF host = "own" THEN {"host"} ELSE {})
    \cup (IF mgr.pc \in {"off", "recv", "acs", "leoAcs"} THEN {} ELSE {"manager"})

\* The bus has one owner or the token is in the queue (__osPiGetAccess,
\* __osPiRelAccess, ramromMain, __osDevMgrMain): never both, and never neither
\* once the queue has got its first message.
OneOwner ==
  token + Cardinality(Owners) = IF made /\ \A t \in Threads : thr[t].pc # "give" THEN 1 ELSE 0

\* While a DMA runs the manager serves that request and waits for it, so no reply
\* is sent and no token given back before the data has arrived.  The handler's
\* missing return (leointerrupt.c:107) is where this ends.
DmaIsAwaited ==
  dma # NoMesg /\ slip # "C2" => dma = mgr.mb /\ mgr.pc \in {"wait", "leoWait", "leoReply"}

\* When the manager goes to wait for an event, the event queue is empty and no
\* interrupt is about to fill it: it cannot take the end of another transfer for
\* the end of its own.
NoStaleEvent ==
  mgr.pc \in {"rel", "recv", "acs", "start", "leoAcs", "leoStart"} /\ slip # "C2"
    => evtQ = <<>> /\ ~intr

\* Both: what the manager waits for is the end of its own transfer, and nothing else.
AwaitsItsOwn == DmaIsAwaited /\ NoStaleEvent

\* A DMA through a handle runs with the timings of that handle, except that
\* osLeoDiskInit changes those of domain 2 behind EPI_SYNC's back.
AtItsSpeed ==
  dma # NoMesg /\ slip # "C2" /\ req[dma].kind = "EDMA" =>
    LET h == req[dma].h IN regs[DomainOf[h]] = SpeedOf[h] \/ (DomainOf[h] = 2 /\ diskInit)

\* Every request in the command queue is answered, or the drive's handler has lost
\* an event or made one too many.
Served == \A m \in Mesgs : (m \in out) ~> (m \notin out \/ slip # "no")
================================================================================
