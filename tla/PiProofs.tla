------------------------------- MODULE PiProofs -------------------------------
(***************************************************************************)
(* Theorems about PiMgr, the bus of the cartridge and the disk drive, for  *)
(* any threads, blocks, handles and timings, and queues of any length.     *)
(***************************************************************************)
EXTENDS PiMgr, FiniteSetTheorems, SequenceTheorems, TLAPS

AnyHandle == Handles \cup {Disk}
ThrPcs == {"idle", "flag", "make", "give", "mgr", "acs", "io", "rel"}
MgrPcs == {"off", "recv", "acs", "leoAcs", "start", "leoStart", "wait", "leoWait",
           "reply", "leoReply", "rel"}

ThrType  == [pc : ThrPcs, op : {"raw", "epi", "mgr"}, h : AnyHandle]
MgrType  == [pc : MgrPcs, mb : Mesgs \cup {NoMesg}, twice : BOOLEAN]
ReqType  == [kind : Kinds, h : AnyHandle]
InfoType == [cmd : 0..2, mode : {"BLOCK", "TRACK", "SECTOR"}, blk : 0..1, sec : Nat \cup {-1},
             err : [0..1 -> Errors], c1 : [0..1 -> Nat]]

(* What the variables hold. *)
PiTypeOK ==
  /\ enabled \in BOOLEAN /\ made \in BOOLEAN /\ token \in {0, 1} /\ active \in BOOLEAN
  /\ cmdQ \in Seq(Mesgs) /\ evtQ \in {<<>>, <<"PI">>}
  /\ req \in [Mesgs -> ReqType] /\ mgr \in MgrType /\ thr \in [Threads -> ThrType]
  /\ host \in {"wait", "get", "own"} /\ dma \in Mesgs \cup {NoMesg}
  /\ intr \in BOOLEAN /\ piOn \in BOOLEAN /\ cartOn \in BOOLEAN /\ drive \in BOOLEAN
  /\ info \in InfoType /\ out \subseteq Mesgs
  /\ slip \in {"no", "C2", "TWICE"} /\ diskInit \in BOOLEAN

------------------------------------------------------------------------------
(* One owner *)

(* The queue exists and has its first message. *)
Ready == made /\ \A t \in Threads : thr[t].pc # "give"

(* Only the thread that runs alone makes the queue, once, and everything else
   waits until it is ready. *)
MadeOnce ==
  /\ active <=> mgr.pc # "off"
  /\ host # "wait" => active
  /\ \A t \in Threads : thr[t].pc \in {"flag", "make", "give", "mgr"} => t = Boot
  /\ thr[Boot].pc = "mgr" => ~active
  /\ thr[Boot].pc = "flag" => ~enabled
  /\ thr[Boot].pc = "give" => made
  /\ ~enabled => ~made
  /\ enabled /\ ~made <=> thr[Boot].pc = "make"
  /\ ~Ready => /\ token = 0 /\ ~active
               /\ \A t \in Threads : thr[t].pc \in {"idle", "flag", "make", "give"}

MgrOwns == mgr.pc \notin {"off", "recv", "acs", "leoAcs"}
User(t) == thr[t].pc \in {"io", "rel"}

(* The token is in the queue and nobody is an owner, or it is not and a thread,
   the host or the manager is the only one. *)
Exclusive ==
  \/ token = 1 /\ (\A t \in Threads : ~User(t)) /\ host # "own" /\ ~MgrOwns
  \/ token = 0 /\ host # "own" /\ ~MgrOwns
       /\ \E t \in Threads : User(t) /\ \A u \in Threads : User(u) => u = t
  \/ token = 0 /\ (\A t \in Threads : ~User(t)) /\ host = "own" /\ ~MgrOwns
  \/ token = 0 /\ (\A t \in Threads : ~User(t)) /\ host # "own" /\ MgrOwns

OwnerInv == PiTypeOK /\ MadeOnce /\ (Ready => Exclusive)

------------------------------------------------------------------------------
(* The manager's transfers *)

(* osCreatePiManager comes to its end once. *)
ManagerOnce ==
  /\ active <=> mgr.pc # "off"
  /\ \A t \in Threads : thr[t].pc # "idle" /\ thr[t].op = "mgr" => t = Boot /\ ~active
  /\ \A t \in Threads : thr[t].pc = "mgr" => thr[t].op = "mgr"

Holds == mgr.pc \notin {"off", "recv", "rel"}
Leo   == mgr.pc \in {"leoAcs", "leoStart", "leoWait", "leoReply"}

(* The elements of q are different members of S. *)
Distinct(q, S) ==
  /\ \A i \in 1..Len(q) : q[i] \in S
  /\ \A i, j \in 1..Len(q) : q[i] = q[j] => i = j

(* Blocks are queued once; the one in service is no longer in the queue. *)
Queued ==
  /\ Distinct(cmdQ, out)
  /\ Holds => mgr.mb \in out /\ \A i \in 1..Len(cmdQ) : cmdQ[i] # mgr.mb

(* Only the 64DD library asks for a transfer through the drive's handle, once it
   has been initialised. *)
ForLibrary ==
  /\ \A m \in out : m \in DiskMesgs => diskInit
  /\ \A m \in out : req[m].kind = "EDMA" /\ req[m].h = Disk => m \in DiskMesgs
  /\ Leo => req[mgr.mb].kind = "EDMA" /\ req[mgr.mb].h = Disk

Quiet == dma = NoMesg /\ ~intr

(* The end of the transfer is under way: the DMA runs, raised the interrupt, or
   the event is in the queue. *)
Ending ==
  \/ dma = mgr.mb /\ ~intr /\ evtQ = <<>>
  \/ dma = NoMesg /\ intr /\ evtQ = <<>>
  \/ Quiet /\ evtQ = <<"PI">>

Interrupted == info.err[info.blk] = "29"
HalfRead == mgr.twice /\ info.err[0] = "GOOD" /\ info.blk = 1 /\ info.sec # -1
TrackRead == info.cmd = 0 /\ info.mode = "TRACK"

InTransfer ==
  /\ mgr.pc \in {"off", "recv", "acs", "leoAcs", "start", "leoStart", "reply", "rel"}
       => Quiet /\ evtQ = <<>>
  /\ mgr.pc = "wait" => Ending
  /\ mgr.pc \in {"leoAcs", "leoStart"} /\ TrackRead => mgr.twice
  /\ mgr.pc = "leoStart" => ~piOn
  /\ mgr.pc = "leoWait" /\ piOn => ~drive /\ (Ending \/ (Quiet /\ evtQ = <<>>))
  /\ mgr.pc = "leoWait" /\ ~piOn =>
       /\ dma \in {NoMesg, mgr.mb}
       /\ evtQ # <<>> => Interrupted \/ HalfRead
       /\ evtQ = <<>> /\ TrackRead /\ (info.blk = 0 \/ info.sec = -1) => mgr.twice
  /\ mgr.pc = "leoReply" =>
       /\ evtQ = <<>> /\ dma \in {NoMesg, mgr.mb}
       /\ piOn => ~drive /\ Quiet
       /\ ~piOn => Interrupted \/ HalfRead

MgrInv == PiTypeOK /\ ManagerOnce /\ Queued /\ ForLibrary /\ (slip # "C2" => InTransfer)

------------------------------------------------------------------------------
(* Timings *)

(* The type of a handle tells its timings, and DEVICE_TYPE_INIT is no handle's type. *)
TypesTellSpeeds ==
  /\ \A g, h \in AnyHandle :
       DomainOf[g] = DomainOf[h] /\ TypeOf[g] = TypeOf[h] => SpeedOf[g] = SpeedOf[h]
  /\ \A h \in AnyHandle : TypeOf[h] # TypeInit

RecordTrue ==
  /\ cur \in [1..2 -> [type : {TypeInit} \cup {TypeOf[h] : h \in AnyHandle},
                       speed : {BootSpeed} \cup {SpeedOf[h] : h \in AnyHandle}]]
  /\ DOMAIN regs = 1..2
  /\ \A d \in 1..2 :
       /\ regs[d] = cur[d].speed \/ (d = 2 /\ diskInit)
       /\ \A h \in AnyHandle : DomainOf[h] = d /\ cur[d].type = TypeOf[h] => cur[d].speed = SpeedOf[h]

OnBus ==
  dma # NoMesg /\ slip # "C2" /\ req[dma].kind = "EDMA" =>
    LET h == req[dma].h IN cur[DomainOf[h]].speed = SpeedOf[h]

SpeedInv == MgrInv /\ RecordTrue /\ OnBus

------------------------------------------------------------------------------
USE DEF acsVars, devVars, restVars, busVars, diskVars, leoRest

(* What the updates the actions share do. *)
LEMMA GoesType ==
  ASSUME thr \in [Threads -> ThrType], NEW t \in Threads, NEW pc \in ThrPcs, Goes(t, pc)
  PROVE  /\ thr' \in [Threads -> ThrType]
         /\ thr'[t].pc = pc /\ thr'[t].op = thr[t].op /\ thr'[t].h = thr[t].h
         /\ \A u \in Threads \ {t} : thr'[u] = thr[u]
BY DEF Goes, ThrType

LEMMA ReturnsType ==
  ASSUME thr \in [Threads -> ThrType], NEW t \in Threads, Returns(t)
  PROVE  /\ thr' \in [Threads -> ThrType]
         /\ thr'[t].pc = "idle" /\ thr'[t].op = "raw"
         /\ \A u \in Threads \ {t} : thr'[u] = thr[u]
BY DEF Returns, ThrType, AtRest, AnyHandle, ThrPcs

LEMMA MgrGoesType ==
  ASSUME mgr \in MgrType, NEW pc \in MgrPcs, MgrGoes(pc)
  PROVE  mgr' \in MgrType /\ mgr'.pc = pc /\ mgr'.mb = mgr.mb /\ mgr'.twice = mgr.twice
BY DEF MgrGoes, MgrType

LEMMA FinishedType ==
  ASSUME req \in [Mesgs -> ReqType], out \subseteq Mesgs, NEW m, Finished(m)
  PROVE  /\ req' \in [Mesgs -> ReqType] /\ out' = out \ {m}
         /\ \A n \in Mesgs \ {m} : req'[n] = req[n]
BY DEF Finished, Blank, ReqType, AnyHandle, Kinds

LEMMA ErrType ==
  ASSUME NEW i \in InfoType, NEW b \in 0..1, NEW e \in Errors
  PROVE  /\ [i EXCEPT !.err[b] = e] \in InfoType
         /\ LET j == [i EXCEPT !.err[b] = e]
            IN /\ j.err[b] = e /\ \A c \in 0..1 \ {b} : j.err[c] = i.err[c]
               /\ j.cmd = i.cmd /\ j.mode = i.mode /\ j.blk = i.blk /\ j.sec = i.sec
BY DEF InfoType

LEMMA CountedType ==
  ASSUME info \in InfoType, NEW stat \in Statuses
  PROVE  /\ Counted(stat) \in InfoType
         /\ Counted(stat).cmd = info.cmd /\ Counted(stat).mode = info.mode
         /\ Counted(stat).blk = info.blk /\ Counted(stat).sec = info.sec
         /\ Counted(stat).err = info.err
BY DEF Counted, InfoType

LEMMA NoTransferType ==
  /\ NoTransfer \in InfoType
  /\ \A cmd \in 0..2, mode \in {"BLOCK", "TRACK", "SECTOR"} :
       [NoTransfer EXCEPT !.cmd = cmd, !.mode = mode, !.err = [b \in 0..1 |-> "4"]] \in InfoType
<1>1. NoTransfer \in InfoType
  BY DEF NoTransfer, InfoType, Errors
<1>2. ASSUME NEW i \in InfoType, NEW cmd \in 0..2, NEW mode \in {"BLOCK", "TRACK", "SECTOR"}
      PROVE  [i EXCEPT !.cmd = cmd, !.mode = mode, !.err = [b \in 0..1 |-> "4"]] \in InfoType
  BY DEF InfoType, Errors
<1> HIDE DEF NoTransfer
<1> QED BY <1>1, <1>2

LEMMA PostedType ==
  ASSUME evtQ \in {<<>>, <<"PI">>}
  PROVE  Posted(evtQ) = <<"PI">>
BY DEF Posted

------------------------------------------------------------------------------
(* The steps of the threads and of the host keep the types. *)
LEMMA TypeThread ==
  ASSUME PiTypeOK, NEW t \in Threads, Thread(t)
  PROVE  PiTypeOK'
<1> USE PiAssumption DEF PiTypeOK
<1>1. ASSUME NEW o \in {"raw", "epi", "mgr"}, NEW h \in AnyHandle, Call(t, o, h)
      PROVE  PiTypeOK'
  <2>1. thr' \in [Threads -> ThrType]
    BY <1>1 DEF Call, ThrType, ThrPcs
  <2> QED BY <1>1, <2>1 DEF Call
<1>2. CASE SetFlag(t)
  <2>1. Goes(t, "make") /\ "make" \in ThrPcs
    BY <1>2 DEF SetFlag, ThrPcs
  <2> QED BY <1>2, <2>1, GoesType DEF SetFlag
<1>3. CASE MakeQueue(t)
  <2>1. Goes(t, "give") /\ "give" \in ThrPcs
    BY <1>3 DEF MakeQueue, ThrPcs
  <2> QED BY <1>3, <2>1, GoesType DEF MakeQueue
<1>4. CASE FirstToken(t)
  <2>1. \E pc \in ThrPcs : Goes(t, pc)
    BY <1>4 DEF FirstToken, ThrPcs
  <2> QED BY <1>4, <2>1, GoesType DEF FirstToken
<1>5. CASE CreateManager(t)
  <2>1. mgr' \in MgrType
    BY <1>5 DEF CreateManager, MgrType, MgrPcs
  <2>2. Returns(t)
    BY <1>5 DEF CreateManager
  <2> QED BY <1>5, <2>1, <2>2, ReturnsType DEF CreateManager
<1>6. CASE GetAccess(t)
  <2>1. Goes(t, "io") /\ "io" \in ThrPcs
    BY <1>6 DEF GetAccess, ThrPcs
  <2> QED BY <1>6, <2>1, GoesType DEF GetAccess
<1>7. CASE ProgrammedIo(t)
  <2>1. Goes(t, "rel") /\ "rel" \in ThrPcs
    BY <1>7 DEF ProgrammedIo, ThrPcs
  <2> QED BY <1>7, <2>1, GoesType DEF ProgrammedIo
<1>8. CASE RelAccess(t)
  <2>1. Returns(t)
    BY <1>8 DEF RelAccess
  <2> QED BY <1>8, <2>1, ReturnsType DEF RelAccess
<1>9. ASSUME NEW m \in Mesgs, NEW kind \in Kinds, NEW h \in AnyHandle, NEW urgent,
             StartDma(t, m, kind, h, urgent), info' \in InfoType
      PROVE  PiTypeOK'
  <2>1. req' \in [Mesgs -> ReqType] /\ out' \subseteq Mesgs
    <3>1. [kind |-> kind, h |-> h] \in ReqType
      BY DEF ReqType
    <3>2. \/ req' = req /\ out' = out
          \/ req' = [req EXCEPT ![m] = [kind |-> kind, h |-> h]] /\ out' = out \cup {m}
      BY <1>9 DEF StartDma
    <3>3. req \in [Mesgs -> ReqType] /\ out \subseteq Mesgs
      OBVIOUS
    <3> HIDE DEF PiTypeOK
    <3> QED BY <3>1, <3>2, <3>3
  <2>2. cmdQ' \in Seq(Mesgs)
    <3>1. cmdQ \in Seq(Mesgs)
      OBVIOUS
    <3>2. Append(cmdQ, m) \in Seq(Mesgs) /\ <<m>> \o cmdQ \in Seq(Mesgs)
      BY <3>1
    <3>3. \/ cmdQ' = cmdQ
          \/ cmdQ' = Append(cmdQ, m)
          \/ cmdQ' = <<m>> \o cmdQ
      BY <1>9 DEF StartDma
    <3> QED BY <3>1, <3>2, <3>3
  <2>3. /\ UNCHANGED << enabled, made, token, active, evtQ, mgr, thr, host >>
        /\ UNCHANGED << dma, intr, piOn, drive, cartOn, slip, diskInit >>
    BY <1>9 DEF StartDma
  <2> QED BY <1>9, <2>1, <2>2, <2>3
<1>10. ASSUME NEW m \in Mesgs, NEW kind \in Kinds, NEW h \in AnyHandle, NEW urgent,
             StartCart(t, m, kind, h, urgent)
      PROVE  PiTypeOK'
  BY <1>9, <1>10 DEF StartCart
<1>11. ASSUME NEW m \in Mesgs, NEW cmd \in 0..2, NEW mode \in {"BLOCK", "TRACK", "SECTOR"},
             StartDisk(t, m, cmd, mode)
      PROVE  PiTypeOK'
  <2>1. info' \in InfoType
    BY <1>11, NoTransferType DEF StartDisk
  <2>2. "EDMA" \in Kinds /\ Disk \in AnyHandle
    BY DEF Kinds, AnyHandle
  <2>3. StartDma(t, m, "EDMA", Disk, FALSE)
    BY <1>11 DEF StartDisk
  <2> HIDE DEF PiTypeOK
  <2> QED BY <1>9, <2>1, <2>2, <2>3, Zenon
<1>12. CASE Receive(t)
  BY <1>12 DEF Receive
<1>13. CASE LeoDiskInit(t)
  <2>1. info' \in InfoType
    BY <1>13, NoTransferType DEF LeoDiskInit
  <2> QED BY <1>13, <2>1 DEF LeoDiskInit
<1> HIDE DEF PiTypeOK
<1> QED BY <1>1, <1>2, <1>3, <1>4, <1>5, <1>6, <1>7, <1>8, <1>10, <1>11, <1>12, <1>13
        DEF Thread, AnyHandle

LEMMA TypeHost ==
  ASSUME PiTypeOK, HostAsks \/ HostGets \/ HostFrees
  PROVE  PiTypeOK'
BY DEF PiTypeOK, HostAsks, HostGets, HostFrees

(* So do those of the manager. *)
LEMMA TypeManager ==
  ASSUME PiTypeOK, Manager
  PROVE  PiTypeOK'
<1> USE PiAssumption DEF PiTypeOK
<1>1. CASE MgrRecv
  <2>1. Head(cmdQ) \in Mesgs /\ cmdQ' \in Seq(Mesgs)
    BY <1>1 DEF MgrRecv
  <2>2. CASE RecvDisk
    <3>1. mgr' \in MgrType
      BY <2>1, <2>2 DEF RecvDisk, MgrType, MgrPcs
    <3>2. info' \in InfoType
      BY <2>2 DEF RecvDisk, InfoType
    <3> QED BY <1>1, <2>1, <2>2, <3>1, <3>2 DEF MgrRecv, RecvDisk
  <2>3. CASE RecvDma
    <3>1. mgr' \in MgrType
      BY <2>1, <2>3 DEF RecvDma, MgrType, MgrPcs
    <3> QED BY <1>1, <2>1, <2>3, <3>1 DEF MgrRecv, RecvDma
  <2>4. CASE RecvLoopback
    <3>1. Finished(Head(cmdQ))
      BY <2>4 DEF RecvLoopback
    <3> QED BY <1>1, <2>1, <2>4, <3>1, FinishedType DEF MgrRecv, RecvLoopback
  <2> QED BY <1>1, <2>2, <2>3, <2>4 DEF MgrRecv
<1>2. CASE MgrAccess
  <2>1. \E pc \in MgrPcs : MgrGoes(pc)
    BY <1>2 DEF MgrAccess, MgrPcs
  <2>2. mgr' \in MgrType
    BY <2>1, MgrGoesType
  <2>3. /\ UNCHANGED << enabled, made, active, cmdQ, evtQ, req, out, thr, host, dma, intr >>
        /\ UNCHANGED << drive, info, cartOn, slip, diskInit >>
        /\ token' = 0 /\ piOn' \in BOOLEAN
    BY <1>2 DEF MgrAccess
  <2> QED BY <2>2, <2>3
<1>3. CASE MgrStart
  <2>1. MgrGoes("wait") /\ "wait" \in MgrPcs
    BY <1>3 DEF MgrStart, MgrPcs
  <2>2. mgr.mb \in Mesgs \cup {NoMesg}
    BY DEF MgrType
  <2> QED BY <1>3, <2>1, <2>2, MgrGoesType DEF MgrStart
<1>4. CASE MgrLeoStart
  <2>1. MgrGoes("leoWait") /\ "leoWait" \in MgrPcs
    BY <1>4 DEF MgrLeoStart, MgrPcs
  <2> QED BY <1>4, <2>1, MgrGoesType DEF MgrLeoStart
<1>5. CASE MgrEvent
  <2>1. \E pc \in MgrPcs : MgrGoes(pc)
    BY <1>5 DEF MgrEvent, MgrPcs
  <2> QED BY <1>5, <2>1, MgrGoesType DEF MgrEvent
<1>6. CASE MgrReply
  <2>1. MgrGoes("rel") /\ "rel" \in MgrPcs /\ Finished(mgr.mb)
    BY <1>6 DEF MgrReply, MgrPcs
  <2> QED BY <1>6, <2>1, MgrGoesType, FinishedType DEF MgrReply
<1>7. CASE MgrLeoReply
  <2>1. req' \in [Mesgs -> ReqType] /\ out' \subseteq Mesgs
    BY <1>7, FinishedType DEF MgrLeoReply
  <2>2. info' \in InfoType
    <3>1. info.blk \in 0..1 /\ "4" \in Errors
      BY DEF InfoType, Errors
    <3> QED BY <1>7, <3>1, ErrType DEF MgrLeoReply, ResetDrive
  <2>3. mgr' \in MgrType
    <3>1. mgr' = [mgr EXCEPT !.pc = "leoWait", !.twice = FALSE] \/ mgr' = [mgr EXCEPT !.pc = "rel"]
      BY <1>7 DEF MgrLeoReply, MgrGoes
    <3>2. mgr \in MgrType
      OBVIOUS
    <3> HIDE DEF PiTypeOK
    <3> QED BY <3>1, <3>2 DEF MgrType, MgrPcs
  <2>4. /\ piOn' \in BOOLEAN /\ cartOn' \in BOOLEAN /\ drive' \in BOOLEAN /\ intr' \in BOOLEAN
    BY <1>7 DEF MgrLeoReply, ResetDrive
  <2>5. /\ UNCHANGED << enabled, made, token, active, cmdQ, evtQ, thr, host, dma, slip, diskInit >>
    BY <1>7 DEF MgrLeoReply
  <2> QED BY <2>1, <2>2, <2>3, <2>4, <2>5
<1>8. CASE MgrRelease
  <2>1. mgr' \in MgrType
    BY <1>8 DEF MgrRelease, MgrType, MgrPcs
  <2> QED BY <1>8, <2>1 DEF MgrRelease
<1> HIDE DEF PiTypeOK
<1> QED BY <1>1, <1>2, <1>3, <1>4, <1>5, <1>6, <1>7, <1>8 DEF Manager

(* And those of the hardware. *)
LEMMA TypeWrite ==
  ASSUME PiTypeOK, NEW stat \in Statuses, LeoWrite(stat)
  PROVE  PiTypeOK'
<1> USE PiAssumption DEF PiTypeOK
<1>1. /\ UNCHANGED << enabled, made, token, active, cmdQ, req, mgr, out, thr, host >>
      /\ UNCHANGED << diskInit, cartOn, slip >>
  BY DEF LeoWrite
<1>2. CASE WriteSector(stat)
  <2>1. info' \in InfoType
    <3>1. info' = [info EXCEPT !.sec = @ + 1] /\ info \in InfoType
      BY <1>2 DEF WriteSector
    <3> HIDE DEF PiTypeOK
    <3> QED BY <3>1 DEF InfoType
  <2>2. dma' \in Mesgs \cup {NoMesg}
    BY <1>2 DEF WriteSector, SectorDma, MgrType
  <2> QED BY <1>1, <1>2, <2>1, <2>2 DEF WriteSector
<1>3. CASE WriteEnds(stat)
  <2>1. info' \in InfoType
    <3>1. info.blk \in 0..1 /\ {"GOOD", "24"} \subseteq Errors
      BY DEF InfoType, Errors
    <3>2. \E err \in Errors : info' = [info EXCEPT !.err[info.blk] = err]
      BY <1>3, <3>1 DEF WriteEnds, AbnormalResume
    <3> QED BY <3>1, <3>2, ErrType
  <2> QED BY <1>1, <1>3, <2>1, PostedType DEF WriteEnds, AbnormalResume, Resume, PiComesOn
<1> QED BY <1>2, <1>3 DEF LeoWrite

LEMMA TypeRead ==
  ASSUME PiTypeOK, NEW stat \in Statuses, LeoRead(stat)
  PROVE  PiTypeOK'
<1> USE PiAssumption DEF PiTypeOK
<1> DEFINE i == Counted(stat)
<1>1. /\ UNCHANGED << enabled, made, token, active, cmdQ, req, mgr, out, thr, host >>
      /\ UNCHANGED << diskInit, cartOn >>
  BY DEF LeoRead
<1>2. mgr.mb \in Mesgs \cup {NoMesg} /\ info.blk \in 0..1 /\ info.sec + 1 \in Nat
      /\ {"GOOD", "22", "23", "24"} \subseteq Errors
  BY DEF MgrType, InfoType, Errors
<1>3. i \in InfoType
  BY CountedType
<1> HIDE DEF i
<1>4. CASE ReadStops(stat)
  <2>1. \E err \in Errors : info' = [info EXCEPT !.err[info.blk] = err]
    BY <1>2, <1>4 DEF ReadStops, AbnormalResume
  <2>2. info' \in InfoType
    BY <1>2, <2>1, ErrType
  <2> QED BY <1>1, <1>4, <2>2, PostedType DEF ReadStops, AbnormalResume, Resume, PiComesOn
<1>5. CASE ReadC2(stat)
  <2>1. \/ info' = [i EXCEPT !.blk = 1, !.sec = -1, !.err[0] = "22"]
        \/ info' = [i EXCEPT !.cmd = 2, !.err[info.blk] = "GOOD"]
    BY <1>5 DEF ReadC2, i
  <2>2. info' \in InfoType
    <3>1. [i EXCEPT !.err[0] = "22"] \in InfoType /\ [i EXCEPT !.err[info.blk] = "GOOD"] \in InfoType
      BY <1>2, <1>3, ErrType
    <3>2. ASSUME NEW k \in InfoType
          PROVE  [k EXCEPT !.blk = 1, !.sec = -1] \in InfoType /\ [k EXCEPT !.cmd = 2] \in InfoType
      <4> HIDE DEF PiTypeOK
      <4>1. 1 \in 0..1 /\ -1 \in Nat \cup {-1} /\ 2 \in 0..2
        OBVIOUS
      <4> QED BY <4>1 DEF InfoType
    <3>3. \/ info' = [[i EXCEPT !.err[0] = "22"] EXCEPT !.blk = 1, !.sec = -1]
          \/ info' = [[i EXCEPT !.err[info.blk] = "GOOD"] EXCEPT !.cmd = 2]
      <4> HIDE DEF PiTypeOK
      <4> QED BY <1>2, <1>3, <2>1 DEF InfoType
    <3> HIDE DEF PiTypeOK
    <3> QED BY <3>1, <3>2, <3>3, Zenon
  <2> QED BY <1>1, <1>2, <1>5, <2>2, PostedType DEF ReadC2, SectorDma, PiComesOn
<1>6. CASE ReadSector(stat)
  <2> DEFINE j == [i EXCEPT !.sec = info.sec + 1, !.err[0] = IF FirstBlockRead THEN "GOOD" ELSE @]
  <2>1. j \in InfoType
    <3> HIDE DEF PiTypeOK
    <3> QED BY <1>2, <1>3 DEF InfoType
  <2>2. \/ info' = [i EXCEPT !.err[0] = "24"]
        \/ info' = [j EXCEPT !.err[info.blk] = "GOOD"]
        \/ info' = [j EXCEPT !.err[info.blk] = "24"]
        \/ info' = j
    BY <1>6 DEF ReadSector, AbnormalResume, i
  <2> HIDE DEF j
  <2>3. info' \in InfoType
    <3>1. 0 \in 0..1 /\ info.blk \in 0..1 /\ "24" \in Errors /\ "GOOD" \in Errors
      BY <1>2
    <3> HIDE DEF PiTypeOK
    <3> QED BY <1>3, <2>1, <2>2, <3>1, ErrType
  <2>4. /\ dma' \in {dma, mgr.mb} /\ evtQ' \in {evtQ, Posted(evtQ)} /\ slip' \in {slip, "TWICE"}
        /\ intr' \in {intr, FALSE} /\ piOn' \in {piOn, TRUE} /\ drive' \in {drive, FALSE}
    BY <1>6 DEF ReadSector, AbnormalResume, Resume, SectorDma, PiComesOn
  <2>5. /\ dma' \in Mesgs \cup {NoMesg} /\ evtQ' \in {<<>>, <<"PI">>} /\ slip' \in {"no", "C2", "TWICE"}
        /\ intr' \in BOOLEAN /\ piOn' \in BOOLEAN /\ drive' \in BOOLEAN
    BY <1>2, <2>4, PostedType
  <2> QED BY <1>1, <2>3, <2>5
<1> QED BY <1>4, <1>5, <1>6 DEF LeoRead

LEMMA TypeHardware ==
  ASSUME PiTypeOK, Hardware
  PROVE  PiTypeOK'
<1> USE PiAssumption DEF PiTypeOK
<1>1. CASE DmaEnds
  BY <1>1 DEF DmaEnds
<1>2. CASE PiInterrupt
  BY <1>2, PostedType DEF PiInterrupt
<1>3. info.blk \in 0..1 /\ {"22", "29"} \subseteq Errors
  BY DEF InfoType, Errors
<1>4. CASE LeoBusy
  BY <1>3, <1>4, ErrType, PostedType DEF LeoBusy, Resume
<1>5. CASE LeoBufferError
  BY <1>3, <1>5, ErrType, PostedType DEF LeoBufferError, Resume, PiComesOn
<1> HIDE DEF PiTypeOK
<1> QED BY <1>1, <1>2, <1>4, <1>5, TypeWrite, TypeRead DEF Hardware, LeoTransfer

LEMMA TypeStep ==
  ASSUME PiTypeOK, [Next]_vars
  PROVE  PiTypeOK'
<1>1. CASE UNCHANGED vars
  BY <1>1 DEF PiTypeOK, vars
<1> QED BY <1>1, TypeThread, TypeHost, TypeManager, TypeHardware DEF Next

LEMMA TypeInitially == Init => PiTypeOK
<1> USE PiAssumption DEF Init, AnyHandle
<1> SUFFICES ASSUME Init PROVE PiTypeOK
  OBVIOUS
<1>1. req \in [Mesgs -> ReqType]
  BY DEF ReqType, Blank, Kinds
<1>2. mgr \in MgrType /\ thr \in [Threads -> ThrType]
  BY DEF MgrType, ThrType, ThrPcs, MgrPcs, AtRest
<1>3. info \in InfoType
  BY NoTransferType
<1>4. cmdQ \in Seq(Mesgs)
  OBVIOUS
<1> QED BY <1>1, <1>2, <1>3, <1>4 DEF PiTypeOK

------------------------------------------------------------------------------
(* What a step of the threads does to one owner's claim. *)
LEMMA NoneReady ==
  ASSUME MadeOnce, ~Ready
  PROVE  /\ token = 0 /\ ~active /\ host = "wait" /\ ~MgrOwns
         /\ \A t \in Threads : ~User(t) /\ thr[t].pc \in {"idle", "flag", "make", "give"}
BY DEF MadeOnce, MgrOwns, User

(* No thread but the first runs before the queue is ready. *)
LEMMA RunsReady ==
  ASSUME MadeOnce, ~RaceAtBoot, NEW t \in Threads, CanRun(t), thr[t].pc = "idle"
  PROVE  Ready \/ (t = Boot /\ ~enabled)
BY PiAssumption DEF MadeOnce, CanRun, Ready

(* A thread that stays outside the bus, or enters and leaves it with the token. *)
LEMMA OwnerSteps ==
  ASSUME PiTypeOK, Exclusive, NEW t \in Threads, UNCHANGED << host, mgr >>,
         \A u \in Threads \ {t} : thr'[u] = thr[u],
         \/ User(t) /\ User(t)' /\ token' = token
         \/ ~User(t) /\ ~User(t)' /\ token' = token
         \/ ~User(t) /\ User(t)' /\ token = 1 /\ token' = 0
         \/ User(t) /\ ~User(t)' /\ token' = 1
  PROVE  Exclusive'
<1>1. \A u \in Threads \ {t} : User(u)' <=> User(u)
  BY DEF User
<1>2. host' = host /\ (MgrOwns' <=> MgrOwns)
  BY DEF MgrOwns
<1> HIDE DEF PiTypeOK
<1>3. token \in {0, 1}
  BY DEF PiTypeOK
<1> QED BY <1>1, <1>2, <1>3 DEF Exclusive

LEMMA OwnerThread ==
  ASSUME OwnerInv, ~RaceAtBoot, NEW t \in Threads, Thread(t)
  PROVE  MadeOnce' /\ (Ready' => Exclusive')
<1>0. PiTypeOK /\ MadeOnce /\ (Ready => Exclusive) /\ thr \in [Threads -> ThrType] /\ Boot \in Threads
  BY PiAssumption DEF OwnerInv, PiTypeOK
<1>1. ASSUME NEW o \in {"raw", "epi", "mgr"}, NEW h \in AnyHandle, Call(t, o, h)
      PROVE  MadeOnce' /\ (Ready' => Exclusive')
  <2>1. /\ thr'[t].pc = IF ~enabled THEN "flag" ELSE IF o = "mgr" THEN "mgr" ELSE "acs"
        /\ \A u \in Threads \ {t} : thr'[u] = thr[u]
        /\ thr[t].pc = "idle" /\ CanRun(t) /\ (o = "mgr" => t = Boot /\ ~active)
        /\ UNCHANGED << enabled, made, token, active, host, mgr >>
    BY <1>0, <1>1 DEF Call
  <2>2. Ready \/ (t = Boot /\ ~enabled)
    BY <1>0, <2>1, RunsReady
  <2>3. CASE Ready
    <3>1. Ready'
      BY <2>1, <2>3 DEF Ready
    <3>2. MadeOnce'
      BY <1>0, <2>1, <2>3, <3>1 DEF MadeOnce, Ready
    <3>3. ~User(t) /\ ~User(t)'
      BY <2>1 DEF User
    <3> QED BY <1>0, <2>1, <2>3, <3>1, <3>2, <3>3, OwnerSteps
  <2>4. CASE ~Ready
    <3>1. t = Boot /\ ~enabled /\ ~made
      BY <1>0, <2>2, <2>4 DEF MadeOnce
    <3>2. ~Ready' /\ MadeOnce'
      BY <1>0, <2>1, <2>4, <3>1 DEF Ready, MadeOnce
    <3> QED BY <3>2
  <2> QED BY <2>3, <2>4
<1>2. CASE SetFlag(t)
  <2>1. Goes(t, "make") /\ "make" \in ThrPcs /\ thr[t].pc = "flag" /\ enabled'
        /\ UNCHANGED << made, token, active, host, mgr >>
    BY <1>2 DEF SetFlag, ThrPcs
  <2>2. thr'[t].pc = "make" /\ \A u \in Threads \ {t} : thr'[u] = thr[u]
    BY <1>0, <2>1, GoesType
  <2>3. t = Boot /\ ~made /\ ~Ready /\ ~Ready'
    BY <1>0, <2>1 DEF MadeOnce, Ready
  <2>4. MadeOnce'
    BY <1>0, <2>1, <2>2, <2>3 DEF MadeOnce
  <2> QED BY <2>3, <2>4
<1>3. CASE MakeQueue(t)
  <2>1. Goes(t, "give") /\ "give" \in ThrPcs /\ thr[t].pc = "make" /\ made' /\ token' = 0
        /\ UNCHANGED << enabled, active, host, mgr >>
    BY <1>3 DEF MakeQueue, ThrPcs
  <2>2. thr'[t].pc = "give" /\ \A u \in Threads \ {t} : thr'[u] = thr[u]
    BY <1>0, <2>1, GoesType
  <2>3. t = Boot /\ ~made /\ enabled /\ ~Ready /\ ~Ready'
    BY <1>0, <2>1, <2>2 DEF MadeOnce, Ready
  <2>4. MadeOnce'
    BY <1>0, <2>1, <2>2, <2>3 DEF MadeOnce
  <2> QED BY <2>3, <2>4
<1>4. CASE FirstToken(t)
  <2>1. \E pc \in ThrPcs : Goes(t, pc) /\ pc \in {"mgr", "acs"}
    BY <1>4 DEF FirstToken, ThrPcs
  <2>2. thr'[t].pc \in {"mgr", "acs"} /\ \A u \in Threads \ {t} : thr'[u] = thr[u]
    BY <1>0, <2>1, GoesType
  <2>3. thr[t].pc = "give" /\ token' = 1 /\ UNCHANGED << enabled, made, active, host, mgr >>
    BY <1>4 DEF FirstToken
  <2>4. t = Boot /\ ~Ready /\ made
    BY <1>0, <2>3 DEF MadeOnce, Ready
  <2>5. /\ token = 0 /\ ~active /\ host = "wait" /\ ~MgrOwns
        /\ \A u \in Threads : ~User(u) /\ thr[u].pc \in {"idle", "flag", "make", "give"}
    BY <1>0, <2>4, NoneReady
  <2>6. Ready'
    BY <1>0, <2>2, <2>3, <2>4 DEF Ready, MadeOnce
  <2>7. MadeOnce'
    BY <1>0, <2>2, <2>3, <2>4, <2>5, <2>6 DEF MadeOnce
  <2>8. (\A u \in Threads : ~User(u)') /\ ~MgrOwns'
    BY <2>2, <2>3, <2>5 DEF User, MgrOwns
  <2> QED BY <2>3, <2>5, <2>7, <2>8 DEF Exclusive
<1>5. CASE CreateManager(t)
  <2>1. Returns(t) /\ thr[t].pc = "mgr" /\ active' /\ UNCHANGED << enabled, made, token, host >>
    BY <1>5 DEF CreateManager
  <2>2. thr'[t].pc = "idle" /\ \A u \in Threads \ {t} : thr'[u] = thr[u]
    BY <1>0, <2>1, ReturnsType
  <2>3. mgr'.pc = "recv"
    BY <1>0, <1>5 DEF CreateManager, PiTypeOK, MgrType
  <2>4. t = Boot /\ Ready /\ ~active /\ mgr.pc = "off"
    BY <1>0, <2>1 DEF MadeOnce
  <2>5. Ready'
    BY <2>1, <2>2, <2>4 DEF Ready
  <2>6. MadeOnce'
    BY <1>0, <2>1, <2>2, <2>3, <2>4, <2>5 DEF MadeOnce
  <2>7. (\A u \in Threads : User(u)' <=> User(u)) /\ ~MgrOwns /\ ~MgrOwns'
    BY <2>1, <2>2, <2>3, <2>4 DEF User, MgrOwns
  <2> QED BY <1>0, <2>1, <2>4, <2>6, <2>7 DEF Exclusive
<1>6. CASE GetAccess(t)
  <2>1. Goes(t, "io") /\ "io" \in ThrPcs /\ thr[t].pc = "acs" /\ token = 1 /\ token' = 0
        /\ UNCHANGED << enabled, made, active, host, mgr >>
    BY <1>6 DEF GetAccess, ThrPcs
  <2>2. thr'[t].pc = "io" /\ \A u \in Threads \ {t} : thr'[u] = thr[u]
    BY <1>0, <2>1, GoesType
  <2>3. Ready /\ Ready'
    BY <1>0, <2>1, <2>2 DEF MadeOnce, Ready
  <2>4. MadeOnce'
    BY <1>0, <2>1, <2>2, <2>3 DEF MadeOnce
  <2>5. ~User(t) /\ User(t)'
    BY <2>1, <2>2 DEF User
  <2> QED BY <1>0, <2>1, <2>2, <2>3, <2>4, <2>5, OwnerSteps
<1>7. CASE ProgrammedIo(t)
  <2>1. Goes(t, "rel") /\ "rel" \in ThrPcs /\ thr[t].pc = "io"
        /\ UNCHANGED << enabled, made, token, active, host, mgr >>
    BY <1>7 DEF ProgrammedIo, ThrPcs
  <2>2. thr'[t].pc = "rel" /\ \A u \in Threads \ {t} : thr'[u] = thr[u]
    BY <1>0, <2>1, GoesType
  <2>3. Ready /\ Ready'
    BY <1>0, <2>1, <2>2 DEF MadeOnce, Ready
  <2>4. MadeOnce'
    BY <1>0, <2>1, <2>2, <2>3 DEF MadeOnce
  <2>5. User(t) /\ User(t)'
    BY <2>1, <2>2 DEF User
  <2> QED BY <1>0, <2>1, <2>2, <2>3, <2>4, <2>5, OwnerSteps
<1>8. CASE RelAccess(t)
  <2>1. Returns(t) /\ thr[t].pc = "rel" /\ token' = 1
        /\ UNCHANGED << enabled, made, active, host, mgr >>
    BY <1>8 DEF RelAccess
  <2>2. thr'[t].pc = "idle" /\ \A u \in Threads \ {t} : thr'[u] = thr[u]
    BY <1>0, <2>1, ReturnsType
  <2>3. Ready /\ Ready'
    BY <1>0, <2>1, <2>2 DEF MadeOnce, Ready
  <2>4. MadeOnce'
    BY <1>0, <2>1, <2>2, <2>3 DEF MadeOnce
  <2>5. User(t) /\ ~User(t)'
    BY <2>1, <2>2 DEF User
  <2> QED BY <1>0, <2>1, <2>2, <2>3, <2>4, <2>5, OwnerSteps
<1>9. ASSUME UNCHANGED << enabled, made, token, active, host, mgr, thr >>
      PROVE  MadeOnce' /\ (Ready' => Exclusive')
  BY <1>0, <1>9 DEF MadeOnce, Ready, Exclusive, User, MgrOwns
<1>10. CASE \/ \E m \in Mesgs, kind \in Kinds, h \in AnyHandle, urgent \in BOOLEAN :
                 StartCart(t, m, kind, h, urgent)
            \/ \E m \in Mesgs, cmd \in 0..2, mode \in {"BLOCK", "TRACK", "SECTOR"} :
                 StartDisk(t, m, cmd, mode)
            \/ Receive(t) \/ LeoDiskInit(t)
  <2>1. ASSUME NEW m, NEW kind, NEW h, NEW urgent, StartDma(t, m, kind, h, urgent)
        PROVE  UNCHANGED << enabled, made, token, active, host, mgr, thr >>
    BY <2>1 DEF StartDma
  <2>2. CASE Receive(t) \/ LeoDiskInit(t)
    <3>1. UNCHANGED << enabled, made, token, active, host, mgr, thr >>
      BY <2>2 DEF Receive, LeoDiskInit
    <3> QED BY <1>9, <3>1
  <2> QED BY <1>9, <1>10, <2>1, <2>2 DEF StartCart, StartDisk
<1> QED BY <1>1, <1>2, <1>3, <1>4, <1>5, <1>6, <1>7, <1>8, <1>10 DEF Thread, AnyHandle

(* The manager takes the token to work and gives it back. *)
LEMMA ManagerPcs ==
  ASSUME mgr \in MgrType, Manager
  PROVE  /\ UNCHANGED << enabled, made, active, thr, host >>
         /\ mgr.pc # "off" /\ mgr'.pc # "off"
         /\ \/ MgrOwns /\ MgrOwns' /\ token' = token
            \/ ~MgrOwns /\ ~MgrOwns' /\ token' = token
            \/ ~MgrOwns /\ MgrOwns' /\ token = 1 /\ token' = 0
            \/ MgrOwns /\ ~MgrOwns' /\ token' = 1
<1> USE DEF MgrOwns, At, MgrGoes, MgrType
<1>1. CASE MgrRecv
  <2>1. UNCHANGED << token, enabled, made, active, thr, host >> /\ mgr.pc = "recv"
    BY <1>1 DEF MgrRecv
  <2>2. mgr'.pc \in {"recv", "acs", "leoAcs"}
    <3>1. CASE RecvDisk
      BY <3>1 DEF RecvDisk
    <3>2. CASE RecvDma
      BY <3>2 DEF RecvDma
    <3>3. CASE RecvLoopback
      BY <2>1, <3>3 DEF RecvLoopback
    <3> QED BY <1>1, <3>1, <3>2, <3>3 DEF MgrRecv
  <2> QED BY <2>1, <2>2
<1>2. CASE MgrAccess
  BY <1>2 DEF MgrAccess
<1>3. CASE MgrStart \/ MgrLeoStart
  BY <1>3 DEF MgrStart, MgrLeoStart
<1>4. CASE MgrEvent \/ MgrReply
  BY <1>4 DEF MgrEvent, MgrReply
<1>5. CASE MgrLeoReply
  BY <1>5 DEF MgrLeoReply
<1>6. CASE MgrRelease
  BY <1>6 DEF MgrRelease
<1> QED BY <1>1, <1>2, <1>3, <1>4, <1>5, <1>6 DEF Manager

(* The other steps. *)
LEMMA OwnerOthers ==
  ASSUME OwnerInv, HostAsks \/ HostGets \/ HostFrees \/ Manager \/ Hardware
  PROVE  MadeOnce' /\ (Ready' => Exclusive')
<1>0. PiTypeOK /\ MadeOnce /\ (Ready => Exclusive)
  BY DEF OwnerInv
<1>1. mgr \in MgrType /\ token \in {0, 1}
  BY <1>0 DEF PiTypeOK
<1> DEFINE Same == UNCHANGED << enabled, made, active, thr >>
<1>2. ASSUME Same, (mgr.pc # "off") <=> (mgr'.pc # "off"), host' # "wait" => active,
             token # token' => Ready
      PROVE  MadeOnce' /\ (Ready' <=> Ready) /\ \A u \in Threads : User(u)' <=> User(u)
  BY <1>0, <1>2 DEF MadeOnce, Ready, User
<1>3. CASE HostAsks \/ HostGets \/ HostFrees
  <2>1. Same /\ UNCHANGED mgr /\ (host' # "wait" => active) /\ (token = 1 \/ host = "own" \/ token' = token)
    BY <1>0, <1>3 DEF HostAsks, HostGets, HostFrees, MadeOnce
  <2>2. token # token' => Ready
    BY <1>0, <2>1 DEF MadeOnce
  <2>3. \/ token' = token /\ (host' = "own" <=> host = "own")
        \/ token = 1 /\ token' = 0 /\ host' = "own"
        \/ host = "own" /\ token' = 1 /\ host' = "wait"
    BY <1>3 DEF HostAsks, HostGets, HostFrees
  <2>4. MgrOwns' <=> MgrOwns
    BY <2>1 DEF MgrOwns
  <2>5. MadeOnce' /\ (Ready' <=> Ready) /\ \A u \in Threads : User(u)' <=> User(u)
    <3>1. (mgr.pc # "off") <=> (mgr'.pc # "off")
      BY <2>1
    <3> HIDE DEF Same
    <3> QED BY <1>2, <2>1, <2>2, <3>1
  <2> QED BY <1>0, <1>1, <2>3, <2>4, <2>5 DEF Exclusive
<1>4. CASE Manager
  <2>1. /\ Same /\ UNCHANGED host /\ mgr.pc # "off" /\ mgr'.pc # "off"
        /\ \/ MgrOwns /\ MgrOwns' /\ token' = token
           \/ ~MgrOwns /\ ~MgrOwns' /\ token' = token
           \/ ~MgrOwns /\ MgrOwns' /\ token = 1 /\ token' = 0
           \/ MgrOwns /\ ~MgrOwns' /\ token' = 1
    BY <1>1, <1>4, ManagerPcs
  <2>3. host' # "wait" => active
    BY <1>0, <2>1 DEF MadeOnce
  <2>4. token # token' => Ready
    BY <1>0, <2>1 DEF MadeOnce
  <2>5. MadeOnce' /\ (Ready' <=> Ready) /\ \A u \in Threads : User(u)' <=> User(u)
    BY <1>2, <2>1, <2>3, <2>4
  <2> QED BY <1>0, <1>1, <2>1, <2>5 DEF Exclusive
<1>5. CASE Hardware
  <2>1. Same /\ UNCHANGED << mgr, token, host >>
    BY <1>5 DEF Hardware, DmaEnds, PiInterrupt, LeoBusy, LeoBufferError, LeoTransfer, LeoWrite, LeoRead
  <2> QED BY <1>0, <2>1 DEF MadeOnce, Ready, Exclusive, User, MgrOwns
<1> QED BY <1>3, <1>4, <1>5

LEMMA OwnerInvHolds ==
  ASSUME ~RaceAtBoot
  PROVE  Spec => []OwnerInv
<1>1. Init => OwnerInv
  <2> SUFFICES ASSUME Init PROVE OwnerInv
    OBVIOUS
  <2>1. MadeOnce /\ ~Ready
    BY PiAssumption DEF Init, MadeOnce, Ready, AtRest
  <2> QED BY <2>1, TypeInitially DEF OwnerInv
<1>2. OwnerInv /\ [Next]_vars => OwnerInv'
  <2> SUFFICES ASSUME OwnerInv, [Next]_vars PROVE OwnerInv'
    OBVIOUS
  <2>1. PiTypeOK'
    BY TypeStep DEF OwnerInv
  <2>2. CASE UNCHANGED vars
    BY <2>1, <2>2 DEF OwnerInv, vars, MadeOnce, Ready, Exclusive, User, MgrOwns
  <2>3. CASE Next
    BY <2>1, <2>3, OwnerThread, OwnerOthers DEF OwnerInv, Next
  <2> QED BY <2>2, <2>3
<1> QED BY <1>1, <1>2, PTL DEF Spec

(* Once the access queue is made, the bus has one owner or its token is in the
   queue: no thread, host or manager is ever there with another (__osPiGetAccess,
   __osPiRelAccess, __osDevMgrMain, ramromMain).  The one hypothesis is the one the
   code needs and does not enforce: that no other thread runs while the first one
   makes the queue. *)
THEOREM BusHasOneOwner ==
  ASSUME ~RaceAtBoot
  PROVE  Spec => []OneOwner
<1>1. OwnerInv => OneOwner
  <2> SUFFICES ASSUME OwnerInv PROVE OneOwner
    OBVIOUS
  <2>1. PiTypeOK /\ MadeOnce /\ (Ready => Exclusive)
    BY DEF OwnerInv
  <2> DEFINE Hosts == IF host = "own" THEN {"host"} ELSE {}
             Mgrs  == IF mgr.pc \in {"off", "recv", "acs", "leoAcs"} THEN {} ELSE {"manager"}
             Users == {t \in Threads : thr[t].pc \in {"io", "rel"}}
  <2>2. Owners = Users \cup Hosts \cup Mgrs
    BY DEF Owners
  <2>3. CASE ~Ready
    <3>1. token = 0 /\ host = "wait" /\ ~MgrOwns /\ \A t \in Threads : ~User(t)
      BY <2>1, <2>3, NoneReady
    <3>2. Owners = {}
      BY <2>2, <3>1 DEF MgrOwns, User
    <3> QED BY <2>3, <3>1, <3>2, FS_EmptySet DEF OneOwner, Ready
  <2>4. CASE Ready
    <3>1. \/ token = 1 /\ Owners = {}
          \/ token = 0 /\ \E x : Owners = {x}
      <4>1. Hosts = {} <=> host # "own"
        OBVIOUS
      <4>2. Mgrs = {} <=> ~MgrOwns
        BY DEF MgrOwns
      <4>3. Users = {t \in Threads : User(t)}
        BY DEF User
      <4>4. Hosts \in {{}, {"host"}} /\ Mgrs \in {{}, {"manager"}}
        OBVIOUS
      <4> HIDE DEF Hosts, Mgrs, Users
      <4>5. ASSUME NEW t \in Threads, User(t), \A u \in Threads : User(u) => u = t
            PROVE  Users = {t}
        BY <4>3, <4>5
      <4>6. (\A t \in Threads : ~User(t)) => Users = {}
        BY <4>3
      <4> QED BY <2>1, <2>2, <2>4, <4>1, <4>2, <4>4, <4>5, <4>6 DEF Exclusive
    <3>2. \/ token = 1 /\ Cardinality(Owners) = 0
          \/ token = 0 /\ Cardinality(Owners) = 1
      BY <3>1, FS_EmptySet, FS_Singleton
    <3> QED BY <2>4, <3>2 DEF OneOwner, Ready
  <2> QED BY <2>3, <2>4
<1> QED BY <1>1, OwnerInvHolds, PTL

------------------------------------------------------------------------------
(* The manager is created once. *)
LEMMA ManagerOnceStep ==
  ASSUME PiTypeOK, ManagerOnce, Next
  PROVE  ManagerOnce'
<1>0. mgr \in MgrType /\ thr \in [Threads -> ThrType]
  BY DEF PiTypeOK
<1>1. ASSUME UNCHANGED << active, thr >>, (mgr.pc # "off") <=> (mgr'.pc # "off")
      PROVE  ManagerOnce'
  BY <1>1 DEF ManagerOnce
<1>2. ASSUME NEW t \in Threads, UNCHANGED << active, mgr >>, \A u \in Threads \ {t} : thr'[u] = thr[u],
             \/ thr'[t].pc = "idle"
             \/ /\ thr'[t].op = "mgr" => t = Boot /\ ~active
                /\ thr'[t].pc = "mgr" => thr'[t].op = "mgr"
      PROVE  ManagerOnce'
  BY <1>2 DEF ManagerOnce
<1>3. ASSUME NEW t \in Threads, Thread(t)
      PROVE  ManagerOnce'
  <2>1. ASSUME NEW o \in {"raw", "epi", "mgr"}, NEW h \in AnyHandle, Call(t, o, h)
        PROVE  ManagerOnce'
    <3>1. /\ thr'[t].pc = IF ~enabled THEN "flag" ELSE IF o = "mgr" THEN "mgr" ELSE "acs"
          /\ thr'[t].op = o /\ \A u \in Threads \ {t} : thr'[u] = thr[u]
          /\ (o = "mgr" => t = Boot /\ ~active) /\ UNCHANGED << active, mgr >>
      BY <1>0, <2>1 DEF Call
    <3> QED BY <1>2, <3>1
  <2>2. ASSUME NEW pc \in ThrPcs, Goes(t, pc), pc = "mgr" => thr[t].op = "mgr", thr[t].pc # "idle",
               UNCHANGED << active, mgr >>
        PROVE  ManagerOnce'
    <3>1. /\ thr'[t].pc = pc /\ thr'[t].op = thr[t].op
          /\ \A u \in Threads \ {t} : thr'[u] = thr[u]
      BY <1>0, <2>2, GoesType
    <3>2. thr[t].op = "mgr" => t = Boot /\ ~active
      BY <2>2 DEF ManagerOnce
    <3> QED BY <1>2, <2>2, <3>1, <3>2
  <2>3. CASE SetFlag(t) \/ MakeQueue(t) \/ GetAccess(t) \/ ProgrammedIo(t)
    <3>1. \E pc \in {"make", "give", "io", "rel"} : Goes(t, pc)
      BY <2>3 DEF SetFlag, MakeQueue, GetAccess, ProgrammedIo
    <3>2. thr[t].pc # "idle" /\ UNCHANGED << active, mgr >>
      BY <2>3 DEF SetFlag, MakeQueue, GetAccess, ProgrammedIo
    <3> QED BY <2>2, <3>1, <3>2 DEF ThrPcs
  <2>4. CASE FirstToken(t)
    <3>1. \/ thr[t].op = "mgr" /\ Goes(t, "mgr")
          \/ Goes(t, "acs")
      BY <2>4 DEF FirstToken
    <3>2. thr[t].pc # "idle" /\ UNCHANGED << active, mgr >>
      BY <2>4 DEF FirstToken
    <3> QED BY <2>2, <3>1, <3>2 DEF ThrPcs
  <2>5. CASE CreateManager(t)
    <3>1. Returns(t) /\ thr[t].pc = "mgr" /\ active'
      BY <2>5 DEF CreateManager
    <3>2. thr'[t].pc = "idle" /\ \A u \in Threads \ {t} : thr'[u] = thr[u]
      BY <1>0, <3>1, ReturnsType
    <3>3. mgr'.pc = "recv"
      BY <1>0, <2>5 DEF CreateManager, MgrType
    <3>4. t = Boot /\ \A u \in Threads : thr[u].pc # "idle" /\ thr[u].op = "mgr" => u = t
      BY <3>1 DEF ManagerOnce
    <3> QED BY <3>1, <3>2, <3>3, <3>4 DEF ManagerOnce
  <2>6. CASE RelAccess(t)
    <3>1. Returns(t) /\ UNCHANGED << active, mgr >>
      BY <2>6 DEF RelAccess
    <3> QED BY <1>0, <1>2, <3>1, ReturnsType
  <2>7. ASSUME NEW m, NEW kind, NEW h, NEW urgent, StartDma(t, m, kind, h, urgent)
        PROVE  UNCHANGED << active, mgr, thr >>
    BY <2>7 DEF StartDma
  <2>8. ASSUME Receive(t) \/ LeoDiskInit(t)
        PROVE  UNCHANGED << active, mgr, thr >>
    BY <2>8 DEF Receive, LeoDiskInit
  <2>9. ASSUME UNCHANGED << active, mgr, thr >>
        PROVE  ManagerOnce'
    BY <1>1, <2>9
  <2> QED BY <1>3, <2>1, <2>3, <2>4, <2>5, <2>6, <2>7, <2>8, <2>9 DEF Thread, StartCart, StartDisk, AnyHandle
<1>4. CASE HostAsks \/ HostGets \/ HostFrees \/ Hardware
  <2>1. UNCHANGED << active, mgr, thr >>
    BY <1>4 DEF HostAsks, HostGets, HostFrees, Hardware, DmaEnds, PiInterrupt, LeoBusy, LeoBufferError,
                LeoTransfer, LeoWrite, LeoRead
  <2> QED BY <1>1, <2>1
<1>5. CASE Manager
  <2>1. UNCHANGED << active, thr >>
    BY <1>5 DEF Manager, MgrRecv, MgrAccess, MgrStart, MgrLeoStart, MgrEvent, MgrReply, MgrLeoReply,
                MgrRelease
  <2>2. mgr.pc # "off" /\ mgr'.pc # "off"
    BY <1>0, <1>5, ManagerPcs
  <2> QED BY <1>1, <2>1, <2>2
<1> QED BY <1>3, <1>4, <1>5 DEF Next

------------------------------------------------------------------------------
(* The command queue *)

LEMMA DistinctGrows ==
  ASSUME NEW S, NEW q \in Seq(Mesgs), NEW m \in Mesgs, m \notin S, Distinct(q, S)
  PROVE  Distinct(Append(q, m), S \cup {m}) /\ Distinct(<<m>> \o q, S \cup {m})
<1> USE DEF Distinct
<1> SUFFICES ASSUME NEW r \in {Append(q, m), <<m>> \o q}
             PROVE  Distinct(r, S \cup {m})
  OBVIOUS
<1>1. CASE r = Append(q, m)
  <2>1. Len(r) = Len(q) + 1 /\ Len(q) \in Nat
    BY <1>1
  <2>2. \A i \in 1..Len(r) : r[i] = IF i = Len(q) + 1 THEN m ELSE q[i]
    BY <1>1
  <2> QED BY <2>1, <2>2
<1>2. CASE r = <<m>> \o q
  <2>1. Len(r) = Len(q) + 1 /\ Len(q) \in Nat
    BY <1>2
  <2>2. \A i \in 1..Len(r) : r[i] = IF i = 1 THEN m ELSE q[i - 1]
    BY <1>2
  <2>3. \A i \in 1..Len(r) : i # 1 => i - 1 \in 1..Len(q)
    BY <2>1
  <2>4. \A i \in 1..Len(r) : r[i] \in S \cup {m} /\ (i # 1 => r[i] # m)
    <3> SUFFICES ASSUME NEW i \in 1..Len(r) PROVE r[i] \in S \cup {m} /\ (i # 1 => r[i] # m)
      OBVIOUS
    <3>1. CASE i = 1
      BY <2>2, <3>1
    <3>2. CASE i # 1
      <4>1. PICK k \in 1..Len(q) : k = i - 1
        BY <2>3, <3>2
      <4>2. r[i] = q[k] /\ q[k] \in S
        BY <2>2, <3>2, <4>1
      <4> QED BY <4>2
    <3> QED BY <3>1, <3>2
  <2>5. ASSUME NEW i \in 1..Len(r), NEW j \in 1..Len(r), r[i] = r[j]
        PROVE  i = j
    <3>1. CASE i = 1 \/ j = 1
      BY <2>2, <2>4, <2>5, <3>1
    <3>2. CASE i # 1 /\ j # 1
      <4>1. i - 1 \in 1..Len(q) /\ j - 1 \in 1..Len(q) /\ q[i - 1] = q[j - 1]
        BY <2>2, <2>3, <2>5, <3>2
      <4>2. i - 1 = j - 1
        BY <4>1
      <4> QED BY <2>1, <4>2
    <3> QED BY <3>1, <3>2
  <2> QED BY <2>4, <2>5
<1> QED BY <1>1, <1>2

LEMMA DistinctTail ==
  ASSUME NEW S, NEW q \in Seq(Mesgs), q # <<>>, Distinct(q, S)
  PROVE  /\ Head(q) \in S /\ Distinct(Tail(q), S)
         /\ \A i \in 1..Len(Tail(q)) : Tail(q)[i] # Head(q)
<1> USE DEF Distinct
<1>1. Len(q) \in Nat /\ Len(q) > 0 /\ Len(Tail(q)) = Len(q) - 1 /\ Head(q) = q[1]
  OBVIOUS
<1>2. \A i \in 1..Len(Tail(q)) : i + 1 \in 1..Len(q) /\ Tail(q)[i] = q[i + 1]
  BY <1>1
<1> QED BY <1>1, <1>2

(* The requests stay in order: each queued once, and the one in service is none of
   them. *)
LEMMA QueuedThread ==
  ASSUME PiTypeOK, ManagerOnce, Queued, ForLibrary, NEW t \in Threads, Thread(t)
  PROVE  Queued' /\ ForLibrary'
<1>0. /\ cmdQ \in Seq(Mesgs) /\ mgr \in MgrType /\ req \in [Mesgs -> ReqType] /\ out \subseteq Mesgs
      /\ thr \in [Threads -> ThrType]
  BY DEF PiTypeOK
<1>1. ASSUME UNCHANGED << cmdQ, out, req, mgr >>, diskInit => diskInit'
      PROVE  Queued' /\ ForLibrary'
  BY <1>1 DEF Queued, ForLibrary, Holds, Leo
<1>2. ASSUME NEW m \in Mesgs, NEW kind \in Kinds, NEW h \in AnyHandle, NEW urgent,
             StartDma(t, m, kind, h, urgent),
             m \in DiskMesgs => diskInit, kind = "EDMA" /\ h = Disk => m \in DiskMesgs
      PROVE  Queued' /\ ForLibrary'
  <2>1. CASE UNCHANGED << cmdQ, out, req >>
    BY <1>1, <1>2, <2>1 DEF StartDma
  <2>2. CASE ~UNCHANGED << cmdQ, out, req >>
    <3>1. /\ m \notin out /\ out' = out \cup {m} /\ UNCHANGED << mgr, diskInit >>
          /\ req' = [req EXCEPT ![m] = [kind |-> kind, h |-> h]]
          /\ cmdQ' = Append(cmdQ, m) \/ cmdQ' = <<m>> \o cmdQ
      BY <1>2, <2>2 DEF StartDma
    <3>2. Distinct(cmdQ', out')
      <4>1. Distinct(cmdQ, out) /\ m \notin out /\ m \in Mesgs
        BY <3>1 DEF Queued
      <4>2. Distinct(Append(cmdQ, m), out \cup {m}) /\ Distinct(<<m>> \o cmdQ, out \cup {m})
        BY <1>0, <4>1, DistinctGrows
      <4> QED BY <3>1, <4>2
    <3>3. Holds' <=> Holds
      BY <3>1 DEF Holds
    <3>4. Holds => mgr.mb # m /\ mgr.mb \in out /\ \A i \in 1..Len(cmdQ') : cmdQ'[i] # mgr.mb
      <4>1. ASSUME Holds PROVE mgr.mb # m /\ mgr.mb \in out /\ \A i \in 1..Len(cmdQ) : cmdQ[i] # mgr.mb
        BY <3>1, <4>1 DEF Queued
      <4>2. ASSUME NEW i \in 1..Len(cmdQ') PROVE cmdQ'[i] = m \/ \E j \in 1..Len(cmdQ) : cmdQ'[i] = cmdQ[j]
        <5>1. Len(cmdQ) \in Nat /\ Len(cmdQ') = Len(cmdQ) + 1
          BY <1>0, <3>1
        <5>2. CASE cmdQ' = Append(cmdQ, m)
          <6>1. cmdQ'[i] = IF i = Len(cmdQ) + 1 THEN m ELSE cmdQ[i]
            BY <1>0, <5>1, <5>2
          <6> QED BY <5>1, <6>1
        <5>3. CASE cmdQ' = <<m>> \o cmdQ
          <6>1. cmdQ'[i] = IF i = 1 THEN m ELSE cmdQ[i - 1]
            BY <1>0, <5>1, <5>3
          <6>2. i # 1 => i - 1 \in 1..Len(cmdQ)
            BY <5>1
          <6> QED BY <6>1, <6>2
        <5> QED BY <3>1, <5>2, <5>3
      <4> QED BY <4>1, <4>2
    <3>5. Queued'
      BY <3>1, <3>2, <3>3, <3>4 DEF Queued
    <3>6. /\ req'[m].kind = kind /\ req'[m].h = h
          /\ \A n \in Mesgs \ {m} : req'[n] = req[n]
      BY <1>0, <3>1
    <3>7. Leo' => Leo /\ Holds
      BY <3>1 DEF Leo, Holds
    <3> QED BY <1>0, <1>2, <3>1, <3>4, <3>5, <3>6, <3>7 DEF ForLibrary
  <2> QED BY <2>1, <2>2
<1>3. CASE CreateManager(t)
  <2>1. /\ cmdQ' = <<>> /\ UNCHANGED << out, req, diskInit >>
        /\ mgr'.pc = "recv" /\ mgr'.mb = mgr.mb
    BY <1>0, <1>3 DEF CreateManager, MgrType
  <2> QED BY <2>1 DEF Queued, Distinct, ForLibrary, Holds, Leo
<1>4. ASSUME NEW m \in Mesgs, NEW kind \in Kinds, NEW h \in AnyHandle, NEW urgent,
             StartCart(t, m, kind, h, urgent)
      PROVE  Queued' /\ ForLibrary'
  <2>1. m \notin DiskMesgs /\ (kind = "EDMA" => h # Disk) /\ StartDma(t, m, kind, h, urgent)
    BY <1>4, PiAssumption DEF StartCart
  <2> QED BY <1>2, <2>1
<1>5. ASSUME NEW m \in Mesgs, NEW cmd, NEW mode, StartDisk(t, m, cmd, mode)
      PROVE  Queued' /\ ForLibrary'
  <2>1. m \in DiskMesgs /\ diskInit /\ StartDma(t, m, "EDMA", Disk, FALSE)
        /\ "EDMA" \in Kinds /\ Disk \in AnyHandle
    BY <1>5 DEF StartDisk, Kinds, AnyHandle
  <2> QED BY <1>2, <2>1
<1>6. ASSUME NEW o, NEW h, Call(t, o, h)
      PROVE  UNCHANGED << cmdQ, out, req, mgr, diskInit >>
  BY <1>6 DEF Call
<1>7. CASE SetFlag(t) \/ MakeQueue(t) \/ FirstToken(t) \/ GetAccess(t) \/ RelAccess(t)
  <2>1. UNCHANGED << cmdQ, out, req, mgr, diskInit >>
    BY <1>7 DEF SetFlag, MakeQueue, FirstToken, GetAccess, RelAccess
  <2> QED BY <1>1, <2>1
<1>8. CASE ProgrammedIo(t) \/ Receive(t) \/ LeoDiskInit(t)
  <2>1. UNCHANGED << cmdQ, out, req, mgr >> /\ (diskInit => diskInit')
    BY <1>8 DEF ProgrammedIo, Receive, LeoDiskInit
  <2> QED BY <1>1, <2>1
<1> QED BY <1>1, <1>3, <1>4, <1>5, <1>6, <1>7, <1>8 DEF Thread, AnyHandle

LEMMA QueuedManager ==
  ASSUME PiTypeOK, Queued, ForLibrary, Manager
  PROVE  Queued' /\ ForLibrary'
<1>0. /\ cmdQ \in Seq(Mesgs) /\ mgr \in MgrType /\ req \in [Mesgs -> ReqType] /\ out \subseteq Mesgs
  BY DEF PiTypeOK
<1>1. CASE MgrRecv
  <2> DEFINE m == Head(cmdQ)
  <2>1. cmdQ # <<>> /\ cmdQ' = Tail(cmdQ) /\ mgr.pc = "recv" /\ UNCHANGED diskInit
    BY <1>1 DEF MgrRecv, At
  <2>2. /\ m \in out /\ m \in Mesgs /\ Distinct(cmdQ', out)
        /\ \A i \in 1..Len(cmdQ') : cmdQ'[i] # m
    BY <1>0, <2>1, DistinctTail DEF Queued
  <2> HIDE DEF m
  <2>3. CASE RecvDisk
    <3>1. UNCHANGED << out, req >> /\ mgr'.mb = m /\ req[m].kind = "EDMA" /\ req[m].h = Disk
      BY <2>3 DEF RecvDisk, ForDrive, m
    <3> QED BY <2>1, <2>2, <3>1 DEF Queued, ForLibrary
  <2>4. CASE RecvDma
    <3>1. UNCHANGED << out, req >> /\ mgr'.mb = m /\ mgr'.pc = "acs"
      BY <1>0, <2>4 DEF RecvDma, MgrType, m
    <3> QED BY <2>1, <2>2, <3>1 DEF Queued, ForLibrary, Leo
  <2>5. CASE RecvLoopback
    <3>1. Finished(m) /\ UNCHANGED mgr
      BY <2>5 DEF RecvLoopback, m
    <3>2. out' = out \ {m} /\ \A n \in Mesgs \ {m} : req'[n] = req[n]
      BY <1>0, <3>1, FinishedType
    <3> QED BY <1>0, <2>1, <2>2, <3>1, <3>2 DEF Queued, Distinct, ForLibrary, Leo, Holds
  <2> QED BY <1>1, <2>3, <2>4, <2>5 DEF MgrRecv
<1>2. ASSUME UNCHANGED << cmdQ, out, req, diskInit >>, mgr'.mb = mgr.mb,
             Holds' => Holds, Leo' => Leo
      PROVE  Queued' /\ ForLibrary'
  BY <1>2 DEF Queued, ForLibrary
<1>3. CASE MgrAccess \/ MgrStart \/ MgrLeoStart \/ MgrEvent
  <2>1. UNCHANGED << cmdQ, out, req, diskInit >>
    BY <1>3 DEF MgrAccess, MgrStart, MgrLeoStart, MgrEvent
  <2>2. mgr'.mb = mgr.mb /\ (Holds' => Holds) /\ (Leo' => Leo)
    BY <1>0, <1>3 DEF MgrAccess, MgrStart, MgrLeoStart, MgrEvent, At, MgrGoes, MgrType, Holds, Leo
  <2> QED BY <1>2, <2>1, <2>2
<1>4. ASSUME Finished(mgr.mb), mgr.pc \in {"reply", "leoReply"}, mgr'.pc = "rel", UNCHANGED << cmdQ, diskInit >>
      PROVE  Queued' /\ ForLibrary'
  <2>1. out' = out \ {mgr.mb} /\ \A n \in Mesgs \ {mgr.mb} : req'[n] = req[n]
    BY <1>0, <1>4, FinishedType
  <2>2. Holds /\ ~Holds' /\ ~Leo'
    BY <1>4 DEF Holds, Leo
  <2> QED BY <1>0, <1>4, <2>1, <2>2 DEF Queued, Distinct, ForLibrary
<1>5. CASE MgrReply
  <2>1. Finished(mgr.mb) /\ mgr.pc = "reply" /\ mgr'.pc = "rel" /\ UNCHANGED << cmdQ, diskInit >>
    BY <1>0, <1>5 DEF MgrReply, At, MgrGoes, MgrType
  <2> QED BY <1>4, <2>1
<1>6. CASE MgrLeoReply
  <2>1. mgr.pc = "leoReply" /\ UNCHANGED << cmdQ, diskInit >>
    BY <1>6 DEF MgrLeoReply, At
  <2>2. \/ Finished(mgr.mb) /\ mgr'.pc = "rel"
        \/ mgr'.pc = "leoWait" /\ mgr'.mb = mgr.mb /\ UNCHANGED << out, req >>
    BY <1>0, <1>6 DEF MgrLeoReply, MgrGoes, MgrType
  <2>3. CASE Finished(mgr.mb) /\ mgr'.pc = "rel"
    BY <1>4, <2>1, <2>3
  <2>4. CASE mgr'.pc = "leoWait" /\ mgr'.mb = mgr.mb /\ UNCHANGED << out, req >>
    <3>1. Holds /\ Leo
      BY <2>1 DEF Holds, Leo
    <3> QED BY <1>2, <2>1, <2>4, <3>1
  <2> QED BY <2>2, <2>3, <2>4
<1>7. CASE MgrRelease
  <2>1. UNCHANGED << cmdQ, out, req, diskInit >> /\ mgr'.pc = "recv"
    BY <1>0, <1>7 DEF MgrRelease, MgrType
  <2> QED BY <2>1 DEF Queued, ForLibrary, Holds, Leo
<1> QED BY <1>1, <1>3, <1>5, <1>6, <1>7 DEF Manager

LEMMA QueuedStep ==
  ASSUME PiTypeOK, ManagerOnce, Queued, ForLibrary, Next
  PROVE  Queued' /\ ForLibrary'
<1>1. CASE HostAsks \/ HostGets \/ HostFrees \/ Hardware
  <2>1. UNCHANGED << cmdQ, out, req, mgr, diskInit >>
    BY <1>1 DEF HostAsks, HostGets, HostFrees, Hardware, DmaEnds, PiInterrupt, LeoBusy, LeoBufferError,
                LeoTransfer, LeoWrite, LeoRead
  <2> QED BY <2>1 DEF Queued, ForLibrary, Holds, Leo
<1> QED BY <1>1, QueuedThread, QueuedManager DEF Next

------------------------------------------------------------------------------
(* The transfer in service *)

LEMMA TransferStays ==
  ASSUME InTransfer, UNCHANGED << mgr, evtQ, dma, intr, piOn, drive >>, Leo => UNCHANGED info
  PROVE  InTransfer'
BY DEF InTransfer, Leo, Quiet, Ending, Interrupted, HalfRead, TrackRead

(* The library does not touch its transfer while the manager serves it. *)
LEMMA TransferThread ==
  ASSUME PiTypeOK, ManagerOnce, Queued, ForLibrary, InTransfer, NEW t \in Threads, Thread(t)
  PROVE  InTransfer'
<1>0. mgr \in MgrType /\ out \subseteq Mesgs
  BY DEF PiTypeOK
<1>1. Leo => mgr.mb \in out /\ mgr.mb \in DiskMesgs /\ diskInit
  BY DEF Leo, Queued, ForLibrary, Holds
<1>2. ASSUME NEW m \in Mesgs, NEW cmd, NEW mode, StartDisk(t, m, cmd, mode)
      PROVE  ~Leo /\ UNCHANGED << mgr, evtQ, dma, intr, piOn, drive >>
  <2>1. m \in DiskMesgs /\ m \notin out /\ UNCHANGED << mgr, evtQ, dma, intr, piOn, drive >>
    BY <1>2 DEF StartDisk, StartDma
  <2> QED BY <1>1, <2>1, PiAssumption
<1>3. CASE LeoDiskInit(t)
  <2>1. ~diskInit /\ UNCHANGED << mgr, evtQ, dma, intr, piOn, drive >>
    BY <1>3 DEF LeoDiskInit
  <2> QED BY <1>1, <2>1, TransferStays
<1>4. CASE CreateManager(t)
  <2>1. mgr.pc = "off"
    BY <1>4 DEF CreateManager, ManagerOnce
  <2>2. mgr'.pc = "recv" /\ evtQ' = <<>> /\ UNCHANGED << dma, intr >>
    BY <1>0, <1>4 DEF CreateManager, MgrType
  <2> QED BY <2>1, <2>2 DEF InTransfer, Quiet
<1>5. ASSUME NEW o, NEW h, Call(t, o, h)
      PROVE  UNCHANGED << mgr, evtQ, dma, intr, piOn, drive, info >>
  BY <1>5 DEF Call
<1>6. ASSUME NEW m, NEW kind, NEW h, NEW urgent, StartCart(t, m, kind, h, urgent)
      PROVE  UNCHANGED << mgr, evtQ, dma, intr, piOn, drive, info >>
  BY <1>6 DEF StartCart, StartDma
<1>7. CASE SetFlag(t) \/ MakeQueue(t) \/ FirstToken(t) \/ GetAccess(t) \/ ProgrammedIo(t) \/ RelAccess(t)
           \/ Receive(t)
  <2>1. UNCHANGED << mgr, evtQ, dma, intr, piOn, drive, info >>
    BY <1>7 DEF SetFlag, MakeQueue, FirstToken, GetAccess, ProgrammedIo, RelAccess, Receive
  <2> QED BY <2>1, TransferStays
<1> QED BY <1>2, <1>3, <1>4, <1>5, <1>6, <1>7, TransferStays DEF Thread

LEMMA TransferManager ==
  ASSUME PiTypeOK, InTransfer, Manager
  PROVE  InTransfer'
<1>0. mgr \in MgrType /\ info \in InfoType
  BY DEF PiTypeOK
<1>1. CASE MgrRecv
  <2>1. mgr.pc = "recv" /\ UNCHANGED << dma, intr, evtQ, piOn >>
    BY <1>1 DEF MgrRecv, At
  <2>2. Quiet /\ evtQ = <<>>
    BY <2>1 DEF InTransfer
  <2>3. \/ mgr'.pc = "leoAcs" /\ mgr'.twice = (TrackRead') /\ info' = [info EXCEPT !.sec = -1]
        \/ mgr'.pc \in {"acs", "recv"}
    <3>1. CASE RecvDisk
      <4>1. info' = [info EXCEPT !.sec = -1]
        BY <3>1 DEF RecvDisk
      <4>2. info'.mode = info.mode /\ info'.cmd = info.cmd
        BY <1>0, <4>1 DEF InfoType
      <4> QED BY <3>1, <4>1, <4>2 DEF RecvDisk, TrackRead
    <3>2. CASE RecvDma \/ RecvLoopback
      BY <1>0, <2>1, <3>2 DEF RecvDma, RecvLoopback, MgrType
    <3> QED BY <1>1, <3>1, <3>2 DEF MgrRecv
  <2> QED BY <2>1, <2>2, <2>3 DEF InTransfer, Quiet
<1>2. CASE MgrAccess
  <2>1. /\ UNCHANGED << dma, intr, evtQ, info >> /\ mgr'.twice = mgr.twice
        /\ \/ mgr.pc = "acs" /\ mgr'.pc = "start"
           \/ mgr.pc = "leoAcs" /\ mgr'.pc = "leoStart" /\ piOn' = FALSE
    BY <1>0, <1>2 DEF MgrAccess, At, MgrGoes, MgrType
  <2> QED BY <2>1 DEF InTransfer, Quiet, TrackRead
<1>3. CASE MgrStart
  <2>1. /\ UNCHANGED << intr, evtQ >> /\ mgr'.mb = mgr.mb /\ dma' = mgr.mb
        /\ mgr.pc = "start" /\ mgr'.pc = "wait"
    BY <1>0, <1>3 DEF MgrStart, At, MgrGoes, MgrType
  <2> QED BY <2>1 DEF InTransfer, Quiet, Ending
<1>4. CASE MgrLeoStart
  <2>1. /\ UNCHANGED << dma, intr, evtQ, info, piOn >> /\ mgr'.mb = mgr.mb /\ mgr'.twice = mgr.twice
        /\ mgr.pc = "leoStart" /\ mgr'.pc = "leoWait"
    BY <1>0, <1>4 DEF MgrLeoStart, At, MgrGoes, MgrType
  <2> QED BY <2>1 DEF InTransfer, Quiet, TrackRead
<1>5. CASE MgrEvent
  <2>1. /\ UNCHANGED << dma, intr, info, piOn, drive >> /\ mgr'.mb = mgr.mb /\ mgr'.twice = mgr.twice
        /\ evtQ # <<>> /\ evtQ' = <<>>
        /\ \/ mgr.pc = "wait" /\ mgr'.pc = "reply"
           \/ mgr.pc = "leoWait" /\ mgr'.pc = "leoReply"
    BY <1>0, <1>5 DEF MgrEvent, At, MgrGoes, MgrType
  <2>2. CASE mgr.pc = "wait"
    BY <2>1, <2>2 DEF InTransfer, Quiet, Ending
  <2>3. CASE mgr.pc = "leoWait" /\ piOn
    BY <2>1, <2>3 DEF InTransfer, Quiet, Ending
  <2>4. CASE mgr.pc = "leoWait" /\ ~piOn
    BY <2>1, <2>4 DEF InTransfer, Interrupted, HalfRead
  <2> QED BY <2>1, <2>2, <2>3, <2>4
<1>6. CASE MgrReply
  <2>1. UNCHANGED << dma, intr, evtQ >> /\ mgr.pc = "reply" /\ mgr'.pc = "rel"
    BY <1>0, <1>6 DEF MgrReply, At, MgrGoes, MgrType
  <2> QED BY <2>1 DEF InTransfer, Quiet
<1>7. CASE MgrLeoReply
  <2>1. mgr.pc = "leoReply" /\ evtQ = <<>> /\ UNCHANGED << evtQ, dma >>
    BY <1>7 DEF MgrLeoReply, At, InTransfer
  <2>2. \/ /\ mgr.twice /\ info'.err[0] = "GOOD"
           /\ mgr'.pc = "leoWait" /\ mgr'.mb = mgr.mb /\ ~mgr'.twice
        \/ /\ ~(mgr.twice /\ info'.err[0] = "GOOD") /\ mgr'.pc = "rel"
    BY <1>0, <1>7 DEF MgrLeoReply, MgrGoes, MgrType
  <2>3. CASE Interrupted
    <3>1. dma = NoMesg /\ ~drive' /\ ~intr' /\ piOn'
      BY <1>7, <2>3 DEF MgrLeoReply, ResetDrive, Interrupted
    <3> QED BY <2>1, <2>2, <3>1 DEF InTransfer, Quiet
  <2>4. CASE ~Interrupted
    <3>1. UNCHANGED << drive, intr, piOn, info >>
      BY <1>7, <2>4 DEF MgrLeoReply, ResetDrive, Interrupted
    <3>2. dma \in {NoMesg, mgr.mb} /\ (piOn => ~drive /\ Quiet) /\ (~piOn => HalfRead)
      BY <2>1, <2>4 DEF InTransfer
    <3>3. CASE piOn
      BY <2>1, <2>2, <3>1, <3>2, <3>3 DEF InTransfer, Quiet
    <3>4. CASE ~piOn
      BY <2>1, <2>2, <3>1, <3>2, <3>4 DEF InTransfer, HalfRead
    <3> QED BY <3>3, <3>4
  <2> QED BY <2>3, <2>4
<1>8. CASE MgrRelease
  <2>1. UNCHANGED << dma, intr, evtQ >> /\ mgr.pc = "rel" /\ mgr'.pc = "recv"
    BY <1>0, <1>8 DEF MgrRelease, At, MgrGoes, MgrType
  <2> QED BY <2>1 DEF InTransfer, Quiet
<1> QED BY <1>1, <1>2, <1>3, <1>4, <1>5, <1>6, <1>7, <1>8 DEF Manager

(* The drive's handler runs with the PI interrupt off; when it resumes the manager
   for good, it clears that interrupt. *)
LEMMA TransferResumes ==
  ASSUME PiTypeOK, DriveInterrupts, dma = NoMesg, UNCHANGED << mgr, dma >>,
         ~drive', Resume, PiComesOn
  PROVE  InTransfer'
<1>1. mgr.pc = "leoWait" /\ evtQ' = <<"PI">> /\ ~intr' /\ piOn'
  BY PostedType DEF PiTypeOK, DriveInterrupts, At, Resume, PiComesOn
<1> QED BY <1>1 DEF InTransfer, Quiet, Ending

LEMMA InterruptsMasked ==
  ASSUME InTransfer, DriveInterrupts
  PROVE  /\ mgr.pc = "leoWait" /\ ~piOn /\ evtQ = <<>>
         /\ TrackRead /\ (info.blk = 0 \/ info.sec = -1) => mgr.twice
BY DEF InTransfer, DriveInterrupts, At

LEMMA TransferRead ==
  ASSUME PiTypeOK, InTransfer, NEW stat \in Statuses, LeoRead(stat), slip' # "C2"
  PROVE  InTransfer'
<1> DEFINE i == Counted(stat)
<1>0. /\ info.blk \in 0..1 /\ info.sec \in Nat \cup {-1} /\ info \in InfoType /\ mgr \in MgrType
      /\ i \in InfoType /\ i.cmd = info.cmd /\ i.mode = info.mode
      /\ i.blk = info.blk /\ i.sec = info.sec /\ i.err = info.err
  BY CountedType DEF PiTypeOK, InfoType
<1> HIDE DEF i
<1>1. DriveInterrupts /\ dma = NoMesg /\ UNCHANGED mgr /\ info.cmd = 0
  BY DEF LeoRead
<1>2. /\ mgr.pc = "leoWait" /\ ~piOn /\ evtQ = <<>>
      /\ TrackRead /\ (info.blk = 0 \/ info.sec = -1) => mgr.twice
  BY <1>1, InterruptsMasked
<1>3. ASSUME NEW j, NEW b, NEW err, AbnormalResume(j, b, err), UNCHANGED dma
      PROVE  InTransfer'
  BY <1>1, <1>3, TransferResumes DEF AbnormalResume
<1>4. CASE ReadStops(stat)
  BY <1>3, <1>4 DEF ReadStops
<1>5. CASE ReadC2(stat)
  <2>1. ~WrongC2 /\ UNCHANGED evtQ /\ dma' = mgr.mb
    BY <1>5 DEF ReadC2, SectorDma
  <2>2. CASE info.mode = "TRACK" /\ info.blk = 0
    <3>1. UNCHANGED piOn
      BY <1>5, <2>1, <2>2 DEF ReadC2
    <3>2. mgr.twice
      BY <1>1, <1>2, <2>2 DEF TrackRead
    <3> QED BY <1>1, <1>2, <2>1, <3>1, <3>2 DEF InTransfer
  <2>3. CASE ~(info.mode = "TRACK" /\ info.blk = 0)
    <3>1. ~drive' /\ ~intr' /\ piOn'
      BY <1>5, <2>3 DEF ReadC2, PiComesOn
    <3> QED BY <1>1, <1>2, <2>1, <3>1 DEF InTransfer, Ending
  <2> QED BY <2>2, <2>3
<1>6. CASE ReadSector(stat)
  <2> DEFINE sec == info.sec + 1
             j == [i EXCEPT !.sec = sec, !.err[0] = IF FirstBlockRead THEN "GOOD" ELSE @]
  <2>0. /\ j \in InfoType /\ j.cmd = 0 /\ j.mode = info.mode /\ j.blk = info.blk /\ j.sec = sec
        /\ FirstBlockRead => j.err[0] = "GOOD"
    <3>1. sec \in Nat /\ "GOOD" \in Errors /\ 0 \in 0..1
      BY <1>0 DEF Errors
    <3>2. j \in InfoType
      BY <1>0, <3>1 DEF InfoType
    <3>3. j.cmd = i.cmd /\ j.mode = i.mode /\ j.blk = i.blk /\ j.sec = sec
      BY <1>0 DEF InfoType
    <3>4. FirstBlockRead => j.err[0] = "GOOD"
      BY <1>0 DEF InfoType
    <3> HIDE DEF j, sec
    <3> QED BY <1>0, <1>1, <3>2, <3>3, <3>4
  <2>1. CASE BadFirstBlock(stat)
    BY <1>3, <1>6, <2>1 DEF ReadSector
  <2>2. CASE ~BadFirstBlock(stat)
    <3>1. \/ /\ info' = [j EXCEPT !.err[info.blk] = "GOOD"] /\ SectorDma
             /\ evtQ' = IF FirstBlockRead THEN Posted(evtQ) ELSE evtQ
             /\ UNCHANGED << intr, piOn, drive >>
          \/ AbnormalResume(j, info.blk, "24") /\ UNCHANGED dma
          \/ /\ sec \in Sectors..(Sectors + Parity - 1) /\ info' = j
             /\ UNCHANGED << evtQ, dma, intr, piOn, drive >>
      BY <1>6, <2>2 DEF ReadSector, i
    <3> HIDE DEF j
    <3>2. CASE /\ info' = [j EXCEPT !.err[info.blk] = "GOOD"] /\ SectorDma
               /\ evtQ' = IF FirstBlockRead THEN Posted(evtQ) ELSE evtQ
               /\ UNCHANGED << intr, piOn, drive >>
      <4>1. /\ info'.cmd = 0 /\ info'.mode = info.mode /\ info'.blk = info.blk /\ info'.sec = sec
            /\ FirstBlockRead => info'.err[0] = "GOOD"
        BY <1>0, <2>0, <3>2 DEF InfoType
      <4>2. sec # -1 /\ dma' = mgr.mb
        BY <1>0, <3>2 DEF SectorDma
      <4>3. FirstBlockRead => HalfRead'
        BY <1>1, <1>2, <4>1, <4>2 DEF FirstBlockRead, HalfRead, TrackRead
      <4>4. evtQ' # <<>> => FirstBlockRead
        BY <1>2, <3>2
      <4>5. TrackRead' /\ (info'.blk = 0 \/ info'.sec = -1) => mgr'.twice
        BY <1>1, <1>2, <4>1, <4>2 DEF TrackRead
      <4>6. mgr'.pc = "leoWait" /\ ~piOn' /\ dma' = mgr'.mb
        BY <1>1, <1>2, <3>2, <4>2
      <4> QED BY <4>3, <4>4, <4>5, <4>6 DEF InTransfer
    <3>3. CASE AbnormalResume(j, info.blk, "24") /\ UNCHANGED dma
      BY <1>3, <3>3
    <3>4. CASE /\ sec \in Sectors..(Sectors + Parity - 1) /\ info' = j
               /\ UNCHANGED << evtQ, dma, intr, piOn, drive >>
      <4>1. info'.cmd = 0 /\ info'.mode = info.mode /\ info'.blk = info.blk /\ info'.sec # -1
        BY <1>0, <2>0, <3>4
      <4>2. TrackRead' /\ (info'.blk = 0 \/ info'.sec = -1) => mgr'.twice
        BY <1>1, <1>2, <4>1 DEF TrackRead
      <4>3. mgr'.pc = "leoWait" /\ ~piOn' /\ dma' = NoMesg /\ evtQ' = <<>>
        BY <1>1, <1>2, <3>4
      <4> QED BY <4>2, <4>3 DEF InTransfer
    <3> QED BY <3>1, <3>2, <3>3, <3>4
  <2> QED BY <2>1, <2>2
<1> QED BY <1>4, <1>5, <1>6 DEF LeoRead

LEMMA TransferWrite ==
  ASSUME PiTypeOK, InTransfer, NEW stat \in Statuses, LeoWrite(stat)
  PROVE  InTransfer'
<1>0. info \in InfoType
  BY DEF PiTypeOK
<1>1. DriveInterrupts /\ dma = NoMesg /\ UNCHANGED mgr /\ info.cmd = 1
  BY DEF LeoWrite
<1>2. mgr.pc = "leoWait" /\ ~piOn /\ evtQ = <<>>
  BY <1>1, InterruptsMasked
<1>3. CASE WriteSector(stat)
  <2>1. dma' = mgr.mb /\ UNCHANGED << evtQ, piOn >> /\ info' = [info EXCEPT !.sec = @ + 1]
    BY <1>3 DEF WriteSector, SectorDma
  <2>2. ~TrackRead'
    BY <1>0, <1>1, <2>1 DEF TrackRead, InfoType
  <2> QED BY <1>1, <1>2, <2>1, <2>2 DEF InTransfer
<1>4. CASE WriteEnds(stat)
  BY <1>1, <1>4, TransferResumes DEF WriteEnds, AbnormalResume
<1> QED BY <1>3, <1>4 DEF LeoWrite

LEMMA TransferHardware ==
  ASSUME PiTypeOK, InTransfer, Hardware, slip' # "C2"
  PROVE  InTransfer'
<1>0. /\ mgr \in MgrType /\ info \in InfoType /\ evtQ \in {<<>>, <<"PI">>} /\ Posted(evtQ) = <<"PI">>
      /\ info.blk \in 0..1
  BY PostedType DEF PiTypeOK, InfoType
<1>1. CASE DmaEnds
  <2>1. dma # NoMesg /\ dma' = NoMesg /\ intr' /\ UNCHANGED << evtQ, mgr, piOn, drive, info >>
    BY <1>1 DEF DmaEnds
  <2>2. mgr.pc \in {"wait", "leoWait", "leoReply"}
    BY <1>0, <2>1 DEF InTransfer, Quiet, MgrType, MgrPcs
  <2>3. CASE mgr.pc = "wait" \/ (mgr.pc = "leoWait" /\ piOn)
    <3>1. evtQ = <<>>
      BY <2>1, <2>3 DEF InTransfer, Ending, Quiet
    <3> QED BY <2>1, <2>3, <3>1 DEF InTransfer, Ending
  <2>4. CASE mgr.pc = "leoWait" /\ ~piOn
    BY <2>1, <2>4 DEF InTransfer, Interrupted, HalfRead, TrackRead
  <2>5. CASE mgr.pc = "leoReply"
    BY <2>1, <2>5 DEF InTransfer, Quiet, Interrupted, HalfRead
  <2> QED BY <2>2, <2>3, <2>4, <2>5
<1>2. CASE PiInterrupt
  <2>1. intr /\ piOn /\ ~intr' /\ evtQ' = <<"PI">> /\ UNCHANGED << dma, mgr, piOn, drive, info >>
    BY <1>0, <1>2 DEF PiInterrupt
  <2>2. mgr.pc \in {"wait", "leoWait"}
    BY <1>0, <2>1 DEF InTransfer, Quiet, MgrType, MgrPcs
  <2>3. dma = NoMesg /\ (mgr.pc = "leoWait" => ~drive)
    BY <2>1, <2>2 DEF InTransfer, Ending, Quiet
  <2> QED BY <2>1, <2>2, <2>3 DEF InTransfer, Ending, Quiet
<1>3. CASE LeoBusy
  <2>1. DriveInterrupts /\ UNCHANGED << mgr, dma, piOn >> /\ info' = [info EXCEPT !.err[info.blk] = "29"]
    BY <1>3 DEF LeoBusy
  <2>2. mgr.pc = "leoWait" /\ ~piOn /\ dma \in {NoMesg, mgr.mb} /\ evtQ' # <<>>
    BY <1>0, <1>3, <2>1, InterruptsMasked DEF InTransfer, LeoBusy, Resume
  <2>3. Interrupted'
    BY <1>0, <2>1 DEF Interrupted, InfoType
  <2> QED BY <2>1, <2>2, <2>3 DEF InTransfer
<1>4. CASE LeoBufferError
  BY <1>4, TransferResumes DEF LeoBufferError
<1> QED BY <1>1, <1>2, <1>3, <1>4, TransferRead, TransferWrite DEF Hardware, LeoTransfer

LEMMA SlipStays ==
  ASSUME Next, slip' # "C2"
  PROVE  slip # "C2"
<1>1. ASSUME NEW t \in Threads, Thread(t)
      PROVE  UNCHANGED slip
  <2>1. ASSUME NEW m, NEW kind, NEW h, NEW urgent, StartDma(t, m, kind, h, urgent)
        PROVE  UNCHANGED slip
    BY <2>1 DEF StartDma
  <2> QED BY <1>1, <2>1 DEF Thread, Call, SetFlag, MakeQueue, FirstToken, CreateManager, GetAccess, ProgrammedIo,
                      RelAccess, StartCart, StartDisk, Receive, LeoDiskInit
<1>2. CASE HostAsks \/ HostGets \/ HostFrees
  BY <1>2 DEF HostAsks, HostGets, HostFrees
<1>3. CASE Manager
  BY <1>3 DEF Manager, MgrRecv, MgrAccess, MgrStart, MgrLeoStart, MgrEvent, MgrReply, MgrLeoReply, MgrRelease
<1>4. ASSUME NEW stat, LeoRead(stat) \/ LeoWrite(stat)
      PROVE  slip # "C2"
  BY <1>4 DEF LeoRead, ReadStops, ReadC2, ReadSector, LeoWrite
<1>5. CASE Hardware
  BY <1>4, <1>5 DEF Hardware, DmaEnds, PiInterrupt, LeoBusy, LeoBufferError, LeoTransfer
<1> QED BY <1>1, <1>2, <1>3, <1>5 DEF Next

LEMMA MgrInvStep ==
  ASSUME MgrInv, [Next]_vars
  PROVE  MgrInv'
<1>0. PiTypeOK /\ ManagerOnce /\ Queued /\ ForLibrary /\ (slip # "C2" => InTransfer)
  BY DEF MgrInv
<1>1. PiTypeOK'
  BY <1>0, TypeStep
<1>2. CASE UNCHANGED vars
  BY <1>1, <1>2 DEF MgrInv, vars, ManagerOnce, Queued, Distinct, ForLibrary, InTransfer, Holds, Leo, Quiet, Ending,
                    Interrupted, HalfRead, TrackRead
<1>3. CASE Next
  <2>1. ManagerOnce' /\ Queued' /\ ForLibrary'
    BY <1>0, <1>3, ManagerOnceStep, QueuedStep
  <2>2. ASSUME slip' # "C2" PROVE InTransfer'
    <3>1. InTransfer
      BY <1>0, <1>3, <2>2, SlipStays
    <3>2. CASE HostAsks \/ HostGets \/ HostFrees
      <4>1. UNCHANGED << mgr, evtQ, dma, intr, piOn, drive, info >>
        BY <3>2 DEF HostAsks, HostGets, HostFrees
      <4> QED BY <3>1, <4>1, TransferStays
    <3> QED BY <1>0, <1>3, <2>2, <3>1, <3>2, TransferThread, TransferManager, TransferHardware DEF Next
  <2> QED BY <1>1, <2>1, <2>2 DEF MgrInv
<1> QED BY <1>2, <1>3

LEMMA MgrInvInitially == Init => MgrInv
<1> SUFFICES ASSUME Init PROVE MgrInv
  OBVIOUS
<1>1. ManagerOnce /\ Queued /\ ForLibrary /\ InTransfer
  BY DEF Init, AtRest, ManagerOnce, Queued, Distinct, Holds, ForLibrary, Leo, InTransfer, Quiet
<1> QED BY <1>1, TypeInitially DEF MgrInv

LEMMA MgrInvHolds == Spec => []MgrInv
BY MgrInvInitially, MgrInvStep, PTL DEF Spec

(* Whatever the threads, the drive and its errors do, the manager waits for the end
   of the transfer it serves and for nothing else: a DMA runs only while it waits,
   and when it goes to wait there is no event left over and none under way
   (__osDevMgrMain, __osLeoInterrupt).  The return missing at leointerrupt.c:107
   is the one exception, which slip records. *)
THEOREM ManagerAwaitsItsOwn == Spec => []AwaitsItsOwn
<1>1. MgrInv => AwaitsItsOwn
  <2> SUFFICES ASSUME MgrInv, slip # "C2"
               PROVE  /\ dma # NoMesg => dma = mgr.mb /\ mgr.pc \in {"wait", "leoWait", "leoReply"}
                      /\ mgr.pc \in {"rel", "recv", "acs", "start", "leoAcs", "leoStart"} => evtQ = <<>> /\ ~intr
    BY DEF AwaitsItsOwn, DmaIsAwaited, NoStaleEvent
  <2>1. mgr.pc \in MgrPcs /\ InTransfer
    BY DEF MgrInv, PiTypeOK, MgrType
  <2> QED BY <2>1 DEF InTransfer, Quiet, Ending, MgrPcs
<1> QED BY <1>1, MgrInvHolds, PTL

------------------------------------------------------------------------------
(* Timings *)

(* EPI_SYNC: afterwards the record tells the timings of the handle. *)
LEMMA SyncTrue ==
  ASSUME TypesTellSpeeds, RecordTrue, NEW h \in AnyHandle, Sync(h), UNCHANGED diskInit
  PROVE  RecordTrue' /\ cur'[DomainOf[h]].speed = SpeedOf[h]
<1> DEFINE d == DomainOf[h]
           Types  == {TypeInit} \cup {TypeOf[g] : g \in AnyHandle}
           Speeds == {BootSpeed} \cup {SpeedOf[g] : g \in AnyHandle}
<1>0. /\ d \in 1..2 /\ cur \in [1..2 -> [type : Types, speed : Speeds]] /\ DOMAIN regs = 1..2
      /\ TypeOf[h] \in Types /\ SpeedOf[h] \in Speeds
  BY PiAssumption DEF RecordTrue, AnyHandle
<1> HIDE DEF Types, Speeds, d
<1>1. CASE cur[d].type = TypeOf[h]
  <2>1. UNCHANGED << regs, cur >>
    BY <1>1 DEF Sync, SyncRegs, SyncRecord, d
  <2>2. cur[d].speed = SpeedOf[h]
    BY <1>0, <1>1 DEF RecordTrue, d
  <2> QED BY <2>1, <2>2 DEF RecordTrue, d
<1>2. CASE cur[d].type # TypeOf[h]
  <2>1. /\ cur' = [cur EXCEPT ![d] = [type |-> TypeOf[h], speed |-> SpeedOf[h]]]
        /\ regs' = IF cur[d].speed # SpeedOf[h] THEN [regs EXCEPT ![d] = SpeedOf[h]] ELSE regs
    BY <1>2 DEF Sync, SyncRegs, SyncRecord, d
  <2>2. cur' \in [1..2 -> [type : Types, speed : Speeds]] /\ DOMAIN regs' = 1..2
    BY <1>0, <2>1
  <2>3. /\ cur'[d].type = TypeOf[h] /\ cur'[d].speed = SpeedOf[h]
        /\ \A e \in 1..2 \ {d} : cur'[e] = cur[e] /\ regs'[e] = regs[e]
        /\ regs'[d] = SpeedOf[h] \/ (regs'[d] = regs[d] /\ cur[d].speed = SpeedOf[h])
    BY <1>0, <2>1
  <2>4. \A e \in 1..2 : regs'[e] = cur'[e].speed \/ (e = 2 /\ diskInit')
    BY <1>0, <2>3 DEF RecordTrue
  <2>5. ASSUME NEW e \in 1..2, NEW g \in AnyHandle, DomainOf[g] = e, cur'[e].type = TypeOf[g]
        PROVE  cur'[e].speed = SpeedOf[g]
    <3>1. CASE e = d
      BY <2>3, <2>5, <3>1 DEF TypesTellSpeeds, d
    <3>2. CASE e # d
      BY <2>3, <2>5, <3>2 DEF RecordTrue
    <3> QED BY <3>1, <3>2
  <2> QED BY <2>2, <2>3, <2>4, <2>5 DEF RecordTrue, Types, Speeds, d
<1> QED BY <1>1, <1>2

LEMMA RecordStays ==
  ASSUME RecordTrue, UNCHANGED << regs, cur >>, diskInit => diskInit'
  PROVE  RecordTrue'
BY DEF RecordTrue

(* Every step that touches the registers is EPI_SYNC or osLeoDiskInit. *)
LEMMA RecordStep ==
  ASSUME MgrInv, TypesTellSpeeds, RecordTrue, Next
  PROVE  RecordTrue'
<1>0. /\ thr \in [Threads -> ThrType] /\ mgr \in MgrType /\ req \in [Mesgs -> ReqType]
      /\ out \subseteq Mesgs /\ Queued /\ Disk \in AnyHandle
  BY DEF MgrInv, PiTypeOK, AnyHandle
<1>1. ASSUME UNCHANGED diskInit,
             UNCHANGED << regs, cur >> \/ \E h \in AnyHandle : Sync(h)
      PROVE  RecordTrue'
  BY <1>1, RecordStays, SyncTrue
<1>2. ASSUME NEW t \in Threads, Thread(t)
      PROVE  RecordTrue'
  <2>1. CASE ProgrammedIo(t)
    <3>1. thr[t].h \in AnyHandle
      BY <1>0 DEF ThrType
    <3> QED BY <1>1, <2>1, <3>1 DEF ProgrammedIo
  <2>2. CASE LeoDiskInit(t)
    <3>1. diskInit' /\ regs' = [regs EXCEPT ![2] = SpeedOf[Disk]] /\ UNCHANGED cur
      BY <2>2 DEF LeoDiskInit
    <3>2. DOMAIN regs = 1..2
      BY DEF RecordTrue
    <3> QED BY <3>1, <3>2 DEF RecordTrue
  <2>3. ASSUME NEW m, NEW kind, NEW h, NEW urgent, StartDma(t, m, kind, h, urgent)
        PROVE  RecordTrue'
    BY <2>3, RecordStays DEF StartDma
  <2>4. ASSUME NEW o, NEW h, Call(t, o, h)
        PROVE  RecordTrue'
    BY <2>4, RecordStays DEF Call
  <2>5. CASE SetFlag(t) \/ MakeQueue(t) \/ FirstToken(t) \/ CreateManager(t) \/ GetAccess(t) \/ RelAccess(t)
             \/ Receive(t)
    <3>1. UNCHANGED << regs, cur, diskInit >>
      BY <2>5 DEF SetFlag, MakeQueue, FirstToken, CreateManager, GetAccess, RelAccess, Receive
    <3> QED BY <3>1, RecordStays
  <2> QED BY <1>2, <2>1, <2>2, <2>3, <2>4, <2>5 DEF Thread, StartCart, StartDisk
<1>3. CASE HostAsks \/ HostGets \/ HostFrees \/ MgrRecv \/ MgrAccess \/ MgrEvent \/ MgrReply \/ MgrRelease
           \/ DmaEnds \/ PiInterrupt \/ LeoBusy \/ LeoBufferError
  <2>1. UNCHANGED << regs, cur, diskInit >>
    BY <1>3 DEF HostAsks, HostGets, HostFrees, MgrRecv, MgrAccess, MgrEvent, MgrReply, MgrRelease, DmaEnds,
                PiInterrupt, LeoBusy, LeoBufferError
  <2> QED BY <2>1, RecordStays
<1>4. CASE MgrStart
  <2>1. UNCHANGED diskInit /\ (req[mgr.mb].kind = "EDMA" \/ UNCHANGED << regs, cur >>)
        /\ (req[mgr.mb].kind = "EDMA" => Sync(req[mgr.mb].h))
    BY <1>4 DEF MgrStart
  <2>2. mgr.mb \in Mesgs
    BY <1>0, <1>4 DEF MgrStart, At, Queued, Holds
  <2>3. req[mgr.mb].h \in AnyHandle
    BY <1>0, <2>2 DEF ReqType
  <2> QED BY <1>1, <2>1, <2>3
<1>5. CASE MgrLeoStart \/ MgrLeoReply
  <2>1. UNCHANGED diskInit /\ (UNCHANGED << regs, cur >> \/ Sync(Disk))
    BY <1>5 DEF MgrLeoStart, MgrLeoReply, ResetDrive
  <2> QED BY <1>0, <1>1, <2>1
<1>6. ASSUME NEW stat \in Statuses, LeoWrite(stat) \/ LeoRead(stat)
      PROVE  RecordTrue'
  <2>1. UNCHANGED diskInit /\ (UNCHANGED << regs, cur >> \/ Sync(Disk))
    BY <1>6 DEF LeoWrite, WriteSector, WriteEnds, LeoRead, ReadStops, ReadC2, ReadSector, SectorDma
  <2> QED BY <1>0, <1>1, <2>1
<1> QED BY <1>2, <1>3, <1>4, <1>5, <1>6 DEF Next, Manager, Hardware, LeoTransfer

(* While a DMA is on the bus its request stays as it is and nobody else writes the
   registers. *)
LEMMA OnBusStep ==
  ASSUME MgrInv, TypesTellSpeeds, RecordTrue, OnBus, Next
  PROVE  OnBus'
<1> SUFFICES ASSUME slip' # "C2", dma' # NoMesg, req'[dma'].kind = "EDMA"
             PROVE  cur'[DomainOf[req'[dma'].h]].speed = SpeedOf[req'[dma'].h]
  BY DEF OnBus
<1>0. /\ PiTypeOK /\ Queued /\ ForLibrary /\ slip # "C2" /\ InTransfer /\ InTransfer'
      /\ mgr \in MgrType /\ req \in [Mesgs -> ReqType] /\ out \subseteq Mesgs
      /\ Disk \in AnyHandle
  BY SlipStays, MgrInvStep DEF MgrInv, PiTypeOK, AnyHandle
<1>1. dma # NoMesg => /\ dma = mgr.mb /\ mgr.pc \in {"wait", "leoWait", "leoReply"}
                      /\ dma \in out /\ dma \in Mesgs
  <2>1. mgr.pc \in MgrPcs
    BY <1>0 DEF MgrType
  <2> QED BY <1>0, <2>1 DEF InTransfer, Quiet, Ending, MgrPcs, Queued, Holds
<1>2. ASSUME dma # NoMesg, UNCHANGED << dma, cur >>, req'[dma] = req[dma]
      PROVE  cur'[DomainOf[req'[dma'].h]].speed = SpeedOf[req'[dma'].h]
  BY <1>0, <1>2 DEF OnBus
<1>3. ASSUME NEW t \in Threads, Thread(t)
      PROVE  dma # NoMesg /\ UNCHANGED << dma, cur >> /\ req'[dma] = req[dma]
  <2>1. ASSUME NEW m \in Mesgs, NEW kind, NEW h, NEW urgent, StartDma(t, m, kind, h, urgent),
               UNCHANGED << dma, cur >>
        PROVE  req'[dma] = req[dma]
    <3>1. m \notin out /\ (req' = req \/ req' = [req EXCEPT ![m] = [kind |-> kind, h |-> h]])
      BY <2>1 DEF StartDma
    <3>2. dma # m /\ dma \in Mesgs
      BY <1>1, <2>1, <3>1
    <3> QED BY <1>0, <3>1, <3>2
  <2>2. ASSUME NEW m \in Mesgs, NEW kind, NEW h, NEW urgent, StartDma(t, m, kind, h, urgent)
        PROVE  dma # NoMesg /\ UNCHANGED << dma, cur >> /\ req'[dma] = req[dma]
    <3>1. UNCHANGED << dma, cur >>
      BY <2>2 DEF StartDma
    <3> QED BY <2>1, <2>2, <3>1
  <2>3. ASSUME NEW o, NEW h, Call(t, o, h)
        PROVE  UNCHANGED << dma, cur, req >>
    BY <2>3 DEF Call
  <2>4. ASSUME SetFlag(t) \/ MakeQueue(t) \/ FirstToken(t) \/ CreateManager(t) \/ GetAccess(t) \/ RelAccess(t)
               \/ Receive(t) \/ LeoDiskInit(t)
        PROVE  UNCHANGED << dma, cur, req >>
    BY <2>4 DEF SetFlag, MakeQueue, FirstToken, CreateManager, GetAccess, RelAccess, Receive, LeoDiskInit
  <2>5. ~ProgrammedIo(t)
    BY DEF ProgrammedIo
  <2>6. ASSUME UNCHANGED << dma, cur, req >>
        PROVE  dma # NoMesg /\ UNCHANGED << dma, cur >> /\ req'[dma] = req[dma]
    BY <2>6
  <2> QED BY <1>3, <2>2, <2>3, <2>4, <2>5, <2>6 DEF Thread, StartCart, StartDisk
<1>4. CASE HostAsks \/ HostGets \/ HostFrees \/ MgrAccess \/ MgrEvent \/ MgrRelease \/ PiInterrupt \/ LeoBusy
  <2>1. UNCHANGED << dma, cur, req >>
    BY <1>4 DEF HostAsks, HostGets, HostFrees, MgrAccess, MgrEvent, MgrRelease, PiInterrupt, LeoBusy
  <2> QED BY <1>2, <2>1
<1>5. ~MgrRecv /\ ~MgrReply
  <2>1. MgrRecv \/ MgrReply => mgr.pc \in {"recv", "reply"} /\ UNCHANGED dma
    BY DEF MgrRecv, MgrReply, At
  <2> QED BY <1>1, <2>1
<1>6. ~MgrLeoStart /\ ~DmaEnds /\ ~LeoBufferError
  BY DEF MgrLeoStart, DmaEnds, LeoBufferError
<1>7. CASE MgrStart
  <2>1. dma' = mgr.mb /\ UNCHANGED << req, diskInit >> /\ mgr.pc = "start"
        /\ (req[mgr.mb].kind = "EDMA" => Sync(req[mgr.mb].h))
    BY <1>7 DEF MgrStart, At
  <2>2. mgr.mb \in Mesgs
    BY <1>0, <2>1 DEF Queued, Holds
  <2>3. req[mgr.mb].h \in AnyHandle
    BY <1>0, <2>2 DEF ReqType
  <2> QED BY <2>1, <2>3, SyncTrue
<1>8. CASE MgrLeoReply
  <2>1. UNCHANGED dma /\ mgr.pc = "leoReply" /\ info.err[info.blk] # "29"
    BY <1>8 DEF MgrLeoReply, At, ResetDrive
  <2>2. UNCHANGED cur
    BY <1>8, <2>1 DEF MgrLeoReply, ResetDrive
  <2>3. UNCHANGED req \/ mgr'.pc = "rel"
    BY <1>0, <1>8 DEF MgrLeoReply, MgrGoes, MgrType
  <2>4. mgr'.pc # "rel"
    BY <1>0 DEF InTransfer, Quiet
  <2> QED BY <1>2, <2>1, <2>2, <2>3, <2>4
<1>9. ASSUME NEW stat \in Statuses, LeoWrite(stat) \/ LeoRead(stat)
      PROVE  cur'[DomainOf[req'[dma'].h]].speed = SpeedOf[req'[dma'].h]
  <2>1. dma = NoMesg /\ UNCHANGED << req, diskInit >> /\ DriveInterrupts
    BY <1>9 DEF LeoWrite, LeoRead
  <2>2. SectorDma
    BY <1>9, <2>1 DEF LeoWrite, WriteSector, WriteEnds, LeoRead, ReadStops, ReadC2, ReadSector
  <2>3. req[mgr.mb].h = Disk
    BY <1>0, <2>1 DEF DriveInterrupts, At, ForLibrary, Leo
  <2>4. cur'[DomainOf[Disk]].speed = SpeedOf[Disk] /\ dma' = mgr.mb
    BY <1>0, <2>1, <2>2, SyncTrue DEF SectorDma
  <2> QED BY <2>1, <2>3, <2>4
<1> QED BY <1>2, <1>3, <1>4, <1>5, <1>6, <1>7, <1>8, <1>9 DEF Next, Manager, Hardware, LeoTransfer

LEMMA SpeedInvHolds ==
  ASSUME TypesTellSpeeds
  PROVE  Spec => []SpeedInv
<1>1. Init => SpeedInv
  <2> SUFFICES ASSUME Init PROVE SpeedInv
    OBVIOUS
  <2>1. MgrInv
    BY MgrInvInitially
  <2>2. /\ cur = [d \in 1..2 |-> [type |-> TypeInit, speed |-> BootSpeed]]
        /\ regs = [d \in 1..2 |-> BootSpeed] /\ dma = NoMesg
    BY DEF Init, Idle
  <2>3. RecordTrue
    BY <2>2 DEF RecordTrue, TypesTellSpeeds
  <2> QED BY <2>1, <2>2, <2>3 DEF SpeedInv, OnBus
<1>2. SpeedInv /\ [Next]_vars => SpeedInv'
  <2> SUFFICES ASSUME SpeedInv, [Next]_vars PROVE SpeedInv'
    OBVIOUS
  <2>1. MgrInv /\ RecordTrue /\ OnBus /\ MgrInv'
    BY MgrInvStep DEF SpeedInv
  <2>2. CASE UNCHANGED vars
    <3>1. UNCHANGED << regs, cur, dma, req, slip, diskInit >>
      BY <2>2 DEF vars
    <3> QED BY <2>1, <3>1 DEF SpeedInv, RecordTrue, OnBus
  <2>3. CASE Next
    BY <2>1, <2>3, RecordStep, OnBusStep DEF SpeedInv
  <2> QED BY <2>2, <2>3
<1> QED BY <1>1, <1>2, PTL DEF Spec

(* Every DMA through a handle runs with that handle's timings, provided the type
   of a handle tells them, which is all EPI_SYNC compares (epidma.c, epiread.c,
   piint.h).  The registers of domain 2 after osLeoDiskInit are the exception
   AtItsSpeed names. *)
THEOREM TransfersAtTheirSpeed ==
  ASSUME TypesTellSpeeds
  PROVE  Spec => []AtItsSpeed
<1>1. SpeedInv => AtItsSpeed
  <2> SUFFICES ASSUME SpeedInv, dma # NoMesg, slip # "C2", req[dma].kind = "EDMA"
               PROVE  LET h == req[dma].h
                      IN regs[DomainOf[h]] = SpeedOf[h] \/ (DomainOf[h] = 2 /\ diskInit)
    BY DEF AtItsSpeed
  <2> DEFINE h == req[dma].h
  <2>1. dma \in Mesgs /\ req \in [Mesgs -> ReqType]
    BY DEF SpeedInv, MgrInv, PiTypeOK
  <2>2. DomainOf[h] \in 1..2
    <3>1. h \in AnyHandle
      BY <2>1 DEF ReqType
    <3> QED BY <3>1, PiAssumption DEF AnyHandle
  <2>3. cur[DomainOf[h]].speed = SpeedOf[h]
    BY DEF SpeedInv, OnBus
  <2> QED BY <2>2, <2>3 DEF SpeedInv, RecordTrue
<1> QED BY <1>1, SpeedInvHolds, PTL
================================================================================
