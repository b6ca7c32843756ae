------------------------------ MODULE SiController ------------------------------
(***************************************************************************)
(* The serial interface and what hangs on it: controllers, controller and  *)
(* rumble paks, the EEPROM and the voice recognition unit (siacs.c,        *)
(* contreaddata.c, contquery.c, contreset.c, contsetch.c, contramread.c,   *)
(* contramwrite.c, pfsgetstatus.c, pfsisplug.c, motor.c, conteepread.c,    *)
(* conteepwrite.c, contchannelreset.c, voice/).                            *)
(*                                                                         *)
(* Every call is a number of exchanges.  An exchange packs a command in    *)
(* one of four 64-byte buffers, sends the buffer to the PIF with one DMA   *)
(* and gets it back, with the answer, with a second one; each DMA ends     *)
(* with a message in one queue.  The PIF runs the command it holds when it *)
(* is read, so a command it still holds is read again without being sent:  *)
(* __osContLastCmd remembers which one that is.  One access token serves   *)
(* all threads, but the two calls that poll the controllers give it back   *)
(* before the answer has come: until it has, the program must keep the     *)
(* other threads from calling, which the code does not do (Overlapping).   *)
(***************************************************************************)
EXTENDS Integers, FiniteSets

CONSTANTS
  Threads,
  Programs,     \* the programs: the calls each of their threads makes
  Channels,     \* the channel of the pak, the motor or the voice unit
  Values,       \* what a block of the pak can hold
  Retry,        \* "retry" of __osContRamRead (2)
  Is16K,        \* the cartridge has a 16 kilobit EEPROM
  VoiceErrors,  \* a transfer of the voice unit may fail its checksum
  Overlapping,  \* a thread may call while another one's poll is under way
  MaxCalls,     \* bound on the calls
  MaxFaults     \* bound on what goes wrong on the wire, with the pak and the pads

Ops == {"POLL", "QUERY", "RESET", "SETCH", "READ_PAK", "WRITE_PAK", "STATUS", "STATUS_BARE",
        "PLUG", "MOTOR", "EEP_PROBE", "EEP_READ", "EEP_WRITE",
        "CH_RESET", "VOICE_STATUS", "VOICE_READ", "VOICE_WRITE"}

ASSUME SiAssumption ==
  /\ Programs \subseteq [Threads -> SUBSET Ops]
  /\ Retry \in Nat /\ MaxCalls \in Nat /\ MaxFaults \in Nat
  /\ Channels # {} /\ Values # {} /\ 0 \notin Values \cup Channels
  /\ {Is16K, VoiceErrors, Overlapping} \subseteq BOOLEAN

VARIABLES
  token,     \* messages in __osSiAccessQueue
  last,      \* __osContLastCmd
  lastCh,    \* __osPfsLastChannel
  maxPads,   \* __osMaxControllers
  gcn,       \* __osControllerTypes: the first controller is one of a GameCube
  rumble,    \* __osGamecubeRumbleEnabled of that controller
  buf,       \* the four buffers: the command in it and its block, whether its
             \* answer is, and whether that says that it went well
  pif,       \* the command the PIF holds
  pifVal,    \* and its block
  dma,       \* the buffer a DMA sends or fetches
  evt,       \* messages in the queue of OS_EVENT_SI
  thr,       \* each thread
  pak,       \* the pak: [in, new, data]; new until its status was asked
  eep,       \* the EEPROM is busy with a write
  read16,    \* __osEepromRead16K
  stale,     \* __osContChannelReset left last as it was         (history)
  lost,      \* a write reached the EEPROM while it was busy     (history)
  known,     \* what the last write that returned 0 left in the pak, 0 when
             \* the pak was exchanged or a write failed           (history)
  opsOf,     \* the program that runs
  calls, faults

wireVars == << last, lastCh, buf, pif, pifVal, dma, evt, stale >>
padVars  == << maxPads, gcn, rumble >>
devVars  == << pak, eep, read16, lost, known, opsOf >>
vars == << token, last, lastCh, maxPads, gcn, rumble, buf, pif, pifVal, dma, evt, thr, pak, eep,
           read16, stale, lost, known, opsOf, calls, faults >>

Buffers == {"cont", "pfs", "eep", "motor"}

\* The exchanges, and the buffer each one uses.
Exchanges == {"POLL", "QUERY", "ALL_RESET", "RESET", "READ_PAK", "WRITE_PAK", "STATUS", "PLUG",
              "MOTOR", "EEP_STATUS", "EEP_READ", "EEP_WRITE", "CH_RESET", "VOICE_STATUS",
              "VOICE_READ", "VOICE_WRITE"}

BufferOf(x) ==
  CASE x \in {"POLL", "QUERY", "ALL_RESET", "RESET", "VOICE_STATUS"} -> "cont"
    [] x \in {"READ_PAK", "WRITE_PAK", "STATUS", "PLUG", "CH_RESET", "VOICE_READ", "VOICE_WRITE"} -> "pfs"
    [] x \in {"EEP_STATUS", "EEP_READ", "EEP_WRITE"} -> "eep"
    [] x = "MOTOR" -> "motor"

\* Commands for one channel; the others are for all controllers, or the cartridge.
OneChannel == {"READ_PAK", "WRITE_PAK", "STATUS", "MOTOR", "CH_RESET", "VOICE_STATUS",
               "VOICE_READ", "VOICE_WRITE"}

\* What a buffer holds once x is packed in it: osPfsIsPlug and osContStartQuery pack
\* the same request.
Packed(x, ch) ==
  [cmd |-> IF x = "PLUG" THEN "QUERY" ELSE x,
   ch  |-> IF x \in OneChannel THEN ch ELSE 0,
   lay |-> CASE x = "POLL" -> << maxPads, gcn >>
             [] x \in {"QUERY", "PLUG", "RESET"} -> << maxPads, FALSE >>
             [] OTHER -> << 0, FALSE >>,
   rum |-> x = "POLL" /\ gcn /\ rumble]

Nothing == [cmd |-> "NONE", ch |-> 0, lay |-> << 0, FALSE >>, rum |-> FALSE]

Resting == [pc |-> "idle", op |-> "SETCH", x |-> "POLL", ch |-> 0, tries |-> 0, sub |-> "no",
            busy |-> FALSE, own |-> FALSE, val |-> 0]

\* After osContInit; the motor's buffer is packed by osMotorInit.
Init ==
  /\ token = 1 /\ last = "QUERY" /\ lastCh = -1 /\ maxPads = 2
  /\ gcn = FALSE /\ rumble = FALSE
  /\ pif = [Nothing EXCEPT !.cmd = "QUERY", !.lay = << 2, FALSE >>]
  /\ buf = [b \in Buffers |-> [is |-> IF b = "cont" THEN pif ELSE Nothing, val |-> 0,
                           answered |-> b = "cont", ok |-> b = "cont"]]
  /\ pifVal = 0
  /\ dma = [dir |-> "no", b |-> "cont"] /\ evt = 0
  /\ thr = [t \in Threads |-> Resting]
  /\ pak = [in |-> TRUE, new |-> FALSE, data |-> CHOOSE v \in Values : TRUE]
  /\ eep = FALSE /\ read16 = FALSE /\ stale = FALSE /\ lost = FALSE /\ known = 0
  /\ opsOf \in Programs /\ calls = 0 /\ faults = 0

------------------------------------------------------------------------------
(* Exchanges *)

Goes(t, pc) == thr' = [thr EXCEPT ![t].pc = pc]

\* The command is still in the PIF: it need not be sent.
Held(x) == x \in {"POLL", "QUERY", "RESET"} /\ last = x

\* The buffer is packed anew, unless it holds a pak or voice command for this
\* channel, which then only gets a new address.
Packs(x, ch) ==
  x \in {"READ_PAK", "WRITE_PAK", "VOICE_READ", "VOICE_WRITE"} => last # x \/ lastCh # ch

\* Mutant: osMotorAccess does not reset the record.
LastWhenPackedStays(x) ==
  CASE x \in {"READ_PAK", "WRITE_PAK", "VOICE_READ", "VOICE_WRITE"} -> x
    [] x \in {"STATUS", "VOICE_STATUS"} -> "END"
    [] x = "PLUG" -> "QUERY"
    [] OTHER -> last

\* What the packing of x does to __osContLastCmd; for the others it is set later.
LastWhenPacked(x) ==
  CASE x \in {"READ_PAK", "WRITE_PAK", "VOICE_READ", "VOICE_WRITE"} -> x
    [] x \in {"STATUS", "MOTOR", "VOICE_STATUS"} -> "END"
    [] x = "PLUG" -> "QUERY"
    [] OTHER -> last

\* And when x is fetched.
LastWhenFetched(x) ==
  CASE x \in {"POLL", "QUERY", "EEP_READ", "EEP_WRITE", "RESET"} -> x
    [] x = "EEP_STATUS" -> "END"
    [] OTHER -> last

\* __osSiRawStartDma; when it is busy it returns -1, which the library does not look
\* at: a poll or query returns what its second DMA was told, the others drop it.
RawStartDma(dir, b) == dma' = IF dma.dir = "no" THEN [dir |-> dir, b |-> b] ELSE dma

\* The block that t packs with its command, where v is otherwise.
Block(t, v) == IF thr[t].x = "WRITE_PAK" THEN thr[t].val ELSE v

\* One command is packed and sent.
Send(t) ==
  LET x == thr[t].x  ch == thr[t].ch  b == BufferOf(x)
  IN /\ thr[t].pc = "send" /\ ~Held(x)
     /\ Goes(t, "sent")
     /\ IF Packs(x, ch)
        THEN /\ buf' = [buf EXCEPT ![b] = [is |-> Packed(x, ch), val |-> Block(t, 0),
                                           answered |-> FALSE, ok |-> FALSE]]
             /\ last' = LastWhenPacked(x)
             /\ lastCh' = IF x \in {"READ_PAK", "WRITE_PAK", "VOICE_READ", "VOICE_WRITE"} THEN ch ELSE lastCh
             /\ stale' = IF x = "CH_RESET" THEN last # "END" ELSE stale /\ last' = last
        ELSE /\ buf' = [buf EXCEPT ![b].answered = FALSE, ![b].val = Block(t, @)]
             /\ UNCHANGED << last, lastCh, stale >>
     /\ RawStartDma("send", b)
     /\ UNCHANGED << token, padVars, devVars, pif, pifVal, evt, calls, faults >>

\* osRecvMesg on the queue of OS_EVENT_SI
Sent(t) ==
  /\ thr[t].pc = "sent" /\ evt = 1 /\ evt' = 0 /\ Goes(t, "fetch")
  /\ UNCHANGED << token, padVars, devVars, last, lastCh, buf, pif, pifVal, dma, stale, calls, faults >>

SkipSend(t) ==
  /\ thr[t].pc = "send" /\ Held(thr[t].x) /\ Goes(t, "fetch")
  /\ UNCHANGED << token, padVars, devVars, wireVars, calls, faults >>

\* The answer is asked for; osContStartReadData and osContStartQuery return here.
Fetch(t) ==
  LET x == thr[t].x
  IN /\ thr[t].pc = "fetch"
     /\ RawStartDma("fetch", BufferOf(x)) /\ last' = LastWhenFetched(x)
     /\ stale' = (stale /\ last' = last)
     /\ IF x \in {"POLL", "QUERY"}
        THEN token' = 1 /\ thr' = [thr EXCEPT ![t].pc = "asked", ![t].own = FALSE]
        ELSE Goes(t, "fetched") /\ UNCHANGED token
     /\ UNCHANGED << padVars, devVars, lastCh, buf, pif, pifVal, evt, calls, faults >>

Fetched(t) ==
  /\ thr[t].pc \in {"fetched", "asked"} /\ evt = 1 /\ evt' = 0 /\ Goes(t, "parse")
  /\ UNCHANGED << token, padVars, devVars, last, lastCh, buf, pif, pifVal, dma, stale, calls, faults >>

Reachable == pak.in /\ ~pak.new
Voice == {"VOICE_READ", "VOICE_WRITE"}

\* What may go wrong with the command in the PIF: a checksum while faults are left,
\* always so for a pak that is not there or whose status was not asked since it was
\* put in; a voice unit may say that the controller failed.
Wire(good) ==
  \/ good /\ (pif.cmd \in {"READ_PAK", "WRITE_PAK"} => Reachable) /\ UNCHANGED faults
  \/ ~good /\ pif.cmd \in {"READ_PAK", "WRITE_PAK"} /\ ~Reachable /\ UNCHANGED faults
  \/ /\ ~good /\ pif.cmd \in {"READ_PAK", "WRITE_PAK", "VOICE_STATUS", "QUERY", "STATUS"} \cup Voice
     /\ pif.cmd \in Voice => VoiceErrors
     /\ faults < MaxFaults /\ faults' = faults + 1

\* What the PIF answers when it has run its command.
Answer(good) ==
  [is |-> pif, val |-> IF pif.cmd = "READ_PAK" THEN pak.data ELSE pifVal, answered |-> TRUE,
   ok |-> CASE pif.cmd = "EEP_STATUS" -> ~eep
            [] pif.cmd = "STATUS" -> Reachable /\ good
            [] OTHER -> good]

\* A write that failed its checksum may have been stored all the same.
PakAfter ==
  CASE pif.cmd \in {"STATUS", "QUERY", "RESET"} -> {[pak EXCEPT !.new = FALSE]}
    [] pif.cmd = "WRITE_PAK" /\ Reachable ->
         {[pak EXCEPT !.data = pifVal]} \cup (IF faults' = faults THEN {} ELSE {pak})
    [] OTHER -> {pak}

\* A DMA ends: the PIF takes the buffer, or runs its command and fills the buffer.
DmaEnds ==
  /\ dma.dir # "no" /\ dma' = [dma EXCEPT !.dir = "no"] /\ evt' = 1
  /\ IF dma.dir = "send"
     THEN /\ pif' = buf[dma.b].is /\ pifVal' = buf[dma.b].val
          /\ UNCHANGED << buf, pak, eep, lost, faults >>
     ELSE /\ \E good \in BOOLEAN : /\ Wire(good) /\ pak' \in PakAfter
                                   /\ buf' = [buf EXCEPT ![dma.b] = Answer(good)]
          /\ eep' = (eep \/ pif.cmd = "EEP_WRITE")
          /\ lost' = (lost \/ (eep /\ pif.cmd = "EEP_WRITE"))
          /\ UNCHANGED << pif, pifVal >>
  /\ UNCHANGED << token, thr, padVars, last, lastCh, read16, stale, known, opsOf, calls >>

------------------------------------------------------------------------------
(* The calls *)

\* No other thread is in a call while t polls, and none polls while t calls.  Nothing in
\* the code sees to it: a poll or query has given the token back when its answer comes.
Paired(t, op) ==
  \A u \in Threads \ {t} :
    thr[u].pc # "idle" => op \notin {"POLL", "QUERY"} /\ thr[u].op \notin {"POLL", "QUERY"}

\* The rule of use the checks assume: contquery.c asks that the start of a query and the
\* reading of its data be paired.
MayCall(t, op) == thr[t].pc = "idle" /\ calls < MaxCalls /\ (Overlapping \/ Paired(t, op))

\* A GameCube controller's motor is a flag that the next poll carries.
GcnMotor(t) ==
  /\ MayCall(t, "MOTOR") /\ "MOTOR" \in opsOf[t] /\ gcn
  /\ rumble' = ~rumble /\ calls' = calls + 1
  /\ UNCHANGED << token, maxPads, gcn, devVars, wireVars, thr, faults >>

\* The callers of STATUS_BARE ask for the status without the token.
Begin(t, op, ch, v) ==
  /\ MayCall(t, op) /\ ~(op = "MOTOR" /\ gcn)
  /\ (op = "WRITE_PAK") = (v # 0) /\ (op \in OneChannel \cup {"STATUS_BARE"}) = (ch # 0)
  /\ thr' = [thr EXCEPT ![t] = [Resting EXCEPT
       !.pc = IF op = "STATUS_BARE" THEN "send" ELSE "acs", !.op = op, !.ch = ch, !.val = v,
       !.x = CASE op = "STATUS_BARE" -> "STATUS"
               [] op \in {"EEP_PROBE", "EEP_READ", "EEP_WRITE"} -> "EEP_STATUS"
               [] op = "SETCH" -> "POLL"
               [] OTHER -> op]]
  /\ calls' = calls + 1
  /\ UNCHANGED << token, padVars, devVars, wireVars, faults >>

\* __osSiGetAccess; osContReset sends two commands unless the PIF holds the second.
GetAccess(t) ==
  /\ thr[t].pc = "acs" /\ token = 1 /\ token' = 0
  /\ thr' = [thr EXCEPT ![t].pc = IF thr[t].op = "SETCH" THEN "set" ELSE "send", ![t].own = TRUE,
                        ![t].x = IF @ = "RESET" /\ last # "RESET" THEN "ALL_RESET" ELSE @]
  /\ UNCHANGED << padVars, devVars, wireVars, calls, faults >>

Unwired == UNCHANGED << wireVars, maxPads, rumble, opsOf, calls >>

\* __osSiRelAccess, and the call returns.
Release(t) == token' = 1 /\ thr' = [thr EXCEPT ![t] = Resting]

Again(t, x, pc) == thr' = [thr EXCEPT ![t].x = x, ![t].pc = pc] /\ UNCHANGED token

SetCh(t) ==
  /\ thr[t].pc = "set" /\ last' = "END" /\ stale' = FALSE
  /\ maxPads' \in 1..2 /\ Release(t)
  /\ UNCHANGED << gcn, rumble, devVars, lastCh, buf, pif, pifVal, dma, evt, calls, faults >>

Parses(t, xs) == thr[t].pc = "parse" /\ thr[t].x \in xs

\* The answer in the buffer that t parses says that its command went well.
Good(t) == buf[BufferOf(thr[t].x)].ok

\* __osContGetInitData: the user may have plugged in another sort of controller.
PadTypes ==
  \/ UNCHANGED << gcn, faults >>
  \/ faults < MaxFaults /\ gcn' = ~gcn /\ faults' = faults + 1

\* osContGetReadData, osContGetQuery
PollDone(t) ==
  /\ Parses(t, {"POLL", "QUERY"})
  /\ IF thr[t].x = "QUERY" THEN PadTypes ELSE UNCHANGED << gcn, faults >>
  /\ thr' = [thr EXCEPT ![t] = Resting] /\ UNCHANGED token
  /\ Unwired /\ UNCHANGED devVars

ResetDone(t) ==
  /\ \/ Parses(t, {"ALL_RESET"}) /\ Again(t, "RESET", "send") /\ UNCHANGED << gcn, faults >>
     \/ Parses(t, {"RESET"}) /\ PadTypes /\ Release(t)
  /\ Unwired /\ UNCHANGED devVars

PakOps == {"READ_PAK", "WRITE_PAK"}

\* The call returns v, 0 for success.
Result(t, ok) ==
  /\ Release(t)
  /\ known' = IF thr[t].op # "WRITE_PAK" THEN known ELSE IF ok /\ Reachable THEN thr[t].val ELSE 0

\* A bad checksum has the status of the channel asked; without a controller the
\* call fails at once.
PakDone(t) ==
  /\ Parses(t, PakOps)
  /\ \/ Good(t) /\ Result(t, TRUE)
     \/ ~Good(t) /\ Again(t, "STATUS", "send") /\ UNCHANGED known
     \/ ~Good(t) /\ Result(t, FALSE)
  /\ Unwired /\ UNCHANGED << gcn, pak, eep, read16, lost, faults >>

\* __osPfsGetStatus on its own, or after a failed transfer, which is then tried again.
StatusDone(t) ==
  LET u == thr[t]
  IN /\ Parses(t, {"STATUS"})
     /\ \/ u.op = "STATUS" /\ Release(t) /\ UNCHANGED known
        \/ /\ u.op = "STATUS_BARE" /\ thr' = [thr EXCEPT ![t] = Resting]
           /\ UNCHANGED << token, known >>
        \/ /\ u.op \in PakOps /\ Good(t) /\ u.tries <= Retry
           /\ thr' = [thr EXCEPT ![t].tries = @ + 1, ![t].x = u.op, ![t].pc = "send"]
           /\ UNCHANGED << token, known >>
        \/ u.op \in PakOps /\ (Good(t) => u.tries > Retry) /\ Result(t, FALSE)
     /\ Unwired /\ UNCHANGED << gcn, pak, eep, read16, lost, faults >>

\* Mutant: each turn gives the token back.
PlugDoneReleases(t) ==
  /\ Parses(t, {"PLUG"})
  /\ IF Good(t) /\ thr[t].tries < 2
     THEN thr' = [thr EXCEPT ![t].tries = @ + 1, ![t].pc = "send"] /\ token' = 1
     ELSE Release(t)
  /\ Unwired /\ UNCHANGED << gcn, devVars, faults >>

\* osPfsIsPlug asks three times, or until every controller reports a bad checksum.
PlugDone(t) ==
  /\ Parses(t, {"PLUG"})
  /\ IF Good(t) /\ thr[t].tries < 2
     THEN thr' = [thr EXCEPT ![t].tries = @ + 1, ![t].pc = "send"] /\ UNCHANGED token
     ELSE Release(t)
  /\ Unwired /\ UNCHANGED << gcn, devVars, faults >>

OtherDone(t) ==
  /\ Parses(t, {"MOTOR", "CH_RESET"}) /\ Release(t)
  /\ Unwired /\ UNCHANGED << gcn, devVars, faults >>

\* A failed checksum of a voice transfer asks for the unit's status with
\* __osVoiceGetStatus, which takes the access token: this thread holds it.
VoiceDone(t) ==
  /\ Parses(t, Voice)
  /\ \/ Good(t) /\ Release(t)
     \/ ~Good(t) /\ Again(t, "VOICE_STATUS", "acs")
     \/ ~Good(t) /\ Release(t)
  /\ Unwired /\ UNCHANGED << gcn, devVars, faults >>

\* __osVoiceGetStatus: the answer is fetched again, the request is not sent again.
VoiceStatusDone(t) ==
  /\ Parses(t, {"VOICE_STATUS"}) /\ thr[t].op = "VOICE_STATUS"
  /\ IF ~Good(t) /\ thr[t].tries <= Retry
     THEN thr' = [thr EXCEPT ![t].tries = @ + 1, ![t].pc = "fetch"] /\ UNCHANGED token
     ELSE Release(t)
  /\ Unwired /\ UNCHANGED << gcn, devVars, faults >>

------------------------------------------------------------------------------
(* EEPROM *)

\* The read that comes before a write returns; the write goes by the status it has
\* from before.
ReadFirstReturns(t) ==
  /\ token' = 1
  /\ thr' = [thr EXCEPT ![t].sub = "done", ![t].own = FALSE, ![t].pc = "acs",
                        ![t].x = IF thr[t].busy THEN "EEP_STATUS" ELSE "EEP_WRITE"]

\* osEepromProbe, and a call that fails: no answer, or an address out of range.
EepRefused(t) ==
  /\ Parses(t, {"EEP_STATUS"}) /\ thr[t].tries = 0
  /\ \/ thr[t].sub = "no" /\ Release(t)
     \/ thr[t].sub = "read" /\ ReadFirstReturns(t)
  /\ read16' = IF thr[t].op = "EEP_PROBE" THEN FALSE ELSE read16
  /\ Unwired /\ UNCHANGED << gcn, pak, eep, lost, known, faults >>

\* Mutant: it is read with the token held.
EepReadsHolding(t) ==
  /\ Parses(t, {"EEP_STATUS"}) /\ thr[t].op = "EEP_WRITE" /\ thr[t].sub = "no"
  /\ Is16K /\ read16 /\ read16' = FALSE
  /\ thr' = [thr EXCEPT ![t].sub = "read", ![t].busy = ~Good(t), ![t].pc = "acs"]
  /\ Unwired /\ UNCHANGED << token, gcn, pak, eep, lost, known, faults >>

\* A write to a 16K EEPROM that was read before reads another block first, for
\* which it gives the token back and takes it again.
EepReadsFirst(t) ==
  /\ Parses(t, {"EEP_STATUS"}) /\ thr[t].op = "EEP_WRITE" /\ thr[t].sub = "no"
  /\ Is16K /\ read16 /\ read16' = FALSE
  /\ token' = 1
  /\ thr' = [thr EXCEPT ![t].sub = "read", ![t].busy = ~Good(t), ![t].own = FALSE, ![t].pc = "acs"]
  /\ Unwired /\ UNCHANGED << gcn, pak, eep, lost, known, faults >>

EepReads(t) == thr[t].op = "EEP_READ" \/ thr[t].sub = "read"

\* Mutant: the status is asked once only.
EepStatusOnce(t) ==
  /\ Parses(t, {"EEP_STATUS"}) /\ thr[t].op # "EEP_PROBE"
  /\ thr[t].op = "EEP_WRITE" /\ thr[t].sub = "no" => ~(Is16K /\ read16)
  /\ Again(t, IF EepReads(t) THEN "EEP_READ" ELSE "EEP_WRITE", "send")
  /\ read16' = (read16 \/ (EepReads(t) /\ Is16K))
  /\ Unwired /\ UNCHANGED << gcn, pak, eep, lost, known, faults >>

\* The status is asked until the EEPROM is no longer busy, after the first time
\* whatever the answer.
EepStatusDone(t) ==
  /\ Parses(t, {"EEP_STATUS"}) /\ thr[t].op # "EEP_PROBE"
  /\ thr[t].op = "EEP_WRITE" /\ thr[t].sub = "no" => ~(Is16K /\ read16)
  /\ UNCHANGED token
  /\ thr' = [thr EXCEPT ![t].pc = "send", ![t].tries = IF Good(t) THEN 0 ELSE 1,
                        ![t].x = CASE ~Good(t) -> "EEP_STATUS"
                                   [] Good(t) /\ EepReads(t) -> "EEP_READ"
                                   [] OTHER -> "EEP_WRITE"]
  /\ read16' = (read16 \/ (EepReads(t) /\ Is16K))
  /\ Unwired /\ UNCHANGED << gcn, pak, eep, lost, known, faults >>

EepDone(t) ==
  /\ Parses(t, {"EEP_READ", "EEP_WRITE"})
  /\ IF thr[t].sub = "read" THEN ReadFirstReturns(t) ELSE Release(t)
  /\ Unwired /\ UNCHANGED << gcn, devVars, faults >>

------------------------------------------------------------------------------
(* The user and the EEPROM *)

EepWritten ==
  /\ eep /\ eep' = FALSE
  /\ Unwired /\ UNCHANGED << token, thr, gcn, pak, read16, lost, known, faults >>

PakPulled ==
  /\ pak.in /\ faults < MaxFaults /\ faults' = faults + 1
  /\ pak' = [pak EXCEPT !.in = FALSE]
  /\ Unwired /\ UNCHANGED << token, thr, gcn, eep, read16, lost, known >>

PakPutIn ==
  /\ ~pak.in /\ known' = 0
  /\ \E v \in Values : pak' = [in |-> TRUE, new |-> TRUE, data |-> v]
  /\ Unwired /\ UNCHANGED << token, thr, gcn, eep, read16, lost, faults >>

Exchange(t) == Send(t) \/ SkipSend(t) \/ Sent(t) \/ Fetch(t) \/ Fetched(t)

Interpret(t) ==
  PollDone(t) \/ ResetDone(t) \/ PakDone(t) \/ StatusDone(t) \/ PlugDone(t) \/ OtherDone(t)
    \/ VoiceDone(t) \/ VoiceStatusDone(t) \/ EepStatusDone(t) \/ EepDone(t)

\* What thread t does once it is in a call and need not wait for the token.
Runs(t) == SetCh(t) \/ Exchange(t) \/ Interpret(t) \/ EepRefused(t) \/ EepReadsFirst(t)

Thread(t) ==
  \/ \E op \in opsOf[t], ch \in Channels \cup {0}, v \in Values \cup {0} : Begin(t, op, ch, v)
  \/ GcnMotor(t) \/ GetAccess(t) \/ Runs(t)

Next == (\E t \in Threads : Thread(t)) \/ DmaEnds \/ EepWritten \/ PakPulled \/ PakPutIn

Spec == Init /\ [][Next]_vars

\* A waiting thread gets the token in its turn (its priority decides in which).
Fairness ==
  /\ WF_vars(DmaEnds) /\ SF_vars(EepWritten)
  /\ \A t \in Threads : /\ WF_vars(Runs(t)) /\ SF_vars(GetAccess(t))

LiveSpec == Spec /\ Fairness

------------------------------------------------------------------------------
\* No DMA is refused, as long as no other thread calls while a poll or query is under
\* way: a thread that is about to start one finds the interface idle and no message of
\* an earlier one in the queue.  The callers of __osSiRawStartDma wait for its end in
\* any case.
NeverRefused ==
  \A t \in Threads : thr[t].pc \in {"send", "fetch"} => dma.dir = "no" /\ evt = 0

\* What a thread parses is the answer to the command of its call, packed for the
\* controllers and the channel it is parsed for, whatever calls came before and let
\* it skip the packing or the sending.  __osContChannelReset alone leaves a record
\* that is not true.
AnswersMatch ==
  \A t \in Threads : thr[t].pc = "parse" /\ ~stale =>
    LET b == buf[BufferOf(thr[t].x)]
    IN b.answered /\ b.is = [Packed(thr[t].x, thr[t].ch) EXCEPT !.rum = b.is.rum]

\* A block that is read is the one last written, unless another pak was put in or a
\* write failed since (__osContRamRead, __osContRamWrite and their retries).
ReadsBack ==
  \A t \in Threads :
    thr[t].pc = "parse" /\ thr[t].x = "READ_PAK" /\ Good(t) /\ known # 0 => buf["pfs"].val = known

\* Both: a thread gets the answer to its own question.
AnswersBelong == AnswersMatch /\ ReadsBack

\* The EEPROM is never sent a block while it stores another, when one thread uses it.
EepromWaits == ~lost

\* Every call returns.
Returns == \A t \in Threads : (thr[t].pc = "acs") ~> (thr[t].pc = "idle")

\* A GameCube controller is told of its motor by the poll after the call.
RumbleSent ==
  \A t \in Threads : thr[t].pc = "parse" /\ thr[t].x = "POLL" => buf["cont"].is.rum = (gcn /\ rumble)

\* No thread waits for the access token while it holds it.
NoSelfWait == \A t \in Threads : ~(thr[t].pc = "acs" /\ thr[t].own)
================================================================================
