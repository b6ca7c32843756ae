------------------------------- MODULE SiProofs -------------------------------
(***************************************************************************)
(* Theorems about SiController, for any threads, programs, channels and    *)
(* blocks, and any number of retries; and, at the end, about PadReader,    *)
(* for any positions, presses and maps.                                    *)
(***************************************************************************)
EXTENDS SiController, PadReader, TLAPS

Pcs == {"idle", "acs", "set", "send", "sent", "fetch", "fetched", "asked", "parse"}

PakVoice == {"READ_PAK", "WRITE_PAK", "VOICE_READ", "VOICE_WRITE"}
Skips    == {"POLL", "QUERY", "RESET"}              \* need not be sent again
Acts     == {"READ_PAK", "WRITE_PAK", "EEP_WRITE"}  \* do something each time they run
EepOps   == {"EEP_PROBE", "EEP_READ", "EEP_WRITE"}

CmdType == [cmd : Exchanges \cup {"NONE"}, ch : Channels \cup {0}, lay : (0..2) \X BOOLEAN, rum : BOOLEAN]
ThrType == [pc : Pcs, op : Ops, x : Exchanges, ch : Channels \cup {0}, tries : Nat,
            sub : {"no", "read", "done"}, busy : BOOLEAN, own : BOOLEAN,
            val : Values \cup {0}]
BufType == [is : CmdType, val : Values \cup {0}, answered : BOOLEAN, ok : BOOLEAN]

(* What the variables hold. *)
SiTypeOK ==
  /\ token \in {0, 1} /\ evt \in {0, 1} /\ maxPads \in 1..2
  /\ gcn \in BOOLEAN /\ rumble \in BOOLEAN
  /\ dma \in [dir : {"no", "send", "fetch"}, b : Buffers]
  /\ buf \in [Buffers -> BufType] /\ pif \in CmdType /\ pifVal \in Values \cup {0}
  /\ thr \in [Threads -> ThrType]
  /\ pak \in [in : BOOLEAN, new : BOOLEAN, data : Values \cup {0}]
  /\ eep \in BOOLEAN /\ read16 \in BOOLEAN /\ stale \in BOOLEAN /\ lost \in BOOLEAN
  /\ opsOf \in Programs

------------------------------------------------------------------------------
(* What the theorems assume of the programs *)

(* Nobody asks for a pak's status without the token. *)
NoBare == \A p \in Programs, t \in Threads : "STATUS_BARE" \notin p[t]

(* Where other threads may call while a poll or query is under way, a thread that polls
   is the only one that calls. *)
PollsPaired ==
  Overlapping =>
    \A p \in Programs, t, u \in Threads :
      t # u /\ p[t] \cap {"POLL", "QUERY"} # {} => p[u] = {}

(* Where a channel is reset, nobody writes to a pak. *)
NoResetOfWritten ==
  \A p \in Programs, t, u \in Threads : ~("CH_RESET" \in p[t] /\ "WRITE_PAK" \in p[u])

(* One thread uses the EEPROM. *)
OneEepromUser ==
  \A p \in Programs, t, u \in Threads : p[t] \cap EepOps # {} /\ p[u] \cap EepOps # {} => t = u

------------------------------------------------------------------------------
(* Exclusion *)

Inside(t) == thr[t].pc \notin {"idle", "acs"}

(* Which exchanges a call makes, and when. *)
CallFits(u) ==
  /\ u.op = "SETCH" => u.pc \in {"acs", "set"}
  /\ u.pc = "set" => u.op = "SETCH"
  /\ u.op \in {"POLL", "QUERY"} => u.x = u.op
  /\ u.x \in {"POLL", "QUERY"} => u.op \in {u.x, "SETCH"}
  /\ u.x \in {"ALL_RESET", "RESET"} => u.op = "RESET"
  /\ u.x \in PakOps \cup {"CH_RESET"} => u.op = u.x
  /\ u.op \in PakOps => u.x \in {u.op, "STATUS"}
  /\ u.x \in {"EEP_STATUS", "EEP_READ", "EEP_WRITE"} => u.op \in EepOps
  /\ u.x = "EEP_WRITE" => u.op = "EEP_WRITE" /\ u.sub # "read"
  /\ u.sub = "read" => u.op = "EEP_WRITE"
  /\ u.pc = "acs" => u.x # "ALL_RESET"
  /\ u.pc = "asked" => u.x \in {"POLL", "QUERY"}
  /\ u.pc = "fetched" => u.x \notin {"POLL", "QUERY"}

CallsFit ==
  \A t \in Threads : thr[t].pc # "idle" => thr[t].op \in opsOf[t] /\ CallFits(thr[t])

(* One thread at a time is in an exchange, and the token is away unless that thread
   polls, when no other is in a call. *)
Exclusive ==
  /\ \A t, u \in Threads : Inside(t) /\ Inside(u) => t = u
  /\ \A t \in Threads : token = 1 /\ Inside(t) => thr[t].pc \in {"asked", "parse"} /\ thr[t].op \in {"POLL", "QUERY"}
  /\ \A t, u \in Threads :
       t # u /\ thr[t].pc # "idle" /\ thr[t].op \in {"POLL", "QUERY"} => thr[u].pc = "idle"

InFlight(dir) == (dma.dir = dir /\ evt = 0) \/ (dma.dir = "no" /\ evt = 1)

(* A DMA belongs to the thread that waits for its end. *)
WireFits ==
  /\ \A t \in Threads : thr[t].pc = "sent" => InFlight("send")
  /\ \A t \in Threads : thr[t].pc \in {"fetched", "asked"} => InFlight("fetch")
  /\ \A t \in Threads : thr[t].pc \in {"sent", "fetched", "asked"} /\ dma.dir # "no" => dma.b = BufferOf(thr[t].x)
  /\ (\A t \in Threads : thr[t].pc \notin {"sent", "fetched", "asked"}) => dma.dir = "no" /\ evt = 0

SiInv == SiTypeOK /\ CallsFit /\ Exclusive /\ WireFits

------------------------------------------------------------------------------
(* The record of the last command *)

(* "is" is what packing x makes, for m controllers, of which g says whether the first
   is one of a GameCube, and whatever the state of its motor. *)
Matches(is, x, ch, m, g) ==
  /\ is.cmd = (IF x = "PLUG" THEN "QUERY" ELSE x)
  /\ is.ch = (IF x \in OneChannel THEN ch ELSE 0)
  /\ is.lay = CASE x = "POLL" -> << m, g >>
                [] x \in {"QUERY", "PLUG", "RESET"} -> << m, FALSE >>
                [] OTHER -> << 0, FALSE >>

Match(is, x, ch) == Matches(is, x, ch, maxPads, gcn)

(* __osContChannelReset left a record that says x while the command may be another. *)
Loose(is, x) == stale /\ last = x /\ x \in Skips \cup PakVoice /\ (is.cmd \in Acts => is.cmd = x)

Right(is, t) == Match(is, thr[t].x, thr[t].ch) \/ Loose(is, thr[t].x)

(* What the record says while x is in progress. *)
LastFits(t) ==
  LET x == thr[t].x
  IN /\ x \in PakVoice => last = x /\ lastCh = thr[t].ch
     /\ x \in {"STATUS", "MOTOR", "VOICE_STATUS"} => last = "END"
     /\ x = "PLUG" => last = "QUERY"
     /\ x = "CH_RESET" => stale \/ last = "END"
     /\ thr[t].pc \in {"fetched", "asked", "parse"} =>
          /\ x \in Skips \cup {"EEP_READ", "EEP_WRITE"} => last = x
          /\ x = "EEP_STATUS" => last = "END"

(* The command of a thread that is served is in its buffer, then in the PIF, then
   the answer is in the buffer. *)
Served(t) ==
  LET pc == thr[t].pc  b == BufferOf(thr[t].x)
  IN /\ Inside(t) /\ thr[t].x = "ALL_RESET" => last # "RESET"
     /\ pc \in {"sent", "fetch", "fetched", "asked", "parse"} => LastFits(t)
     /\ pc = "sent" /\ dma.dir # "no" => Right(buf[b].is, t)
     /\ (pc = "sent" /\ dma.dir = "no") \/ pc \in {"fetch", "fetched", "asked", "parse"} => Right(pif, t)
     /\ (pc \in {"fetched", "asked"} /\ dma.dir = "no") \/ pc = "parse" => buf[b].answered /\ buf[b].is = pif

Settled == \A t \in Threads : thr[t].pc \notin {"sent", "fetch"}

(* osContReset has sent its first command and not yet its second one. *)
MidReset ==
  \E t \in Threads : Inside(t) /\ (thr[t].x = "ALL_RESET" \/ (thr[t].x = "RESET" /\ thr[t].pc = "send"))

(* What may be skipped: the PIF holds the command the record names, and the buffer of
   the pak holds the one for the channel it names. *)
RecordFits ==
  /\ ~stale /\ Settled /\ last = "RESET" => Match(pif, "RESET", 0)
  /\ ~stale /\ Settled /\ ~MidReset /\ last \in {"POLL", "QUERY"} => Match(pif, last, 0)
  /\ ~stale /\ last \in PakVoice => Match(buf["pfs"].is, last, lastCh)
  /\ stale /\ Settled /\ pif.cmd \in Acts => last = pif.cmd
  /\ stale /\ buf["pfs"].is.cmd \in Acts => last = buf["pfs"].is.cmd

RecordInv == SiInv /\ (\A t \in Threads : Served(t)) /\ RecordFits

------------------------------------------------------------------------------
(* What a pak holds, and the EEPROM *)

Has(t, x) == thr[t].x = x /\ Good(t)
               /\ (thr[t].pc = "parse" \/ (thr[t].pc = "fetched" /\ dma.dir = "no"))

(* The block of a write is in the buffer of the paks, then in the PIF. *)
BlockFits(t) ==
  LET pc == thr[t].pc
  IN thr[t].x = "WRITE_PAK" =>
       /\ pc = "sent" /\ dma.dir # "no" => buf["pfs"].val = thr[t].val
       /\ (pc = "sent" /\ dma.dir = "no") \/ pc = "fetch" \/ (pc = "fetched" /\ dma.dir # "no") =>
            pifVal = thr[t].val

KnownFits ==
  /\ stale => \E t \in Threads : "CH_RESET" \in opsOf[t]
  /\ known # 0 => \E t \in Threads : "WRITE_PAK" \in opsOf[t]
  /\ known # 0 /\ (\A t \in Threads : Inside(t) => thr[t].op # "WRITE_PAK") => pak.data = known
  /\ \A t \in Threads : BlockFits(t)
  /\ \A t \in Threads : Has(t, "READ_PAK") /\ known # 0 => buf["pfs"].val = known
  /\ \A t \in Threads : Has(t, "WRITE_PAK") /\ Reachable => thr[t].val = pak.data

KnownInv == RecordInv /\ KnownFits

EepFits ==
  /\ ~lost
  /\ \A t \in Threads :
       /\ thr[t].x = "EEP_WRITE" /\ (thr[t].pc \in {"acs", "send", "sent", "fetch"}
                                       \/ (thr[t].pc = "fetched" /\ dma.dir # "no")) => ~eep
       /\ thr[t].pc # "idle" /\ thr[t].sub = "read" /\ ~thr[t].busy => ~eep
       /\ Has(t, "EEP_STATUS") => ~eep

EepInv == RecordInv /\ EepFits

------------------------------------------------------------------------------
USE DEF wireVars, padVars, devVars

(* What a step of t that interprets an answer does. *)
ParseEffect(t) ==
  LET u == thr[t]  v == thr'[t]
  IN /\ u.pc = "parse"
     /\ thr' \in [Threads -> ThrType] /\ \A w \in Threads \ {t} : thr'[w] = thr[w]
     /\ UNCHANGED << last, lastCh, buf, pif, pifVal, dma, evt, stale >>
     /\ UNCHANGED << maxPads, rumble, opsOf, pak, eep, lost >>
     /\ token' \in {0, 1} /\ read16' \in BOOLEAN
     /\ gcn' \in BOOLEAN /\ (gcn' = gcn \/ u.x \in {"QUERY", "RESET"})
     /\ v.pc # "idle" => v.op = u.op /\ CallFits(v)
     /\ \/ v.pc \in {"idle", "acs"} /\ token' = 1 /\ u.x \notin {"POLL", "QUERY"}
        \/ v.pc = "acs" /\ token' = token /\ u.x \notin {"POLL", "QUERY"}
        \/ v.pc = "idle" /\ token' = token /\ u.x \in {"POLL", "QUERY"}
        \/ /\ v.pc = "send" /\ token' = token /\ u.x \notin {"POLL", "QUERY"}
           /\ v.x # "ALL_RESET" /\ (v.x = "RESET" => u.x = "ALL_RESET")
        \/ v.pc = "fetch" /\ token' = token /\ u.x = "VOICE_STATUS" /\ v.x = u.x /\ v.ch = u.ch
     /\ u.x = "ALL_RESET" => v.pc = "send" /\ v.x = "RESET"
     /\ known' = known \/ u.op = "WRITE_PAK"
     /\ u.op = "WRITE_PAK" => IF v.pc \in {"idle", "acs"}
                              THEN known' = 0 \/ (u.x = "WRITE_PAK" /\ Good(t) /\ Reachable /\ known' = u.val)
                              ELSE known' = known
     /\ v.pc # "idle" /\ v.x = "EEP_WRITE" =>
          (u.x = "EEP_STATUS" /\ Good(t)) \/ (u.sub = "read" /\ ~u.busy)
     /\ v.pc # "idle" /\ v.sub = "read" =>
          (u.sub = "read" /\ v.busy = u.busy) \/ (u.x = "EEP_STATUS" /\ v.busy = ~Good(t))

LEMMA ReleaseType ==
  ASSUME thr \in [Threads -> ThrType], NEW t \in Threads, thr' = [thr EXCEPT ![t] = Resting]
  PROVE  /\ thr' \in [Threads -> ThrType] /\ thr'[t].pc = "idle"
         /\ \A w \in Threads \ {t} : thr'[w] = thr[w]
BY DEF Resting, ThrType, Pcs, Ops, Exchanges

LEMMA AgainType ==
  ASSUME thr \in [Threads -> ThrType], NEW t \in Threads, NEW x \in Exchanges, NEW pc \in Pcs,
         thr' = [thr EXCEPT ![t].x = x, ![t].pc = pc]
  PROVE  /\ thr' \in [Threads -> ThrType]
         /\ \A w \in Threads \ {t} : thr'[w] = thr[w]
         /\ thr'[t] = [thr[t] EXCEPT !.x = x, !.pc = pc]
         /\ thr'[t].x = x /\ thr'[t].pc = pc /\ thr'[t].op = thr[t].op /\ thr'[t].ch = thr[t].ch
         /\ thr'[t].sub = thr[t].sub /\ thr'[t].busy = thr[t].busy
BY DEF ThrType

LEMMA OnceMoreType ==
  ASSUME thr \in [Threads -> ThrType], NEW t \in Threads, NEW pc \in Pcs,
         thr' = [thr EXCEPT ![t].tries = @ + 1, ![t].pc = pc]
  PROVE  /\ thr' \in [Threads -> ThrType]
         /\ \A w \in Threads \ {t} : thr'[w] = thr[w]
         /\ thr'[t].x = thr[t].x /\ thr'[t].pc = pc /\ thr'[t].op = thr[t].op /\ thr'[t].ch = thr[t].ch
         /\ thr'[t].sub = thr[t].sub /\ thr'[t].busy = thr[t].busy
<1>1. thr[t] \in ThrType /\ thr[t].tries + 1 \in Nat
  BY DEF ThrType
<1>2. thr' = [thr EXCEPT ![t] = [[thr[t] EXCEPT !.tries = @ + 1] EXCEPT !.pc = pc]]
  OBVIOUS
<1>3. [[thr[t] EXCEPT !.tries = @ + 1] EXCEPT !.pc = pc] \in ThrType
  BY <1>1 DEF ThrType
<1> QED BY <1>1, <1>2, <1>3 DEF ThrType

LEMMA ParseStep ==
  ASSUME NoBare, SiTypeOK, CallsFit, NEW t \in Threads, Interpret(t) \/ EepRefused(t) \/ EepReadsFirst(t)
  PROVE  ParseEffect(t)
<1> DEFINE u == thr[t]  v == thr'[t]
<1>0. /\ thr \in [Threads -> ThrType] /\ u \in ThrType /\ token \in {0, 1} /\ read16 \in BOOLEAN /\ gcn \in BOOLEAN
  BY DEF SiTypeOK
<1>1. u.pc = "parse"
  BY DEF Interpret, EepRefused, EepReadsFirst, PollDone, ResetDone, PakDone, StatusDone, PlugDone, OtherDone,
         VoiceDone, VoiceStatusDone, EepStatusDone, EepDone, Parses
<1>2. CallFits(u) /\ u.op # "STATUS_BARE"
  BY <1>1 DEF CallsFit, NoBare, SiTypeOK
<1>3. ASSUME thr' = [thr EXCEPT ![t] = Resting], Unwired, UNCHANGED << pak, eep, lost >>, read16' \in BOOLEAN,
             gcn' \in BOOLEAN, gcn' = gcn \/ u.x \in {"QUERY", "RESET"}, u.x # "ALL_RESET",
             \/ token' = 1 /\ u.x \notin {"POLL", "QUERY"}
             \/ token' = token /\ u.x \in {"POLL", "QUERY"},
             IF u.op = "WRITE_PAK"
             THEN known' = 0 \/ (u.x = "WRITE_PAK" /\ Good(t) /\ Reachable /\ known' = u.val)
             ELSE known' = known
      PROVE  ParseEffect(t)
  <2>1. /\ thr' \in [Threads -> ThrType] /\ v.pc = "idle"
        /\ \A w \in Threads \ {t} : thr'[w] = thr[w]
    BY <1>0, <1>3, ReleaseType
  <2>2. token' \in {0, 1}
    BY <1>0, <1>3
  <2>3. /\ UNCHANGED << last, lastCh, buf, pif, pifVal, dma, evt, stale >>
        /\ UNCHANGED << maxPads, rumble, opsOf >>
    BY <1>3 DEF Unwired
  <2> QED BY <1>1, <1>3, <2>1, <2>2, <2>3 DEF ParseEffect
<1>4. ASSUME UNCHANGED << gcn, pak, eep, lost, known, token >>, Unwired, read16' \in BOOLEAN,
             thr' \in [Threads -> ThrType], \A w \in Threads \ {t} : thr'[w] = thr[w],
             v.op = u.op, CallFits(v), u.x \notin {"POLL", "QUERY"}, u.x = "ALL_RESET" => v.x = "RESET",
             v.pc = "send", v.x # "ALL_RESET", v.x = "RESET" => u.x = "ALL_RESET",
             v.sub = u.sub, v.busy = u.busy, v.x = "EEP_WRITE" => u.x = "EEP_STATUS" /\ Good(t)
      PROVE  ParseEffect(t)
  <2>1. /\ UNCHANGED << last, lastCh, buf, pif, pifVal, dma, evt, stale >>
        /\ UNCHANGED << maxPads, rumble, opsOf >>
    BY <1>4 DEF Unwired
  <2> QED BY <1>0, <1>1, <1>4, <2>1 DEF ParseEffect
<1>5. CASE PollDone(t)
  <2>1. /\ thr' = [thr EXCEPT ![t] = Resting] /\ Unwired /\ UNCHANGED << pak, eep, lost, read16, known, token >>
        /\ u.x \in {"POLL", "QUERY"} /\ gcn' \in BOOLEAN /\ (gcn' = gcn \/ u.x = "QUERY")
    BY <1>0, <1>5 DEF PollDone, Parses, PadTypes
  <2>2. u.op # "WRITE_PAK"
    BY <1>2, <2>1 DEF CallFits
  <2> QED BY <1>0, <1>3, <2>1, <2>2
<1>6. CASE ResetDone(t)
  <2>1. Unwired /\ UNCHANGED << pak, eep, lost, read16, known >>
    BY <1>6 DEF ResetDone
  <2>2. CASE Parses(t, {"ALL_RESET"}) /\ Again(t, "RESET", "send") /\ UNCHANGED << gcn, faults >>
    <3>1. u.x = "ALL_RESET" /\ thr' = [thr EXCEPT ![t].x = "RESET", ![t].pc = "send"] /\ UNCHANGED << token, gcn >>
      BY <2>2 DEF Parses, Again
    <3>0. "RESET" \in Exchanges /\ "send" \in Pcs /\ thr \in [Threads -> ThrType]
      BY <1>0 DEF Exchanges, Pcs
    <3>2. /\ thr' \in [Threads -> ThrType] /\ \A w \in Threads \ {t} : thr'[w] = thr[w]
          /\ v.x = "RESET" /\ v.pc = "send" /\ v.op = u.op /\ v.sub = u.sub /\ v.busy = u.busy
      BY <3>0, <3>1, AgainType
    <3>3. CallFits(v)
      BY <1>2, <3>1, <3>2 DEF CallFits, PakOps
    <3> HIDE DEF u, v
    <3> QED BY <1>0, <1>4, <2>1, <3>1, <3>2, <3>3
  <2>3. CASE Parses(t, {"RESET"}) /\ PadTypes /\ Release(t)
    <3>1. /\ u.x = "RESET" /\ gcn' \in BOOLEAN /\ token' = 1 /\ thr' = [thr EXCEPT ![t] = Resting]
      BY <1>0, <2>3 DEF Parses, PadTypes, Release
    <3>2. u.op # "WRITE_PAK"
      BY <1>2, <3>1 DEF CallFits
    <3> QED BY <1>0, <1>3, <2>1, <3>1, <3>2
  <2> QED BY <1>6, <2>2, <2>3 DEF ResetDone
<1>7. CASE PakDone(t)
  <2>1. Unwired /\ UNCHANGED << gcn, pak, eep, read16, lost >> /\ u.x \in PakOps
    BY <1>7 DEF PakDone, Parses
  <2>2. u.op = u.x
    BY <1>2, <2>1 DEF CallFits
  <2>3. ASSUME NEW ok, Result(t, ok), ok => Good(t)
        PROVE  ParseEffect(t)
    <3>1. /\ token' = 1 /\ thr' = [thr EXCEPT ![t] = Resting]
          /\ known' = IF u.op # "WRITE_PAK" THEN known ELSE IF ok /\ Reachable THEN u.val ELSE 0
      BY <2>3 DEF Result, Release
    <3> QED BY <1>0, <1>3, <2>1, <2>2, <2>3, <3>1 DEF PakOps
  <2>4. CASE Again(t, "STATUS", "send") /\ UNCHANGED known
    <3>1. thr' = [thr EXCEPT ![t].x = "STATUS", ![t].pc = "send"] /\ UNCHANGED << token, known >>
      BY <2>4 DEF Again
    <3>2. /\ thr' \in [Threads -> ThrType] /\ \A w \in Threads \ {t} : thr'[w] = thr[w]
          /\ v.x = "STATUS" /\ v.pc = "send" /\ v.op = u.op /\ v.sub = u.sub /\ v.busy = u.busy
      BY <1>0, <3>1, AgainType DEF Exchanges, Pcs
    <3>3. CallFits(v) /\ u.x \notin {"POLL", "QUERY", "ALL_RESET"}
      BY <1>2, <2>1, <2>2, <3>1, <3>2 DEF CallFits, PakOps
    <3> HIDE DEF u, v
    <3> QED BY <1>0, <1>4, <2>1, <3>1, <3>2, <3>3
  <2> QED BY <1>7, <2>3, <2>4 DEF PakDone
<1>8. CASE StatusDone(t)
  <2>1. Unwired /\ UNCHANGED << gcn, pak, eep, read16, lost >> /\ u.x = "STATUS"
    BY <1>8 DEF StatusDone, Parses
  <2>2. CASE u.op = "STATUS" /\ Release(t) /\ UNCHANGED known
    BY <1>0, <1>3, <2>1, <2>2 DEF Release
  <2>3. CASE /\ u.op \in PakOps
             /\ thr' = [thr EXCEPT ![t].tries = @ + 1, ![t].x = u.op, ![t].pc = "send"]
             /\ UNCHANGED << token, known >>
    <3>0. u.op \in Exchanges /\ "send" \in Pcs /\ thr \in [Threads -> ThrType]
      BY <1>0, <2>3 DEF Exchanges, Pcs, PakOps
    <3>1. /\ thr' \in [Threads -> ThrType] /\ \A w \in Threads \ {t} : thr'[w] = thr[w]
          /\ v.x = u.op /\ v.pc = "send" /\ v.op = u.op /\ v.sub = u.sub /\ v.busy = u.busy
      <4>1. ASSUME NEW y \in Exchanges, y = u.op
            PROVE  /\ thr' \in [Threads -> ThrType] /\ \A w \in Threads \ {t} : thr'[w] = thr[w]
                   /\ v.x = y /\ v.pc = "send" /\ v.op = u.op /\ v.sub = u.sub /\ v.busy = u.busy
        <5>1. thr' = [thr EXCEPT ![t].tries = @ + 1, ![t].x = y, ![t].pc = "send"]
          BY <2>3, <4>1
        <5> DEFINE z == [[[thr[t] EXCEPT !.tries = @ + 1] EXCEPT !.x = y] EXCEPT !.pc = "send"]
        <5>2. thr' = [thr EXCEPT ![t] = z]
          BY <5>1
        <5>3. z \in ThrType /\ z.x = y /\ z.pc = "send" /\ z.op = u.op /\ z.sub = u.sub /\ z.busy = u.busy
          <6>1. thr[t].tries + 1 \in Nat
            BY <1>0 DEF ThrType
          <6> QED BY <1>0, <6>1, <3>0 DEF ThrType
        <5>4. thr \in [Threads -> ThrType]
          BY <1>0
        <5> HIDE DEF z
        <5> QED BY <5>2, <5>3, <5>4
      <4> QED BY <3>0, <4>1
    <3>2. CallFits(v) /\ v.x \notin {"RESET", "ALL_RESET", "EEP_WRITE"}
      BY <1>2, <2>1, <2>3, <3>1 DEF CallFits, PakOps
    <3> HIDE DEF u, v
    <3> QED BY <1>0, <1>4, <2>1, <2>3, <3>1, <3>2
  <2>4. CASE u.op \in PakOps /\ Result(t, FALSE)
    <3>1. /\ token' = 1 /\ thr' = [thr EXCEPT ![t] = Resting]
          /\ known' = IF u.op # "WRITE_PAK" THEN known ELSE 0
      BY <2>4 DEF Result, Release
    <3> QED BY <1>0, <1>3, <2>1, <3>1
  <2> QED BY <1>2, <1>8, <2>2, <2>3, <2>4 DEF StatusDone
<1>9. CASE PlugDone(t)
  <2>1. Unwired /\ UNCHANGED << gcn, pak, eep, read16, lost, known >> /\ u.x = "PLUG"
    BY <1>9 DEF PlugDone, Parses
  <2>2. CASE thr' = [thr EXCEPT ![t].tries = @ + 1, ![t].pc = "send"] /\ UNCHANGED token
    <3>1. /\ thr' \in [Threads -> ThrType] /\ \A w \in Threads \ {t} : thr'[w] = thr[w]
          /\ v.x = "PLUG" /\ v.pc = "send" /\ v.op = u.op /\ v.sub = u.sub /\ v.busy = u.busy
      <4>1. "send" \in Pcs /\ thr \in [Threads -> ThrType]
        BY <1>0 DEF Pcs
      <4> QED BY <4>1, <2>1, <2>2, OnceMoreType
    <3>2. CallFits(v)
      BY <1>1, <1>2, <2>1, <3>1 DEF CallFits, PakOps
    <3> HIDE DEF u, v
    <3> QED BY <1>0, <1>4, <2>1, <2>2, <3>1, <3>2
  <2>3. CASE Release(t)
    <3>1. u.op # "WRITE_PAK"
      BY <1>2, <2>1 DEF CallFits, PakOps
    <3> QED BY <1>0, <1>3, <2>1, <2>3, <3>1 DEF Release
  <2> QED BY <1>9, <2>2, <2>3 DEF PlugDone
<1>10. CASE OtherDone(t)
  <2>1. Unwired /\ UNCHANGED << gcn, pak, eep, read16, lost, known >> /\ u.x \in {"MOTOR", "CH_RESET"} /\ Release(t)
    BY <1>10 DEF OtherDone, Parses
  <2>2. u.op # "WRITE_PAK"
    BY <1>2, <2>1 DEF CallFits, PakOps
  <2> QED BY <1>0, <1>3, <2>1, <2>2 DEF Release
<1>11. CASE VoiceDone(t)
  <2>1. Unwired /\ UNCHANGED << gcn, pak, eep, read16, lost, known >> /\ u.x \in Voice
    BY <1>11 DEF VoiceDone, Parses
  <2>2. u.op # "WRITE_PAK" /\ u.op \notin {"POLL", "QUERY", "SETCH"} /\ u.op \notin PakOps
    BY <1>1, <1>2, <2>1 DEF CallFits, PakOps, Voice
  <2>3. CASE Release(t)
    BY <1>0, <1>3, <2>1, <2>2, <2>3 DEF Release, Voice
  <2>4. CASE Again(t, "VOICE_STATUS", "acs")
    <3>1. thr' = [thr EXCEPT ![t].x = "VOICE_STATUS", ![t].pc = "acs"] /\ UNCHANGED token
      BY <2>4 DEF Again
    <3>2. /\ thr' \in [Threads -> ThrType] /\ \A w \in Threads \ {t} : thr'[w] = thr[w]
          /\ v.x = "VOICE_STATUS" /\ v.pc = "acs" /\ v.op = u.op /\ v.sub = u.sub /\ v.busy = u.busy
      BY <1>0, <3>1, AgainType DEF Exchanges, Pcs
    <3>3. CallFits(v)
      BY <1>2, <2>2, <3>2 DEF CallFits, PakOps
    <3>4. /\ UNCHANGED << last, lastCh, buf, pif, pifVal, dma, evt, stale >>
          /\ UNCHANGED << maxPads, rumble, opsOf >>
      BY <2>1 DEF Unwired
    <3>5. u.x \notin {"POLL", "QUERY", "ALL_RESET"}
      BY <2>1 DEF Voice
    <3> HIDE DEF u, v
    <3> QED BY <1>0, <1>1, <2>1, <2>2, <3>1, <3>2, <3>3, <3>4, <3>5 DEF ParseEffect, u, v
  <2> QED BY <1>11, <2>3, <2>4 DEF VoiceDone
<1>12. CASE VoiceStatusDone(t)
  <2>1. Unwired /\ UNCHANGED << gcn, pak, eep, read16, lost, known >> /\ u.x = "VOICE_STATUS" /\ u.op = "VOICE_STATUS"
    BY <1>12 DEF VoiceStatusDone, Parses
  <2>2. CASE thr' = [thr EXCEPT ![t].tries = @ + 1, ![t].pc = "fetch"] /\ UNCHANGED token
    <3>1. /\ thr' \in [Threads -> ThrType] /\ \A w \in Threads \ {t} : thr'[w] = thr[w]
          /\ v.x = u.x /\ v.pc = "fetch" /\ v.op = u.op /\ v.sub = u.sub /\ v.busy = u.busy /\ v.ch = u.ch
      <4>1. "fetch" \in Pcs /\ thr \in [Threads -> ThrType]
        BY <1>0 DEF Pcs
      <4> QED BY <4>1, <2>2, OnceMoreType
    <3>2. CallFits(v)
      BY <1>2, <2>1, <3>1 DEF CallFits, PakOps
    <3>3. /\ UNCHANGED << last, lastCh, buf, pif, pifVal, dma, evt, stale >>
          /\ UNCHANGED << maxPads, rumble, opsOf >>
      BY <2>1 DEF Unwired
    <3> QED BY <1>0, <1>1, <2>1, <2>2, <3>1, <3>2, <3>3 DEF ParseEffect
  <2>3. CASE Release(t)
    BY <1>0, <1>3, <2>1, <2>3 DEF Release
  <2> QED BY <1>12, <2>2, <2>3 DEF VoiceStatusDone
<1>13. ASSUME ReadFirstReturns(t), u.sub = "read", Unwired, UNCHANGED << gcn, pak, eep, lost, known >>,
              read16' \in BOOLEAN, u.x \in {"EEP_STATUS", "EEP_READ"}
       PROVE  ParseEffect(t)
  <2>1. /\ token' = 1
        /\ thr' \in [Threads -> ThrType] /\ \A w \in Threads \ {t} : thr'[w] = thr[w]
        /\ v.x = (IF u.busy THEN "EEP_STATUS" ELSE "EEP_WRITE")
        /\ v.pc = "acs" /\ v.op = u.op /\ v.sub = "done"
    BY <1>0, <1>13 DEF ReadFirstReturns, ThrType, Exchanges, Pcs
  <2>2. CallFits(v) /\ u.op = "EEP_WRITE"
    BY <1>2, <1>13, <2>1 DEF CallFits, PakOps, EepOps
  <2>3. /\ UNCHANGED << last, lastCh, buf, pif, pifVal, dma, evt, stale >>
        /\ UNCHANGED << maxPads, rumble, opsOf >>
    BY <1>13 DEF Unwired
  <2>4. v.x = "EEP_WRITE" => ~u.busy
    BY <2>1
  <2> HIDE DEF u, v
  <2> QED BY <1>0, <1>1, <1>13, <2>1, <2>2, <2>3, <2>4 DEF ParseEffect, u, v
<1>14. CASE EepRefused(t)
  <2>1. /\ Unwired /\ UNCHANGED << gcn, pak, eep, lost, known >> /\ u.x = "EEP_STATUS" /\ read16' \in BOOLEAN
        /\ (u.sub = "no" /\ Release(t)) \/ (u.sub = "read" /\ ReadFirstReturns(t))
    BY <1>0, <1>14 DEF EepRefused, Parses
  <2>2. u.op # "WRITE_PAK"
    BY <1>2, <2>1 DEF CallFits, PakOps
  <2>3. CASE Release(t)
    BY <1>0, <1>3, <2>1, <2>2, <2>3 DEF Release
  <2> QED BY <1>13, <2>1, <2>3
<1>15. CASE EepReadsFirst(t)
  <2>1. /\ Unwired /\ UNCHANGED << gcn, pak, eep, lost, known >> /\ u.x = "EEP_STATUS" /\ read16' \in BOOLEAN
        /\ u.op = "EEP_WRITE" /\ u.sub = "no" /\ token' = 1
    BY <1>0, <1>15 DEF EepReadsFirst, Parses
  <2>2. /\ thr' \in [Threads -> ThrType] /\ \A w \in Threads \ {t} : thr'[w] = thr[w]
        /\ v.x = u.x /\ v.pc = "acs" /\ v.op = u.op /\ v.sub = "read" /\ v.busy = ~Good(t)
    BY <1>0, <1>15 DEF EepReadsFirst, ThrType, Pcs
  <2>3. CallFits(v)
    BY <1>2, <2>1, <2>2 DEF CallFits, PakOps
  <2>4. /\ UNCHANGED << last, lastCh, buf, pif, pifVal, dma, evt, stale >>
        /\ UNCHANGED << maxPads, rumble, opsOf >>
    BY <2>1 DEF Unwired
  <2> HIDE DEF u, v
  <2> QED BY <1>0, <1>1, <2>1, <2>2, <2>3, <2>4 DEF ParseEffect, u, v
<1>16. CASE EepStatusDone(t)
  <2>1. /\ Unwired /\ UNCHANGED << gcn, pak, eep, lost, known, token >> /\ u.x = "EEP_STATUS" /\ u.op # "EEP_PROBE"
    BY <1>0, <1>16 DEF EepStatusDone, Parses
  <2>2. read16' \in BOOLEAN
    BY <1>0, <1>16 DEF EepStatusDone
  <2>3. /\ thr' \in [Threads -> ThrType] /\ \A w \in Threads \ {t} : thr'[w] = thr[w]
        /\ v.pc = "send" /\ v.op = u.op /\ v.sub = u.sub /\ v.busy = u.busy
        /\ v.x \in {"EEP_STATUS", "EEP_READ", "EEP_WRITE"}
        /\ v.x = "EEP_WRITE" => Good(t) /\ ~EepReads(t)
    BY <1>0, <1>16 DEF EepStatusDone, ThrType, Pcs, Exchanges
  <2>4. CallFits(v)
    BY <1>2, <2>1, <2>3 DEF CallFits, PakOps, EepReads, EepOps
  <2> HIDE DEF u, v
  <2> QED BY <1>0, <1>4, <2>1, <2>2, <2>3, <2>4
<1>17. CASE EepDone(t)
  <2>1. /\ Unwired /\ UNCHANGED << gcn, devVars >> /\ u.x \in {"EEP_READ", "EEP_WRITE"}
        /\ (u.sub # "read" /\ Release(t)) \/ (u.sub = "read" /\ ReadFirstReturns(t))
    BY <1>17 DEF EepDone, Parses
  <2>2. u.op # "WRITE_PAK" /\ (u.sub = "read" => u.x = "EEP_READ")
    BY <1>2, <2>1 DEF CallFits, PakOps
  <2>3. CASE Release(t)
    BY <1>0, <1>3, <2>1, <2>2, <2>3 DEF Release
  <2> QED BY <1>0, <1>13, <2>1, <2>2, <2>3
<1> QED BY <1>5, <1>6, <1>7, <1>8, <1>9, <1>10, <1>11, <1>12, <1>14, <1>15, <1>16, <1>17 DEF Interpret

------------------------------------------------------------------------------
(* What the other steps do *)

SameCall(u, v) ==
  /\ v.op = u.op /\ v.x = u.x /\ v.ch = u.ch /\ v.sub = u.sub /\ v.busy = u.busy
  /\ v.val = u.val

(* Only thread t changes. *)
OnlyOne(t) == thr' \in [Threads -> ThrType] /\ \A w \in Threads \ {t} : thr'[w] = thr[w]

Moves(t, pc) == OnlyOne(t) /\ thr'[t].pc = pc /\ SameCall(thr[t], thr'[t])

BeginEffect(t) ==
  LET v == thr'[t]
  IN /\ thr[t].pc = "idle" /\ OnlyOne(t)
     /\ v.pc = "acs" /\ v.op \in opsOf[t] /\ CallFits(v) /\ Paired(t, v.op)
     /\ v.x # "EEP_WRITE" /\ v.sub = "no" /\ v.x # "ALL_RESET"
     /\ v.op # "SETCH" => v.x = v.op \/ v.x = "EEP_STATUS"

AccessEffect(t) ==
  LET u == thr[t]  v == thr'[t]
  IN /\ u.pc = "acs" /\ token = 1 /\ token' = 0 /\ OnlyOne(t)
     /\ v.pc = (IF u.op = "SETCH" THEN "set" ELSE "send")
     /\ v.x = (IF u.x = "RESET" /\ last # "RESET" THEN "ALL_RESET" ELSE u.x)
     /\ v.op = u.op /\ v.ch = u.ch /\ v.sub = u.sub /\ v.busy = u.busy

DmaSends ==
  /\ dma.dir = "send" /\ pif' = buf[dma.b].is /\ pifVal' = buf[dma.b].val
  /\ UNCHANGED << thr, buf, pak, eep, lost, faults >>

DmaAnswers ==
  LET n == buf'[dma.b]
  IN /\ dma.dir = "fetch" /\ UNCHANGED << thr, pif, pifVal >>
     /\ buf' \in [Buffers -> BufType] /\ \A b \in Buffers \ {dma.b} : buf'[b] = buf[b]
     /\ n.is = pif /\ n.answered /\ n.val = IF pif.cmd = "READ_PAK" THEN pak.data ELSE pifVal
     /\ pif.cmd \in PakOps /\ n.ok => Reachable
     /\ pif.cmd = "EEP_STATUS" => n.ok <=> ~eep
     /\ pak' \in [in : BOOLEAN, new : BOOLEAN, data : Values \cup {0}]
     /\ pif.cmd = "WRITE_PAK" \/ pak'.data = pak.data
     /\ pif.cmd = "WRITE_PAK" => pak'.in = pak.in /\ pak'.new = pak.new
     /\ pif.cmd = "WRITE_PAK" /\ ~Reachable => pak' = pak
     /\ pif.cmd = "WRITE_PAK" /\ n.ok => pak'.data = pifVal
     /\ eep' = (eep \/ pif.cmd = "EEP_WRITE")
     /\ lost' = (lost \/ (eep /\ pif.cmd = "EEP_WRITE"))

DmaFetches(t) ==
  /\ DmaAnswers /\ OnlyOne(t)
  /\ thr[t].pc \in {"fetched", "asked"} /\ BufferOf(thr[t].x) = dma.b

LEMMA MoveType ==
  ASSUME SiTypeOK, NEW t \in Threads, NEW pc \in Pcs, Goes(t, pc)
  PROVE  Moves(t, pc)
BY DEF SiTypeOK, Goes, Moves, OnlyOne, SameCall, ThrType

LEMMA BeginStep ==
  ASSUME NoBare, PollsPaired, SiTypeOK, CallsFit, NEW t \in Threads, NEW op \in opsOf[t], NEW ch \in Channels \cup {0},
         NEW v \in Values \cup {0}, Begin(t, op, ch, v)
  PROVE  BeginEffect(t)
<1>1. op \in Ops /\ op # "STATUS_BARE"
  BY SiAssumption DEF SiTypeOK, SiAssumption, NoBare
<1> DEFINE x == CASE op = "STATUS_BARE" -> "STATUS"
                  [] op \in {"EEP_PROBE", "EEP_READ", "EEP_WRITE"} -> "EEP_STATUS"
                  [] op = "SETCH" -> "POLL"
                  [] OTHER -> op
            n == [Resting EXCEPT !.pc = "acs", !.op = op, !.ch = ch, !.val = v, !.x = x]
<1>2. x \in Exchanges
  BY <1>1 DEF Exchanges, Ops
<1>3. /\ op = "SETCH" => x = "POLL"
      /\ op \in EepOps => x = "EEP_STATUS"
      /\ op \notin EepOps /\ op # "SETCH" => x = op
  BY <1>1 DEF EepOps
<1>4. thr' = [thr EXCEPT ![t] = n]
  BY <1>1 DEF Begin
<1> HIDE DEF x
<1>5. n \in ThrType
  BY <1>1, <1>2 DEF ThrType, Resting, Pcs
<1>6. n.pc = "acs" /\ n.op = op /\ n.x = x /\ n.sub = "no"
  BY DEF Resting
<1> HIDE DEF n
<1>7. thr \in [Threads -> ThrType] /\ thr'[t] = n /\ OnlyOne(t)
  BY <1>4, <1>5 DEF SiTypeOK, OnlyOne
<1>8. CallFits(n) /\ n.x # "EEP_WRITE" /\ n.x # "ALL_RESET" /\ (n.op # "SETCH" => n.x = n.op \/ n.x = "EEP_STATUS")
  BY <1>1, <1>3, <1>6 DEF CallFits, EepOps, PakOps, Ops
<1>9. thr[t].pc = "idle" /\ Paired(t, op)
  <2>1. thr[t].pc = "idle" /\ (Overlapping \/ Paired(t, op))
    BY DEF Begin, MayCall
  <2>2. ASSUME Overlapping, NEW w \in Threads \ {t}, thr[w].pc # "idle"
        PROVE  op \notin {"POLL", "QUERY"} /\ thr[w].op \notin {"POLL", "QUERY"}
    <3>1. thr[w].op \in opsOf[w] /\ opsOf \in Programs
      BY <2>2 DEF CallsFit, SiTypeOK
    <3>2. opsOf[t] \cap {"POLL", "QUERY"} = {} /\ opsOf[w] \cap {"POLL", "QUERY"} = {}
      BY <2>2, <3>1 DEF PollsPaired
    <3> QED BY <3>1, <3>2
  <2> QED BY <2>1, <2>2 DEF Paired
<1> QED BY <1>6, <1>7, <1>8, <1>9 DEF BeginEffect

LEMMA AccessStep ==
  ASSUME SiTypeOK, NEW t \in Threads, GetAccess(t)
  PROVE  AccessEffect(t)
<1>1. thr \in [Threads -> ThrType] /\ thr[t] \in ThrType
  BY DEF SiTypeOK
<1> DEFINE pc == IF thr[t].op = "SETCH" THEN "set" ELSE "send"
           x == IF thr[t].x = "RESET" /\ last # "RESET" THEN "ALL_RESET" ELSE thr[t].x
           z == [[[thr[t] EXCEPT !.pc = pc] EXCEPT !.own = TRUE] EXCEPT !.x = x]
<1>2. thr' = [thr EXCEPT ![t] = z]
  BY <1>1 DEF GetAccess, ThrType
<1>3. pc \in Pcs /\ x \in Exchanges
  BY <1>1 DEF Pcs, Exchanges, ThrType
<1> HIDE DEF pc, x
<1>4. z \in ThrType /\ z.pc = pc /\ z.x = x /\ z.op = thr[t].op /\ z.ch = thr[t].ch /\ z.sub = thr[t].sub /\ z.busy = thr[t].busy
  BY <1>1, <1>3 DEF ThrType
<1> HIDE DEF z
<1>5. thr'[t] = z /\ OnlyOne(t)
  BY <1>1, <1>2, <1>4 DEF OnlyOne
<1> QED BY <1>4, <1>5 DEF AccessEffect, GetAccess, pc, x

LEMMA BufferIs ==
  ASSUME NEW is \in CmdType, NEW val \in Values \cup {0}, NEW answered \in BOOLEAN, NEW ok \in BOOLEAN
  PROVE  [is |-> is, val |-> val, answered |-> answered, ok |-> ok] \in BufType
BY DEF BufType

LEMMA DmaStep ==
  ASSUME SiTypeOK, DmaEnds
  PROVE  /\ dma.dir # "no" /\ dma' = [dir |-> "no", b |-> dma.b] /\ evt' = 1 /\ thr' = thr
         /\ UNCHANGED << token, maxPads, gcn, rumble, last, lastCh, read16, stale, known, opsOf >>
         /\ DmaSends \/ DmaAnswers
<1>1. /\ dma.dir # "no" /\ dma' = [dir |-> "no", b |-> dma.b] /\ evt' = 1 /\ thr' = thr
      /\ UNCHANGED << token, maxPads, gcn, rumble, last, lastCh, read16, stale, known, opsOf >>
  BY DEF SiTypeOK, DmaEnds
<1>2. CASE dma.dir = "send"
  BY <1>1, <1>2 DEF DmaEnds, DmaSends
<1>3. CASE dma.dir # "send"
  <2>1. dma.dir = "fetch"
    BY <1>1, <1>3 DEF SiTypeOK
  <2>2. PICK good \in BOOLEAN : /\ Wire(good) /\ pak' \in PakAfter
                                /\ buf' = [buf EXCEPT ![dma.b] = Answer(good)]
    BY <1>3 DEF DmaEnds
  <2> DEFINE ok == CASE pif.cmd = "EEP_STATUS" -> ~eep
                     [] pif.cmd = "STATUS" -> Reachable /\ good
                     [] OTHER -> good
             val == IF pif.cmd = "READ_PAK" THEN pak.data ELSE pifVal
             z == [is |-> pif, val |-> val, answered |-> TRUE, ok |-> ok]
  <2>3. /\ pak \in [in : BOOLEAN, new : BOOLEAN, data : Values \cup {0}] /\ dma.b \in Buffers
        /\ eep \in BOOLEAN /\ pif \in CmdType /\ pifVal \in Values \cup {0} /\ buf \in [Buffers -> BufType]
    BY DEF SiTypeOK
  <2>4. z = Answer(good)
    BY DEF Answer
  <2>5. ok \in BOOLEAN /\ val \in Values \cup {0}
    BY <2>3 DEF Reachable
  <2>6. /\ pif.cmd \in PakOps /\ ok => Reachable
        /\ pif.cmd = "EEP_STATUS" => ok <=> ~eep
        /\ pif.cmd = "WRITE_PAK" => ok <=> good
    BY <2>2, <2>3 DEF Wire, PakOps
  <2> HIDE DEF ok, val
  <2>7. /\ z \in BufType /\ z.is = pif /\ z.val = val /\ z.answered /\ z.ok = ok
    BY <2>3, <2>5, BufferIs
  <2> HIDE DEF z
  <2>8. buf' \in [Buffers -> BufType] /\ buf'[dma.b] = z /\ \A b \in Buffers \ {dma.b} : buf'[b] = buf[b]
    BY <2>2, <2>3, <2>4, <2>7
  <2>9. /\ eep' = (eep \/ pif.cmd = "EEP_WRITE")
        /\ lost' = (lost \/ (eep /\ pif.cmd = "EEP_WRITE"))
        /\ UNCHANGED << pif, pifVal >>
    BY <1>3 DEF DmaEnds
  <2>10. /\ pak' \in [in : BOOLEAN, new : BOOLEAN, data : Values \cup {0}]
         /\ pif.cmd = "WRITE_PAK" \/ pak'.data = pak.data
         /\ pif.cmd = "WRITE_PAK" => pak'.in = pak.in /\ pak'.new = pak.new
         /\ pif.cmd = "WRITE_PAK" /\ ~Reachable => pak' = pak
    <3>1. pak' \in {pak, [pak EXCEPT !.new = FALSE], [pak EXCEPT !.data = pifVal]}
      BY <2>2 DEF PakAfter
    <3>2. pif.cmd # "WRITE_PAK" => pak' \in {pak, [pak EXCEPT !.new = FALSE]}
      BY <2>2 DEF PakAfter
    <3>3. pif.cmd = "WRITE_PAK" => pak' \in {pak, [pak EXCEPT !.data = pifVal]}
      BY <2>2 DEF PakAfter
    <3>4. pif.cmd = "WRITE_PAK" /\ ~Reachable => pak' = pak
      BY <2>2 DEF PakAfter
    <3> QED BY <2>3, <3>1, <3>2, <3>3, <3>4
  <2>11. pif.cmd = "WRITE_PAK" /\ ok => pak'.data = pifVal
    <3>1. SUFFICES ASSUME pif.cmd = "WRITE_PAK", ok PROVE pak'.data = pifVal
      OBVIOUS
    <3>2. good /\ Reachable /\ UNCHANGED faults
      BY <2>2, <2>6, <3>1 DEF Wire, PakOps
    <3>3. pak' = [pak EXCEPT !.data = pifVal]
      BY <2>2, <3>1, <3>2 DEF PakAfter
    <3> QED BY <2>3, <3>3
  <2>12. DmaAnswers
    BY <1>1, <2>1, <2>6, <2>7, <2>8, <2>9, <2>10, <2>11 DEF DmaAnswers, val
  <2> QED BY <1>1, <2>12
<1> QED BY <1>2, <1>3

------------------------------------------------------------------------------
(* No DMA is refused *)

InfoCall(op) == op \in {"POLL", "QUERY"}
Waits(t) == thr[t].pc \in {"sent", "fetched", "asked"}

LEMMA LayoutType == \A m \in 0..2, g \in BOOLEAN : << m, g >> \in (0..2) \X BOOLEAN
OBVIOUS

LEMMA PackedType ==
  ASSUME SiTypeOK, NEW x \in Exchanges, NEW ch \in Channels \cup {0}
  PROVE  Packed(x, ch) \in CmdType
<1> DEFINE l == CASE x = "POLL" -> << maxPads, gcn >>
                  [] x \in {"QUERY", "PLUG", "RESET"} -> << maxPads, FALSE >>
                  [] OTHER -> << 0, FALSE >>
           c == IF x = "PLUG" THEN "QUERY" ELSE x
           h == IF x \in OneChannel THEN ch ELSE 0
           r == x = "POLL" /\ gcn /\ rumble
<1>1. maxPads \in 0..2 /\ gcn \in BOOLEAN
  BY DEF SiTypeOK
<1>2. l \in (0..2) \X BOOLEAN
  <2>1. l = << maxPads, gcn >> \/ l = << maxPads, FALSE >> \/ l = << 0, FALSE >>
    BY Zenon
  <2>2. << maxPads, gcn >> \in (0..2) \X BOOLEAN /\ << maxPads, FALSE >> \in (0..2) \X BOOLEAN
          /\ << 0, FALSE >> \in (0..2) \X BOOLEAN
    <3>1. 0 \in 0..2 /\ FALSE \in BOOLEAN
      OBVIOUS
    <3> QED BY <1>1, <3>1, LayoutType, Zenon
  <2> QED BY <2>1, <2>2
<1>3. c \in Exchanges /\ h \in Channels \cup {0} /\ r \in BOOLEAN
  BY DEF Exchanges
<1>4. Packed(x, ch) = [cmd |-> c, ch |-> h, lay |-> l, rum |-> r]
  BY DEF Packed
<1> HIDE DEF l, c, h, r
<1> QED BY <1>2, <1>3, <1>4 DEF CmdType

LEMMA SendType ==
  ASSUME SiTypeOK, NEW t \in Threads, Send(t)
  PROVE  /\ SiTypeOK' /\ Moves(t, "sent")
         /\ thr[t].x = "WRITE_PAK" => buf'["pfs"].val = thr[t].val
<1> DEFINE x == thr[t].x  ch == thr[t].ch  b == BufferOf(x)
<1>1. x \in Exchanges /\ ch \in Channels \cup {0} /\ b \in Buffers
  BY DEF SiTypeOK, ThrType, BufferOf, Exchanges, Buffers
<1>2. Packed(x, ch) \in CmdType
  BY <1>1, PackedType
<1>3. Moves(t, "sent")
  BY MoveType DEF Send, Pcs
<1>4. PICK n \in BufType :
        /\ buf' = [buf EXCEPT ![b] = n] /\ ~n.answered
        /\ n.is = IF Packs(x, ch) THEN Packed(x, ch) ELSE buf[b].is
        /\ x = "WRITE_PAK" => n.val = thr[t].val
  <2>1. /\ buf \in [Buffers -> BufType] /\ thr[t].val \in Values \cup {0} /\ buf[b].val \in Values \cup {0}
    BY <1>1 DEF SiTypeOK, ThrType, BufType
  <2>2. CASE Packs(x, ch)
    <3> DEFINE n == [is |-> Packed(x, ch), val |-> Block(t, 0), answered |-> FALSE, ok |-> FALSE]
    <3>1. buf' = [buf EXCEPT ![b] = n]
      BY <2>2 DEF Send
    <3>2. Block(t, 0) \in Values \cup {0} /\ (x = "WRITE_PAK" => Block(t, 0) = thr[t].val)
      BY <2>1 DEF Block
    <3>3. n \in BufType
      <4>1. FALSE \in BOOLEAN
        OBVIOUS
      <4> QED BY <1>2, <3>2, <4>1, BufferIs
    <3>4. n.is = Packed(x, ch) /\ n.val = Block(t, 0) /\ ~n.answered
      OBVIOUS
    <3> HIDE DEF n
    <3> QED BY <2>2, <3>1, <3>2, <3>3, <3>4
  <2>3. CASE ~Packs(x, ch)
    <3> DEFINE n == [[buf[b] EXCEPT !.answered = FALSE] EXCEPT !.val = Block(t, buf[b].val)]
    <3>1. buf' = [buf EXCEPT ![b] = n]
      BY <1>1, <2>1, <2>3 DEF Send, BufType
    <3>2. /\ Block(t, buf[b].val) \in Values \cup {0}
          /\ x = "WRITE_PAK" => Block(t, buf[b].val) = thr[t].val
      BY <2>1 DEF Block
    <3>3. n \in BufType /\ n.is = buf[b].is /\ n.val = Block(t, buf[b].val) /\ ~n.answered
      BY <1>1, <2>1, <3>2 DEF BufType
    <3> HIDE DEF n
    <3> QED BY <2>3, <3>1, <3>2, <3>3
  <2> QED BY <2>2, <2>3
<1>5. dma' \in {[dir |-> "send", b |-> b], dma} /\ stale' \in BOOLEAN
  BY DEF Send, RawStartDma, SiTypeOK
<1>6. UNCHANGED << token, evt, maxPads, gcn, rumble, pif, pifVal, pak, eep, read16, lost, opsOf >>
  BY DEF Send
<1> HIDE DEF x, ch, b
<1>7. buf' \in [Buffers -> BufType]
  BY <1>1, <1>4 DEF SiTypeOK
<1>8. dma' \in [dir : {"no", "send", "fetch"}, b : Buffers]
  BY <1>1, <1>5 DEF SiTypeOK
<1>9. thr[t].x = "WRITE_PAK" => buf'["pfs"].val = thr[t].val
  <2>1. thr[t].x = "WRITE_PAK" => b = "pfs" /\ x = "WRITE_PAK"
    BY DEF x, b, BufferOf
  <2> QED BY <1>1, <1>4, <2>1 DEF SiTypeOK
<1> QED BY <1>3, <1>5, <1>6, <1>7, <1>8, <1>9 DEF SiTypeOK, Moves, OnlyOne

LEMMA FetchType ==
  ASSUME SiTypeOK, NEW t \in Threads, Fetch(t)
  PROVE  /\ SiTypeOK'
         /\ Moves(t, IF thr[t].x \in {"POLL", "QUERY"} THEN "asked" ELSE "fetched")
         /\ token' = IF thr[t].x \in {"POLL", "QUERY"} THEN 1 ELSE token
<1>1. thr \in [Threads -> ThrType] /\ thr[t].x \in Exchanges /\ BufferOf(thr[t].x) \in Buffers
  BY DEF SiTypeOK, ThrType, BufferOf, Exchanges, Buffers
<1>2. ASSUME thr[t].x \in {"POLL", "QUERY"}
      PROVE  Moves(t, "asked") /\ token' = 1
  <2> DEFINE z == [[thr[t] EXCEPT !.pc = "asked"] EXCEPT !.own = FALSE]
  <2>1. thr' = [thr EXCEPT ![t] = z] /\ token' = 1
    BY <1>1, <1>2 DEF Fetch
  <2>2. z \in ThrType /\ SameCall(thr[t], z) /\ z.pc = "asked"
    BY <1>1 DEF ThrType, Pcs, SameCall
  <2> HIDE DEF z
  <2> QED BY <1>1, <1>2, <2>1, <2>2 DEF Moves, OnlyOne
<1>3. dma' \in [dir : {"no", "send", "fetch"}, b : Buffers] /\ stale' \in BOOLEAN
  BY <1>1 DEF Fetch, RawStartDma, SiTypeOK
<1>4. UNCHANGED << evt, buf, maxPads, gcn, rumble, pif, pifVal, pak, eep, read16, lost, opsOf >>
  BY DEF Fetch
<1>5. ASSUME thr[t].x \notin {"POLL", "QUERY"}
      PROVE  Moves(t, "fetched") /\ token' = token
  BY <1>5, MoveType DEF Fetch, Pcs
<1>6. Moves(t, IF thr[t].x \in {"POLL", "QUERY"} THEN "asked" ELSE "fetched")
  BY <1>2, <1>5
<1>7. token' = IF thr[t].x \in {"POLL", "QUERY"} THEN 1 ELSE token
  BY <1>2, <1>5
<1>8. token' \in {0, 1}
  BY <1>7 DEF SiTypeOK
<1> QED BY <1>8, <1>3, <1>4, <1>6, <1>7 DEF SiTypeOK, Moves, OnlyOne

LEMMA DmaType ==
  ASSUME SiTypeOK, DmaEnds
  PROVE  SiTypeOK'
<1>1. PICK d \in Buffers : d = dma.b
  BY DEF SiTypeOK
<1>2. dma' \in [dir : {"no", "send", "fetch"}, b : Buffers] /\ evt' \in {0, 1}
  BY <1>1, DmaStep
<1>3. UNCHANGED << token, maxPads, gcn, rumble, read16, stale, opsOf >>
  BY DmaStep
<1>4. CASE DmaSends
  <2>1. buf[d].is \in CmdType /\ buf[d].val \in Values \cup {0}
    BY DEF SiTypeOK, BufType
  <2> QED BY <1>1, <1>2, <1>3, <1>4, <2>1 DEF SiTypeOK, DmaSends
<1>5. CASE DmaAnswers
  <2>1. eep' \in BOOLEAN /\ lost' \in BOOLEAN
    BY <1>5 DEF DmaAnswers, SiTypeOK
  <2> QED BY <1>2, <1>3, <1>5, <2>1 DEF SiTypeOK, DmaAnswers
<1> QED BY <1>4, <1>5, DmaStep

LEMMA SetChStep ==
  ASSUME SiTypeOK, NEW t \in Threads, SetCh(t)
  PROVE  SiTypeOK' /\ OnlyOne(t) /\ thr'[t].pc = "idle" /\ token' = 1
<1>1. thr' = [thr EXCEPT ![t] = Resting] /\ token' = 1 /\ stale' = FALSE /\ maxPads' \in 1..2
  BY DEF SetCh, Release
<1>2. OnlyOne(t) /\ thr'[t].pc = "idle"
  BY <1>1, ReleaseType DEF SiTypeOK, OnlyOne
<1>3. UNCHANGED << evt, dma, buf, gcn, rumble, pif, pifVal, pak, eep, read16, lost, opsOf >>
  BY DEF SetCh
<1>4. thr' \in [Threads -> ThrType] /\ token' \in {0, 1} /\ stale' \in BOOLEAN
  BY <1>1, <1>2 DEF OnlyOne
<1> QED BY <1>1, <1>2, <1>3, <1>4 DEF SiTypeOK

Others(t) == \A w \in Threads \ {t} : ~Inside(w)

LEMMA Alone ==
  ASSUME SiInv, NEW t \in Threads
  PROVE  /\ Inside(t) => Others(t)
         /\ Inside(t) /\ token = 1 => InfoCall(thr[t].op) /\ thr[t].pc \in {"asked", "parse"}
         /\ thr[t].pc = "acs" /\ token = 1 => Others(t)
         /\ thr[t].pc \in {"send", "fetch"} => dma.dir = "no" /\ evt = 0
BY DEF SiInv, Exclusive, Others, Inside, InfoCall, WireFits

LEMMA OneStep ==
  ASSUME SiInv, NEW t \in Threads, OnlyOne(t), opsOf' = opsOf,
         thr'[t].pc # "idle" => CallFits(thr'[t]) /\ thr[t].pc # "idle" /\ thr'[t].op = thr[t].op,
         thr'[t].pc \notin {"idle", "acs"} => Others(t),
         thr'[t].pc \notin {"idle", "acs"} /\ token' = 1 => thr'[t].pc \in {"asked", "parse"} /\ InfoCall(thr'[t].op),
         token' = 1 => token = 1 \/ Others(t)
  PROVE  CallsFit' /\ Exclusive'
<1>1. \A w \in Threads : w # t => thr'[w] = thr[w]
  BY DEF OnlyOne
<1>2. CallsFit'
  BY <1>1 DEF CallsFit, SiInv
<1>3. \A w, u \in Threads : Inside(w)' /\ Inside(u)' => w = u
  BY <1>1 DEF SiInv, Exclusive, Inside, Others
<1>4. \A w \in Threads : token' = 1 /\ Inside(w)' => thr'[w].pc \in {"asked", "parse"} /\ thr'[w].op \in {"POLL", "QUERY"}
  BY <1>1 DEF SiInv, Exclusive, Inside, Others, InfoCall
<1>5. \A w, u \in Threads : w # u /\ thr'[w].pc # "idle" /\ thr'[w].op \in {"POLL", "QUERY"} => thr'[u].pc = "idle"
  BY <1>1 DEF SiInv, Exclusive
<1> QED BY <1>2, <1>3, <1>4, <1>5 DEF Exclusive

LEMMA WireKept ==
  ASSUME WireFits, NEW t \in Threads, OnlyOne(t), ~Waits(t), ~Waits(t)', UNCHANGED << dma, evt >>
  PROVE  WireFits'
<1>1. \A w \in Threads : w # t => thr'[w] = thr[w]
  BY DEF OnlyOne
<1> QED BY <1>1 DEF WireFits, Waits, InFlight

LEMMA WireOfOne ==
  ASSUME NEW t \in Threads, OnlyOne(t), Others(t),
         thr'[t].pc = "sent" => InFlight("send")',
         thr'[t].pc \in {"fetched", "asked"} => InFlight("fetch")',
         Waits(t)' /\ dma'.dir # "no" => dma'.b = BufferOf(thr'[t].x),
         ~Waits(t)' => dma'.dir = "no" /\ evt' = 0
  PROVE  WireFits'
<1>1. \A w \in Threads : w # t => thr'[w].pc \in {"idle", "acs"}
  BY DEF OnlyOne, Others, Inside
<1> QED BY <1>1 DEF WireFits, Waits

LEMMA InvSend ==
  ASSUME SiInv, NEW t \in Threads, Send(t)
  PROVE  SiInv'
<1>1. SiTypeOK' /\ Moves(t, "sent")
  BY SendType DEF SiInv
<1>2. thr[t].pc = "send" /\ UNCHANGED << token, opsOf, evt >>
  BY DEF Send
<1>3. Inside(t) /\ Others(t) /\ token # 1 /\ dma.dir = "no" /\ evt = 0 /\ CallFits(thr[t])
  BY <1>2, Alone DEF Inside, SiInv, CallsFit
<1>4. dma' = [dir |-> "send", b |-> BufferOf(thr[t].x)]
  BY <1>3 DEF Send, RawStartDma
<1>5. CallFits(thr'[t])
  BY <1>1, <1>2, <1>3 DEF CallFits, Moves, SameCall, PakOps, EepOps
<1>6. CallsFit' /\ Exclusive'
  BY <1>1, <1>2, <1>3, <1>5, OneStep DEF Moves, SameCall
<1>7. WireFits'
  BY <1>1, <1>2, <1>3, <1>4, WireOfOne DEF Moves, SameCall, Waits, InFlight
<1> QED BY <1>1, <1>6, <1>7 DEF SiInv

LEMMA InvSent ==
  ASSUME SiInv, NEW t \in Threads, Sent(t) \/ Fetched(t)
  PROVE  SiInv' /\ Moves(t, IF thr[t].pc = "sent" THEN "fetch" ELSE "parse") /\ dma.dir = "no"
<1> DEFINE pc == IF thr[t].pc = "sent" THEN "fetch" ELSE "parse"
<1>1. Waits(t) /\ Goes(t, pc) /\ pc \in Pcs /\ evt = 1 /\ evt' = 0
  BY DEF Sent, Fetched, Pcs, Waits
<1>2. UNCHANGED << token, dma, opsOf, maxPads, gcn, rumble, buf, pif, pifVal, pak, eep, read16, stale, lost >>
  BY DEF Sent, Fetched
<1>3. Inside(t) /\ Others(t) /\ CallFits(thr[t]) /\ thr[t].pc # "idle"
      /\ (token = 1 => InfoCall(thr[t].op) /\ thr[t].pc = "asked")
  BY <1>1, Alone DEF Inside, SiInv, CallsFit, Waits
<1>4. dma.dir = "no"
  BY <1>1 DEF SiInv, WireFits, InFlight, Waits
<1> HIDE DEF pc
<1>5. Moves(t, pc)
  BY <1>1, MoveType DEF SiInv
<1>6. SiTypeOK'
  BY <1>1, <1>2, <1>5 DEF SiInv, SiTypeOK, Moves, OnlyOne
<1>7. pc \in {"fetch", "parse"} /\ (thr[t].pc = "asked" => pc = "parse")
  BY <1>1 DEF pc, Waits
<1>8. CallFits(thr'[t])
  BY <1>3, <1>5, <1>7, <1>1 DEF CallFits, Moves, SameCall, PakOps, EepOps, Waits
<1>9. CallsFit' /\ Exclusive'
  BY <1>2, <1>3, <1>5, <1>7, <1>8, OneStep DEF Moves, SameCall
<1>10. WireFits'
  BY <1>1, <1>2, <1>3, <1>4, <1>5, <1>7, WireOfOne DEF Moves, Waits
<1> QED BY <1>4, <1>5, <1>6, <1>9, <1>10 DEF SiInv, pc

LEMMA InvSkip ==
  ASSUME SiInv, NEW t \in Threads, SkipSend(t)
  PROVE  SiInv' /\ Moves(t, "fetch")
<1>1. thr[t].pc = "send" /\ Goes(t, "fetch")
      /\ UNCHANGED << token, dma, opsOf, evt, maxPads, gcn, rumble, buf, pif, pifVal, pak, eep, read16, stale, lost >>
  BY DEF SkipSend
<1>2. Moves(t, "fetch")
  BY <1>1, MoveType DEF Pcs, SiInv
<1>3. SiTypeOK'
  BY <1>1, <1>2 DEF SiInv, SiTypeOK, Moves, OnlyOne
<1>4. Inside(t) /\ Others(t) /\ token # 1 /\ CallFits(thr[t])
  BY <1>1, Alone DEF Inside, SiInv, CallsFit
<1>5. CallFits(thr'[t])
  BY <1>1, <1>2, <1>4 DEF CallFits, Moves, SameCall, PakOps, EepOps
<1>6. CallsFit' /\ Exclusive'
  BY <1>1, <1>2, <1>4, <1>5, OneStep DEF Moves, SameCall
<1>7. WireFits'
  BY <1>1, <1>2, WireKept DEF SiInv, Moves, Waits
<1> QED BY <1>2, <1>3, <1>6, <1>7 DEF SiInv

LEMMA InvFetch ==
  ASSUME SiInv, NEW t \in Threads, Fetch(t)
  PROVE  SiInv'
<1> DEFINE pc == IF thr[t].x \in {"POLL", "QUERY"} THEN "asked" ELSE "fetched"
<1>1. /\ SiTypeOK' /\ Moves(t, pc)
      /\ token' = IF thr[t].x \in {"POLL", "QUERY"} THEN 1 ELSE token
  BY FetchType DEF SiInv
<1>2. thr[t].pc = "fetch" /\ UNCHANGED << opsOf, evt >>
  BY DEF Fetch
<1>3. Inside(t) /\ Others(t) /\ token # 1 /\ dma.dir = "no" /\ evt = 0 /\ CallFits(thr[t])
  BY <1>2, Alone DEF Inside, SiInv, CallsFit
<1>4. dma' = [dir |-> "fetch", b |-> BufferOf(thr[t].x)]
  BY <1>3 DEF Fetch, RawStartDma
<1>5. /\ thr[t].x \in {"POLL", "QUERY"} => pc = "asked" /\ token' = 1 /\ InfoCall(thr[t].op)
      /\ thr[t].x \notin {"POLL", "QUERY"} => pc = "fetched" /\ token' = token
      /\ pc \in {"asked", "fetched"}
  BY <1>1, <1>2, <1>3 DEF CallFits, InfoCall
<1> HIDE DEF pc
<1>6. CallFits(thr'[t])
  BY <1>1, <1>2, <1>3, <1>5 DEF CallFits, Moves, SameCall, PakOps, EepOps
<1>7. CallsFit' /\ Exclusive'
  BY <1>1, <1>2, <1>3, <1>5, <1>6, OneStep DEF Moves, SameCall
<1>8. WireFits'
  BY <1>1, <1>2, <1>3, <1>4, <1>5, WireOfOne DEF Moves, SameCall, Waits, InFlight
<1> QED BY <1>1, <1>7, <1>8 DEF SiInv

LEMMA InvDma ==
  ASSUME SiInv, DmaEnds
  PROVE  SiInv'
<1>1. SiTypeOK'
  BY DmaType DEF SiInv
<1>2. dma.dir # "no" /\ dma'.dir = "no" /\ evt' = 1 /\ UNCHANGED << token, thr, opsOf >>
  BY DmaStep DEF SiInv
<1>4. CallsFit'
  BY <1>2 DEF SiInv, CallsFit
<1>5. Exclusive'
  BY <1>2 DEF SiInv, Exclusive, Inside
<1>6. WireFits'
  BY <1>2 DEF SiInv, WireFits, InFlight
<1> QED BY <1>1, <1>4, <1>5, <1>6 DEF SiInv

LEMMA InvBegin ==
  ASSUME SiInv, NEW t \in Threads, BeginEffect(t),
         UNCHANGED << token, padVars, devVars, wireVars >>
  PROVE  SiInv'
<1>1. thr' \in [Threads -> ThrType] /\ thr[t].pc = "idle" /\ thr'[t].pc = "acs" /\ Paired(t, thr'[t].op)
      /\ CallFits(thr'[t]) /\ thr'[t].op \in opsOf[t]
  BY DEF BeginEffect, OnlyOne
<1>2. \A w \in Threads : w # t => thr'[w] = thr[w]
  BY DEF BeginEffect, OnlyOne
<1>3. SiTypeOK'
  BY <1>1 DEF SiInv, SiTypeOK
<1>4. CallsFit'
  BY <1>1, <1>2 DEF SiInv, CallsFit
<1>5. Exclusive'
  BY <1>1, <1>2 DEF SiInv, Exclusive, Inside, Paired
<1>6. WireFits'
  BY <1>1, WireKept DEF SiInv, BeginEffect, Waits
<1> QED BY <1>3, <1>4, <1>5, <1>6 DEF SiInv

LEMMA InvAccess ==
  ASSUME SiInv, NEW t \in Threads, AccessEffect(t),
         UNCHANGED << padVars, devVars, wireVars >>
  PROVE  SiInv'
<1>1. thr' \in [Threads -> ThrType] /\ thr[t].pc = "acs" /\ token = 1 /\ token' = 0 /\ thr'[t].pc \in {"set", "send"}
      /\ thr'[t].op = thr[t].op /\ OnlyOne(t)
  BY DEF AccessEffect, OnlyOne
<1>2. Others(t) /\ CallFits(thr[t])
  BY <1>1, Alone DEF SiInv, CallsFit
<1>3. SiTypeOK'
  BY <1>1 DEF SiInv, SiTypeOK
<1>4. CallFits(thr'[t])
  BY <1>1, <1>2 DEF AccessEffect, CallFits, PakOps, EepOps
<1>5. CallsFit' /\ Exclusive'
  BY <1>1, <1>2, <1>4, OneStep
<1>6. WireFits'
  BY <1>1, WireKept DEF SiInv, Waits
<1> QED BY <1>3, <1>5, <1>6 DEF SiInv

LEMMA InvParse ==
  ASSUME SiInv, NEW t \in Threads, ParseEffect(t)
  PROVE  SiInv'
<1>1. /\ OnlyOne(t) /\ thr[t].pc = "parse" /\ UNCHANGED << opsOf, dma, evt, maxPads, rumble, buf, pif, pifVal, pak, eep, lost, stale >>
      /\ token' \in {0, 1} /\ read16' \in BOOLEAN /\ gcn' \in BOOLEAN
  BY DEF ParseEffect, OnlyOne
<1>2. Inside(t) /\ Others(t) /\ (token = 1 => InfoCall(thr[t].op)) /\ CallFits(thr[t])
  BY <1>1, Alone DEF Inside, SiInv, CallsFit
<1>3. SiTypeOK'
  BY <1>1 DEF SiInv, SiTypeOK, OnlyOne
<1>4. /\ thr'[t].pc \in {"idle", "acs", "send", "fetch"}
      /\ thr'[t].pc # "idle" => thr'[t].op = thr[t].op /\ CallFits(thr'[t])
      /\ thr'[t].pc \in {"send", "fetch"} => token' = token /\ ~InfoCall(thr[t].op)
  BY <1>2 DEF ParseEffect, CallFits, InfoCall
<1>5. CallsFit' /\ Exclusive'
  BY <1>1, <1>2, <1>4, OneStep DEF SiInv, SiTypeOK
<1>6. WireFits'
  BY <1>1, <1>4, WireKept DEF SiInv, Waits
<1> QED BY <1>3, <1>5, <1>6 DEF SiInv

LEMMA InvSetCh ==
  ASSUME SiInv, NEW t \in Threads, SetCh(t)
  PROVE  SiInv'
<1>1. SiTypeOK' /\ OnlyOne(t) /\ thr'[t].pc = "idle" /\ token' = 1
  BY SetChStep DEF SiInv
<1>2. thr[t].pc = "set" /\ UNCHANGED << opsOf, dma, evt >>
  BY DEF SetCh
<1>3. Others(t)
  BY <1>2, Alone DEF Inside
<1>4. CallsFit' /\ Exclusive'
  BY <1>1, <1>2, <1>3, OneStep
<1>5. WireFits'
  BY <1>1, <1>2, WireKept DEF SiInv, Waits
<1> QED BY <1>1, <1>4, <1>5 DEF SiInv

LEMMA InvStays ==
  ASSUME SiInv, UNCHANGED << token, thr, dma, evt, opsOf >>, SiTypeOK'
  PROVE  SiInv'
BY DEF SiInv, CallsFit, Exclusive, Inside, WireFits, InFlight

(* The motor of a GameCube controller, the EEPROM, and the user's hands on the pak. *)
Quiet ==
  /\ UNCHANGED << token, thr, last, lastCh, buf, pif, pifVal, dma, evt, stale, maxPads, gcn, opsOf, lost >>
  /\ SiTypeOK' /\ (eep' => eep)
  /\ \/ known' = known /\ pak'.data = pak.data /\ (Reachable' => Reachable)
     \/ known' = 0 /\ ~Reachable'

Steps ==
  \/ UNCHANGED vars
  \/ \E t \in Threads :
       \/ BeginEffect(t) /\ UNCHANGED << token, padVars, devVars, wireVars >>
       \/ AccessEffect(t) /\ UNCHANGED << padVars, devVars, wireVars >>
       \/ SetCh(t) \/ Send(t) \/ Sent(t) \/ Fetched(t) \/ SkipSend(t) \/ Fetch(t) \/ ParseEffect(t)
  \/ DmaEnds
  \/ Quiet

LEMMA QuietStep ==
  ASSUME SiTypeOK, (\E t \in Threads : GcnMotor(t)) \/ EepWritten \/ PakPulled \/ PakPutIn
  PROVE  Quiet
<1>1. CASE \E t \in Threads : GcnMotor(t)
  <2>1. UNCHANGED << token, thr, wireVars, maxPads, gcn, devVars >> /\ rumble' \in BOOLEAN
    BY <1>1 DEF GcnMotor, SiTypeOK
  <2> QED BY <2>1 DEF Quiet, SiTypeOK, Reachable
<1>2. CASE EepWritten
  <2>1. UNCHANGED << token, thr, wireVars, maxPads, rumble, opsOf, gcn, pak, read16, lost, known >> /\ eep' = FALSE
    BY <1>2 DEF EepWritten, Unwired
  <2>2. SiTypeOK'
    <3>1. eep' \in BOOLEAN /\ UNCHANGED << token, evt, thr, buf, pif, pifVal, dma, stale >>
      BY <2>1
    <3> QED BY <2>1, <3>1 DEF SiTypeOK
  <2>3. Reachable' <=> Reachable
    BY <2>1 DEF Reachable
  <2> QED BY <2>1, <2>2, <2>3 DEF Quiet
<1>3. CASE PakPulled
  <2>1. UNCHANGED << token, thr, wireVars, maxPads, rumble, opsOf, gcn, eep, read16, lost, known >>
        /\ pak' = [pak EXCEPT !.in = FALSE]
    BY <1>3 DEF PakPulled, Unwired
  <2>2. pak' \in [in : BOOLEAN, new : BOOLEAN, data : Values \cup {0}] /\ pak'.data = pak.data /\ pak'.in = FALSE
    BY <2>1 DEF SiTypeOK
  <2> QED BY <2>1, <2>2 DEF Quiet, SiTypeOK, Reachable
<1>4. CASE PakPutIn
  <2>1. UNCHANGED << token, thr, wireVars, maxPads, rumble, opsOf, gcn, eep, read16, lost >> /\ known' = 0
    BY <1>4 DEF PakPutIn, Unwired
  <2>2. pak' \in [in : BOOLEAN, new : BOOLEAN, data : Values \cup {0}] /\ pak'.new = TRUE
    BY <1>4 DEF PakPutIn
  <2> QED BY <2>1, <2>2 DEF Quiet, SiTypeOK, Reachable
<1> QED BY <1>1, <1>2, <1>3, <1>4

LEMMA StepCases ==
  ASSUME NoBare, PollsPaired, SiInv, [Next]_vars
  PROVE  Steps
<1>1. SiTypeOK /\ CallsFit
  BY DEF SiInv
<1>2. CASE UNCHANGED vars
  BY <1>2 DEF Steps
<1>3. ASSUME NEW t \in Threads, Thread(t)
      PROVE  Steps
  <2>1. ASSUME NEW op \in opsOf[t], NEW ch \in Channels \cup {0}, NEW v \in Values \cup {0}, Begin(t, op, ch, v)
        PROVE  Steps
    <3>1. BeginEffect(t)
      BY <1>1, <2>1, BeginStep
    <3>2. UNCHANGED << token, padVars, devVars, wireVars >>
      BY <2>1 DEF Begin
    <3> QED BY <3>1, <3>2 DEF Steps
  <2>2. CASE GcnMotor(t)
    BY <1>1, <2>2, QuietStep DEF Steps
  <2>3. CASE GetAccess(t)
    <3>1. AccessEffect(t)
      BY <1>1, <2>3, AccessStep
    <3>2. UNCHANGED << padVars, devVars, wireVars >>
      BY <2>3 DEF GetAccess
    <3> QED BY <3>1, <3>2 DEF Steps
  <2>4. CASE SetCh(t) \/ Exchange(t)
    BY <2>4 DEF Steps, Exchange
  <2>5. CASE Interpret(t) \/ EepRefused(t) \/ EepReadsFirst(t)
    BY <1>1, <2>5, ParseStep DEF Steps
  <2> QED BY <1>3, <2>1, <2>2, <2>3, <2>4, <2>5 DEF Thread, Runs
<1>4. CASE DmaEnds
  BY <1>4 DEF Steps
<1>5. CASE EepWritten \/ PakPulled \/ PakPutIn
  BY <1>1, <1>5, QuietStep DEF Steps
<1> QED BY <1>2, <1>3, <1>4, <1>5 DEF Next

LEMMA InvInit ==
  ASSUME Init
  PROVE  SiInv
<1>1. Resting \in ThrType
  BY DEF Resting, ThrType, Pcs, Ops, Exchanges
<1>2. /\ token = 1 /\ evt = 0 /\ maxPads = 2 /\ gcn = FALSE /\ rumble = FALSE
      /\ dma = [dir |-> "no", b |-> "cont"] /\ thr = [t \in Threads |-> Resting]
      /\ eep = FALSE /\ read16 = FALSE /\ stale = FALSE /\ lost = FALSE /\ opsOf \in Programs
  BY DEF Init
<1>3. Nothing \in CmdType
  <2>1. 0 \in 0..2 /\ FALSE \in BOOLEAN
    OBVIOUS
  <2>2. << 0, FALSE >> \in (0..2) \X BOOLEAN
    BY <2>1, LayoutType, Zenon
  <2> QED BY <2>2 DEF Nothing, CmdType
<1>4. pif \in CmdType
  <2>1. pif = [cmd |-> "QUERY", ch |-> 0, lay |-> << 2, FALSE >>, rum |-> FALSE]
    BY DEF Init, Nothing
  <2>2. << 2, FALSE >> \in (0..2) \X BOOLEAN
    <3>1. 2 \in 0..2 /\ FALSE \in BOOLEAN
      OBVIOUS
    <3> QED BY <3>1, LayoutType, Zenon
  <2> QED BY <2>1, <2>2 DEF CmdType, Exchanges
<1>5. buf \in [Buffers -> BufType] /\ pifVal \in Values \cup {0}
  <2>1. buf = [b \in Buffers |-> [is |-> IF b = "cont" THEN pif ELSE Nothing, val |-> 0,
                                  answered |-> b = "cont", ok |-> b = "cont"]] /\ pifVal = 0
    BY DEF Init
  <2>2. ASSUME NEW b \in Buffers
        PROVE  [is |-> IF b = "cont" THEN pif ELSE Nothing, val |-> 0,
                answered |-> b = "cont", ok |-> b = "cont"] \in BufType
    <3>1. (IF b = "cont" THEN pif ELSE Nothing) \in CmdType /\ (b = "cont") \in BOOLEAN /\ 0 \in Values \cup {0}
      BY <1>3, <1>4
    <3> QED BY <3>1, BufferIs
  <2> QED BY <2>1, <2>2
<1>6. pak \in [in : BOOLEAN, new : BOOLEAN, data : Values \cup {0}]
  <2>1. (CHOOSE v \in Values : TRUE) \in Values
    BY SiAssumption DEF SiAssumption
  <2> QED BY <2>1 DEF Init
<1>7. SiTypeOK
  <2>1. dma \in [dir : {"no", "send", "fetch"}, b : Buffers]
    BY <1>2 DEF Buffers
  <2>2. thr \in [Threads -> ThrType]
    BY <1>1, <1>2
  <2>3. token \in {0, 1} /\ evt \in {0, 1} /\ maxPads \in 1..2
    BY <1>2
  <2>4. /\ gcn \in BOOLEAN /\ rumble \in BOOLEAN
        /\ eep \in BOOLEAN /\ read16 \in BOOLEAN /\ stale \in BOOLEAN /\ lost \in BOOLEAN
    BY <1>2
  <2>5. opsOf \in Programs
    BY <1>2
  <2> QED BY <1>4, <1>5, <1>6, <2>1, <2>2, <2>3, <2>4, <2>5 DEF SiTypeOK
<1>8. \A t \in Threads : thr[t].pc = "idle"
  BY <1>2 DEF Resting
<1> QED BY <1>2, <1>7, <1>8 DEF SiInv, CallsFit, Exclusive, Inside, WireFits

LEMMA InvStep ==
  ASSUME NoBare, PollsPaired, SiInv, [Next]_vars
  PROVE  SiInv'
<1>1. Steps
  BY StepCases
<1>2. CASE UNCHANGED vars
  <2>1. SiTypeOK'
    BY <1>2 DEF vars, SiInv, SiTypeOK
  <2> QED BY <1>2, <2>1, InvStays DEF vars
<1>3. ASSUME NEW t \in Threads, BeginEffect(t), UNCHANGED << token, padVars, devVars, wireVars >>
      PROVE  SiInv'
  BY <1>3, InvBegin
<1>4. ASSUME NEW t \in Threads, AccessEffect(t), UNCHANGED << padVars, devVars, wireVars >>
      PROVE  SiInv'
  BY <1>4, InvAccess
<1>5. ASSUME NEW t \in Threads,
             SetCh(t) \/ Send(t) \/ Sent(t) \/ Fetched(t) \/ SkipSend(t) \/ Fetch(t) \/ ParseEffect(t)
      PROVE  SiInv'
  BY <1>5, InvSetCh, InvSend, InvSent, InvSkip, InvFetch, InvParse
<1>6. CASE Quiet
  <2>1. UNCHANGED << token, thr, dma, evt, opsOf >> /\ SiTypeOK'
    BY <1>6 DEF Quiet
  <2> QED BY <2>1, InvStays
<1> QED BY <1>1, <1>2, <1>3, <1>4, <1>5, <1>6, InvDma DEF Steps

(* No DMA is refused: whoever is about to start one finds the interface idle and no
   message of an earlier one in the queue, for any threads and calls, under two rules
   that the code leaves to the program: nobody asks for a pak's status without the token
   (osPfsFindFile and its like do: pfssearchfile.c), and between the start of a poll or
   query and the reading of its data no other thread is in a call (contreaddata.c and
   contquery.c give the token back while the DMA runs); where nobody polls, any calls
   may overlap.  The library does not look at a refusal (sirawdma.c). *)
THEOREM NoDmaRefused ==
  ASSUME NoBare, PollsPaired
  PROVE  Spec => []NeverRefused
<1>1. Init => SiInv
  BY InvInit
<1>2. SiInv /\ [Next]_vars => SiInv'
  BY InvStep
<1>3. SiInv => NeverRefused
  BY Alone DEF NeverRefused
<1> QED BY <1>1, <1>2, <1>3, PTL DEF Spec

------------------------------------------------------------------------------
(* The record of the last command is true *)

LEMMA MatchCmd ==
  ASSUME NEW is, NEW x, NEW ch, NEW m, NEW g, Matches(is, x, ch, m, g)
  PROVE  is.cmd = x \/ (x = "PLUG" /\ is.cmd = "QUERY")
BY DEF Matches

LEMMA MatchTypes ==
  ASSUME NEW is, NEW x, NEW ch, NEW m, NEW g, NEW h, x # "POLL"
  PROVE  Matches(is, x, ch, m, g) <=> Matches(is, x, ch, m, h)
BY DEF Matches

LEMMA MatchAll ==
  ASSUME NEW is, NEW x \in Skips, NEW ch, NEW m, NEW g
  PROVE  Matches(is, x, ch, m, g) <=> Matches(is, x, 0, m, g)
BY DEF Matches, Skips, OneChannel

LEMMA MatchPlug ==
  ASSUME NEW is, NEW ch, NEW m, NEW g
  PROVE  Matches(is, "PLUG", ch, m, g) <=> Matches(is, "QUERY", 0, m, g)
BY DEF Matches, OneChannel

LEMMA MatchPacked ==
  ASSUME NEW x, NEW ch
  PROVE  Matches(Packed(x, ch), x, ch, maxPads, gcn)
BY DEF Matches, Packed

(* A thread that is alone in an exchange decides whether the wire is settled. *)
LEMMA AloneSettles ==
  ASSUME NEW t \in Threads, OnlyOne(t), Others(t)
  PROVE  /\ Settled <=> thr[t].pc \notin {"sent", "fetch"}
         /\ Settled' <=> thr'[t].pc \notin {"sent", "fetch"}
         /\ MidReset <=> /\ thr[t].pc \notin {"idle", "acs"}
                         /\ thr[t].x = "ALL_RESET" \/ (thr[t].x = "RESET" /\ thr[t].pc = "send")
         /\ MidReset' <=> /\ thr'[t].pc \notin {"idle", "acs"}
                          /\ thr'[t].x = "ALL_RESET" \/ (thr'[t].x = "RESET" /\ thr'[t].pc = "send")
<1>1. \A w \in Threads : w # t => thr'[w] = thr[w] /\ thr[w].pc \in {"idle", "acs"}
  BY DEF OnlyOne, Others, Inside
<1>2. Settled <=> thr[t].pc \notin {"sent", "fetch"}
  BY <1>1 DEF Settled
<1>3. Settled' <=> thr'[t].pc \notin {"sent", "fetch"}
  BY <1>1 DEF Settled
<1>4. MidReset <=> /\ thr[t].pc \notin {"idle", "acs"}
                   /\ thr[t].x = "ALL_RESET" \/ (thr[t].x = "RESET" /\ thr[t].pc = "send")
  BY <1>1 DEF MidReset, Inside
<1>5. MidReset' <=> /\ thr'[t].pc \notin {"idle", "acs"}
                    /\ thr'[t].x = "ALL_RESET" \/ (thr'[t].x = "RESET" /\ thr'[t].pc = "send")
  BY <1>1 DEF MidReset, Inside
<1> QED BY <1>2, <1>3, <1>4, <1>5

(* The others are not served. *)
LEMMA OneServed ==
  ASSUME NEW t \in Threads, OnlyOne(t), Others(t), Served(t)'
  PROVE  (\A w \in Threads : Served(w))'
<1>1. \A w \in Threads : w # t => thr'[w].pc \in {"idle", "acs"}
  BY DEF OnlyOne, Others, Inside
<1>2. ASSUME NEW w \in Threads, w # t
      PROVE  Served(w)'
  BY <1>1, <1>2 DEF Served, Inside
<1> QED BY <1>2

LEMMA RecordSend ==
  ASSUME RecordInv, NEW t \in Threads, Send(t)
  PROVE  (\A w \in Threads : Served(w))' /\ RecordFits'
<1> DEFINE x == thr[t].x  ch == thr[t].ch  b == BufferOf(x)
<1>1. SiInv /\ Moves(t, "sent") /\ x \in Exchanges /\ thr[t].pc = "send" /\ buf \in [Buffers -> BufType]
  BY SendType DEF RecordInv, SiInv, SiTypeOK, ThrType, Send
<1>2. Others(t) /\ dma.dir = "no" /\ OnlyOne(t)
  BY <1>1, Alone DEF Inside, Moves
<1>3. thr'[t].x = x /\ thr'[t].ch = ch /\ thr'[t].pc = "sent"
  BY <1>1 DEF Moves, SameCall
<1>4. ~Settled'
  BY <1>2, <1>3, AloneSettles
<1>5. UNCHANGED << maxPads, gcn, pif, pifVal >> /\ dma' = [dir |-> "send", b |-> b]
  BY <1>2 DEF Send, RawStartDma
<1>6. b \in Buffers /\ (b = "pfs" <=> x \in PakVoice \cup {"STATUS", "PLUG", "CH_RESET"})
  BY <1>1 DEF BufferOf, Exchanges, Buffers, PakVoice
<1>7. /\ x = "ALL_RESET" => last # "RESET"
      /\ ~stale /\ last \in PakVoice => Matches(buf["pfs"].is, last, lastCh, maxPads, gcn)
      /\ stale /\ buf["pfs"].is.cmd \in Acts => last = buf["pfs"].is.cmd
  BY <1>1 DEF RecordInv, Served, RecordFits, Match, Inside
<1>8. CASE Packs(x, ch)
  <2>1. /\ buf' = [buf EXCEPT ![b] = [is |-> Packed(x, ch), val |-> Block(t, 0),
                                        answered |-> FALSE, ok |-> FALSE]]
        /\ last' = LastWhenPacked(x)
        /\ lastCh' = IF x \in PakVoice THEN ch ELSE lastCh
        /\ stale' = IF x = "CH_RESET" THEN last # "END" ELSE stale /\ last' = last
    BY <1>8 DEF Send, PakVoice
  <2>2. buf'[b].is = Packed(x, ch) /\ (b # "pfs" => buf'["pfs"].is = buf["pfs"].is)
    BY <1>1, <1>6, <2>1 DEF Buffers
  <2>3. Matches(buf'[b].is, x, ch, maxPads, gcn)
    BY <2>2, MatchPacked
  <2>4. buf'[b].is.cmd = x \/ (x = "PLUG" /\ buf'[b].is.cmd = "QUERY")
    BY <2>3, MatchCmd
  <2>5. /\ x \in PakVoice => last' = x /\ lastCh' = ch
        /\ x \in {"STATUS", "MOTOR", "VOICE_STATUS"} => last' = "END"
        /\ x = "PLUG" => last' = "QUERY"
        /\ x \in {"POLL", "QUERY", "ALL_RESET", "RESET", "EEP_STATUS", "EEP_READ", "EEP_WRITE", "CH_RESET"} => last' = last
    BY <2>1 DEF LastWhenPacked, PakVoice
  <2>6. LastFits(t)'
    BY <1>3, <2>1, <2>5 DEF LastFits
  <2>7. Served(t)'
    BY <1>3, <1>5, <1>7, <2>3, <2>5, <2>6 DEF Served, Right, Match, Inside
  <2>8. ~stale' /\ last' \in PakVoice => Matches(buf'["pfs"].is, last', lastCh', maxPads, gcn)
    BY <1>1, <1>6, <1>7, <2>1, <2>2, <2>3, <2>5 DEF PakVoice, Exchanges
  <2>9. stale' /\ buf'["pfs"].is.cmd \in Acts => last' = buf'["pfs"].is.cmd
    BY <1>1, <1>6, <1>7, <2>1, <2>2, <2>4, <2>5 DEF PakVoice, Exchanges, Acts
  <2> QED BY <1>2, <1>4, <1>5, <2>7, <2>8, <2>9, OneServed DEF RecordFits, Match
<1>9. CASE ~Packs(x, ch)
  <2>1. /\ buf' = [buf EXCEPT ![b].answered = FALSE, ![b].val = Block(t, @)]
        /\ UNCHANGED << last, lastCh, stale >>
        /\ x \in PakVoice /\ last = x /\ lastCh = ch
    BY <1>9 DEF Send, Packs, PakVoice
  <2>2. b = "pfs" /\ buf'["pfs"].is = buf["pfs"].is
    BY <1>1, <1>6, <2>1 DEF Buffers, BufType
  <2>3. LastFits(t)'
    BY <1>3, <2>1 DEF LastFits, PakVoice
  <2>4. Right(buf[b].is, t)'
    BY <1>3, <1>5, <1>7, <2>1, <2>2 DEF Right, Match, Loose
  <2>5. Served(t)'
    BY <1>3, <1>5, <1>7, <2>1, <2>3, <2>4 DEF Served, Inside
  <2> QED BY <1>2, <1>4, <1>5, <1>7, <2>1, <2>2, <2>5, OneServed DEF RecordFits, Match
<1> QED BY <1>8, <1>9

LEMMA RecordSkip ==
  ASSUME RecordInv, NEW t \in Threads, SkipSend(t)
  PROVE  (\A w \in Threads : Served(w))' /\ RecordFits'
<1> DEFINE x == thr[t].x
<1>1. /\ SiInv /\ Moves(t, "fetch") /\ thr[t].pc = "send" /\ x \in Skips /\ last = x
      /\ UNCHANGED << last, lastCh, buf, pif, pifVal, dma, stale, maxPads, gcn >>
  BY InvSkip DEF RecordInv, SkipSend, Held, Skips
<1>2. Others(t) /\ OnlyOne(t)
  BY <1>1, Alone DEF Inside, Moves
<1>3. thr'[t].x = x /\ thr'[t].ch = thr[t].ch /\ thr'[t].pc = "fetch"
  BY <1>1 DEF Moves, SameCall
<1>4. ~Settled' /\ Settled /\ (x # "RESET" => ~MidReset)
  BY <1>1, <1>2, <1>3, AloneSettles DEF Skips
<1>5. ~stale => Matches(pif, x, 0, maxPads, gcn)
  BY <1>1, <1>4 DEF RecordInv, RecordFits, Match, Skips
<1>6. Right(pif, t)'
  <2>1. CASE stale
    BY <1>1, <1>3, <1>4, <2>1 DEF Right, Loose, RecordInv, RecordFits
  <2>2. CASE ~stale
    <3>1. Matches(pif, x, thr[t].ch, maxPads, gcn)
      BY <1>1, <1>5, <2>2, MatchAll
    <3> QED BY <1>1, <1>3, <3>1 DEF Right, Match
  <2> QED BY <2>1, <2>2
<1>7. LastFits(t)'
  BY <1>1, <1>3 DEF LastFits, Skips, PakVoice
<1>8. Served(t)'
  BY <1>1, <1>3, <1>6, <1>7 DEF Served, Skips
<1>9. RecordFits'
  BY <1>1, <1>4 DEF RecordFits, RecordInv, Match
<1> QED BY <1>2, <1>8, <1>9, OneServed

LEMMA RecordSent ==
  ASSUME RecordInv, NEW t \in Threads, Sent(t) \/ Fetched(t)
  PROVE  (\A w \in Threads : Served(w))' /\ RecordFits'
<1> DEFINE x == thr[t].x
<1>1. /\ SiInv /\ Moves(t, IF thr[t].pc = "sent" THEN "fetch" ELSE "parse") /\ thr[t].pc \in {"sent", "fetched", "asked"}
      /\ dma.dir = "no"
      /\ UNCHANGED << last, lastCh, buf, pif, pifVal, dma, stale, maxPads, gcn >>
  BY InvSent DEF RecordInv, Sent, Fetched
<1>2. Others(t) /\ OnlyOne(t)
  BY <1>1, Alone DEF Inside, Moves
<1>3. thr'[t].x = x /\ thr'[t].ch = thr[t].ch /\ thr'[t].pc = (IF thr[t].pc = "sent" THEN "fetch" ELSE "parse")
  BY <1>1 DEF Moves, SameCall
<1>4. /\ Settled' <=> Settled
      /\ thr[t].pc # "sent" => MidReset' <=> MidReset
      /\ thr[t].pc = "sent" => ~Settled'
  BY <1>1, <1>2, <1>3, AloneSettles
<1>5. Served(t) /\ LastFits(t) /\ Right(pif, t)
  BY <1>1 DEF RecordInv, Served
<1>6. Right(pif, t)'
  BY <1>1, <1>3, <1>5 DEF Right, Match, Loose
<1>7. LastFits(t)'
  BY <1>1, <1>3, <1>5 DEF LastFits
<1>8. Served(t)'
  BY <1>1, <1>3, <1>5, <1>6, <1>7 DEF Served, Inside
<1>9. RecordFits'
  BY <1>1, <1>4 DEF RecordFits, RecordInv, Match
<1> QED BY <1>2, <1>8, <1>9, OneServed

LEMMA RecordFetch ==
  ASSUME RecordInv, NEW t \in Threads, Fetch(t)
  PROVE  (\A w \in Threads : Served(w))' /\ RecordFits'
<1> DEFINE x == thr[t].x
           pc == IF x \in {"POLL", "QUERY"} THEN "asked" ELSE "fetched"
<1>1. /\ SiInv /\ Moves(t, pc) /\ thr[t].pc = "fetch" /\ x \in Exchanges
      /\ last' = LastWhenFetched(x) /\ stale' = (stale /\ last' = last)
      /\ UNCHANGED << lastCh, buf, pif, pifVal, maxPads, gcn >>
  BY FetchType DEF RecordInv, Fetch, SiInv, SiTypeOK, ThrType
<1>2. Others(t) /\ OnlyOne(t) /\ dma.dir = "no"
  BY <1>1, Alone DEF Inside, Moves
<1>3. dma'.dir = "fetch"
  BY <1>2 DEF Fetch, RawStartDma
<1>4. thr'[t].x = x /\ thr'[t].ch = thr[t].ch /\ thr'[t].pc = pc
  BY <1>1 DEF Moves, SameCall
<1>5. pc \in {"asked", "fetched"}
  OBVIOUS
<1> HIDE DEF pc
<1>6. Settled' /\ (MidReset' <=> x = "ALL_RESET")
  BY <1>2, <1>4, <1>5, AloneSettles
<1>7. Served(t) /\ LastFits(t) /\ Right(pif, t) /\ (x = "ALL_RESET" => last # "RESET")
  BY <1>1 DEF RecordInv, Served, Inside
<1>8. /\ x \in {"POLL", "QUERY", "RESET", "EEP_READ", "EEP_WRITE"} => last' = x
      /\ x = "EEP_STATUS" => last' = "END"
      /\ x \notin {"POLL", "QUERY", "RESET", "EEP_READ", "EEP_WRITE", "EEP_STATUS"} => last' = last
  BY <1>1 DEF LastWhenFetched
<1>9. /\ x \in PakVoice => last = x /\ lastCh = thr[t].ch
      /\ x \in {"STATUS", "MOTOR", "VOICE_STATUS"} => last = "END"
      /\ x = "PLUG" => last = "QUERY"
      /\ x = "CH_RESET" => stale \/ last = "END"
  BY <1>1, <1>7 DEF LastFits
<1>10. LastFits(t)'
  BY <1>1, <1>4, <1>5, <1>8, <1>9 DEF LastFits, Skips, PakVoice
<1>11. Right(pif, t)'
  BY <1>1, <1>4, <1>7, <1>8, <1>9 DEF Right, Match, Loose, Skips, PakVoice
<1>12. Served(t)'
  BY <1>1, <1>3, <1>4, <1>5, <1>7, <1>8, <1>10, <1>11 DEF Served
<1>13. ~stale' => x \in Skips \cup {"PLUG", "ALL_RESET"} \/ last' \notin Skips
  BY <1>1, <1>7, <1>8, <1>9 DEF Exchanges, Skips, PakVoice
<1>14. ~stale' /\ (x \in Skips \/ x = "PLUG") => Matches(pif, x, thr[t].ch, maxPads, gcn)
  BY <1>1, <1>7, <1>8 DEF Right, Match, Loose, Skips, PakVoice
<1>15. ~stale' /\ last' = "RESET" => Matches(pif, "RESET", 0, maxPads, gcn)
  <2>1. CASE x \in Skips
    BY <1>8, <1>14, <2>1, MatchAll DEF Skips
  <2>2. CASE x = "PLUG" \/ x = "ALL_RESET"
    BY <1>7, <1>8, <1>9, <2>2
  <2> QED BY <1>13, <2>1, <2>2 DEF Skips
<1>16. ~stale' /\ ~MidReset' /\ last' \in {"POLL", "QUERY"} => Matches(pif, last', 0, maxPads, gcn)
  <2>1. CASE x \in Skips
    BY <1>8, <1>14, <2>1, MatchAll DEF Skips
  <2>2. CASE x = "PLUG"
    BY <1>8, <1>9, <1>14, <2>2, MatchPlug
  <2> QED BY <1>6, <1>13, <2>1, <2>2 DEF Skips
<1>17. ~stale' /\ last' \in PakVoice => Matches(buf["pfs"].is, last', lastCh, maxPads, gcn)
  BY <1>1, <1>8 DEF RecordInv, RecordFits, Match, PakVoice
<1>18. stale' /\ pif.cmd \in Acts => last' = pif.cmd
  <2>1. SUFFICES ASSUME stale', pif.cmd \in Acts PROVE last' = pif.cmd
    OBVIOUS
  <2>2. stale /\ last' = last
    BY <1>1, <2>1
  <2>3. CASE Matches(pif, x, thr[t].ch, maxPads, gcn)
    <3>1. pif.cmd = x
      BY <2>1, <2>3, MatchCmd DEF Acts
    <3> QED BY <1>8, <1>9, <2>1, <2>2, <3>1 DEF Acts, PakVoice
  <2>4. CASE Loose(pif, x)
    BY <2>1, <2>2, <2>4 DEF Loose
  <2> QED BY <1>7, <2>3, <2>4 DEF Right, Match
<1>19. stale' /\ buf["pfs"].is.cmd \in Acts => last' = buf["pfs"].is.cmd
  BY <1>1 DEF RecordInv, RecordFits
<1>20. RecordFits'
  BY <1>1, <1>15, <1>16, <1>17, <1>18, <1>19 DEF RecordFits, Match
<1> QED BY <1>2, <1>12, <1>20, OneServed

LEMMA WaitsForDma ==
  ASSUME SiInv, dma.dir # "no", NEW t \in Threads, Waits(t)
  PROVE  /\ dma.b = BufferOf(thr[t].x) /\ Others(t) /\ Inside(t)
         /\ thr[t].pc = "sent" <=> dma.dir = "send"
<1>1. Inside(t)
  BY DEF Waits, Inside
<1> QED BY <1>1, Alone DEF SiInv, WireFits, InFlight, Waits

LEMMA SomeoneWaits ==
  ASSUME SiInv, dma.dir # "no"
  PROVE  \E t \in Threads : Waits(t)
BY DEF SiInv, WireFits, Waits

LEMMA DmaCases ==
  ASSUME SiInv, DmaEnds
  PROVE  DmaSends \/ \E t \in Threads : DmaFetches(t)
<1>1. dma.dir # "no" /\ (DmaSends \/ DmaAnswers)
  BY DmaStep DEF SiInv
<1>2. CASE DmaAnswers
  <2>1. PICK t \in Threads : Waits(t)
    BY <1>1, SomeoneWaits
  <2>2. dma.b = BufferOf(thr[t].x) /\ thr[t].pc \in {"fetched", "asked"}
    BY <1>1, <1>2, <2>1, WaitsForDma DEF DmaAnswers, Waits
  <2>3. OnlyOne(t)
    BY <1>2 DEF DmaAnswers, OnlyOne, SiInv, SiTypeOK
  <2> QED BY <1>2, <2>2, <2>3 DEF DmaFetches
<1> QED BY <1>1, <1>2

LEMMA RecordDma ==
  ASSUME RecordInv, DmaEnds
  PROVE  (\A w \in Threads : Served(w))' /\ RecordFits'
<1>1. /\ dma.dir # "no" /\ dma'.dir = "no"
      /\ UNCHANGED << maxPads, gcn, last, lastCh, stale >>
      /\ DmaSends \/ \E t \in Threads : DmaFetches(t)
      /\ SiInv /\ buf \in [Buffers -> BufType]
  BY DmaStep, DmaCases DEF RecordInv, SiInv, SiTypeOK
<1>2. CASE DmaSends
  <2>1. PICK t \in Threads : Waits(t)
    BY <1>1, SomeoneWaits
  <2>2. dma.b = BufferOf(thr[t].x) /\ Others(t) /\ thr[t].pc = "sent"
    BY <1>1, <1>2, <2>1, WaitsForDma DEF DmaSends
  <2>3. pif' = buf[dma.b].is /\ UNCHANGED << thr, buf >> /\ thr \in [Threads -> ThrType]
    BY <1>1, <1>2 DEF DmaSends, SiInv, SiTypeOK
  <2>4. OnlyOne(t)
    BY <2>3 DEF OnlyOne
  <2>5. ~Settled'
    BY <2>2, <2>3, <2>4, AloneSettles
  <2>6. LastFits(t) /\ Right(buf[dma.b].is, t)
    BY <1>1, <2>2 DEF RecordInv, Served
  <2>7. LastFits(t)'
    BY <1>1, <2>3, <2>6 DEF LastFits
  <2>8. Right(pif, t)'
    BY <1>1, <2>3, <2>6 DEF Right, Match, Loose
  <2>9. Served(t)'
    BY <1>1, <2>2, <2>3, <2>7, <2>8 DEF Served, RecordInv, Inside
  <2>10. RecordFits'
    BY <1>1, <2>3, <2>5 DEF RecordFits, RecordInv, Match
  <2> QED BY <2>2, <2>4, <2>9, <2>10, OneServed
<1>3. ASSUME NEW t \in Threads, DmaFetches(t)
      PROVE  (\A w \in Threads : Served(w))' /\ RecordFits'
  <2> DEFINE x == thr[t].x  b == dma.b
  <2>1. /\ dma.dir = "fetch" /\ thr[t].pc \in {"fetched", "asked"} /\ BufferOf(x) = b /\ OnlyOne(t)
        /\ UNCHANGED << thr, pif >> /\ buf'[b].is = pif /\ buf'[b].answered
        /\ \A c \in Buffers \ {b} : buf'[c] = buf[c]
    BY <1>3 DEF DmaFetches, DmaAnswers
  <2>2. Others(t) /\ Inside(t)
    BY <1>1, <2>1, WaitsForDma DEF Waits
  <2>3. x \in Exchanges
    BY <1>1 DEF SiInv, SiTypeOK, ThrType
  <2>4. b \in Buffers /\ (b = "pfs" <=> x \in PakVoice \cup {"STATUS", "PLUG", "CH_RESET"})
    BY <2>1, <2>3 DEF BufferOf, Exchanges, Buffers, PakVoice
  <2>5. buf'[b].is = pif /\ buf'[b].answered /\ (b # "pfs" => buf'["pfs"].is = buf["pfs"].is)
    BY <1>1, <2>1, <2>4 DEF Buffers
  <2>6. Settled /\ Settled' /\ (MidReset' <=> MidReset)
    BY <2>1, <2>2, AloneSettles
  <2>7. LastFits(t) /\ Right(pif, t) /\ Served(t)
    BY <2>1 DEF RecordInv, Served
  <2>8. LastFits(t)'
    BY <1>1, <2>1, <2>7 DEF LastFits
  <2>9. Right(pif, t)'
    BY <1>1, <2>1, <2>7 DEF Right, Match, Loose
  <2>10. Served(t)'
    BY <1>1, <2>1, <2>2, <2>5, <2>7, <2>8, <2>9 DEF Served, Inside
  <2>11. ~stale /\ last \in PakVoice => Matches(buf'["pfs"].is, last, lastCh, maxPads, gcn)
    <3>1. CASE b # "pfs"
      BY <2>5, <3>1 DEF RecordInv, RecordFits, Match
    <3>2. CASE b = "pfs"
      BY <2>4, <2>5, <2>7, <3>2 DEF LastFits, Right, Match, Loose, PakVoice
    <3> QED BY <3>1, <3>2
  <2>12. stale /\ buf'["pfs"].is.cmd \in Acts => last = buf'["pfs"].is.cmd
    BY <2>5, <2>6 DEF RecordInv, RecordFits
  <2>13. RecordFits'
    BY <1>1, <2>1, <2>6, <2>11, <2>12 DEF RecordFits, RecordInv, Match
  <2> QED BY <2>1, <2>2, <2>10, <2>13, OneServed
<1> QED BY <1>1, <1>2, <1>3

LEMMA RecordBegin ==
  ASSUME RecordInv, NEW t \in Threads, BeginEffect(t),
         UNCHANGED << token, padVars, devVars, wireVars >>
  PROVE  (\A w \in Threads : Served(w))' /\ RecordFits'
<1>1. thr[t].pc = "idle" /\ thr'[t].pc = "acs"
  BY DEF BeginEffect
<1>2. \A w \in Threads : w # t => thr'[w] = thr[w]
  BY DEF BeginEffect, OnlyOne
<1>3. Settled' <=> Settled
  BY <1>1, <1>2 DEF Settled
<1>4. MidReset' <=> MidReset
  BY <1>1, <1>2 DEF MidReset, Inside
<1>5. RecordFits'
  BY <1>3, <1>4 DEF RecordFits, RecordInv, Match
<1>6. ASSUME NEW w \in Threads PROVE Served(w)'
  <2>1. CASE w = t
    BY <1>1, <2>1 DEF Served, Inside
  <2>2. CASE w # t
    BY <1>2, <2>2 DEF RecordInv, Served, Inside, LastFits, Right, Match, Loose
  <2> QED BY <2>1, <2>2
<1> QED BY <1>5, <1>6

LEMMA RecordAccess ==
  ASSUME RecordInv, NEW t \in Threads, AccessEffect(t),
         UNCHANGED << padVars, devVars, wireVars >>
  PROVE  (\A w \in Threads : Served(w))' /\ RecordFits'
<1>1. /\ thr[t].pc = "acs" /\ token = 1 /\ thr'[t].pc \in {"set", "send"} /\ OnlyOne(t) /\ SiInv
      /\ thr'[t].x = (IF thr[t].x = "RESET" /\ last # "RESET" THEN "ALL_RESET" ELSE thr[t].x)
  BY DEF AccessEffect, RecordInv
<1>2. Others(t) /\ CallFits(thr[t])
  BY <1>1, Alone DEF SiInv, CallsFit
<1>3. Settled /\ Settled' /\ ~MidReset
  BY <1>1, <1>2, AloneSettles
<1>4. RecordFits'
  BY <1>3 DEF RecordFits, RecordInv, Match
<1>5. Served(t)'
  BY <1>1, <1>2 DEF Served, CallFits
<1> QED BY <1>1, <1>2, <1>4, <1>5, OneServed

LEMMA RecordParse ==
  ASSUME RecordInv, NEW t \in Threads, ParseEffect(t)
  PROVE  (\A w \in Threads : Served(w))' /\ RecordFits'
<1> DEFINE x == thr[t].x
<1>1. /\ SiInv /\ thr[t].pc = "parse" /\ OnlyOne(t)
      /\ UNCHANGED << last, lastCh, buf, pif, pifVal, dma, evt, stale, maxPads >>
      /\ gcn' = gcn \/ x \in {"QUERY", "RESET"}
      /\ thr'[t].pc \in {"idle", "acs", "send", "fetch"}
      /\ thr'[t].pc = "send" => thr'[t].x # "ALL_RESET"
      /\ thr'[t].pc = "fetch" => x = "VOICE_STATUS" /\ thr'[t].x = x /\ thr'[t].ch = thr[t].ch
      /\ x = "ALL_RESET" => thr'[t].pc = "send" /\ thr'[t].x = "RESET"
  <2>1. SiInv
    BY DEF RecordInv
  <2> QED BY <2>1 DEF ParseEffect, OnlyOne
<1>2. Others(t)
  BY <1>1, Alone DEF Inside
<1>3. LastFits(t) /\ Right(pif, t)
  BY <1>1 DEF RecordInv, Served
<1>4. Settled /\ (MidReset => MidReset') /\ (thr'[t].pc = "fetch" => ~Settled')
  BY <1>1, <1>2, AloneSettles
<1>5. gcn' = gcn \/ last # "POLL"
  BY <1>1, <1>3 DEF LastFits, Skips
<1>6. \A is, m, ch : last # "POLL" => (Matches(is, last, ch, m, gcn) <=> Matches(is, last, ch, m, gcn'))
  BY MatchTypes
<1>7. \A is, m, ch : Matches(is, "RESET", ch, m, gcn) <=> Matches(is, "RESET", ch, m, gcn')
  BY MatchTypes
<1>8. RecordFits'
  BY <1>1, <1>4, <1>5, <1>6, <1>7 DEF RecordFits, RecordInv, Match
<1>9. Served(t)'
  <2>1. CASE thr'[t].pc # "fetch"
    BY <1>1, <2>1 DEF Served, Inside
  <2>2. CASE thr'[t].pc = "fetch"
    <3>1. x = "VOICE_STATUS" /\ thr'[t].x = x /\ thr'[t].ch = thr[t].ch /\ gcn' = gcn
      BY <1>1, <2>2
    <3>2. LastFits(t)'
      BY <1>1, <1>3, <2>2, <3>1 DEF LastFits
    <3>3. Right(pif, t)'
      BY <1>1, <1>3, <3>1 DEF Right, Match, Loose
    <3> QED BY <2>2, <3>1, <3>2, <3>3 DEF Served
  <2> QED BY <2>1, <2>2
<1> QED BY <1>1, <1>2, <1>8, <1>9, OneServed

LEMMA RecordSetCh ==
  ASSUME RecordInv, NEW t \in Threads, SetCh(t)
  PROVE  (\A w \in Threads : Served(w))' /\ RecordFits'
<1>1. SiInv /\ OnlyOne(t) /\ thr'[t].pc = "idle" /\ thr[t].pc = "set" /\ last' = "END" /\ stale' = FALSE
  BY SetChStep DEF RecordInv, SiInv, SetCh
<1>2. Others(t)
  BY <1>1, Alone DEF Inside
<1>3. Served(t)'
  BY <1>1 DEF Served, Inside
<1>4. RecordFits'
  BY <1>1 DEF RecordFits, PakVoice
<1> QED BY <1>1, <1>2, <1>3, <1>4, OneServed

LEMMA RecordStays ==
  ASSUME RecordInv, UNCHANGED << thr, last, lastCh, buf, pif, pifVal, dma, evt, stale, maxPads, gcn >>
  PROVE  (\A w \in Threads : Served(w))' /\ RecordFits'
<1>1. RecordFits'
  BY DEF RecordInv, RecordFits, Settled, MidReset, Inside, Match
<1>2. ASSUME NEW w \in Threads PROVE Served(w)'
  BY DEF RecordInv, Served, Inside, LastFits, Right, Match, Loose
<1> QED BY <1>1, <1>2

LEMMA RecordStep ==
  ASSUME NoBare, PollsPaired, RecordInv, [Next]_vars
  PROVE  RecordInv'
<1>1. SiInv /\ SiInv' /\ Steps
  BY StepCases, InvStep DEF RecordInv
<1>2. (\A w \in Threads : Served(w))' /\ RecordFits'
  <2>1. CASE UNCHANGED vars
    BY <2>1, RecordStays DEF vars
  <2>2. ASSUME NEW t \in Threads, BeginEffect(t), UNCHANGED << token, padVars, devVars, wireVars >>
        PROVE  (\A w \in Threads : Served(w))' /\ RecordFits'
    BY <2>2, RecordBegin
  <2>3. ASSUME NEW t \in Threads, AccessEffect(t), UNCHANGED << padVars, devVars, wireVars >>
        PROVE  (\A w \in Threads : Served(w))' /\ RecordFits'
    BY <2>3, RecordAccess
  <2>4. ASSUME NEW t \in Threads,
               SetCh(t) \/ Send(t) \/ Sent(t) \/ Fetched(t) \/ SkipSend(t) \/ Fetch(t) \/ ParseEffect(t)
        PROVE  (\A w \in Threads : Served(w))' /\ RecordFits'
    BY <2>4, RecordSetCh, RecordSend, RecordSent, RecordSkip, RecordFetch, RecordParse
  <2>5. CASE Quiet
    <3>1. UNCHANGED << thr, last, lastCh, buf, pif, pifVal, dma, evt, stale, maxPads, gcn >>
      BY <2>5 DEF Quiet
    <3> QED BY <3>1, RecordStays
  <2> QED BY <1>1, <2>1, <2>2, <2>3, <2>4, <2>5, RecordDma DEF Steps
<1> QED BY <1>1, <1>2 DEF RecordInv

LEMMA RecordInit ==
  ASSUME Init
  PROVE  RecordInv
<1>1. /\ last = "QUERY" /\ maxPads = 2 /\ gcn = FALSE /\ stale = FALSE
      /\ pif = [cmd |-> "QUERY", ch |-> 0, lay |-> << 2, FALSE >>, rum |-> FALSE]
  BY DEF Init, Nothing
<1>2. \A t \in Threads : thr[t].pc = "idle"
  BY DEF Init, Resting
<1>3. Matches(pif, "QUERY", 0, maxPads, gcn)
  BY <1>1 DEF Matches, OneChannel
<1>4. RecordFits
  BY <1>1, <1>3 DEF RecordFits, Match, PakVoice
<1>5. \A t \in Threads : Served(t)
  BY <1>2 DEF Served, Inside
<1> QED BY <1>4, <1>5, InvInit DEF RecordInv

LEMMA AnswersFit ==
  ASSUME RecordInv
  PROVE  AnswersMatch
<1>1. SUFFICES ASSUME NEW t \in Threads, thr[t].pc = "parse", ~stale,
                      NEW b, b = buf[BufferOf(thr[t].x)]
               PROVE  b.answered /\ b.is = [Packed(thr[t].x, thr[t].ch) EXCEPT !.rum = b.is.rum]
  BY DEF AnswersMatch
<1>2. b.answered /\ b.is = pif /\ Right(pif, t)
  BY <1>1 DEF RecordInv, Served
<1>3. Matches(pif, thr[t].x, thr[t].ch, maxPads, gcn)
  BY <1>1, <1>2 DEF Right, Match, Loose
<1>4. pif \in CmdType
  BY DEF RecordInv, SiInv, SiTypeOK
<1>5. pif = [cmd |-> pif.cmd, ch |-> pif.ch, lay |-> pif.lay, rum |-> pif.rum]
  BY <1>4 DEF CmdType
<1> DEFINE p == Packed(thr[t].x, thr[t].ch)
<1>6. p.cmd = pif.cmd /\ p.ch = pif.ch /\ p.lay = pif.lay
  <2>1. Matches(p, thr[t].x, thr[t].ch, maxPads, gcn)
    BY MatchPacked
  <2> HIDE DEF p
  <2> QED BY <1>3, <2>1 DEF Matches
<1>7. p = [cmd |-> p.cmd, ch |-> p.ch, lay |-> p.lay, rum |-> p.rum]
  BY DEF Packed
<1>8. [p EXCEPT !.rum = pif.rum] = pif
  <2> HIDE DEF p
  <2>1. [p EXCEPT !.rum = pif.rum] = [cmd |-> p.cmd, ch |-> p.ch, lay |-> p.lay, rum |-> pif.rum]
    BY <1>7
  <2> QED BY <2>1, <1>5, <1>6
<1> QED BY <1>2, <1>8

------------------------------------------------------------------------------
(* What a pak holds *)

Writes(t) == Inside(t) /\ thr[t].op = "WRITE_PAK"

LEMMA NotStale ==
  ASSUME NoResetOfWritten, SiTypeOK, KnownFits, NEW t \in Threads, known # 0 \/ "WRITE_PAK" \in opsOf[t]
  PROVE  ~stale
BY DEF NoResetOfWritten, KnownFits, SiTypeOK

LEMMA KnownNow ==
  ASSUME KnownFits, NEW t \in Threads, Others(t), known # 0, ~Writes(t)
  PROVE  pak.data = known
BY DEF KnownFits, Others, Writes

LEMMA KnownOfOne ==
  ASSUME NEW t \in Threads, OnlyOne(t), Others(t),
         stale' => \E u \in Threads : "CH_RESET" \in opsOf'[u],
         known' # 0 => \E u \in Threads : "WRITE_PAK" \in opsOf'[u],
         known' # 0 /\ ~Writes(t)' => pak'.data = known',
         BlockFits(t)',
         Has(t, "READ_PAK")' /\ known' # 0 => buf'["pfs"].val = known',
         Has(t, "WRITE_PAK")' /\ Reachable' => thr'[t].val = pak'.data
  PROVE  KnownFits'
<1>1. \A w \in Threads : w # t => thr'[w].pc \in {"idle", "acs"}
  BY DEF OnlyOne, Others, Inside
<1>2. \A w \in Threads : w # t => ~Has(w, "READ_PAK")' /\ ~Has(w, "WRITE_PAK")' /\ BlockFits(w)'
  BY <1>1 DEF Has, BlockFits
<1> QED BY <1>2 DEF KnownFits, Writes

(* A step of t that has no answer yet, and changes neither the pak nor what is known of it. *)
LEMMA KnownGoesOn ==
  ASSUME KnownInv, NEW t \in Threads, OnlyOne(t), Others(t), UNCHANGED << pak, known, opsOf >>,
         thr'[t].pc \notin {"parse", "fetched"} \/ (thr'[t].pc = "fetched" /\ dma'.dir # "no"),
         Writes(t) => Writes(t)',
         stale' => stale \/ "CH_RESET" \in opsOf[t], BlockFits(t)'
  PROVE  KnownFits'
<1>1. KnownFits
  BY DEF KnownInv
<1>2. ~Has(t, "READ_PAK")' /\ ~Has(t, "WRITE_PAK")'
  BY DEF Has
<1>3. known' # 0 /\ ~Writes(t)' => pak'.data = known'
  BY <1>1, KnownNow
<1>4. stale' => \E u \in Threads : "CH_RESET" \in opsOf'[u]
  BY <1>1 DEF KnownFits
<1>5. known' # 0 => \E u \in Threads : "WRITE_PAK" \in opsOf'[u]
  BY <1>1 DEF KnownFits
<1> QED BY <1>2, <1>3, <1>4, <1>5, KnownOfOne

LEMMA KnownStays ==
  ASSUME KnownFits, UNCHANGED << thr, stale, opsOf, buf, pifVal, dma >>,
         \/ known' = known /\ pak'.data = pak.data /\ (Reachable' => Reachable)
         \/ known' = 0 /\ ~Reachable'
  PROVE  KnownFits'
BY DEF KnownFits, Inside, Has, Good, BlockFits

LEMMA KnownExchange ==
  ASSUME KnownInv, NEW t \in Threads,
         Send(t) \/ Sent(t) \/ SkipSend(t) \/ Fetch(t) \/ Fetched(t) \/ SetCh(t)
  PROVE  KnownFits'
<1>1. SiInv /\ SiTypeOK /\ KnownFits
  BY DEF KnownInv, RecordInv, SiInv
<1>2. Inside(t) /\ thr[t].pc # "idle"
  BY DEF Send, Sent, SkipSend, Fetch, Fetched, SetCh, Inside
<1>3. Others(t) /\ CallFits(thr[t]) /\ thr[t].op \in opsOf[t]
  BY <1>1, <1>2, Alone DEF SiInv, CallsFit
<1>4. UNCHANGED << pak, known, opsOf >>
  BY DEF Send, Sent, SkipSend, Fetch, Fetched, SetCh
<1>5. CASE Send(t)
  <2>1. Moves(t, "sent") /\ (thr[t].x = "WRITE_PAK" => buf'["pfs"].val = thr[t].val)
    BY <1>1, <1>5, SendType
  <2>2. stale' => stale \/ thr[t].x = "CH_RESET"
    BY <1>5 DEF Send
  <2>3. thr[t].x = "CH_RESET" => "CH_RESET" \in opsOf[t]
    BY <1>3 DEF CallFits
  <2>4. dma'.dir # "no"
    <3>1. dma.dir = "no"
      BY <1>1, <1>5, Alone DEF Send
    <3> QED BY <1>5, <3>1 DEF Send, RawStartDma
  <2>5. BlockFits(t)'
    BY <2>1, <2>4 DEF BlockFits, Moves, SameCall
  <2> QED BY <1>3, <1>4, <2>1, <2>2, <2>3, <2>5, KnownGoesOn DEF Moves, SameCall, Writes, Inside
<1>6. CASE SkipSend(t)
  <2>1. Moves(t, "fetch") /\ stale' = stale
    BY <1>1, <1>6, InvSkip DEF SkipSend
  <2>2. BlockFits(t)'
    BY <1>6, <2>1 DEF BlockFits, Moves, SameCall, SkipSend, Held
  <2> QED BY <1>3, <1>4, <2>1, <2>2, KnownGoesOn DEF Moves, SameCall, Writes, Inside
<1>7. CASE Fetch(t)
  <2>1. Moves(t, IF thr[t].x \in {"POLL", "QUERY"} THEN "asked" ELSE "fetched") /\ (stale' => stale)
    BY <1>1, <1>7, FetchType DEF Fetch
  <2>2. dma'.dir # "no"
    <3>1. dma.dir = "no"
      BY <1>1, <1>7, Alone DEF Fetch
    <3> QED BY <1>7, <3>1 DEF Fetch, RawStartDma
  <2>3. BlockFits(t)'
    <3>1. thr[t].pc = "fetch" /\ pifVal' = pifVal /\ BlockFits(t)
      BY <1>1, <1>7 DEF Fetch, KnownFits
    <3>2. /\ thr'[t].pc \in {"asked", "fetched"} /\ thr'[t].x = thr[t].x /\ thr'[t].val = thr[t].val
      BY <2>1 DEF Moves, SameCall
    <3> QED BY <3>1, <3>2 DEF BlockFits
  <2> QED BY <1>3, <1>4, <2>1, <2>2, <2>3, KnownGoesOn DEF Moves, SameCall, Writes, Inside
<1>8. CASE SetCh(t)
  <2>1. OnlyOne(t) /\ thr'[t].pc = "idle" /\ stale' = FALSE /\ thr[t].pc = "set"
    BY <1>1, <1>8, SetChStep DEF SetCh
  <2>2. ~Writes(t)
    BY <1>3, <2>1 DEF Writes, CallFits
  <2>3. BlockFits(t)'
    BY <2>1 DEF BlockFits
  <2> QED BY <1>3, <1>4, <2>1, <2>2, <2>3, KnownGoesOn
<1>9. CASE Sent(t) \/ Fetched(t)
  <2>1. /\ Moves(t, IF thr[t].pc = "sent" THEN "fetch" ELSE "parse") /\ dma.dir = "no"
        /\ UNCHANGED << stale, buf, pifVal, dma >> /\ thr[t].pc \in {"sent", "fetched", "asked"}
    BY <1>1, <1>9, InvSent DEF Sent, Fetched
  <2>2. OnlyOne(t) /\ (Writes(t)' <=> Writes(t))
    BY <2>1 DEF Moves, SameCall, Writes, Inside
  <2>5. BlockFits(t)'
    <3>1. BlockFits(t)
      BY <1>1 DEF KnownFits
    <3>2. /\ thr'[t].x = thr[t].x /\ thr'[t].val = thr[t].val
          /\ thr'[t].pc = (IF thr[t].pc = "sent" THEN "fetch" ELSE "parse")
      BY <2>1 DEF Moves, SameCall
    <3> QED BY <2>1, <3>1, <3>2 DEF BlockFits
  <2>3. CASE thr[t].pc = "sent"
    BY <1>3, <1>4, <2>1, <2>2, <2>3, <2>5, KnownGoesOn DEF Moves
  <2>4. CASE thr[t].pc # "sent"
    <3>1. /\ Has(t, "READ_PAK")' => Has(t, "READ_PAK")
          /\ Has(t, "WRITE_PAK")' => Has(t, "WRITE_PAK")
      BY <1>3, <2>1, <2>4 DEF Has, Good, Moves, SameCall, CallFits
    <3>2. thr'[t].val = thr[t].val
      BY <2>1 DEF Moves, SameCall
    <3>3. Reachable' <=> Reachable
      BY <1>4 DEF Reachable
    <3>4. /\ Has(t, "READ_PAK")' /\ known' # 0 => buf'["pfs"].val = known'
          /\ Has(t, "WRITE_PAK")' /\ Reachable' => thr'[t].val = pak'.data
      BY <1>1, <1>4, <2>1, <3>1, <3>2, <3>3 DEF KnownFits
    <3>5. known' # 0 /\ ~Writes(t)' => pak'.data = known'
      BY <1>1, <1>3, <1>4, <2>2, KnownNow
    <3>6. /\ stale' => \E u \in Threads : "CH_RESET" \in opsOf'[u]
          /\ known' # 0 => \E u \in Threads : "WRITE_PAK" \in opsOf'[u]
      BY <1>1, <1>4, <2>1 DEF KnownFits
    <3> QED BY <1>3, <2>2, <2>5, <3>4, <3>5, <3>6, KnownOfOne
  <2> QED BY <2>3, <2>4
<1> QED BY <1>5, <1>6, <1>7, <1>8, <1>9

(* What the PIF does to a pak or to the EEPROM is what its thread asked for. *)
LEMMA ActsAsAsked ==
  ASSUME RecordInv, NEW t \in Threads, DmaFetches(t), pif.cmd \in Acts
  PROVE  thr[t].x = pif.cmd
<1>1. Right(pif, t)
  BY DEF RecordInv, Served, DmaFetches, DmaAnswers
<1>2. CASE Match(pif, thr[t].x, thr[t].ch)
  BY <1>2, MatchCmd DEF Match, Acts
<1>3. CASE Loose(pif, thr[t].x)
  BY <1>3 DEF Loose
<1> QED BY <1>1, <1>2, <1>3 DEF Right

LEMMA KnownDma ==
  ASSUME NoResetOfWritten, KnownInv, DmaEnds
  PROVE  KnownFits'
<1>1. SiInv /\ SiTypeOK /\ KnownFits /\ RecordInv
  BY DEF KnownInv, RecordInv, SiInv
<1>2. /\ dma.dir # "no" /\ dma'.dir = "no"
      /\ UNCHANGED << known, stale, opsOf >>
      /\ DmaSends \/ \E t \in Threads : DmaFetches(t)
  BY <1>1, DmaStep, DmaCases
<1>3. /\ stale' => \E u \in Threads : "CH_RESET" \in opsOf'[u]
      /\ known' # 0 => \E u \in Threads : "WRITE_PAK" \in opsOf'[u]
  BY <1>1, <1>2 DEF KnownFits
<1>4. CASE DmaSends
  <2>1. PICK t \in Threads : Waits(t)
    BY <1>1, <1>2, SomeoneWaits
  <2>2. Others(t) /\ thr[t].pc = "sent"
    BY <1>1, <1>2, <1>4, <2>1, WaitsForDma DEF DmaSends
  <2>3. UNCHANGED << thr, pak >> /\ OnlyOne(t)
    BY <1>1, <1>4 DEF DmaSends, OnlyOne, SiTypeOK
  <2>4. Writes(t)' <=> Writes(t)
    BY <2>3 DEF Writes, Inside
  <2>5. BlockFits(t)'
    <3>1. thr[t].x = "WRITE_PAK" => dma.b = "pfs"
      BY <1>1, <1>2, <2>1, WaitsForDma DEF BufferOf
    <3>2. BlockFits(t) /\ pifVal' = buf[dma.b].val
      BY <1>1, <1>4 DEF KnownFits, DmaSends
    <3> QED BY <1>2, <2>2, <2>3, <3>1, <3>2 DEF BlockFits
  <2> QED BY <1>2, <2>2, <2>3, <2>4, <2>5, KnownGoesOn
<1>5. ASSUME NEW t \in Threads, DmaFetches(t)
      PROVE  KnownFits'
  <2> DEFINE u == thr[t]  v == thr'[t]
  <2>1. /\ dma.dir = "fetch" /\ u.pc \in {"fetched", "asked"} /\ OnlyOne(t)
        /\ v = u /\ BufferOf(u.x) = dma.b
        /\ buf'[dma.b].val = IF pif.cmd = "READ_PAK" THEN pak.data ELSE pifVal
        /\ pif.cmd = "WRITE_PAK" \/ pak'.data = pak.data
        /\ pif.cmd = "WRITE_PAK" /\ buf'[dma.b].ok => pak'.data = pifVal
    BY <1>5 DEF DmaFetches, DmaAnswers
  <2>2. Others(t) /\ CallFits(u) /\ u.op \in opsOf[t]
    BY <1>1, <1>2, <2>1, WaitsForDma DEF Waits, SiInv, CallsFit
  <2>3. pif.cmd = "WRITE_PAK" => u.x = "WRITE_PAK"
    BY <1>1, <1>5, ActsAsAsked DEF Acts
  <2>4. u.x = "WRITE_PAK" => Writes(t) /\ u.op = "WRITE_PAK"
    BY <2>1, <2>2 DEF Writes, Inside, CallFits, PakOps
  <2>5. u.x = "READ_PAK" => ~Writes(t)
    BY <2>2 DEF Writes, CallFits, PakOps
  <2>6. Writes(t)' <=> Writes(t)
    BY <2>1 DEF Writes, Inside
  <2>7. known' # 0 /\ ~Writes(t)' => pak'.data = known'
    BY <1>1, <1>2, <2>1, <2>2, <2>3, <2>4, <2>6, KnownNow
  <2>8. ~stale => pif.cmd = u.x \/ u.x = "PLUG"
    <3>1. Right(pif, t)
      BY <1>1, <2>1 DEF RecordInv, Served
    <3> QED BY <3>1, MatchCmd DEF Right, Match, Loose
  <2>9. Has(t, "READ_PAK")' /\ known' # 0 => buf'["pfs"].val = known'
    <3>1. SUFFICES ASSUME u.x = "READ_PAK", known # 0 PROVE buf'["pfs"].val = known
      BY <1>2, <2>1 DEF Has
    <3>2. ~stale /\ dma.b = "pfs"
      BY <1>1, <2>1, <3>1, NotStale DEF BufferOf
    <3> QED BY <1>1, <2>1, <2>2, <2>5, <2>8, <3>1, <3>2, KnownNow
  <2>10. Has(t, "WRITE_PAK")' /\ Reachable' => v.val = pak'.data
    <3>1. SUFFICES ASSUME u.x = "WRITE_PAK", buf'[dma.b].ok PROVE v.val = pak'.data
      BY <2>1 DEF Has, Good
    <3>2. ~stale
      BY <1>1, <2>2, <2>4, <3>1, NotStale
    <3>3. pifVal = u.val
      <4>1. u.pc = "fetched" /\ BlockFits(t)
        BY <1>1, <2>1, <2>2, <3>1 DEF CallFits, KnownFits
      <4> QED BY <1>2, <3>1, <4>1 DEF BlockFits
    <3> QED BY <2>1, <2>8, <3>1, <3>2, <3>3
  <2>11. BlockFits(t)'
    BY <1>2, <2>1 DEF BlockFits
  <2> QED BY <1>3, <2>1, <2>2, <2>7, <2>9, <2>10, <2>11, KnownOfOne
<1> QED BY <1>2, <1>4, <1>5

LEMMA KnownParse ==
  ASSUME KnownInv, NEW t \in Threads, ParseEffect(t)
  PROVE  KnownFits'
<1> DEFINE u == thr[t]  v == thr'[t]
<1>1. SiInv /\ SiTypeOK /\ KnownFits
  BY DEF KnownInv, RecordInv, SiInv
<1>2. /\ u.pc = "parse" /\ OnlyOne(t) /\ UNCHANGED << stale, opsOf, pak, dma >>
      /\ v.pc \in {"idle", "acs", "send", "fetch"}
      /\ v.pc # "idle" => v.op = u.op
      /\ v.pc = "fetch" => v.x = "VOICE_STATUS"
  BY DEF ParseEffect, OnlyOne
<1>3. Others(t) /\ Inside(t) /\ u.op \in opsOf[t]
  BY <1>1, <1>2, Alone DEF Inside, SiInv, CallsFit
<1>7. BlockFits(t)'
  BY <1>2 DEF BlockFits
<1>4. CASE u.op # "WRITE_PAK"
  <2>1. known' = known
    BY <1>4 DEF ParseEffect
  <2>2. ~Writes(t)
    BY <1>4 DEF Writes
  <2> QED BY <1>2, <1>3, <1>7, <2>1, <2>2, KnownGoesOn
<1>5. CASE u.op = "WRITE_PAK" /\ v.pc \in {"send", "fetch"}
  <2>1. known' = known
    BY <1>5 DEF ParseEffect
  <2>2. Writes(t)'
    BY <1>2, <1>5 DEF Writes, Inside
  <2> QED BY <1>2, <1>3, <1>5, <1>7, <2>1, <2>2, KnownGoesOn
<1>6. CASE u.op = "WRITE_PAK" /\ v.pc \in {"idle", "acs"}
  <2>1. known' = 0 \/ (u.x = "WRITE_PAK" /\ Good(t) /\ Reachable /\ known' = u.val)
    BY <1>6 DEF ParseEffect
  <2>2. known' # 0 => pak'.data = known'
    BY <1>1, <1>2, <2>1 DEF KnownFits, Has
  <2>3. ~Has(t, "READ_PAK")' /\ ~Has(t, "WRITE_PAK")'
    BY <1>6 DEF Has
  <2>4. /\ stale' => \E w \in Threads : "CH_RESET" \in opsOf'[w]
        /\ known' # 0 => \E w \in Threads : "WRITE_PAK" \in opsOf'[w]
    BY <1>1, <1>2, <1>3, <1>6 DEF KnownFits
  <2> QED BY <1>2, <1>3, <1>7, <2>2, <2>3, <2>4, KnownOfOne
<1> QED BY <1>2, <1>4, <1>5, <1>6

LEMMA KnownBegin ==
  ASSUME KnownInv, NEW t \in Threads, BeginEffect(t),
         UNCHANGED << token, padVars, devVars, wireVars >>
  PROVE  KnownFits'
<1>1. thr[t].pc = "idle" /\ thr'[t].pc = "acs" /\ \A w \in Threads : w # t => thr'[w] = thr[w]
  BY DEF BeginEffect, OnlyOne
<1>2. KnownFits
  BY DEF KnownInv
<1>3. \A w \in Threads : Inside(w)' <=> Inside(w)
  BY <1>1 DEF Inside
<1>4. \A w \in Threads : Inside(w)' => thr'[w] = thr[w]
  BY <1>1 DEF Inside
<1>5. \A w \in Threads : (Has(w, "READ_PAK")' => Has(w, "READ_PAK")) /\ (Has(w, "WRITE_PAK")' => Has(w, "WRITE_PAK"))
  BY <1>1 DEF Has, Good
<1>6. \A w \in Threads : Has(w, "WRITE_PAK")' => thr'[w].val = thr[w].val
  BY <1>1 DEF Has
<1>7. Reachable' <=> Reachable
  BY DEF Reachable
<1>8. \A w \in Threads : BlockFits(w) => BlockFits(w)'
  BY <1>1 DEF BlockFits
<1> QED BY <1>2, <1>3, <1>4, <1>5, <1>6, <1>7, <1>8 DEF KnownFits

LEMMA KnownAccess ==
  ASSUME KnownInv, NEW t \in Threads, AccessEffect(t),
         UNCHANGED << padVars, devVars, wireVars >>
  PROVE  KnownFits'
<1>1. /\ thr[t].pc = "acs" /\ token = 1 /\ thr'[t].pc \in {"set", "send"} /\ OnlyOne(t) /\ SiInv
  BY DEF AccessEffect, KnownInv, RecordInv
<1>2. Others(t) /\ ~Writes(t)
  BY <1>1, Alone DEF Writes, Inside
<1>3. BlockFits(t)'
  BY <1>1 DEF BlockFits
<1> QED BY <1>1, <1>2, <1>3, KnownGoesOn

LEMMA KnownStep ==
  ASSUME NoBare, PollsPaired, NoResetOfWritten, KnownInv, [Next]_vars
  PROVE  KnownInv'
<1>1. SiInv /\ RecordInv' /\ Steps
  BY StepCases, RecordStep DEF KnownInv, RecordInv
<1>2. KnownFits'
  <2>1. CASE UNCHANGED vars
    BY <2>1, KnownStays DEF vars, KnownInv, Reachable
  <2>2. ASSUME NEW t \in Threads, BeginEffect(t), UNCHANGED << token, padVars, devVars, wireVars >>
        PROVE  KnownFits'
    BY <2>2, KnownBegin
  <2>3. ASSUME NEW t \in Threads, AccessEffect(t), UNCHANGED << padVars, devVars, wireVars >>
        PROVE  KnownFits'
    BY <2>3, KnownAccess
  <2>4. ASSUME NEW t \in Threads,
               SetCh(t) \/ Send(t) \/ Sent(t) \/ Fetched(t) \/ SkipSend(t) \/ Fetch(t) \/ ParseEffect(t)
        PROVE  KnownFits'
    BY <2>4, KnownExchange, KnownParse
  <2>5. CASE Quiet
    BY <2>5, KnownStays DEF Quiet, KnownInv
  <2> QED BY <1>1, <2>1, <2>2, <2>3, <2>4, <2>5, KnownDma DEF Steps
<1> QED BY <1>1, <1>2 DEF KnownInv

(* What a thread parses is the answer to its command, whatever calls came before and let
   it skip the packing or the sending, as long as the record is true, also where channels
   are reset and paks are written to; under the two rules of NoDmaRefused, without which
   two threads take each other's messages. *)
THEOREM AnswersMatchTheirCommands ==
  ASSUME NoBare, PollsPaired
  PROVE  Spec => []AnswersMatch
<1>1. Init => RecordInv
  BY RecordInit
<1>2. RecordInv /\ [Next]_vars => RecordInv'
  BY RecordStep
<1>3. RecordInv => AnswersMatch
  BY AnswersFit
<1> QED BY <1>1, <1>2, <1>3, PTL DEF Spec

(* A thread gets the answer to its own question: what it parses is the answer to its
   command, packed for its channel and for the controllers there are, whatever calls
   let it skip the packing (the record of the pak's channel in contramread.c) or the
   sending (contreaddata.c, contquery.c, contreset.c); and a block that is read is the
   one last written with success, unless the pak was exchanged or a write failed since.
   For any threads and calls under the two rules of NoDmaRefused, where no channel is
   reset if paks are written to (__osContChannelReset packs its command over the one
   the record still names). *)
THEOREM AnswersBelongToTheirCalls ==
  ASSUME NoBare, PollsPaired, NoResetOfWritten
  PROVE  Spec => []AnswersBelong
<1>1. Init => KnownInv
  <2>1. Init => KnownFits
    BY DEF Init, KnownFits, BlockFits, Has, Resting
  <2> QED BY <2>1, RecordInit DEF KnownInv
<1>2. KnownInv /\ [Next]_vars => KnownInv'
  BY KnownStep
<1>3. KnownInv => AnswersBelong
  BY AnswersFit DEF KnownInv, AnswersBelong, ReadsBack, KnownFits, Has
<1> QED BY <1>1, <1>2, <1>3, PTL DEF Spec

------------------------------------------------------------------------------
(* The EEPROM *)

EepOk(t) ==
  /\ thr[t].x = "EEP_WRITE" /\ (thr[t].pc \in {"acs", "send", "sent", "fetch"}
                                  \/ (thr[t].pc = "fetched" /\ dma.dir # "no")) => ~eep
  /\ thr[t].pc # "idle" /\ thr[t].sub = "read" /\ ~thr[t].busy => ~eep
  /\ Has(t, "EEP_STATUS") => ~eep

LEMMA EepStays ==
  ASSUME EepFits, UNCHANGED << thr, lost, buf, dma >>, eep' => eep
  PROVE  EepFits'
BY DEF EepFits, Has, Good

LEMMA EepOfOne ==
  ASSUME EepFits, NEW t \in Threads, OnlyOne(t), Others(t), ~lost', eep' => eep, EepOk(t)'
  PROVE  EepFits'
<1>1. \A w \in Threads : w # t => thr'[w] = thr[w] /\ thr[w].pc \in {"idle", "acs"}
  BY DEF OnlyOne, Others, Inside
<1>2. ASSUME NEW w \in Threads, w # t PROVE EepOk(w)'
  BY <1>1, <1>2 DEF EepFits, EepOk, Has
<1>3. \A w \in Threads : EepOk(w)'
  BY <1>2
<1> QED BY <1>3 DEF EepFits, EepOk

LEMMA EepExchange ==
  ASSUME EepInv, NEW t \in Threads,
         Send(t) \/ Sent(t) \/ SkipSend(t) \/ Fetch(t) \/ Fetched(t) \/ SetCh(t)
  PROVE  EepFits'
<1>1. SiInv /\ SiTypeOK /\ EepFits /\ EepOk(t) /\ ~lost
  BY DEF EepInv, RecordInv, SiInv, EepFits, EepOk
<1>2. Inside(t) /\ thr[t].pc # "idle"
  BY DEF Send, Sent, SkipSend, Fetch, Fetched, SetCh, Inside
<1>3. Others(t) /\ CallFits(thr[t])
  BY <1>1, <1>2, Alone DEF SiInv, CallsFit
<1>4. UNCHANGED << eep, lost >>
  BY DEF Send, Sent, SkipSend, Fetch, Fetched, SetCh
<1>5. CASE Send(t) \/ SkipSend(t) \/ Fetch(t)
  <2>1. /\ OnlyOne(t) /\ SameCall(thr[t], thr'[t]) /\ thr'[t].pc \notin {"idle", "parse"}
        /\ thr[t].pc \in {"send", "fetch"} /\ (thr'[t].pc = "fetched" => dma'.dir # "no")
    <3>1. CASE Send(t)
      BY <1>1, <3>1, SendType DEF Moves, Send
    <3>2. CASE SkipSend(t)
      BY <1>1, <3>2, InvSkip DEF Moves, SkipSend
    <3>3. CASE Fetch(t)
      <4>1. dma.dir = "no"
        BY <1>1, <3>3, Alone DEF Fetch
      <4>2. dma'.dir = "fetch" /\ thr[t].pc = "fetch"
        BY <3>3, <4>1 DEF Fetch, RawStartDma
      <4> QED BY <1>1, <3>3, <4>2, FetchType DEF Moves
    <3> QED BY <1>5, <3>1, <3>2, <3>3
  <2>2. EepOk(t)'
    BY <1>1, <1>2, <1>4, <2>1 DEF EepOk, Has, SameCall
  <2> QED BY <1>1, <1>3, <1>4, <2>1, <2>2, EepOfOne
<1>6. CASE SetCh(t)
  <2>1. OnlyOne(t) /\ thr'[t].pc = "idle"
    BY <1>1, <1>6, SetChStep
  <2>2. EepOk(t)'
    BY <2>1 DEF EepOk, Has
  <2> QED BY <1>1, <1>3, <1>4, <2>1, <2>2, EepOfOne
<1>7. CASE Sent(t) \/ Fetched(t)
  <2>1. /\ Moves(t, IF thr[t].pc = "sent" THEN "fetch" ELSE "parse") /\ dma.dir = "no"
        /\ UNCHANGED << buf, dma >> /\ thr[t].pc \in {"sent", "fetched", "asked"}
    BY <1>1, <1>7, InvSent DEF Sent, Fetched
  <2>2. EepOk(t)'
    BY <1>1, <1>2, <1>3, <1>4, <2>1 DEF EepOk, Has, Good, Moves, SameCall, CallFits
  <2> QED BY <1>1, <1>3, <1>4, <2>1, <2>2, EepOfOne DEF Moves
<1> QED BY <1>5, <1>6, <1>7

LEMMA EepDma ==
  ASSUME OneEepromUser, EepInv, DmaEnds
  PROVE  EepFits'
<1>1. SiInv /\ SiTypeOK /\ EepFits /\ RecordInv
  BY DEF EepInv, RecordInv, SiInv
<1>2. /\ dma.dir # "no" /\ dma'.dir = "no"
      /\ DmaSends \/ \E t \in Threads : DmaFetches(t)
  BY <1>1, DmaStep, DmaCases
<1>3. CASE DmaSends
  <2>1. PICK t \in Threads : Waits(t)
    BY <1>1, <1>2, SomeoneWaits
  <2>2. Others(t) /\ thr[t].pc = "sent"
    BY <1>1, <1>2, <1>3, <2>1, WaitsForDma DEF DmaSends
  <2>3. UNCHANGED << thr, eep, lost >> /\ OnlyOne(t)
    BY <1>1, <1>3 DEF DmaSends, OnlyOne, SiTypeOK
  <2>4. EepOk(t)'
    BY <1>1, <2>2, <2>3 DEF EepFits, EepOk, Has
  <2> QED BY <1>1, <2>2, <2>3, <2>4, EepOfOne DEF EepFits
<1>4. ASSUME NEW t \in Threads, DmaFetches(t)
      PROVE  EepFits'
  <2> DEFINE u == thr[t]  v == thr'[t]
  <2>1. /\ dma.dir = "fetch" /\ u.pc \in {"fetched", "asked"} /\ OnlyOne(t)
        /\ v = u /\ BufferOf(u.x) = dma.b
        /\ pif.cmd = "EEP_STATUS" => buf'[dma.b].ok <=> ~eep
        /\ eep' = (eep \/ pif.cmd = "EEP_WRITE")
        /\ lost' = (lost \/ (eep /\ pif.cmd = "EEP_WRITE"))
    BY <1>4 DEF DmaFetches, DmaAnswers
  <2>2. Others(t) /\ CallFits(u) /\ u.op \in opsOf[t]
    BY <1>1, <1>2, <2>1, WaitsForDma DEF Waits, SiInv, CallsFit
  <2>3. EepOk(t) /\ ~lost
    BY <1>1 DEF EepFits, EepOk
  <2>4. CASE pif.cmd # "EEP_WRITE"
    <3>1. Right(pif, t)
      BY <1>1, <2>1 DEF RecordInv, Served
    <3>2. u.x = "EEP_STATUS" => pif.cmd = "EEP_STATUS"
      BY <3>1, MatchCmd DEF Right, Match, Loose, Skips, PakVoice
    <3>3. EepOk(t)'
      BY <1>2, <2>1, <2>3, <2>4, <3>2 DEF EepOk, Has, Good
    <3> QED BY <1>1, <2>1, <2>2, <2>3, <2>4, <3>3, EepOfOne
  <2>5. CASE pif.cmd = "EEP_WRITE"
    <3>1. u.x = "EEP_WRITE"
      BY <1>1, <1>4, <2>5, ActsAsAsked DEF Acts
    <3>2. u.op = "EEP_WRITE" /\ u.sub # "read" /\ u.pc = "fetched"
      BY <2>1, <2>2, <3>1 DEF CallFits
    <3>3. ~eep /\ ~lost'
      BY <2>1, <2>3, <3>1, <3>2 DEF EepOk
    <3>4. EepOk(t)'
      BY <1>2, <2>1, <3>1, <3>2 DEF EepOk, Has
    <3>5. ASSUME NEW w \in Threads, w # t PROVE EepOk(w)'
      <4>1. thr'[w] = thr[w] /\ thr[w].pc \in {"idle", "acs"}
        BY <2>1, <2>2, <3>5 DEF OnlyOne, Others, Inside
      <4>2. thr[w].pc # "idle" => thr[w].op \notin EepOps
        <5>1. opsOf \in Programs /\ "EEP_WRITE" \in opsOf[t] \cap EepOps
          BY <1>1, <2>2, <3>2 DEF SiTypeOK, EepOps
        <5>2. opsOf[w] \cap EepOps = {}
          BY <3>5, <5>1 DEF OneEepromUser
        <5> QED BY <1>1, <5>2 DEF SiInv, CallsFit
      <4>3. thr[w].pc # "idle" => thr[w].x # "EEP_WRITE" /\ thr[w].sub # "read"
        BY <1>1, <4>2 DEF SiInv, CallsFit, CallFits, EepOps
      <4> QED BY <4>1, <4>3 DEF EepOk, Has
    <3>6. \A w \in Threads : EepOk(w)'
      BY <3>4, <3>5
    <3> QED BY <3>3, <3>6 DEF EepFits, EepOk
  <2> QED BY <2>4, <2>5
<1> QED BY <1>2, <1>3, <1>4

LEMMA EepParse ==
  ASSUME EepInv, NEW t \in Threads, ParseEffect(t)
  PROVE  EepFits'
<1> DEFINE u == thr[t]  v == thr'[t]
<1>1. SiInv /\ EepFits /\ EepOk(t) /\ ~lost
  BY DEF EepInv, RecordInv, EepFits, EepOk
<1>2. /\ u.pc = "parse" /\ OnlyOne(t) /\ UNCHANGED << eep, lost >>
      /\ v.pc \in {"idle", "acs", "send", "fetch"}
      /\ v.pc # "idle" /\ v.x = "EEP_WRITE" =>
           (u.x = "EEP_STATUS" /\ Good(t)) \/ (u.sub = "read" /\ ~u.busy)
      /\ v.pc # "idle" /\ v.sub = "read" =>
           (u.sub = "read" /\ v.busy = u.busy) \/ (u.x = "EEP_STATUS" /\ v.busy = ~Good(t))
  BY DEF ParseEffect, OnlyOne
<1>3. Others(t)
  BY <1>1, <1>2, Alone DEF Inside
<1>4. u.busy \in BOOLEAN /\ v.busy \in BOOLEAN
  BY <1>1, <1>2 DEF SiInv, SiTypeOK, ThrType, OnlyOne
<1>5. EepOk(t)'
  <2>1. v.pc # "idle" /\ v.x = "EEP_WRITE" => ~eep
    BY <1>1, <1>2 DEF EepOk, Has
  <2>2. v.pc # "idle" /\ v.sub = "read" /\ ~v.busy => ~eep
    BY <1>1, <1>2, <1>4 DEF EepOk, Has
  <2> QED BY <1>2, <2>1, <2>2 DEF EepOk, Has
<1> QED BY <1>1, <1>2, <1>3, <1>5, EepOfOne

LEMMA EepBegin ==
  ASSUME EepInv, NEW t \in Threads, BeginEffect(t),
         UNCHANGED << token, padVars, devVars, wireVars >>
  PROVE  EepFits'
<1>1. thr'[t].pc = "acs" /\ thr'[t].x # "EEP_WRITE" /\ thr'[t].sub = "no" /\ \A w \in Threads : w # t => thr'[w] = thr[w]
  BY DEF BeginEffect, OnlyOne
<1>2. ASSUME NEW w \in Threads PROVE EepOk(w)'
  <2>1. CASE w = t
    BY <1>1, <2>1 DEF EepOk, Has
  <2>2. CASE w # t
    <3>1. thr'[w] = thr[w] /\ UNCHANGED << buf, dma, eep >>
      BY <1>1, <2>2
    <3> QED BY <3>1 DEF EepInv, EepFits, EepOk, Has, Good
  <2> QED BY <2>1, <2>2
<1>3. ~lost'
  BY DEF EepInv, EepFits
<1> QED BY <1>2, <1>3 DEF EepFits, EepOk

LEMMA EepAccess ==
  ASSUME EepInv, NEW t \in Threads, AccessEffect(t),
         UNCHANGED << padVars, devVars, wireVars >>
  PROVE  EepFits'
<1>1. /\ thr[t].pc = "acs" /\ token = 1 /\ thr'[t].pc \in {"set", "send"} /\ OnlyOne(t) /\ SiInv
      /\ thr'[t].x = "EEP_WRITE" => thr[t].x = "EEP_WRITE"
      /\ thr'[t].sub = thr[t].sub /\ thr'[t].busy = thr[t].busy
  BY DEF AccessEffect, EepInv, RecordInv
<1>2. Others(t) /\ EepFits /\ EepOk(t) /\ ~lost'
  BY <1>1, Alone DEF EepInv, EepFits, EepOk
<1>3. EepOk(t)'
  BY <1>1, <1>2 DEF EepOk, Has
<1> QED BY <1>1, <1>2, <1>3, EepOfOne

LEMMA EepStep ==
  ASSUME NoBare, PollsPaired, OneEepromUser, EepInv, [Next]_vars
  PROVE  EepInv'
<1>1. SiInv /\ RecordInv' /\ Steps /\ EepFits
  BY StepCases, RecordStep DEF EepInv, RecordInv
<1>2. EepFits'
  <2>1. CASE UNCHANGED vars
    BY <1>1, <2>1, EepStays DEF vars
  <2>2. ASSUME NEW t \in Threads, BeginEffect(t), UNCHANGED << token, padVars, devVars, wireVars >>
        PROVE  EepFits'
    BY <2>2, EepBegin
  <2>3. ASSUME NEW t \in Threads, AccessEffect(t), UNCHANGED << padVars, devVars, wireVars >>
        PROVE  EepFits'
    BY <2>3, EepAccess
  <2>4. ASSUME NEW t \in Threads,
               SetCh(t) \/ Send(t) \/ Sent(t) \/ Fetched(t) \/ SkipSend(t) \/ Fetch(t) \/ ParseEffect(t)
        PROVE  EepFits'
    BY <2>4, EepExchange, EepParse
  <2>5. CASE Quiet
    BY <1>1, <2>5, EepStays DEF Quiet
  <2> QED BY <1>1, <2>1, <2>2, <2>3, <2>4, <2>5, EepDma DEF Steps
<1> QED BY <1>1, <1>2 DEF EepInv

(* A block is never sent to the EEPROM while it stores another (conteepwrite.c), for
   any calls of any threads of which one uses the EEPROM, under the two rules of
   NoDmaRefused: the status is asked before the write, also when a 16K EEPROM has another
   block read in between.  For that read the token is given back, so the write of a second
   user could come between the status and the write that goes by it. *)
THEOREM EepromIsAwaited ==
  ASSUME NoBare, PollsPaired, OneEepromUser
  PROVE  Spec => []EepromWaits
<1>1. Init => EepInv
  <2>1. Init => EepFits
    BY DEF Init, EepFits, Has, Resting
  <2> QED BY <2>1, RecordInit DEF EepInv
<1>2. EepInv /\ [Next]_vars => EepInv'
  BY EepStep
<1>3. EepInv => EepromWaits
  BY DEF EepInv, EepFits, EepromWaits
<1> QED BY <1>1, <1>2, <1>3, PTL DEF Spec

------------------------------------------------------------------------------
(* The pads, as the program is told of them (PadReader) *)

PadKinds == {"gcn", "n64", "none"}
StickAt == [Axes -> Int]

PadReaderTypes ==
  /\ padIn \in [Ports -> PadKinds] /\ types \in [Ports -> {"gcn", "n64"}]
  /\ centers \in [Ports -> [initialized : BOOLEAN, at : StickAt]]
  /\ padData \in [Ports -> [errno : BOOLEAN, button : SUBSET ButtonNames, stick : StickAt]]
  /\ held \in [Ports -> [pad : PadKinds, press : SUBSET (ButtonNames \cup Origins), at : StickAt,
                         map : ButtonMaps \cup {DefaultMap}]]
  /\ restAt \in [Ports -> [known : BOOLEAN, at : StickAt]]
  /\ polled \in [Ports -> BOOLEAN]
  /\ contMap \in ButtonMaps \cup {DefaultMap}

\* A centre that is kept is that of the pad in the port, or of one that was taken out and not
\* missed yet.
CentersKept ==
  \A p \in Ports :
    /\ centers[p].initialized =>
         /\ types[p] = "gcn" /\ padIn[p] # "n64"
         /\ padIn[p] = "gcn" => restAt[p].known /\ restAt[p].at = centers[p].at
         /\ padIn[p] = "none" => ~polled[p]
    /\ restAt[p].known =>
         padIn[p] # "none" /\ (padIn[p] = "gcn" => centers[p].initialized)

\* The buttons that were told are those of what the pad said.
ButtonsTold ==
  \A p \in Ports :
    ~padData[p].errno =>
      /\ held[p].pad \in {"gcn", "n64"}
      /\ held[p].pad = "gcn" =>
           padData[p].button = TranslateGCNButtons(held[p].map, held[p].press, padData[p].stick)
      /\ held[p].pad = "n64" =>
           padData[p].button = TranslateN64Buttons(held[p].map, held[p].press)

PadInv == PadReaderTypes /\ CentersKept /\ SticksTrue /\ ButtonsTold

------------------------------------------------------------------------------
LEMMA MapsHaveButtons ==
  ASSUME NEW m \in ButtonMaps \cup {DefaultMap}
  PROVE  m \in [button : [Digital -> ButtonNames], c : [Directions -> ButtonNames], deadzone : Nat]
<1>1. DefaultMap \in [button : [Digital -> ButtonNames], c : [Directions -> ButtonNames], deadzone : Nat]
  BY DEF DefaultMap, ButtonNames
<1> QED BY <1>1, PadReaderAssumption

LEMMA ButtonsAreNames ==
  ASSUME NEW m \in ButtonMaps \cup {DefaultMap}, NEW press, NEW stick
  PROVE  /\ TranslateGCNButtons(m, press, stick) \subseteq ButtonNames
         /\ TranslateN64Buttons(m, press) \subseteq ButtonNames
<1>1. m.button \in [Digital -> ButtonNames] /\ m.c \in [Directions -> ButtonNames]
  BY MapsHaveButtons
<1>2. Pushed(stick, m.deadzone) \subseteq Directions BY DEF Pushed
<1> QED BY <1>1, <1>2 DEF TranslateGCNButtons, TranslateN64Buttons

LEMMA ClampedIsInt == ASSUME NEW n \in Int PROVE ClampS8(n) \in Int
BY DEF ClampS8

LEMMA FromCenterIs ==
  ASSUME NEW center, center.at \in StickAt, NEW at \in StickAt
  PROVE  /\ FromCenter(center, at) \in StickAt
         /\ \A a \in Axes : FromCenter(center, at)[a] = ClampS8(at[a] - center.at[a])
<1>1. \A a \in Axes : at[a] - center.at[a] \in Int BY DEF StickAt
<1> QED BY <1>1, ClampedIsInt DEF FromCenter, StickAt

LEMMA Centre0Is == Centre0 \in StickAt
BY DEF Centre0, StickAt

\* A pad that is asked says where its sticks are.
Says(said) == said.press \in Presses /\ said.at \in Positions

LEMMA SaidIs ==
  ASSUME NEW said, Says(said)
  PROVE  said.at \in StickAt /\ said.press \in SUBSET (ButtonNames \cup Origins)
<1>1. said.at \in [Axes -> 0..255] BY PadReaderAssumption DEF Says
<1> QED BY <1>1, PadReaderAssumption DEF Says, StickAt

LEMMA CenterIs ==
  ASSUME NEW center \in [initialized : BOOLEAN, at : StickAt], NEW at \in StickAt
  PROVE  /\ CenterOf(center, at) \in [initialized : BOOLEAN, at : StickAt]
         /\ CenterOf(center, at).initialized
         /\ center.initialized => CenterOf(center, at).at = center.at
         /\ ~center.initialized => CenterOf(center, at).at = at
BY DEF CenterOf

LEMMA DataIs ==
  ASSUME NEW type \in {"gcn", "n64"}, NEW m \in ButtonMaps \cup {DefaultMap},
         NEW center \in [initialized : BOOLEAN, at : StickAt], NEW said, Says(said),
         NEW d, d = DataOf(type, m, center, said)
  PROVE  /\ d \in [errno : BOOLEAN, button : SUBSET ButtonNames, stick : StickAt]
         /\ ~d.errno
         /\ type = "gcn" => d.button = TranslateGCNButtons(m, said.press, d.stick)
         /\ type = "n64" => d.button = TranslateN64Buttons(m, said.press)
         /\ type = "gcn" => \A a \in Axes :
              d.stick[a] = ClampS8(said.at[a] - CenterOf(center, said.at).at[a])
<1>1. said.at \in StickAt BY SaidIs
<1>2. CenterOf(center, said.at).at \in StickAt BY <1>1, CenterIs
<1> DEFINE s == IF type = "gcn" THEN FromCenter(CenterOf(center, said.at), said.at) ELSE Centre0
<1>3. s \in StickAt BY <1>1, <1>2, FromCenterIs, Centre0Is
<1>4. type = "gcn" => \A a \in Axes : s[a] = ClampS8(said.at[a] - CenterOf(center, said.at).at[a])
  BY <1>1, <1>2, FromCenterIs
<1>5. d = [errno |-> FALSE, stick |-> s,
           button |-> IF type = "gcn" THEN TranslateGCNButtons(m, said.press, s)
                      ELSE TranslateN64Buttons(m, said.press)]
  BY DEF DataOf
<1> HIDE DEF s
<1> QED BY <1>3, <1>4, <1>5, ButtonsAreNames

LEMMA PadsStart == PadInit => PadInv
<1> SUFFICES ASSUME PadInit PROVE PadInv OBVIOUS
<1>1. PadReaderTypes
  BY Centre0Is DEF PadInit, PadReaderTypes, PadKinds
<1>2. CentersKept BY DEF PadInit, CentersKept
<1>3. SticksTrue /\ ButtonsTold BY DEF PadInit, SticksTrue, ButtonsTold
<1> QED BY <1>1, <1>2, <1>3 DEF PadInv

------------------------------------------------------------------------------
\* A step at which the map, the ports and the types stay
LEMMA QueryKeeps == ASSUME PadInv, QueryPads PROVE PadInv'
<1>1. PadReaderTypes'
  BY DEF PadInv, PadReaderTypes, QueryPads, PadKinds
<1>2. CentersKept'
  <2> SUFFICES ASSUME NEW p \in Ports
               PROVE  /\ centers[p].initialized =>
                           /\ types'[p] = "gcn" /\ padIn[p] # "n64"
                           /\ padIn[p] = "gcn" => restAt[p].known /\ restAt[p].at = centers[p].at
                           /\ padIn[p] = "none" => ~polled[p]
                      /\ restAt[p].known =>
                           padIn[p] # "none" /\ (padIn[p] = "gcn" => centers[p].initialized)
    BY DEF QueryPads, CentersKept
  <2>1. types'[p] = IF padIn[p] = "none" THEN types[p] ELSE padIn[p] BY DEF QueryPads
  <2>2. padIn[p] \in PadKinds BY DEF PadInv, PadReaderTypes
  <2> QED BY <2>1, <2>2 DEF PadInv, CentersKept, PadKinds
<1>3. SticksTrue' BY DEF PadInv, SticksTrue, QueryPads
<1>4. ButtonsTold' BY DEF PadInv, ButtonsTold, QueryPads
<1> QED BY <1>1, <1>2, <1>3, <1>4 DEF PadInv

LEMMA MapKeeps ==
  ASSUME PadInv, NEW map \in ButtonMaps \cup {DefaultMap}, SetControllerMap(map)
  PROVE  PadInv'
<1>1. PadReaderTypes' BY DEF PadInv, PadReaderTypes, SetControllerMap
<1>2. CentersKept' BY DEF PadInv, CentersKept, SetControllerMap
<1>3. SticksTrue' /\ ButtonsTold' BY DEF PadInv, SticksTrue, ButtonsTold, SetControllerMap
<1> QED BY <1>1, <1>2, <1>3 DEF PadInv

LEMMA MoveKeeps ==
  ASSUME ~SwapsUnseen, PadInv, NEW q \in Ports, NEW pad \in PadKinds, MovePad(q, pad)
  PROVE  PadInv'
<1> USE DEF PadInv
<1>1. /\ padIn' = [padIn EXCEPT ![q] = pad] /\ polled' = [polled EXCEPT ![q] = pad # "none" /\ @]
      /\ restAt' = [restAt EXCEPT ![q].known = FALSE]
      /\ types' = types /\ centers' = centers /\ padData' = padData /\ held' = held /\ contMap' = contMap
      /\ (padIn[q] = "none") = (pad # "none") /\ (pad = "none" \/ polled[q])
  BY DEF MovePad
<1>2. PadReaderTypes'
  <2>1. padIn' \in [Ports -> PadKinds] /\ polled' \in [Ports -> BOOLEAN]
    BY <1>1 DEF PadReaderTypes
  <2>2. restAt' \in [Ports -> [known : BOOLEAN, at : StickAt]]
    BY <1>1 DEF PadReaderTypes
  <2> QED BY <1>1, <2>1, <2>2 DEF PadReaderTypes
<1>3. \A p \in Ports :
        /\ p # q => padIn'[p] = padIn[p] /\ polled'[p] = polled[p] /\ restAt'[p] = restAt[p]
        /\ p = q => padIn'[p] = pad /\ polled'[p] = (pad # "none" /\ polled[p]) /\ ~restAt'[p].known
  BY <1>1 DEF PadReaderTypes
<1>4. CentersKept'
  <2> SUFFICES ASSUME NEW p \in Ports
               PROVE  /\ centers[p].initialized =>
                           /\ types[p] = "gcn" /\ padIn'[p] # "n64"
                           /\ padIn'[p] = "gcn" => restAt'[p].known /\ restAt'[p].at = centers[p].at
                           /\ padIn'[p] = "none" => ~polled'[p]
                      /\ restAt'[p].known =>
                           padIn'[p] # "none" /\ (padIn'[p] = "gcn" => centers[p].initialized)
    BY <1>1 DEF CentersKept
  <2>1. CASE p # q BY <1>3, <2>1 DEF CentersKept
  <2>2. CASE p = q
    <3>1. padIn[p] = "none" => (centers[p].initialized => ~polled[p]) BY DEF CentersKept
    <3>2. pad # "none" => ~centers[p].initialized BY <1>1, <2>2, <3>1
    <3>3. centers[p].initialized => types[p] = "gcn" BY DEF CentersKept
    <3> QED BY <1>3, <2>2, <3>2, <3>3
  <2> QED BY <2>1, <2>2
<1>5. SticksTrue'
  <2>1. \A p \in Ports : restAt'[p].known => restAt[p].known /\ restAt'[p].at = restAt[p].at
    BY <1>3
  <2> QED BY <1>1, <2>1 DEF SticksTrue
<1>6. ButtonsTold' BY <1>1 DEF ButtonsTold
<1> QED BY <1>2, <1>4, <1>5, <1>6

\* The parts of a reading, one by one
Reading(good, said) ==
  /\ good = {p \in Ports : padIn[p] = types[p]}
  /\ \A p \in Ports : Says(said[p])
  /\ centers' = [p \in Ports |->
       IF types[p] # "gcn" THEN centers[p]
       ELSE IF p \in good THEN CenterOf(centers[p], said[p].at)
       ELSE [centers[p] EXCEPT !.initialized = FALSE]]
  /\ padData' = [p \in Ports |->
       IF p \in good THEN DataOf(types[p], contMap, centers[p], said[p]) ELSE [padData[p] EXCEPT !.errno = TRUE]]
  /\ held' = [p \in Ports |->
       IF p \in good THEN [pad |-> padIn[p], press |-> said[p].press, at |-> said[p].at, map |-> contMap]
       ELSE held[p]]
  /\ restAt' = [p \in Ports |->
       IF p \in good /\ ~restAt[p].known THEN [known |-> TRUE, at |-> said[p].at] ELSE restAt[p]]
  /\ polled' = [p \in Ports |-> TRUE]
  /\ padIn' = padIn /\ types' = types /\ contMap' = contMap

\* What the reading of one port does
PortRead(p, said) ==
  /\ padIn[p] = types[p] =>
       /\ padData'[p] = DataOf(types[p], contMap, centers[p], said)
       /\ held'[p] = [pad |-> padIn[p], press |-> said.press, at |-> said.at, map |-> contMap]
       /\ types[p] = "gcn" => centers'[p] = CenterOf(centers[p], said.at)
       /\ restAt'[p] = IF restAt[p].known THEN restAt[p] ELSE [known |-> TRUE, at |-> said.at]
  /\ padIn[p] # types[p] =>
       /\ padData'[p] = [padData[p] EXCEPT !.errno = TRUE] /\ held'[p] = held[p]
       /\ types[p] = "gcn" => centers'[p] = [centers[p] EXCEPT !.initialized = FALSE]
       /\ restAt'[p] = restAt[p]
  /\ types[p] # "gcn" => centers'[p] = centers[p]
  /\ polled'[p]

LEMMA ReadingOfPorts ==
  ASSUME NEW good, NEW said, Reading(good, said), NEW p \in Ports
  PROVE  PortRead(p, said[p])
BY DEF Reading, PortRead

\* A port and its data before a reading
PortTypes(p) ==
  /\ padIn[p] \in PadKinds /\ types[p] \in {"gcn", "n64"}
  /\ centers[p] \in [initialized : BOOLEAN, at : StickAt]
  /\ padData[p] \in [errno : BOOLEAN, button : SUBSET ButtonNames, stick : StickAt]
  /\ held[p] \in [pad : PadKinds, press : SUBSET (ButtonNames \cup Origins), at : StickAt,
                  map : ButtonMaps \cup {DefaultMap}]
  /\ restAt[p] \in [known : BOOLEAN, at : StickAt]
  /\ polled[p] \in BOOLEAN

LEMMA PortsTyped == ASSUME PadReaderTypes, NEW p \in Ports PROVE PortTypes(p)
BY DEF PadReaderTypes, PortTypes

LEMMA HeldIs ==
  ASSUME NEW pad \in PadKinds, NEW press \in SUBSET (ButtonNames \cup Origins), NEW at \in StickAt,
         NEW map \in ButtonMaps \cup {DefaultMap}
  PROVE  [pad |-> pad, press |-> press, at |-> at, map |-> map] \in
           [pad : PadKinds, press : SUBSET (ButtonNames \cup Origins), at : StickAt,
            map : ButtonMaps \cup {DefaultMap}]
OBVIOUS

LEMMA ReadingKeepsTypes ==
  ASSUME PadInv, NEW good, NEW said, Reading(good, said)
  PROVE  PadReaderTypes'
<1>1. \A p \in Ports :
        /\ centers'[p] \in [initialized : BOOLEAN, at : StickAt]
        /\ padData'[p] \in [errno : BOOLEAN, button : SUBSET ButtonNames, stick : StickAt]
        /\ held'[p] \in [pad : PadKinds, press : SUBSET (ButtonNames \cup Origins), at : StickAt,
                         map : ButtonMaps \cup {DefaultMap}]
        /\ restAt'[p] \in [known : BOOLEAN, at : StickAt]
  <2> SUFFICES ASSUME NEW p \in Ports
               PROVE  /\ centers'[p] \in [initialized : BOOLEAN, at : StickAt]
                      /\ padData'[p] \in [errno : BOOLEAN, button : SUBSET ButtonNames, stick : StickAt]
                      /\ held'[p] \in [pad : PadKinds, press : SUBSET (ButtonNames \cup Origins), at : StickAt,
                                       map : ButtonMaps \cup {DefaultMap}]
                      /\ restAt'[p] \in [known : BOOLEAN, at : StickAt]
    OBVIOUS
  <2>1. PortRead(p, said[p]) BY ReadingOfPorts
  <2>2. PortTypes(p) BY PortsTyped DEF PadInv
  <2>3. Says(said[p]) BY DEF Reading
  <2>4. said[p].at \in StickAt /\ said[p].press \in SUBSET (ButtonNames \cup Origins) BY <2>3, SaidIs
  <2>5. contMap \in ButtonMaps \cup {DefaultMap} BY DEF PadInv, PadReaderTypes
  <2>6. CASE padIn[p] = types[p]
    <3>1. padData'[p] \in [errno : BOOLEAN, button : SUBSET ButtonNames, stick : StickAt]
      <4>1. padData'[p] = DataOf(types[p], contMap, centers[p], said[p]) BY <2>1, <2>6 DEF PortRead
      <4>2. types[p] \in {"gcn", "n64"} /\ centers[p] \in [initialized : BOOLEAN, at : StickAt]
        BY <2>2 DEF PortTypes
      <4> QED BY <4>1, <4>2, <2>3, <2>5, DataIs
    <3>2. centers'[p] \in [initialized : BOOLEAN, at : StickAt]
      BY <2>1, <2>2, <2>4, <2>6, CenterIs DEF PortRead, PortTypes
    <3>3. held'[p] \in [pad : PadKinds, press : SUBSET (ButtonNames \cup Origins), at : StickAt,
                         map : ButtonMaps \cup {DefaultMap}]
      <4>1. held'[p] = [pad |-> padIn[p], press |-> said[p].press, at |-> said[p].at, map |-> contMap]
        BY <2>1, <2>6 DEF PortRead
      <4>2. padIn[p] \in PadKinds BY <2>2 DEF PortTypes
      <4>3. [pad |-> padIn[p], press |-> said[p].press, at |-> said[p].at, map |-> contMap] \in
              [pad : PadKinds, press : SUBSET (ButtonNames \cup Origins), at : StickAt,
               map : ButtonMaps \cup {DefaultMap}]
        BY <4>2, <2>4, <2>5, HeldIs
      <4> QED BY <4>1, <4>3
    <3>4. restAt'[p] \in [known : BOOLEAN, at : StickAt]
      <4>1. restAt'[p] = IF restAt[p].known THEN restAt[p] ELSE [known |-> TRUE, at |-> said[p].at]
        BY <2>1, <2>6 DEF PortRead
      <4>2. restAt[p] \in [known : BOOLEAN, at : StickAt] BY <2>2 DEF PortTypes
      <4>3. [known |-> TRUE, at |-> said[p].at] \in [known : BOOLEAN, at : StickAt] BY <2>4
      <4>4. CASE restAt[p].known BY <4>1, <4>2, <4>4
      <4>5. CASE ~restAt[p].known BY <4>1, <4>3, <4>5
      <4> QED BY <4>4, <4>5
    <3> QED BY <3>1, <3>2, <3>3, <3>4
  <2>7. CASE padIn[p] # types[p]
    BY <2>1, <2>2, <2>7 DEF PortRead, PortTypes
  <2> QED BY <2>6, <2>7
<1>2. /\ padIn' = padIn /\ types' = types /\ contMap' = contMap /\ polled' = [p \in Ports |-> TRUE]
      /\ centers' = [p \in Ports |-> centers'[p]] /\ padData' = [p \in Ports |-> padData'[p]]
      /\ held' = [p \in Ports |-> held'[p]] /\ restAt' = [p \in Ports |-> restAt'[p]]
  BY DEF Reading
<1> QED BY <1>1, <1>2 DEF PadInv, PadReaderTypes

\* After a reading, of one port
PortKept(p) ==
  /\ centers[p].initialized =>
       /\ types[p] = "gcn" /\ padIn[p] # "n64"
       /\ padIn[p] = "gcn" => restAt[p].known /\ restAt[p].at = centers[p].at
       /\ padIn[p] = "none" => ~polled[p]
  /\ restAt[p].known => padIn[p] # "none" /\ (padIn[p] = "gcn" => centers[p].initialized)
PortTold(p) ==
  /\ ~padData[p].errno /\ held[p].pad = "gcn" /\ restAt[p].known =>
       \A a \in Axes : padData[p].stick[a] = ClampS8(held[p].at[a] - restAt[p].at[a])
  /\ ~padData[p].errno =>
       /\ held[p].pad \in {"gcn", "n64"}
       /\ held[p].pad = "gcn" =>
            padData[p].button = TranslateGCNButtons(held[p].map, held[p].press, padData[p].stick)
       /\ held[p].pad = "n64" =>
            padData[p].button = TranslateN64Buttons(held[p].map, held[p].press)

LEMMA PortReadKeeps ==
  ASSUME NEW p \in Ports, PortTypes(p), PortKept(p), PortTold(p),
         contMap \in ButtonMaps \cup {DefaultMap}, NEW said, Says(said), PortRead(p, said),
         padIn'[p] = padIn[p], types'[p] = types[p]
  PROVE  PortKept(p)' /\ PortTold(p)'
<1>1. said.at \in StickAt BY SaidIs
<1>2. centers[p] \in [initialized : BOOLEAN, at : StickAt] /\ types[p] \in {"gcn", "n64"}
      /\ restAt[p] \in [known : BOOLEAN, at : StickAt]
  BY DEF PortTypes
<1>3. CASE padIn[p] # types[p]
  <2>1. padData'[p].errno BY <1>3 DEF PortRead, PortTypes
  <2>2. PortTold(p)' BY <2>1 DEF PortTold
  <2>3. ~centers'[p].initialized
    <3>1. CASE types[p] = "gcn" BY <1>2, <1>3, <3>1 DEF PortRead
    <3>2. CASE types[p] # "gcn" BY <3>2 DEF PortRead, PortKept
    <3> QED BY <3>1, <3>2
  <2>4. restAt'[p] = restAt[p] BY <1>3 DEF PortRead
  <2>5. restAt[p].known => padIn[p] # "gcn" BY <1>2, <1>3 DEF PortKept
  <2>6. PortKept(p)' BY <2>3, <2>4, <2>5 DEF PortKept
  <2> QED BY <2>2, <2>6
<1>4. CASE padIn[p] = types[p]
  <2>1. /\ padData'[p] = DataOf(types[p], contMap, centers[p], said)
        /\ held'[p] = [pad |-> padIn[p], press |-> said.press, at |-> said.at, map |-> contMap]
        /\ types[p] = "gcn" => centers'[p] = CenterOf(centers[p], said.at)
        /\ types[p] # "gcn" => centers'[p] = centers[p]
        /\ restAt'[p] = IF restAt[p].known THEN restAt[p] ELSE [known |-> TRUE, at |-> said.at]
    BY <1>4 DEF PortRead
  <2>2. /\ ~padData'[p].errno
        /\ types[p] = "gcn" => padData'[p].button = TranslateGCNButtons(contMap, said.press, padData'[p].stick)
        /\ types[p] = "n64" => padData'[p].button = TranslateN64Buttons(contMap, said.press)
        /\ types[p] = "gcn" => \A a \in Axes :
             padData'[p].stick[a] = ClampS8(said.at[a] - CenterOf(centers[p], said.at).at[a])
    BY <1>2, <2>1, DataIs
  <2>3. restAt'[p].known /\ (~restAt[p].known => restAt'[p].at = said.at)
        /\ (restAt[p].known => restAt'[p].at = restAt[p].at)
    BY <1>2, <2>1
  <2>4. types[p] = "gcn" => centers'[p].initialized /\ centers'[p].at = restAt'[p].at
    <3> SUFFICES ASSUME types[p] = "gcn" PROVE centers'[p].initialized /\ centers'[p].at = restAt'[p].at
      OBVIOUS
    <3>1. restAt[p].known <=> centers[p].initialized BY <1>4 DEF PortKept
    <3>2. restAt[p].known => restAt[p].at = centers[p].at BY <1>4, <3>1 DEF PortKept
    <3>3. centers'[p] = CenterOf(centers[p], said.at) BY <2>1
    <3> QED BY <1>1, <1>2, <2>3, <3>1, <3>2, <3>3, CenterIs
  <2>5. PortKept(p)'
    <3>1. types[p] # "gcn" => ~centers'[p].initialized BY <2>1 DEF PortKept
    <3> QED BY <1>2, <1>4, <2>3, <2>4, <3>1 DEF PortKept
  <2>6. PortTold(p)'
    <3>1. held'[p].pad = types[p] /\ held'[p].press = said.press /\ held'[p].at = said.at
          /\ held'[p].map = contMap
      BY <1>4, <2>1
    <3>2. types[p] = "gcn" => CenterOf(centers[p], said.at).at = restAt'[p].at BY <2>1, <2>4
    <3>3. types[p] = "gcn" => \A a \in Axes :
            padData'[p].stick[a] = ClampS8(held'[p].at[a] - restAt'[p].at[a])
      BY <2>2, <3>1, <3>2
    <3> QED BY <1>2, <2>2, <3>1, <3>3 DEF PortTold
  <2> QED BY <2>5, <2>6
<1> QED BY <1>3, <1>4

LEMMA ReadKeeps ==
  ASSUME ~Glitches, PadInv, NEW good \in SUBSET Ports,
         NEW said \in [Ports -> [press : Presses, at : Positions]], ReadPads(good, said)
  PROVE  PadInv'
<1>1. Reading(good, said) BY DEF ReadPads, Reading, Says
<1>2. PadReaderTypes' BY <1>1, ReadingKeepsTypes
<1>3. \A p \in Ports : PortKept(p)' /\ PortTold(p)'
  <2> SUFFICES ASSUME NEW p \in Ports PROVE PortKept(p)' /\ PortTold(p)' OBVIOUS
  <2>1. PortTypes(p) BY PortsTyped DEF PadInv
  <2>2. PortKept(p) BY DEF PadInv, CentersKept, PortKept
  <2>3. PortTold(p) BY DEF PadInv, SticksTrue, ButtonsTold, PortTold
  <2>4. PortRead(p, said[p]) BY <1>1, ReadingOfPorts
  <2>5. Says(said[p]) /\ padIn'[p] = padIn[p] /\ types'[p] = types[p] BY <1>1 DEF Reading
  <2>6. contMap \in ButtonMaps \cup {DefaultMap} BY DEF PadInv, PadReaderTypes
  <2> QED BY <2>1, <2>2, <2>3, <2>4, <2>5, <2>6, PortReadKeeps
<1>4. CentersKept' BY <1>3 DEF CentersKept, PortKept
<1>5. SticksTrue' BY <1>3 DEF SticksTrue, PortTold
<1>6. ButtonsTold' BY <1>3 DEF ButtonsTold, PortTold
<1> QED BY <1>2, <1>4, <1>5, <1>6 DEF PadInv

LEMMA PadStep == ASSUME ~SwapsUnseen, ~Glitches, PadInv, [PadNext]_padReadVars PROVE PadInv'
<1>1. CASE PadNext
  <2>1. ASSUME NEW good \in SUBSET Ports, NEW said \in [Ports -> [press : Presses, at : Positions]],
               ReadPads(good, said)
        PROVE  PadInv'
    BY <2>1, ReadKeeps
  <2>2. CASE QueryPads BY <2>2, QueryKeeps
  <2>3. ASSUME NEW map \in ButtonMaps \cup {DefaultMap}, SetControllerMap(map) PROVE PadInv'
    BY <2>3, MapKeeps
  <2>4. ASSUME NEW p \in Ports, NEW pad \in {"gcn", "n64", "none"}, MovePad(p, pad) PROVE PadInv'
    BY <2>4, MoveKeeps DEF PadKinds
  <2> QED BY <1>1, <2>1, <2>2, <2>3, <2>4 DEF PadNext
<1>2. CASE UNCHANGED padReadVars
  <2>1. PadReaderTypes' BY <1>2 DEF PadInv, PadReaderTypes, padReadVars
  <2>2. CentersKept' BY <1>2 DEF PadInv, CentersKept, padReadVars
  <2>3. SticksTrue' /\ ButtonsTold' BY <1>2 DEF PadInv, SticksTrue, ButtonsTold, padReadVars
  <2> QED BY <2>1, <2>2, <2>3 DEF PadInv
<1> QED BY <1>1, <1>2

\* The default map changes no name.
LEMMA DefaultKeepsNames ==
  ASSUME NEW press \in SUBSET (ButtonNames \cup Origins), NEW stick \in StickAt
  PROVE  /\ TranslateN64Buttons(DefaultMap, press) = press \ (Origins \cup {"x", "y"})
         /\ TranslateGCNButtons(DefaultMap, press, stick) = (press \cap Digital) \cup Pushed(stick, 38)
<1>1. \A b \in Digital : DefaultMap.button[b] = b BY DEF DefaultMap
<1>2. \A d \in Directions : DefaultMap.c[d] = d BY DEF DefaultMap
<1>3. DefaultMap.deadzone = 38 BY DEF DefaultMap
<1>4. {DefaultMap.button[b] : b \in press \cap (Digital \ {"x", "y"})} = press \cap (Digital \ {"x", "y"})
  BY <1>1
<1>5. {DefaultMap.c[d] : d \in press \cap Directions} = press \cap Directions BY <1>2
<1>6. {DefaultMap.button[b] : b \in press \cap Digital} = press \cap Digital BY <1>1
<1>7. {DefaultMap.c[d] : d \in Pushed(stick, 38)} = Pushed(stick, 38) BY <1>2 DEF Pushed
<1>8. (press \cap (Digital \ {"x", "y"})) \cup (press \cap Directions) = press \ (Origins \cup {"x", "y"})
  BY DEF ButtonNames, Digital, Directions, Origins
<1>9. TranslateN64Buttons(DefaultMap, press) = press \ (Origins \cup {"x", "y"})
  BY <1>4, <1>5, <1>8 DEF TranslateN64Buttons
<1>10. TranslateGCNButtons(DefaultMap, press, stick) = (press \cap Digital) \cup Pushed(stick, 38)
  BY <1>3, <1>6, <1>7 DEF TranslateGCNButtons
<1> QED BY <1>9, <1>10

LEMMA NeverBothWays ==
  ASSUME NEW stick \in StickAt
  PROVE  /\ Pushed(stick, 38) \subseteq Directions
         /\ ~({"c_left", "c_right"} \subseteq Pushed(stick, 38))
         /\ ~({"c_up", "c_down"} \subseteq Pushed(stick, 38))
<1>1. stick["c_stick_x"] \in Int /\ stick["c_stick_y"] \in Int BY DEF StickAt, Axes
<1>2. "c_left" \in Pushed(stick, 38) => stick["c_stick_x"] < -38 BY DEF Pushed
<1>3. "c_right" \in Pushed(stick, 38) => stick["c_stick_x"] > 38 BY DEF Pushed
<1>4. "c_down" \in Pushed(stick, 38) => stick["c_stick_y"] < -38 BY DEF Pushed
<1>5. "c_up" \in Pushed(stick, 38) => stick["c_stick_y"] > 38 BY DEF Pushed
<1> QED BY <1>1, <1>2, <1>3, <1>4, <1>5 DEF Pushed

LEMMA TheInvariantTellsButtons == PadInv => ButtonsTrue
<1> SUFFICES ASSUME PadInv, NEW p \in Ports, ~padData[p].errno, held[p].map = DefaultMap
             PROVE  /\ held[p].pad = "n64" =>
                         padData[p].button = held[p].press \ (Origins \cup {"x", "y"})
                    /\ held[p].pad = "gcn" =>
                         /\ padData[p].button \cap Digital = held[p].press \cap Digital
                         /\ padData[p].button \subseteq ButtonNames
                         /\ ~({"c_left", "c_right"} \subseteq padData[p].button)
                         /\ ~({"c_up", "c_down"} \subseteq padData[p].button)
  BY DEF ButtonsTrue
<1> DEFINE press == held[p].press
           stick == padData[p].stick
<1>1. press \in SUBSET (ButtonNames \cup Origins) /\ stick \in StickAt
  BY PortsTyped DEF PadInv, PortTypes
<1>2. CASE held[p].pad = "n64" BY <1>1, <1>2, DefaultKeepsNames DEF PadInv, ButtonsTold
<1>3. CASE held[p].pad = "gcn"
  <2>1. padData[p].button = (press \cap Digital) \cup Pushed(stick, 38)
    BY <1>1, <1>3, DefaultKeepsNames DEF PadInv, ButtonsTold
  <2>2. Pushed(stick, 38) \subseteq Directions
        /\ ~({"c_left", "c_right"} \subseteq Pushed(stick, 38))
        /\ ~({"c_up", "c_down"} \subseteq Pushed(stick, 38))
    BY <1>1, NeverBothWays
  <2>3. Directions \cap Digital = {} BY DEF Directions, Digital
  <2>4. "c_left" \notin Digital /\ "c_right" \notin Digital /\ "c_up" \notin Digital /\ "c_down" \notin Digital
    BY DEF Digital
  <2> HIDE DEF press, stick
  <2>5. padData[p].button \cap Digital = press \cap Digital BY <2>1, <2>2, <2>3
  <2>6. padData[p].button \subseteq ButtonNames BY <2>1, <2>2 DEF ButtonNames
  <2>7. ~({"c_left", "c_right"} \subseteq padData[p].button) BY <2>1, <2>2, <2>4
  <2>8. ~({"c_up", "c_down"} \subseteq padData[p].button) BY <2>1, <2>2, <2>4
  <2> QED BY <1>3, <2>5, <2>6, <2>7, <2>8 DEF press
<1> QED BY <1>2, <1>3

\* What the program is told of the pads is what they say: their buttons by the map, and their
\* sticks from where they were when the pad was first read, when no pad is exchanged between two
\* readings and none that is there fails to answer (osContGetReadData of contreaddata.c).
THEOREM PadsAreTrue ==
  ASSUME ~SwapsUnseen, ~Glitches
  PROVE  PadSpec => []PadsTrue
<1>1. PadInit => PadInv BY PadsStart
<1>2. PadInv /\ [PadNext]_padReadVars => PadInv' BY PadStep
<1>3. PadInv => PadsTrue BY TheInvariantTellsButtons DEF PadInv, PadsTrue
<1> QED BY <1>1, <1>2, <1>3, PTL DEF PadSpec
================================================================================
