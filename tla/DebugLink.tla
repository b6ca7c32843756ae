------------------------------- MODULE DebugLink -------------------------------
(***************************************************************************)
(* What goes to a debugging host: the packets of __osRdbSend (rdbsend.c),  *)
(* the log (log.c), data that is read and written (host/), the answers of  *)
(* kdebugserver, and the characters of __osSyncPutChars.                   *)
(*                                                                         *)
(* A packet with a few bytes is put in a register of the debugger; the     *)
(* host takes it and raises IP6.  The handler of IP6 that sends the next   *)
(* packet belongs to the debugger and is not in the repository: HandleIP6  *)
(* is what __osRdbSend and kdebugserver expect of it.  A byte is what      *)
(* stream it is of and its number there.                                   *)
(*                                                                         *)
(* The profilers of the debug library are at the end.  One adds up the     *)
(* time of each thread: a callback at every dispatch (threadprofile*.c,    *)
(* exceptasm.s).  The other counts where the program is each time a timer  *)
(* fires (profile.c, timerintr.c).                                         *)
(***************************************************************************)
EXTENDS Integers, Sequences, FiniteSets, SequencesExt

CONSTANTS
  PacketLen,    \* bytes in a packet, 3
  RingSize,     \* __osRdb_IP6_Size
  Chunk,        \* what is sent at a time, 0x8000 bytes
  LogLen,       \* words of the log
  EventLens,    \* words of an event
  DataLens,     \* bytes the program writes to the host at a time
  MaxLogged, MaxWritten, MaxAsked, MaxPuts,
  LogFlushers,  \* threads that flush the log
  PutsBusy      \* characters are put while packets are on their way

ASSUME DebugLinkAssumption ==
  /\ {PacketLen, RingSize, Chunk} \subseteq Nat \ {0} /\ LogLen \in Nat
  /\ {MaxLogged, MaxWritten, MaxAsked, MaxPuts} \subseteq Nat /\ PutsBusy \in BOOLEAN

VARIABLES
  reg,       \* the packet in the register, or NoPacket
  ip6,       \* the host took it
  ring,      \* the packets that wait, and whether a new one goes to the register
  got,       \* stream -> the bytes the host has
  log,       \* the log and whether events go into it
  logged,    \* the words of every event that went into it
  users,     \* flusher or writer -> how far it is
  written,   \* the bytes that were to be written
  kd,        \* kdebugserver or __osSyncPutChars, with interrupts disabled
  kdAsked,   \* the bytes kdebugserver was asked for
  puts       \* the characters that were put

linkVars == << reg, ip6, ring, got, log, logged, users, written, kd, kdAsked, puts >>

Streams == {"log", "log ct", "data", "data ct", "kdebug", "chars"}
Quiet == [at |-> "none", left |-> << >>, last |-> FALSE, type |-> "kdebug"]
NoPacket == [type |-> "none", bytes |-> << >>]
Packet(type, bytes) == [type |-> type, bytes |-> bytes]
Smaller(a, b) == IF a < b THEN a ELSE b
First(s, n) == SubSeq(s, 1, Smaller(n, Len(s)))
Drop0(s, n) == SubSeq(s, n + 1, Len(s))
Users == LogFlushers \cup {"writer"}
StreamOf(u) == IF u = "writer" THEN "data" ELSE "log"
CountOf(u)  == IF u = "writer" THEN "data ct" ELSE "log ct"
Resting == [at |-> "none", left |-> << >>, chunk |-> << >>]

LinkInit ==
  /\ reg = NoPacket /\ ip6 = FALSE /\ ring = [packets |-> << >>, empty |-> TRUE]
  /\ got = [s \in Streams |-> << >>]
  /\ log = [words |-> << >>, ok |-> TRUE] /\ logged = << >>
  /\ users = [u \in Users |-> Resting] /\ written = << >>
  /\ kd = Quiet /\ kdAsked = << >> /\ puts = << >>

------------------------------------------------------------------------------
(* The host, and the debugger's handler *)

HostTakes ==
  /\ reg # NoPacket
  /\ reg' = NoPacket /\ ip6' = TRUE /\ got' = [got EXCEPT ![reg.type] = @ \o reg.bytes]
  /\ UNCHANGED << ring, log, logged, users, written, kd, kdAsked, puts >>

\* OS_EVENT_RDB_LOG_DONE, OS_EVENT_RDB_DATA_DONE: the host has all that was announced.
Announced(u) == FoldLeft(LAMBDA n, m : n + m, 0, got[CountOf(u)])
HostDone(u) ==
  /\ users[u].at = "wait" /\ Len(got[StreamOf(u)]) = Announced(u)
  /\ users' = [users EXCEPT ![u].at = IF users[u].left = << >> THEN "done" ELSE "count"]
  /\ UNCHANGED << reg, ip6, ring, got, log, logged, written, kd, kdAsked, puts >>

Enabled == kd.at = "none"

HandleIP6 ==
  /\ Enabled /\ ip6 /\ ip6' = FALSE
  /\ IF ring.packets = << >> THEN ring' = [ring EXCEPT !.empty = TRUE] /\ UNCHANGED reg
     ELSE reg' = Head(ring.packets) /\ ring' = [ring EXCEPT !.packets = Tail(@)]
  /\ UNCHANGED << got, log, logged, users, written, kd, kdAsked, puts >>

------------------------------------------------------------------------------
(* __osRdbSend: the first packet goes to the register when nothing is on its   *)
(* way, the others into the ring as far as it has room.  It gives back how     *)
(* much it took.                                                               *)

InRing(bytes) == Smaller((Len(bytes) + PacketLen - 1) \div PacketLen, RingSize - Len(ring.packets))
Cut(type, bytes, n) == [k \in 1..n |-> Packet(type, First(Drop0(bytes, (k - 1) * PacketLen), PacketLen))]

RdbSend(type, bytes) ==
  LET rest == IF ring.empty THEN Drop0(bytes, PacketLen) ELSE bytes
  IN /\ reg' = IF ring.empty THEN Packet(type, First(bytes, PacketLen)) ELSE reg
     /\ ring' = [packets |-> ring.packets \o Cut(type, rest, InRing(rest)), empty |-> FALSE]
Untaken(bytes) ==
  LET rest == IF ring.empty THEN Drop0(bytes, PacketLen) ELSE bytes
  IN Drop0(rest, InRing(rest) * PacketLen)

------------------------------------------------------------------------------
(* The log *)

\* osLogEvent: a full log takes no more until it is flushed.
Room(n) == Len(log.words) + n < LogLen
LogEvent(n) ==
  LET words == [k \in 1..n |-> << "log", Len(logged) + k >>]
  IN /\ Enabled /\ Len(logged) < MaxLogged
     /\ IF log.ok /\ Room(n)
        THEN log' = [log EXCEPT !.words = @ \o words] /\ logged' = logged \o words
        ELSE log' = [log EXCEPT !.ok = FALSE] /\ UNCHANGED logged
     /\ UNCHANGED << reg, ip6, ring, got, users, written, kd, kdAsked, puts >>

\* osFlushLog and osWriteHost: a chunk at a time, its length before it; the host says when it has it.
FlushStart(u) ==
  /\ Enabled /\ u \in LogFlushers /\ users[u].at = "none" /\ log.words # << >>
  /\ log' = [log EXCEPT !.ok = FALSE]
  /\ users' = [users EXCEPT ![u] = [Resting EXCEPT !.at = "count", !.left = log.words]]
  /\ UNCHANGED << reg, ip6, ring, got, logged, written, kd, kdAsked, puts >>

WriteStart(n) ==
  LET bytes == [k \in 1..n |-> << "data", Len(written) + k >>]
  IN /\ Enabled /\ users["writer"].at = "none" /\ Len(written) + n <= MaxWritten
     /\ written' = written \o bytes
     /\ users' = [users EXCEPT !["writer"] = [Resting EXCEPT !.at = "count", !.left = bytes]]
     /\ UNCHANGED << reg, ip6, ring, got, log, logged, kd, kdAsked, puts >>

\* The length is one packet: it goes, or nothing does and it is tried again.
SendCount(u) ==
  LET n == Smaller(Len(users[u].left), Chunk)
  IN /\ Enabled /\ users[u].at = "count" /\ Untaken(<< n >>) = << >>
     /\ RdbSend(CountOf(u), << n >>)
     /\ users' = [users EXCEPT ![u] = [at |-> "send", left |-> Drop0(@.left, n), chunk |-> First(@.left, n)]]
     /\ UNCHANGED << ip6, got, log, logged, written, kd, kdAsked, puts >>

SendChunk(u) ==
  LET left == Untaken(users[u].chunk)
  IN /\ Enabled /\ users[u].at = "send" /\ left # users[u].chunk
     /\ RdbSend(StreamOf(u), users[u].chunk)
     /\ users' = [users EXCEPT ![u].chunk = left, ![u].at = IF left = << >> THEN "wait" ELSE "send"]
     /\ UNCHANGED << ip6, got, log, logged, written, kd, kdAsked, puts >>

SendEnd(u) ==
  /\ Enabled /\ users[u].at = "done"
  /\ users' = [users EXCEPT ![u] = Resting]
  /\ log' = IF u \in LogFlushers THEN [words |-> << >>, ok |-> TRUE] ELSE log
  /\ UNCHANGED << reg, ip6, ring, got, logged, written, kd, kdAsked, puts >>

------------------------------------------------------------------------------
(* kdebugserver, called by the exception handler: it writes the register       *)
(* itself and waits for IP6.  When packets are on their way it waits for the   *)
(* one in the register, and leaves its own last one to the handler.            *)

KdStart(n) ==
  LET bytes == [k \in 1..n |-> << "kdebug", Len(kdAsked) + k >>]
  IN /\ Enabled /\ Len(kdAsked) + n <= MaxAsked
     /\ kdAsked' = kdAsked \o bytes
     /\ kd' = [at |-> IF ring.empty THEN "put" ELSE "clear", left |-> bytes, last |-> ring.empty, type |-> "kdebug"]
     /\ UNCHANGED << reg, ip6, ring, got, log, logged, users, written, puts >>

KdClear ==
  /\ kd.at = "clear" /\ ip6 /\ ip6' = FALSE
  /\ kd' = IF kd.left = << >> THEN Quiet ELSE [kd EXCEPT !.at = "put"]
  /\ UNCHANGED << reg, ring, got, log, logged, users, written, kdAsked, puts >>

\* send_packet
KdPut ==
  LET left == Drop0(kd.left, PacketLen)
  IN /\ kd.at = "put"
     /\ reg' = Packet(kd.type, First(kd.left, PacketLen))
     /\ kd' = IF left = << >> /\ ~kd.last THEN Quiet ELSE [kd EXCEPT !.at = "clear", !.left = left]
     /\ UNCHANGED << ip6, ring, got, log, logged, users, written, kdAsked, puts >>

\* __osSyncPutChars does not look whether a packet is in the register: PutsBusy.
SyncPutChars ==
  LET byte == << << "chars", Len(puts) + 1 >> >>
  IN /\ Enabled /\ Len(puts) < MaxPuts /\ (PutsBusy \/ ring.empty)
     /\ puts' = puts \o byte
     /\ kd' = [at |-> "put", left |-> byte, last |-> TRUE, type |-> "chars"]
     /\ UNCHANGED << reg, ip6, ring, got, log, logged, users, written, kdAsked >>

LinkNext ==
  \/ HostTakes \/ HandleIP6 \/ KdClear \/ KdPut \/ SyncPutChars
  \/ \E u \in Users : HostDone(u) \/ FlushStart(u) \/ SendCount(u) \/ SendChunk(u) \/ SendEnd(u)
  \/ \E n \in EventLens : LogEvent(n)
  \/ \E n \in DataLens : WriteStart(n) \/ KdStart(n)

------------------------------------------------------------------------------
(* Properties *)

OnItsWay(stream) ==
  FoldLeft(LAMBDA s, p : IF p.type = stream THEN s \o p.bytes ELSE s, << >>, << reg >> \o ring.packets)
Unsent(u) == users[u].chunk \o users[u].left

\* Whatever is sent meanwhile, the host gets each stream once and in order: what it has, what is on
\* its way and what is still to be sent is all that was logged, written, answered or put
\* (__osRdbSend, osFlushLog, osWriteHost, kdebugserver, __osSyncPutChars).
StreamsWhole ==
  /\ LET sent == got["log"] \o OnItsWay("log")
     IN IF \A u \in LogFlushers : users[u].at = "none" THEN sent \o log.words = logged
        ELSE \E u \in LogFlushers : sent \o Unsent(u) = logged
  /\ got["data"] \o OnItsWay("data") \o Unsent("writer") = written
  /\ got["kdebug"] \o OnItsWay("kdebug") \o (IF kd.type = "kdebug" THEN kd.left ELSE << >>) = kdAsked
  /\ got["chars"] \o OnItsWay("chars") \o (IF kd.type = "chars" THEN kd.left ELSE << >>) = puts

\* Nothing waits for ever: what is on its way is in the register, or the host's answer is pending.
NoneForgotten == ~ring.empty /\ kd.at = "none" => reg # NoPacket \/ ip6

------------------------------------------------------------------------------
(* The profilers *)

CONSTANTS
  PThreads,      \* threads, with an id each
  IdOf,          \* thread -> its id
  IdMax,         \* THPROF_IDMAX: threads with an id from here on share the last place
  CountSize,     \* 2^32, of the count register
  MaxClock,
  Undisturbed,   \* no other thread runs between the read of the count and the end of the call
  Exits,         \* a thread ends while it is profiled
  OddCallers,    \* threads with a larger id ask, too
  Sections,      \* of text: << start, end, bins >>, in instructions
  Pcs,           \* where the thread to run next may be
  BinSize,       \* 2^16
  MaxSamples

ASSUME ProfilerAssumption ==
  /\ IdOf \in [PThreads -> Nat] /\ IdMax \in Nat \ {0} /\ CountSize \in Nat \ {0} /\ BinSize \in Nat \ {0}
  /\ {MaxClock, MaxSamples} \subseteq Nat /\ {Undisturbed, Exits, OddCallers} \subseteq BOOLEAN

VARIABLES
  clock,      \* cycles, from which the count register starts over at CountSize
  cpuOn,      \* the thread that runs
  previous,   \* __osPreviousThread
  profiling,  \* the callback is set
  lastTimer,  \* __osThprofLastTimer
  time,       \* id -> thprof[id].time
  ran,        \* id -> cycles that its threads ran while profiling was on
  thprofCalls, \* thread -> the call it is in: [op, id, now, adjust, low, got]
  alive,
  samples,    \* the pcs that were sampled
  bins        \* section and place -> histo_base, and __osProfileOverflowBin

thprofVars == << clock, cpuOn, previous, profiling, lastTimer, time, ran, thprofCalls, alive >>
histoVars == << samples, bins >>
profVars == << thprofVars, histoVars >>

Ids == 0..(IdMax - 1)

\* osCreateThread
EntryOf(t) == IF IdOf[t] < IdMax THEN IdOf[t] ELSE IdMax - 1

Count0 == clock % CountSize
Since(now) == (now - lastTimer) % CountSize
NotAsking == [op |-> "none", id |-> 0, now |-> 0, adjust |-> 0, low |-> 0, got |-> 0]
NoTime == [i \in Ids |-> 0]

\* osThreadProfileInit, before the threads are profiled
ThprofInit ==
  /\ clock = 0 /\ cpuOn \in PThreads /\ previous = cpuOn
  /\ profiling = FALSE /\ lastTimer = 0 /\ time = NoTime /\ ran = NoTime
  /\ thprofCalls = [t \in PThreads |-> NotAsking] /\ alive = PThreads

------------------------------------------------------------------------------
(* The threads *)

\* A thread does not run for as long as the register takes to start over.
PTick ==
  /\ clock < MaxClock /\ clock' = clock + 1
  /\ profiling => Since(Count0) < CountSize - 1
  /\ ran' = IF profiling THEN [ran EXCEPT ![EntryOf(cpuOn)] = @ + 1] ELSE ran
  /\ UNCHANGED << cpuOn, previous, profiling, lastTimer, time, thprofCalls, alive >>

\* osThreadProfileCallback, when a thread is dispatched: the time since the last time goes to the
\* thread the dispatcher came from.
Callback(from) ==
  IF profiling
  THEN time' = [time EXCEPT ![EntryOf(from)] = @ + Since(Count0)] /\ lastTimer' = Count0
  ELSE UNCHANGED << time, lastTimer >>

Switch(t) ==
  /\ t \in alive /\ (Undisturbed => thprofCalls[cpuOn].op = "none")
  /\ cpuOn' = t /\ previous' = cpuOn /\ Callback(cpuOn)
  /\ UNCHANGED << clock, profiling, ran, thprofCalls, alive >>

\* osDestroyThread of the thread that runs: it dispatches without an exception, and
\* __osPreviousThread is the thread of the last one.
Exit(t) ==
  /\ Exits /\ t \in alive \ {cpuOn} /\ thprofCalls[cpuOn].op = "none"
  /\ alive' = alive \ {cpuOn} /\ cpuOn' = t /\ Callback(previous)
  /\ UNCHANGED << clock, previous, profiling, ran, thprofCalls >>

------------------------------------------------------------------------------
(* The calls *)

\* osThreadProfileStart, when it is off
ThprofStart ==
  /\ thprofCalls[cpuOn].op = "none" /\ ~profiling /\ profiling' = TRUE /\ lastTimer' = Count0
  /\ UNCHANGED << clock, cpuOn, previous, time, ran, thprofCalls, alive >>

\* osThreadProfileClear of every id, while it is off
ThprofClear ==
  /\ thprofCalls[cpuOn].op = "none" /\ ~profiling /\ time # NoTime /\ time' = NoTime /\ ran' = NoTime
  /\ UNCHANGED << clock, cpuOn, previous, profiling, lastTimer, thprofCalls, alive >>

\* osThreadProfileReadTime and osThreadProfileStop read the count first.
Begin(op, id) ==
  /\ thprofCalls[cpuOn].op = "none" /\ (IdOf[cpuOn] < IdMax \/ OddCallers)
  /\ thprofCalls' = [thprofCalls EXCEPT ![cpuOn] = [NotAsking EXCEPT !.op = op, !.id = id, !.now = Count0, !.low = ran[id]]]
  /\ UNCHANGED << clock, cpuOn, previous, profiling, lastTimer, time, ran, alive >>

\* The time since the last dispatch is the caller's.
ReadAdjust ==
  LET a == thprofCalls[cpuOn]
  IN /\ a.op = "read"
     /\ thprofCalls' = [thprofCalls EXCEPT ![cpuOn].op = "adjusted",
                             ![cpuOn].adjust = IF a.id = IdOf[cpuOn] /\ profiling THEN Since(a.now) ELSE 0]
     /\ UNCHANGED << clock, cpuOn, previous, profiling, lastTimer, time, ran, alive >>

ReadEnd ==
  LET a == thprofCalls[cpuOn]
  IN /\ a.op = "adjusted"
     /\ thprofCalls' = [thprofCalls EXCEPT ![cpuOn].op = "told", ![cpuOn].got = time[a.id] + a.adjust]
     /\ UNCHANGED << clock, cpuOn, previous, profiling, lastTimer, time, ran, alive >>

Told ==
  /\ thprofCalls[cpuOn].op = "told" /\ thprofCalls' = [thprofCalls EXCEPT ![cpuOn] = NotAsking]
  /\ UNCHANGED << clock, cpuOn, previous, profiling, lastTimer, time, ran, alive >>

\* The profile ends when the count was read.  A thread whose id is too large is left out here.
StopEnd ==
  LET a == thprofCalls[cpuOn]
  IN /\ a.op = "stop"
     /\ thprofCalls' = [thprofCalls EXCEPT ![cpuOn] = NotAsking]
     /\ profiling' = FALSE
     /\ time' = IF profiling /\ IdOf[cpuOn] < IdMax
                THEN [time EXCEPT ![IdOf[cpuOn]] = @ + Since(a.now)] ELSE time
     /\ ran' = IF profiling THEN [ran EXCEPT ![a.id] = a.low] ELSE ran
     /\ UNCHANGED << clock, cpuOn, previous, lastTimer, alive >>

ThprofNext ==
  \/ PTick \/ ThprofStart \/ ThprofClear \/ ReadAdjust \/ ReadEnd \/ Told \/ StopEnd
  \/ Begin("stop", EntryOf(cpuOn)) \/ \E id \in Ids : Begin("read", id)
  \/ \E t \in PThreads : Switch(t) \/ Exit(t)

------------------------------------------------------------------------------
(* The histogram *)

InSection(k, pc) == Sections[k][1] <= pc /\ pc < Sections[k][2]
Places0 == UNION {{k} \X (0..(Sections[k][3] - 1)) : k \in DOMAIN Sections}
Overflow == << 0, 0 >>

\* osProfileInit: the bins are cleared, and a section needs one for each instruction.
HistoInit ==
  /\ samples = << >> /\ bins = [p \in Places0 \cup {Overflow} |-> 0]

\* __osTimerInterrupt, for the profiler's timer: the first section counts that has the pc.
BinOf(pc) ==
  LET has == {k \in DOMAIN Sections : InSection(k, pc)}
  IN IF has = {} THEN Overflow
     ELSE LET k == CHOOSE k \in has : \A j \in has : k <= j IN << k, pc - Sections[k][1] >>
Sample(pc) ==
  /\ Len(samples) < MaxSamples /\ samples' = Append(samples, pc)
  /\ bins' = [bins EXCEPT ![BinOf(pc)] = IF BinOf(pc) = Overflow THEN @ + 1 ELSE (@ + 1) % BinSize]

HistoNext == \E pc \in Pcs : Sample(pc)

------------------------------------------------------------------------------
(* Properties *)

\* Each thread is given the time it ran, no less and no more, whoever was dispatched meanwhile; and
\* osThreadProfileReadTime tells a time between that when it was called and that when it returns.
TimeAsRun ==
  /\ \A i \in Ids :
       time[i] + (IF profiling /\ i = EntryOf(cpuOn) THEN Since(Count0) ELSE 0) = ran[i]
  /\ \A t \in PThreads : thprofCalls[t].op = "told" => thprofCalls[t].got \in thprofCalls[t].low .. ran[thprofCalls[t].id]

\* Each time that the timer fired is counted once, where the program was.
SamplesCounted ==
  \A p \in DOMAIN bins :
    LET here == Cardinality({n \in DOMAIN samples : BinOf(samples[n]) = p})
    IN bins[p] = IF p = Overflow THEN here ELSE here % BinSize
==============================================================================
