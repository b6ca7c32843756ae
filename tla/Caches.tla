----------------------------------- MODULE Caches -----------------------------------
(***************************************************************************)
(* The data and the instruction cache of the CPU, and the calls that keep  *)
(* them in step with what devices do to memory: osInvalDCache before a     *)
(* device writes, osWritebackDCache before one reads, osInvalICache after  *)
(* code was loaded.                                                        *)
(*                                                                         *)
(* Both caches are direct mapped.  The data cache is written back: a line  *)
(* that was written reaches memory when another line takes its place, or   *)
(* when a call says so.  A program does not touch the lines of a buffer    *)
(* while a device writes to it.                                            *)
(***************************************************************************)
EXTENDS Integers

CONSTANTS
  Bytes0,     \* bytes of memory
  DLine, DSize,  \* DCACHE_LINESIZE, DCACHE_SIZE
  ILine, ISize,  \* ICACHE_LINESIZE, ICACHE_SIZE
  Spans,      \* << address, length >> of the calls
  MaxCacheOps \* bound on the operations of a behaviour

\* Memory is whole lines of either cache, and the calls are for memory that there is.
ASSUME CachesAssumption ==
  /\ {DLine, ILine} \subseteq Nat \ {0} /\ DSize \in Nat /\ ISize \in Nat /\ MaxCacheOps \in Nat
  /\ DSize >= DLine /\ ISize >= ILine /\ Bytes0 \subseteq Nat
  /\ \A b \in Bytes0, size \in {DLine, ILine} : (b - (b % size))..(b - (b % size) + size - 1) \subseteq Bytes0
  /\ Spans \subseteq Nat \X Int /\ \A s \in Spans : s[1]..(s[1] + s[2] - 1) \subseteq Bytes0

VARIABLES
  mem,      \* what is in memory: for each byte 0 or 1
  dcache,   \* for each index: the line's address, its bytes and whether it was written
  icache,   \* for each index: the line's address and its bytes
  truth,    \* what a program put at each byte last, or a device it had write there
  changed,  \* the bytes that changed since their code was invalidated
  device,   \* the span a device is about to write, or an empty one
  staleSent,     \* what a device has read differs from what the program wrote
  cacheOps  \* the operations so far

cacheVars == << mem, dcache, icache, truth, changed, device, staleSent, cacheOps >>

NoLine == [at |-> -1, dirty |-> FALSE, data |-> << >>]
LineAt(b, size) == b - (b % size)
DIndex(a) == (a \div DLine) % (DSize \div DLine)
IIndex(a) == (a \div ILine) % (ISize \div ILine)
InLine(a, size) == a..(a + size - 1)
Range0(s) == s[1]..(s[1] + s[2] - 1)
LinesOf(size) == {b \in Bytes0 : b % size = 0}
Lines0(s) == {LineAt(b, DLine) : b \in Range0(s)}

------------------------------------------------------------------------------
(* Which lines a call names.                                               *)

\* From t0 on, line after line, until one is not before lineEnd
LoopLines(t0, lineEnd, size) == {a \in LinesOf(size) : a = t0 \/ (a > t0 /\ a - size < lineEnd)}

\* osInvalDCache: the lines it writes back before it drops them, and those it only drops.  A line
\* that the span covers in part is written back.
Nothing == [back |-> {}, only |-> {}]
\* Mutant: the last line is not written back when the span ends in it.
TailDropped(back, t0, lineEnd) ==
  LET end == lineEnd - (lineEnd % DLine) IN
  IF lineEnd % DLine = 0 THEN [back |-> back, only |-> LoopLines(t0, lineEnd, DLine)]
  ELSE [back |-> back, only |-> {end + DLine} \cup (IF end < t0 THEN {} ELSE LoopLines(t0, end, DLine))]
Tail0(back, t0, lineEnd) ==
  LET end == lineEnd - (lineEnd % DLine) IN
  IF lineEnd % DLine = 0 THEN [back |-> back, only |-> LoopLines(t0, lineEnd, DLine)]
  ELSE [back |-> back \cup {end + DLine}, only |-> IF end < t0 THEN {} ELSE LoopLines(t0, end, DLine)]
InvalDLines(s) ==
  LET lineEnd == s[1] + s[2] - DLine
      t0 == s[1] - (s[1] % DLine)
  IN IF s[2] <= 0 THEN Nothing
     ELSE IF s[2] >= DSize THEN [back |-> LinesOf(DLine), only |-> {}]
     ELSE IF s[1] = t0 THEN Tail0({}, t0, lineEnd)
     ELSE IF t0 >= lineEnd THEN [back |-> {t0}, only |-> {}]
     ELSE Tail0({t0}, t0 + DLine, lineEnd)

\* osWritebackDCache: the lines it writes back; all of them it drops, too.
WritebackDLines(s) ==
  IF s[2] <= 0 THEN {}
  ELSE IF s[2] >= DSize THEN LinesOf(DLine)
  ELSE LoopLines(s[1] - (s[1] % DLine), s[1] + s[2] - DLine, DLine)
WritebackDrops(s) == s[2] >= DSize

\* osInvalICache
InvalILines(s) ==
  IF s[2] <= 0 THEN {}
  ELSE IF s[2] >= ISize THEN LinesOf(ILine)
  ELSE LoopLines(s[1] - (s[1] % ILine), s[1] + s[2] - ILine, ILine)

------------------------------------------------------------------------------
(* The processor's caches.                                                 *)

Written(lines) == {i \in DOMAIN dcache : dcache[i].dirty /\ dcache[i].at \in lines}
MemWith(is) ==
  [b \in Bytes0 |-> IF \E i \in is : b \in DOMAIN dcache[i].data
                    THEN dcache[CHOOSE i \in is : b \in DOMAIN dcache[i].data].data[b] ELSE mem[b]]
Without(c, lines) == [i \in DOMAIN c |-> IF c[i].at \in lines THEN NoLine ELSE c[i]]
Cleaned(lines) == [i \in DOMAIN dcache |-> IF dcache[i].at \in lines THEN [dcache[i] EXCEPT !.dirty = FALSE]
                                           ELSE dcache[i]]
\* The line at `a', fetched if another has its place
LoadedFrom(m, a, size) == [at |-> a, dirty |-> FALSE, data |-> [b \in InLine(a, size) |-> m[b]]]

\* What the program sees at a byte
Seen0(b) ==
  LET l == dcache[DIndex(LineAt(b, DLine))] IN IF l.at = LineAt(b, DLine) THEN l.data[b] ELSE mem[b]

CacheInit ==
  /\ mem = [b \in Bytes0 |-> 0] /\ truth = mem /\ changed = {} /\ device = << 0, 0 >> /\ staleSent = FALSE
  /\ dcache = [i \in 0..(DSize \div DLine - 1) |-> NoLine]
  /\ icache = [i \in 0..(ISize \div ILine - 1) |-> NoLine] /\ cacheOps = 0

Operates == cacheOps < MaxCacheOps /\ cacheOps' = cacheOps + 1

\* The program reads a byte, or changes it.
Touch(b, writes) ==
  LET a == LineAt(b, DLine)
      i == DIndex(a)
      evicted == dcache[i].at # a
      m == IF evicted THEN MemWith({i} \cap Written({dcache[i].at})) ELSE mem
      line == IF evicted THEN LoadedFrom(m, a, DLine) ELSE dcache[i]
  IN /\ mem' = m
     /\ dcache' = [dcache EXCEPT ![i] =
          IF writes THEN [line EXCEPT !.dirty = TRUE, !.data[b] = 1 - truth[b]] ELSE line]
     /\ truth' = (IF writes THEN [truth EXCEPT ![b] = 1 - @] ELSE truth)
     /\ changed' = (IF writes THEN changed \cup {b} ELSE changed)
Access ==
  /\ Operates
  /\ \E b \in Bytes0, writes \in BOOLEAN : LineAt(b, DLine) \notin Lines0(device) /\ Touch(b, writes)
  /\ UNCHANGED << icache, device, staleSent >>

\* The program runs code.
Fetch ==
  /\ Operates
  /\ \E a \in LinesOf(ILine) : icache' = [icache EXCEPT ![IIndex(a)] = IF @.at = a THEN @ ELSE LoadedFrom(mem, a, ILine)]
  /\ UNCHANGED << mem, dcache, truth, changed, device, staleSent >>

\* osInvalDCache and the start of a transfer to memory
StartTransfer ==
  /\ device[2] = 0 /\ Operates
  /\ \E s \in Spans :
       LET d == InvalDLines(s) IN
         /\ mem' = MemWith(Written(d.back)) /\ dcache' = Without(dcache, d.back \cup d.only)
         /\ device' = s
         /\ truth' = [b \in Bytes0 |-> IF b \in Range0(s) THEN 1 - truth[b] ELSE truth[b]]
         /\ changed' = changed \cup Range0(s)
  /\ UNCHANGED << icache, staleSent >>
EndTransfer ==
  /\ device[2] # 0 /\ device' = << 0, 0 >>
  /\ mem' = [b \in Bytes0 |-> IF b \in Range0(device) THEN truth[b] ELSE mem[b]]
  /\ UNCHANGED << dcache, icache, truth, changed, staleSent, cacheOps >>

\* osWritebackDCache and a transfer from memory
SendOut ==
  /\ device[2] = 0 /\ Operates
  /\ \E s \in Spans :
       LET w == WritebackDLines(s) IN
         /\ mem' = MemWith(Written(w))
         /\ dcache' = (IF WritebackDrops(s) THEN Without(dcache, w) ELSE Cleaned(w))
         /\ staleSent' = \E b \in Range0(s) : mem'[b] # truth[b]
  /\ UNCHANGED << icache, truth, changed, device >>

\* osInvalICache; what is in memory by then is what will run.
InvalICache ==
  /\ Operates
  /\ \E s \in Spans :
       /\ icache' = Without(icache, InvalILines(s))
       /\ changed' = changed \ {b \in Range0(s) : mem[b] = truth[b]}
  /\ UNCHANGED << mem, dcache, truth, device, staleSent >>

CacheNext == Access \/ Fetch \/ StartTransfer \/ EndTransfer \/ SendOut \/ InvalICache

CacheSpec == CacheInit /\ [][CacheNext]_cacheVars

------------------------------------------------------------------------------
\* Whatever the span's ends are and whichever lines the caches hold, the program sees at every byte
\* what was put there last, by it or by a device; a device reads what the program wrote; and code
\* that was invalidated after it was loaded is the code that runs (osInvalDCache, osWritebackDCache,
\* osInvalICache).
CachesInStep ==
  /\ \A b \in Bytes0 \ Range0(device) : Seen0(b) = truth[b]
  /\ ~staleSent
  /\ \A i \in DOMAIN icache : \A b \in DOMAIN icache[i].data \ changed : icache[i].data[b] = truth[b]
=============================================================================
