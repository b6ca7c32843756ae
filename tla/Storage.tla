-------------------------------- MODULE Storage --------------------------------
(***************************************************************************)
(* Memory that the program gives to the library: a region of buffers of    *)
(* one size (rg/), the heap of the audio library (heapinit.c,              *)
(* heapalloc.c), and a bank file, whose offsets are made pointers in place *)
(* (bnkf.c).                                                               *)
(*                                                                         *)
(* An address counts bytes.  A region keeps the list of its free buffers   *)
(* in their first two bytes, as indexes.                                   *)
(***************************************************************************)
EXTENDS Integers, FiniteSets, Sequences, SequencesExt

CONSTANTS
  Areas,          \* where a region may be made: [at, length, size, align]
  HeaderSize,     \* sizeof(OSRegion)
  NoNext,         \* MAX_BUFCOUNT and BUF_FREE_WO_NEXT, 0x8000
  RgThreads,      \* threads that take and give back buffers
  Serialised,     \* one of them at a time
  MaxRegionCalls,
  Bases,          \* where the memory of the heap may start
  HeapLen,
  Wanted,         \* what is asked of the heap, in bytes
  BankFiles       \* what each object points to

ASSUME StorageAssumption ==
  /\ HeaderSize \in Nat /\ NoNext \in Nat \ {0} /\ HeapLen \in Nat
  /\ MaxRegionCalls \in Nat /\ Serialised \in BOOLEAN

VARIABLES
  rp,        \* the region's header, and the area it was made of
  links,     \* the first two bytes of each buffer
  doing,     \* thread -> the call it is in and the buffer it is about
  lent,      \* thread -> the buffers it has
  rgCalls,
  hp,        \* the heap
  handedOut, \* what it gave: first address and length
  file,      \* the bank file
  moved      \* which of its pointers were moved, and which objects are flagged

rgVars == << rp, links, doing, lent, rgCalls >>
hpVars == << hp, handedOut >>
fileVars == << file, moved >>
storageVars == << rgVars, hpVars, fileVars >>

Align(n, size) == ((n + size - 1) \div size) * size

------------------------------------------------------------------------------
(* Regions *)

\* What the program has in a buffer
InUse == NoNext + 1
Calling == [op |-> "none", b |-> 0]

\* osCreateRegion without _DEBUG: the area must have room for one buffer, or it gives what lies
\* after it.
Count(n) == IF n > NoNext THEN NoNext ELSE n
Header(a) ==
  LET align == IF a.align = 0 THEN 8 ELSE a.align
      at == Align(a.at, align)
      size == Align(a.size, align)
      start == at + Align(HeaderSize, align)
  IN [start |-> start, size |-> size, count |-> Count((a.at + a.length - start) \div size),
      end |-> a.at + a.length, align |-> align, freeList |-> 0]
Chain(n) == [b \in 0..(n - 1) |-> IF b = n - 1 THEN NoNext ELSE b + 1]

RgInit ==
  /\ \E a \in Areas : rp = Header(a)
  /\ links = Chain(rp.count)
  /\ doing = [t \in RgThreads |-> Calling] /\ lent = [t \in RgThreads |-> {}] /\ rgCalls = 0

Enter(t) ==
  /\ doing[t] = Calling /\ rgCalls < MaxRegionCalls /\ rgCalls' = rgCalls + 1
  /\ Serialised => \A u \in RgThreads : doing[u] = Calling

\* osMalloc: without a free buffer there is nothing to give.  The head of the list is read, and
\* replaced by the link in the buffer.
Malloc(t) ==
  /\ Enter(t)
  /\ doing' = IF rp.freeList = NoNext THEN doing ELSE [doing EXCEPT ![t] = [op |-> "malloc", b |-> rp.freeList]]
  /\ UNCHANGED << rp, links, lent >>

MallocEnd(t) ==
  LET b == doing[t].b
  IN /\ doing[t].op = "malloc"
     /\ rp' = [rp EXCEPT !.freeList = links[b]]
     /\ lent' = [lent EXCEPT ![t] = @ \cup {b}] /\ links' = [links EXCEPT ![b] = InUse]
     /\ doing' = [doing EXCEPT ![t] = Calling] /\ UNCHANGED rgCalls

\* osFree: the index comes from the address.
IndexOf(addr) == (addr - rp.start) \div rp.size
AddressOf(b) == rp.start + b * rp.size

Free(t, addr) ==
  LET b == IndexOf(addr)
  IN /\ Enter(t)
     /\ links' = [links EXCEPT ![b] = rp.freeList] /\ lent' = [lent EXCEPT ![t] = @ \ {b}]
     /\ doing' = [doing EXCEPT ![t] = [op |-> "free", b |-> b]] /\ UNCHANGED rp

FreeEnd(t) ==
  /\ doing[t].op = "free"
  /\ rp' = [rp EXCEPT !.freeList = doing[t].b] /\ doing' = [doing EXCEPT ![t] = Calling]
  /\ UNCHANGED << links, lent, rgCalls >>

RgNext ==
  \E t \in RgThreads :
    \/ Malloc(t) \/ MallocEnd(t) \/ FreeEnd(t)
    \/ \E b \in lent[t] : Free(t, AddressOf(b))

\* The buffers of the free list, from its head: those of a list that does not end are cut.
FreeFrom[b \in Nat, n \in Nat] ==
  IF b \notin DOMAIN links \/ n = 0 THEN << >> ELSE << b >> \o FreeFrom[links[b], n - 1]

------------------------------------------------------------------------------
(* The heap: a base that is not at a cache line is moved up, and the length stays. *)

Line == 16
HeapInit == hp \in {[base |-> Align(b, Line), len |-> HeapLen, cur |-> Align(b, Line), from |-> b] : b \in Bases}
HpInit == HeapInit /\ handedOut = {}

HeapAlloc(size) ==
  LET bytes == Align(size, Line)
  IN /\ hp.cur + bytes <= hp.base + hp.len
     /\ hp' = [hp EXCEPT !.cur = @ + bytes] /\ handedOut' = handedOut \cup {<< hp.cur, size >>}

HpNext == \E size \in Wanted : HeapAlloc(size)

------------------------------------------------------------------------------
(* The bank file.  A pointer is << object, its place in it >>; m says which were moved, which were  *)
(* moved again, and which objects are flagged.  Null is the percussion or the loop a file lacks.     *)

Null == "null"
Move1(m, x, at) ==
  IF << x, at >> \in m.done THEN [m EXCEPT !.again = TRUE] ELSE [m EXCEPT !.done = @ \cup {<< x, at >>}]
Flag(m, x) == [m EXCEPT !.flags = @ \cup {x}]
Unmoved == [done |-> {}, again |-> FALSE, flags |-> {}]

\* A wave has its book, and its loop: raw ones have no book.
PatchWaveTable(m, w) ==
  IF w \in m.flags THEN m
  ELSE LET f == Move1(Flag(m, w), w, "base")
           g == IF file.waves[w].raw THEN f ELSE Move1(f, w, "book")
       IN IF file.waves[w].loop = Null THEN g ELSE Move1(g, w, "loop")

PatchSound(m, s) ==
  IF s \in m.flags THEN m
  ELSE PatchWaveTable(FoldLeft(LAMBDA x, at : Move1(x, s, at), Flag(m, s), << "envelope", "keyMap", "wave" >>),
                      file.sounds[s])

PatchInst(m, i) ==
  IF i \in m.flags THEN m
  ELSE FoldLeft(LAMBDA x, k : PatchSound(Move1(x, i, k), file.insts[i][k]),
                Flag(m, i), [k \in DOMAIN file.insts[i] |-> k])

PatchBank(m, b) ==
  LET bank == file.banks[b]
      f == IF bank.percussion = Null THEN Flag(m, b)
           ELSE PatchInst(Move1(Flag(m, b), b, 0), bank.percussion)
  IN IF b \in m.flags THEN m
     ELSE FoldLeft(LAMBDA x, k : PatchInst(Move1(x, b, k), bank.insts[k]), f, [k \in DOMAIN bank.insts |-> k])

FileInit == file \in BankFiles /\ moved = Unmoved

\* alBnkfNew
BnkfNew ==
  /\ moved = Unmoved
  /\ moved' = FoldLeft(LAMBDA x, k : PatchBank(Move1(x, "file", k), file.array[k]), Unmoved,
                       [k \in DOMAIN file.array |-> k])
  /\ UNCHANGED file

\* Every pointer of the file that is not null
Pointers ==
  {<< "file", k >> : k \in DOMAIN file.array} \cup
  UNION {{<< b, k >> : k \in DOMAIN file.banks[b].insts} : b \in DOMAIN file.banks} \cup
  {<< b, 0 >> : b \in {c \in DOMAIN file.banks : file.banks[c].percussion # Null}} \cup
  UNION {{<< i, k >> : k \in DOMAIN file.insts[i]} : i \in DOMAIN file.insts} \cup
  (DOMAIN file.sounds) \X {"envelope", "keyMap", "wave"} \cup
  (DOMAIN file.waves) \X {"base"} \cup
  {<< w, "book" >> : w \in {x \in DOMAIN file.waves : ~file.waves[x].raw}} \cup
  {<< w, "loop" >> : w \in {x \in DOMAIN file.waves : file.waves[x].loop # Null}}

StorageInit == RgInit /\ HpInit /\ FileInit
StorageNext ==
  \/ RgNext /\ UNCHANGED << hpVars, fileVars >>
  \/ HpNext /\ UNCHANGED << rgVars, fileVars >>
  \/ BnkfNew /\ UNCHANGED << rgVars, hpVars >>

------------------------------------------------------------------------------
(* Properties *)

\* A buffer of a region is whole, aligned, inside the area and behind the header; it belongs to one
\* thread, what is in it stays, and the list has each of the others once (osMalloc, osFree).
BuffersKept ==
  LET free == FreeFrom[rp.freeList, rp.count]
      out == {b \in 0..(rp.count - 1) : \E t \in RgThreads : b \in lent[t] \/ doing[t] = [op |-> "free", b |-> b]}
  IN /\ \A b \in 0..(rp.count - 1) :
          AddressOf(b) % rp.align = 0 /\ AddressOf(b) + rp.size <= rp.end /\ rp.start <= AddressOf(b)
     /\ \A t \in RgThreads : \A b \in lent[t] : links[b] = InUse /\ \A u \in RgThreads \ {t} : b \notin lent[u]
     /\ IsInjective(free) /\ ToSet(free) = 0..(rp.count - 1) \ out

\* What the heap gives is apart, on lines of its own, and inside the memory it was given.
GivenApart ==
  \A g \in handedOut :
    /\ g[1] % Line = 0 /\ hp.from <= g[1] /\ g[1] + g[2] <= hp.from + hp.len
    /\ \A h \in handedOut \ {g} : Align(g[1] + g[2], Line) <= h[1] \/ Align(h[1] + h[2], Line) <= g[1]

\* Objects that several others share are found once: no pointer is moved twice, and none is left.
MovedOnce == moved # Unmoved => ~moved.again /\ moved.done = Pointers
==============================================================================
