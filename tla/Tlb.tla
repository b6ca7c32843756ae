------------------------------------- MODULE Tlb -------------------------------------
(***************************************************************************)
(* The mapped address space: osMapTLB, osUnmapTLB, osUnmapTLBAll,          *)
(* osSetTLBASID, and osVirtualToPhysical, which looks an address up        *)
(* (__osProbeTLB).                                                         *)
(*                                                                         *)
(* Each call moves what it wants through the registers EntryHi, EntryLo0,  *)
(* EntryLo1, PageMask and Index, and is made of the steps at which another *)
(* thread may come in between; the kernel keeps none of these registers in *)
(* a thread's context.  Addresses are pages of 4K.                         *)
(***************************************************************************)
EXTENDS Integers, FiniteSets

CONSTANTS
  TThreads,  \* threads
  Requests,  \* what is mapped: << pages of a half, address of the pair, even and odd frame or -1, asid or -1 >>
  TlbSlots,  \* NTLBENTRIES: the entry behind them belongs to the debugger
  Asids,     \* address spaces
  Looked,    \* the addresses that are looked up
  Alone,     \* no other thread comes in between the steps of a call
  MaxTlbCalls

VARIABLES
  tlb,      \* the entries
  hi, mask, lo, found,  \* EntryHi (page and address space), PageMask, EntryLo0/1, Index (or -1)
  calls,    \* for each thread: the call it is in and what it keeps
  mapped,   \* what each entry maps by the calls that ended, or None
  asid,     \* the address space by the calls that ended
  misled,    \* a thread got an address that is not the mapped one
  tlbCalls  \* the calls so far

tlbVars == << tlb, hi, mask, lo, found, calls, mapped, asid, misled, tlbCalls >>

K0 == 1000       \* K0BASE, an address that is not mapped
RdbPage == 2000  \* K2BASE
RdbFrame == 3000 \* the debugger's registers
NotMapped == << "none" >>
NoHalf == [frame |-> 0, valid |-> FALSE, global |-> TRUE]
Invalid0 == [frame |-> 0, valid |-> FALSE, global |-> FALSE]
Half(frame, global) == IF frame = -1 THEN NoHalf ELSE [frame |-> frame, valid |-> TRUE, global |-> global]

\* What the CPU does with its registers: tlbwi, tlbp and tlbr
Entry0 == [page |-> hi.page, asid |-> hi.asid, mask |-> mask, lo |-> lo,
           global |-> lo[0].global /\ lo[1].global]
PairOf(page, size) == page - (page % (2 * size))
Matches(e, page, a) == PairOf(page, e.mask) = PairOf(e.page, e.mask) /\ (e.global \/ e.asid = a)
Hits(page, a) == {i \in DOMAIN tlb : Matches(tlb[i], page, a)}
ProbeFinds == IF Hits(hi.page, hi.asid) = {} THEN -1 ELSE CHOOSE i \in Hits(hi.page, hi.asid) : TRUE

------------------------------------------------------------------------------
\* What the calls promise: the frame of a page by the mapped requests
Covers(r, page, a) == r # NotMapped /\ PairOf(r[2], r[1]) = PairOf(page, r[1]) /\ r[5] \in {-1, a}
FrameOf(page, a) ==
  IF page = RdbPage THEN RdbFrame
  ELSE LET of == {r \in {mapped[i] : i \in DOMAIN mapped} : Covers(r, page, a)} IN
       IF of = {} THEN -1
       ELSE LET r == CHOOSE r \in of : TRUE
                first == IF (page \div r[1]) % 2 = 0 THEN r[3] ELSE r[4]
            IN IF first = -1 THEN -1 ELSE first + (page % r[1])

\* Two entries for one address would shut the TLB down.
Overlap(r, s) ==
  /\ r # NotMapped /\ s # NotMapped
  /\ r[5] = -1 \/ s[5] = -1 \/ r[5] = s[5]
  /\ LET size == IF r[1] > s[1] THEN r[1] ELSE s[1] IN PairOf(r[2], size) = PairOf(s[2], size)

------------------------------------------------------------------------------
Empty0 == [page |-> K0, asid |-> 0, mask |-> 1, lo |-> [h \in 0..1 |-> Invalid0], global |-> FALSE]
\* osMapTLBRdb: the last entry
RdbEntry == [page |-> RdbPage, asid |-> 0, mask |-> 1, global |-> TRUE,
             lo |-> [h \in 0..1 |-> IF h = 0 THEN Half(RdbFrame, TRUE) ELSE NoHalf]]

NoCall == [fn |-> "none"]
TlbInit ==
  /\ tlb = [i \in 0..TlbSlots |-> IF i = TlbSlots THEN RdbEntry ELSE Empty0]
  /\ hi = [page |-> 0, asid |-> 0] /\ mask = 1 /\ lo = [h \in 0..1 |-> Invalid0] /\ found = -1
  /\ calls = [t \in TThreads |-> NoCall] /\ mapped = [i \in 0..(TlbSlots - 1) |-> NotMapped]
  /\ asid = 0 /\ misled = FALSE /\ tlbCalls = 0

MayCall(t) ==
  /\ calls[t] = NoCall /\ tlbCalls < MaxTlbCalls /\ tlbCalls' = tlbCalls + 1
  /\ Alone => \A u \in TThreads : calls[u] = NoCall
Step(t, from, to) == calls[t].fn = from /\ calls' = [calls EXCEPT ![t].fn = to] /\ UNCHANGED tlbCalls
Return0(t) == hi' = calls[t].hi /\ calls' = [calls EXCEPT ![t] = NoCall] /\ UNCHANGED tlbCalls

\* osMapTLB: Index and PageMask, ...
MapTLB(t) ==
  /\ MayCall(t)
  /\ \E i \in 0..(TlbSlots - 1), r \in Requests :
       /\ \A j \in DOMAIN mapped \ {i} : ~Overlap(r, mapped[j])
       /\ \A u \in TThreads : calls[u].fn \in {"write", "put"} => i # calls[u].i /\ ~Overlap(r, calls[u].r)
       /\ calls' = [calls EXCEPT ![t] = [fn |-> "write", hi |-> hi, i |-> i, r |-> r]]
       /\ found' = i /\ mask' = r[1]
  /\ UNCHANGED << tlb, hi, lo, mapped, asid, misled >>
\* A frame's address, shifted; a half that is not mapped is global.
Halves(r) == [h \in 0..1 |-> Half(r[3 + h], r[5] = -1)]
\* ... EntryHi, EntryLo0 and EntryLo1; an entry without pages gets an address that is not mapped, ...
MapEntry(t) ==
  /\ Step(t, "write", "put")
  /\ LET r == calls[t].r IN
       /\ lo' = Halves(r)
       /\ hi' = (IF r[3] = -1 /\ r[4] = -1 THEN [page |-> K0, asid |-> 0]
                ELSE [page |-> r[2], asid |-> IF r[5] = -1 THEN 0 ELSE r[5]])
  /\ UNCHANGED << tlb, mask, found, mapped, asid, misled >>
\* ... and tlbwi; EntryHi is put back.
MapEnds(t) ==
  /\ calls[t].fn = "put" /\ Return0(t)
  /\ tlb' = [tlb EXCEPT ![found] = Entry0]
  /\ mapped' = [mapped EXCEPT ![calls[t].i] = calls[t].r]
  /\ UNCHANGED << mask, lo, found, asid, misled >>

\* osUnmapTLB: the page mask is the one of the call before.
UnmapTLB(t) ==
  /\ MayCall(t)
  /\ \E i \in 0..(TlbSlots - 1) :
       /\ \A u \in TThreads : calls[u].fn \in {"write", "put"} => i # calls[u].i
       /\ found' = i /\ calls' = [calls EXCEPT ![t] = [fn |-> "clear", hi |-> hi, i |-> i, r |-> NotMapped]]
  /\ hi' = [page |-> K0, asid |-> 0] /\ lo' = [h \in 0..1 |-> Invalid0]
  /\ UNCHANGED << tlb, mask, mapped, asid, misled >>
UnmapEnds(t) ==
  /\ calls[t].fn = "clear" /\ Return0(t)
  /\ tlb' = [tlb EXCEPT ![found] = Entry0] /\ mapped' = [mapped EXCEPT ![calls[t].i] = NotMapped]
  /\ UNCHANGED << mask, lo, found, asid, misled >>

\* osUnmapTLBAll: every entry but the debugger's, from the last
UnmapTLBAll(t) ==
  /\ MayCall(t)
  /\ calls' = [calls EXCEPT ![t] = [fn |-> "all", hi |-> hi, i |-> TlbSlots - 1, r |-> NotMapped]]
  /\ hi' = [page |-> K0, asid |-> 0] /\ lo' = [h \in 0..1 |-> Invalid0]
  /\ UNCHANGED << tlb, mask, found, mapped, asid, misled >>
UnmapNext(t) ==
  /\ calls[t].fn = "all"
  /\ IF calls[t].i = -1 THEN Return0(t) /\ UNCHANGED << tlb, found, mapped >>
     ELSE /\ found' = calls[t].i
          /\ tlb' = [tlb EXCEPT ![found'] = Entry0] /\ mapped' = [mapped EXCEPT ![found'] = NotMapped]
          /\ calls' = [calls EXCEPT ![t].i = @ - 1] /\ UNCHANGED << hi, tlbCalls >>
  /\ UNCHANGED << mask, lo, asid, misled >>

\* osSetTLBASID: EntryHi
SetTLBASID(t) ==
  /\ MayCall(t) /\ \E a \in Asids : asid' = a /\ hi' = [page |-> 0, asid |-> a]
  /\ UNCHANGED << tlb, mask, lo, found, calls, mapped, misled >>

\* osVirtualToPhysical of a mapped address: EntryHi is set to the page, in the address space it has, ...
ProbeTLB(t) ==
  /\ MayCall(t)
  /\ \E page \in Looked :
       /\ calls' = [calls EXCEPT ![t] = [fn |-> "probe", hi |-> hi, page |-> page]]
       /\ hi' = [page |-> PairOf(page, 1), asid |-> hi.asid]
  /\ UNCHANGED << tlb, mask, lo, found, mapped, asid, misled >>
Answer(t, frame) == misled' = (misled \/ frame # FrameOf(calls[t].page, asid))
\* ... tlbp looks for the entry, ...
ProbeLooks(t) ==
  /\ calls[t].fn = "probe"
  /\ found' = ProbeFinds
  /\ IF found' = -1 THEN Return0(t) /\ Answer(t, -1)
     ELSE calls' = [calls EXCEPT ![t].fn = "read"] /\ UNCHANGED << hi, misled, tlbCalls >>
  /\ UNCHANGED << tlb, mask, lo, mapped, asid >>
\* ... and tlbr reads it into the registers, PageMask among them: the half is chosen by the page's size.
ProbeReads(t) ==
  /\ Step(t, "read", "half")
  /\ found # -1 => LET e == tlb[found] IN
       /\ hi' = [page |-> e.page, asid |-> e.asid] /\ mask' = e.mask
       /\ lo' = [h \in 0..1 |-> [e.lo[h] EXCEPT !.global = e.global]]
  /\ found = -1 => UNCHANGED << hi, mask, lo >>
  /\ UNCHANGED << tlb, found, mapped, asid, misled >>
ProbeEnds(t) ==
  /\ calls[t].fn = "half" /\ Return0(t)
  /\ LET page == calls[t].page
         half == lo[(page \div mask) % 2]
     IN Answer(t, IF half.valid THEN half.frame + (page % mask) ELSE -1)
  /\ UNCHANGED << tlb, mask, lo, found, mapped, asid >>

TlbNext ==
  \E t \in TThreads :
     \/ MapTLB(t) \/ MapEntry(t) \/ MapEnds(t) \/ UnmapTLB(t) \/ UnmapEnds(t)
     \/ UnmapTLBAll(t) \/ UnmapNext(t) \/ SetTLBASID(t)
     \/ ProbeTLB(t) \/ ProbeLooks(t) \/ ProbeReads(t) \/ ProbeEnds(t)

------------------------------------------------------------------------------
\* An address that is looked up is the one the calls before have mapped, in the address space that
\* is set, whatever sizes of pages the registers were left with; the debugger's entry stays
\* (osMapTLB, __osProbeTLB, osUnmapTLBAll).
TranslatesAsMapped == ~misled /\ tlb[TlbSlots] = RdbEntry
==============================================================================
