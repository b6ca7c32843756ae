-------------------------------- MODULE PakFiles --------------------------------
(***************************************************************************)
(* The file system of the controller pak (contpfs.c, pfsinit.c,            *)
(* pfsinitpak.c, pfsallocatefile.c, pfsdeletefile.c, pfschecker.c,         *)
(* pfsreformat.c, pfsfreeblocks.c, pfssearchfile.c).                       *)
(*                                                                         *)
(* A pak holds for each of its banks an inode table, in which every page   *)
(* names the next page of its file, a copy of each table, and a directory  *)
(* that names the first page of each file.  It is written in blocks: a     *)
(* call reads what it needs and then writes its blocks one by one, so it   *)
(* is modelled as the sequence of the writes still to do.  Between two of  *)
(* them the power can fail, a write can fail and the pak can be pulled or  *)
(* exchanged.  osPfsInit runs the checker, which makes the pak consistent. *)
(***************************************************************************)
EXTENDS Integers, Sequences, FiniteSets, FiniteSetsExt, SequencesExt

CONSTANTS
  Paks, NoPak,
  BanksOf,       \* the number of banks of each pak
  PagesIn,       \* the pages for files in a bank
  StartPage,     \* inode_start_page
  PerBlock,      \* table entries in a block (16)
  SumMod,        \* the checksum of a table is a sum modulo this (256)
  Names, Entries,
  Sizes,         \* of files, in pages
  Sloppy,        \* a call may follow one that failed without a check in between
  MainFails,     \* the write of a block of a table may fail when that of its copy does not
  HiddenSwaps,   \* the controllers are queried between two calls, which resets the
                 \* mark of a pak that was exchanged
  MaxPakCalls, MaxFaults

ASSUME PakAssumption ==
  /\ NoPak \notin Paks /\ BanksOf \in [Paks -> 1..62]
  /\ \A b \in DOMAIN PagesIn : b \in 0..61 /\ PagesIn[b] \subseteq 1..127
  /\ \A k \in Paks : 0..(BanksOf[k] - 1) \subseteq DOMAIN PagesIn
  /\ StartPage > 3 /\ \A p \in PagesIn[0] : p >= StartPage
  /\ PerBlock > 0 /\ SumMod > 0 /\ Sizes \subseteq Nat \ {0}
  /\ {Sloppy, MainFails, HiddenSwaps} \subseteq BOOLEAN

VARIABLES
  paks,      \* what each pak holds
  in,        \* the pak in the controller
  fresh,     \* it was put in since its status was last asked
  id,        \* the pak osPfsInit was last called for, pfs->id
  dirty,     \* a call failed since the last check
  cache,     \* __osPfsInodeCache, with its bank
  todo,      \* the writes the call in progress has still to do
  doing,     \* that call
  known,     \* the chains each file may have, << >> for no file   (history)
  pakCalls, faults

pakVars == << paks, in, fresh, id, dirty, cache, todo, doing, known, pakCalls, faults >>

\* An entry of a table: the bank and the number of the next page, or one of two marks.
Eof  == << 0, 1 >>
Free == << 0, 3 >>
NoFile == [name |-> "none", start |-> << 0, 0 >>]

Banks(k) == 0..(BanksOf[k] - 1)
AllPages == UNION { {b} \X PagesIn[b] : b \in DOMAIN PagesIn }

IsPage(u) == u[1] > 0 \/ u[2] >= StartPage
BlockOf(p) == p \div PerBlock
BlocksOf(b) == 0..Max({BlockOf(p) : p \in PagesIn[b]})

\* __osSumcalc over the bytes of the entries
SumOf(t) == FoldFunction(LAMBDA u, s : (s + u[1] + u[2]) % SumMod, 0, t)

Sealed(t) == [t |-> t, sum |-> SumOf(t)]
Blank(b) == Sealed([p \in PagesIn[b] |-> Free])
Good(x) == SumOf(x.t) = x.sum

NoCache == [bank |-> 250, t |-> << >>]
Idle == [call |-> "none", name |-> "none"]

Formatted(k) ==
  [main |-> [b \in Banks(k) |-> Blank(b)], copy |-> [b \in Banks(k) |-> Blank(b)],
   dir |-> [s \in Entries |-> NoFile]]

\* Paks as osPfsReFormat leaves them, before one is put in
PakInit ==
  /\ paks = [k \in Paks |-> Formatted(k)]
  /\ in = NoPak /\ fresh = TRUE /\ id = NoPak /\ dirty = FALSE /\ cache = NoCache
  /\ todo = << >> /\ doing = Idle
  /\ known = [k \in Paks |-> [n \in Names |-> {<< >>}]]
  /\ pakCalls = 0 /\ faults = 0

------------------------------------------------------------------------------
(* Reading *)

\* __osPfsRWInode: the table, or its copy when the checksum is wrong.  When that of
\* the copy is wrong as well it returns PFS_ERR_INCONSISTENT with the copy.
ReadTable(k, c, b) ==
  IF c.bank = b THEN c.t
  ELSE IF Good(paks[k].main[b]) THEN paks[k].main[b].t ELSE paks[k].copy[b].t

Readable(k, c, b) == c.bank = b \/ Good(paks[k].main[b]) \/ Good(paks[k].copy[b])

\* The pages of a file, from the entry that names its first page, as far as they go.
RECURSIVE Chain(_, _, _)
Chain(tables, u, seen) ==
  IF ~IsPage(u) \/ u \in seen THEN << >>
  ELSE << u >> \o Chain(tables, tables[u[1]][u[2]], seen \cup {u})

Entry(tables, u) == tables[u[1]][u[2]]
EndsWell(tables, ch) == ch # << >> /\ Entry(tables, Last(ch)) = Eof
PagesOf(ch) == Range(ch)

\* What the directory and the tables say of file n; the tables as they are.
SlotOf(k, n) == {s \in Entries : paks[k].dir[s].name = n}
MainTables(k) == [b \in Banks(k) |-> paks[k].main[b].t]
Listed(k, n) ==
  IF SlotOf(k, n) = {} THEN << >>
  ELSE Chain(MainTables(k), paks[k].dir[CHOOSE s \in SlotOf(k, n) : TRUE].start, {})

------------------------------------------------------------------------------
(* Writes *)

\* A write of one block of a table or of a directory entry; must: its failure ends the call.
TableWrite(where, b, j, x, must) == [at |-> where, bank |-> b, block |-> j, x |-> x, must |-> must]
DirWrite(s, e) == [at |-> "dir", bank |-> 0, block |-> s, x |-> e, must |-> TRUE]

InOrder(S) == SetToSortSeq(S, <)
Each(S, f(_)) == FlattenSeq([i \in 1..Cardinality(S) |-> f(InOrder(S)[i])])

\* Mutant: the copy is left as it was.
WriteTableOnce(b, t) ==
  Each(BlocksOf(b), LAMBDA j : << TableWrite("main", b, j, Sealed(t), FALSE) >>)

\* __osPfsRWInode: each block in the table and in the copy.
WriteTable(b, t) ==
  Each(BlocksOf(b), LAMBDA j : << TableWrite("main", b, j, Sealed(t), FALSE),
                                  TableWrite("copy", b, j, Sealed(t), TRUE) >>)

\* A table that is read from its copy is written back.
Repairs(k, c, b) ==
  IF c.bank = b \/ Good(paks[k].main[b]) \/ ~Good(paks[k].copy[b]) THEN << >>
  ELSE Each(BlocksOf(b), LAMBDA j : << TableWrite("main", b, j, paks[k].copy[b], FALSE) >>)

AllRepairs(k, c) == Each(Banks(k), LAMBDA b : Repairs(k, c, b))

\* A block: the first one of a table holds the checksum too.
Stored(old, w) ==
  [t |-> [p \in DOMAIN old.t |-> IF BlockOf(p) = w.block THEN w.x.t[p] ELSE old.t[p]],
   sum |-> IF w.block = 0 THEN w.x.sum ELSE old.sum]

Store(w) ==
  paks' = CASE w.at = "dir"  -> [paks EXCEPT ![in].dir[w.block] = w.x]
            [] w.at = "main" -> [paks EXCEPT ![in].main[w.bank] = Stored(@, w)]
            [] w.at = "copy" -> [paks EXCEPT ![in].copy[w.bank] = Stored(@, w)]

\* __osPfsRWInode keeps the table in its cache once all of it is written;
\* osPfsReFormat writes its blocks without it.
CacheAfter(w) ==
  IF w.at = "copy" /\ doing.call # "format" /\ w.block = Max(BlocksOf(w.bank)) THEN [bank |-> w.bank, t |-> w.x.t] ELSE cache

------------------------------------------------------------------------------
(* Calls *)

\* The cache a call starts with: asking for the status empties it, which a transfer
\* from a pak that was put in does by itself.
CacheAt(asked) == IF asked \/ fresh THEN NoCache ELSE cache

Ready == todo = << >> /\ in # NoPak /\ pakCalls < MaxPakCalls

\* __osCheckId and the state of the handle let the call go on.
Usable == Ready /\ id = in /\ (dirty => Sloppy)

Starts(call, name, writes, asked) ==
  /\ todo' = writes /\ doing' = [call |-> call, name |-> name]
  /\ cache' = CacheAt(asked) /\ fresh' = FALSE /\ pakCalls' = pakCalls + 1
  /\ UNCHANGED << paks, in, faults >>

Before(u, v) == u[1] < v[1] \/ (u[1] = v[1] /\ u[2] < v[2])

\* osPfsAllocateFile: the first free pages, those of the first bank first.  A table is
\* written when the next bank with a free page is known, the last one at the end.
AllocateFile(n, size) ==
  LET tables == [b \in Banks(in) |-> ReadTable(in, NoCache, b)]
      free   == {u \in AllPages : u[1] \in Banks(in) /\ Entry(tables, u) = Free}
      ch     == SubSeq(SetToSortSeq(free, Before), 1, size)
      slots  == {s \in Entries : paks[in].dir[s] = NoFile}
      Linked(b) == [p \in PagesIn[b] |->
        IF << b, p >> \notin PagesOf(ch) THEN tables[b][p]
        ELSE LET i == CHOOSE j \in 1..size : ch[j] = << b, p >>
             IN IF i = size THEN Eof ELSE ch[i + 1]]
  IN /\ Usable /\ SlotOf(in, n) = {} /\ slots # {} /\ size <= Cardinality(free)
     /\ \A b \in Banks(in) : Readable(in, NoCache, b)
     /\ Starts("allocate", n,
          AllRepairs(in, NoCache)
            \o Each({u[1] : u \in PagesOf(ch)}, LAMBDA b : WriteTable(b, Linked(b)))
            \o << DirWrite(Min(slots), [name |-> n, start |-> ch[1]]) >>, TRUE)
     /\ known' = [known EXCEPT ![in][n] = {<< >>, ch}]
     /\ UNCHANGED << id, dirty >>

\* osPfsDeleteFile: the pages first, then the directory entry.
DeleteFile(n) ==
  LET tables == [b \in Banks(in) |-> ReadTable(in, NoCache, b)]
      slot   == CHOOSE s \in SlotOf(in, n) : TRUE
      ch     == Chain(tables, paks[in].dir[slot].start, {})
      Freed(b) == [p \in PagesIn[b] |-> IF << b, p >> \in PagesOf(ch) THEN Free ELSE tables[b][p]]
  IN /\ Usable /\ SlotOf(in, n) # {} /\ EndsWell(tables, ch)
     /\ \A b \in Banks(in) : Readable(in, NoCache, b)
     /\ Starts("delete", n,
          AllRepairs(in, NoCache)
            \o Each({u[1] : u \in PagesOf(ch)}, LAMBDA b : WriteTable(b, Freed(b)))
            \o << DirWrite(slot, NoFile) >>, TRUE)
     /\ known' = [known EXCEPT ![in][n] = @ \cup {<< >>}]
     /\ UNCHANGED << id, dirty >>

\* corrupted(): how many entries name page u
Refs(k, tables, u) == Cardinality({v \in AllPages : v[1] \in Banks(k) /\ Entry(tables, v) = u})

\* The checker keeps a file when its chain ends, nothing names its first page and
\* one entry each of the others.
Keeps(k, tables, s) ==
  LET e == paks[k].dir[s]
      ch == Chain(tables, e.start, {})
  IN /\ e # NoFile /\ EndsWell(tables, ch)
     /\ \A i \in 1..Len(ch) : Refs(k, tables, ch[i]) = (IF i = 1 THEN 0 ELSE 1)

\* A table with the pages of the files that were kept; the rest is free.
Rebuilt(tables, kept, b) ==
  [p \in PagesIn[b] |-> IF << b, p >> \in kept THEN tables[b][p] ELSE Free]

\* osPfsInit, or osPfsChecker alone, which calls __osGetId for a new pak.
Check(alone) ==
  LET c == CacheAt(~alone)
      tables == [b \in Banks(in) |-> ReadTable(in, c, b)]
      keep == {s \in Entries : Keeps(in, tables, s)}
      kept == UNION {PagesOf(Chain(tables, paks[in].dir[s].start, {})) : s \in keep}
      drop == {s \in Entries : paks[in].dir[s] # NoFile} \ keep
  IN /\ Ready /\ (alone => id # NoPak)
     /\ Starts("check", "none",
          AllRepairs(in, c)
            \o Each(drop, LAMBDA s : << DirWrite(s, NoFile) >>)
            \o Each(Banks(in), LAMBDA b : WriteTable(b, Rebuilt(tables, kept, b))), ~alone)
     /\ id' = in /\ dirty' = TRUE
     /\ UNCHANGED known

\* osPfsReFormat, which turns the mark of an initialised handle over.
ReFormat ==
  /\ Ready
  /\ Starts("format", "none",
       Each(Entries, LAMBDA s : << DirWrite(s, NoFile) >>)
         \o Each(Banks(in), LAMBDA b : Each(BlocksOf(b), LAMBDA j :
              << TableWrite("main", b, j, Blank(b), TRUE), TableWrite("copy", b, j, Blank(b), TRUE) >>)), TRUE)
  /\ id' = (IF id = NoPak THEN in ELSE NoPak)
  /\ known' = [known EXCEPT ![in] = [n \in Names |-> @[n] \cup {<< >>}]]
  /\ UNCHANGED dirty

\* osPfsFreeBlocks reads every table and leaves the last one in the cache.
FreeBlocks ==
  LET b == BanksOf[in] - 1
  IN /\ Usable /\ AllRepairs(in, CacheAt(FALSE)) = << >>
     /\ \A b0 \in Banks(in) : Readable(in, CacheAt(FALSE), b0)
     /\ cache' = [bank |-> b, t |-> ReadTable(in, IF BanksOf[in] = 1 THEN CacheAt(FALSE) ELSE NoCache, b)]
     /\ fresh' = FALSE /\ pakCalls' = pakCalls + 1
     /\ UNCHANGED << paks, in, id, dirty, todo, doing, known, faults >>

\* A call for another pak: PFS_ERR_NEW_PACK
NotThisPak ==
  /\ Ready /\ id \notin {NoPak, in}
  /\ cache' = CacheAt(FALSE) /\ fresh' = FALSE /\ pakCalls' = pakCalls + 1
  /\ UNCHANGED << paks, in, id, dirty, todo, doing, known, faults >>

\* What is known of the files of the pak when the last block of a call is written.
Knows ==
  [n \in Names |->
    CASE doing.call = "check" -> known[in][n] \cap {Listed(in, n)'}
      [] doing.call = "format" \/ doing = [call |-> "delete", name |-> n] -> {<< >>}
      [] doing = [call |-> "allocate", name |-> n] -> known[in][n] \ {<< >>}
      [] OTHER -> known[in][n]]

\* The next block is written; with the last one the call returns 0.
Write ==
  LET w == Head(todo)
  IN /\ todo # << >> /\ in # NoPak /\ ~fresh
     /\ Store(w) /\ cache' = CacheAfter(w) /\ todo' = Tail(todo)
     /\ UNCHANGED << in, fresh, id, pakCalls, faults >>
     /\ IF todo' = << >>
        THEN /\ doing' = Idle /\ known' = [known EXCEPT ![in] = Knows]
             /\ dirty' = (dirty /\ doing.call # "check")
        ELSE UNCHANGED << doing, known, dirty >>

\* The call returns an error: the status was asked, and the cache is empty, unless the
\* controller did not answer at all.
CallFails ==
  /\ todo' = << >> /\ doing' = Idle /\ dirty' = TRUE
  /\ cache' \in (IF fresh THEN {NoCache} ELSE {NoCache, cache})
  /\ UNCHANGED << in, id, known, pakCalls >>

\* The pak was pulled, or another put in, since the last transfer.
AccessFails ==
  /\ todo # << >> /\ (in = NoPak \/ fresh) /\ fresh' = FALSE
  /\ CallFails /\ UNCHANGED << paks, faults >>

\* A write fails after all its retries; the block may be there nevertheless.  The error
\* for a block of a table is overwritten by the result for its copy.
WriteFails ==
  /\ todo # << >> /\ in # NoPak /\ ~fresh /\ faults < MaxFaults /\ faults' = faults + 1
  /\ UNCHANGED fresh
  /\ \/ Head(todo).must /\ (Store(Head(todo)) \/ UNCHANGED paks) /\ CallFails
     \/ /\ MainFails /\ ~Head(todo).must /\ todo' = Tail(todo)
        /\ UNCHANGED << paks, in, id, dirty, cache, doing, known, pakCalls >>

------------------------------------------------------------------------------
(* The user *)

PowerCut ==
  /\ todo # << >> /\ faults < MaxFaults /\ faults' = faults + 1
  /\ todo' = << >> /\ doing' = Idle /\ id' = NoPak /\ dirty' = FALSE /\ cache' = NoCache
  /\ fresh' = TRUE
  /\ UNCHANGED << paks, in, known, pakCalls >>

Pull ==
  /\ in # NoPak /\ faults < MaxFaults /\ faults' = faults + 1
  /\ in' = NoPak /\ fresh' = FALSE
  /\ UNCHANGED << paks, id, dirty, cache, todo, doing, known, pakCalls >>

\* osContStartQuery and osPfsIsPlug ask for the status as well, and do not tell.
PutIn ==
  /\ in = NoPak /\ in' \in Paks
  /\ fresh' = TRUE \/ (HiddenSwaps /\ todo = << >> /\ fresh' = FALSE)
  /\ UNCHANGED << paks, id, dirty, cache, todo, doing, known, pakCalls, faults >>

PakNext ==
  \/ \E n \in Names : DeleteFile(n) \/ \E size \in Sizes : AllocateFile(n, size)
  \/ \E alone \in BOOLEAN : Check(alone)
  \/ ReFormat \/ FreeBlocks \/ NotThisPak
  \/ Write \/ AccessFails \/ WriteFails
  \/ PowerCut \/ Pull \/ PutIn

------------------------------------------------------------------------------
\* No call failed since the last check: the pak is as its calls left it.
Clean == todo = << >> /\ ~dirty /\ id # NoPak

\* A call that was cut short has either been done or not, and it never takes a page
\* from another file: after the check each file has the pages it was given, or is not
\* there if a call to make or to delete it was under way (osPfsAllocateFile,
\* osPfsDeleteFile, osPfsChecker).
FilesKept ==
  Clean => \A n \in Names : known[id][n] = {Listed(id, n)} /\ Cardinality(SlotOf(id, n)) <= 1

\* Every page in use belongs to one file, whose chain ends; the tables and their copies
\* agree.
NothingLost ==
  Clean =>
    LET files == {s \in Entries : paks[id].dir[s] # NoFile}
        ch(s) == Chain(MainTables(id), paks[id].dir[s].start, {})
    IN /\ \A b \in Banks(id) : Good(paks[id].main[b]) /\ paks[id].copy[b] = paks[id].main[b]
       /\ \A s \in files : EndsWell(MainTables(id), ch(s))
       /\ \A s, r \in files : s # r => PagesOf(ch(s)) \cap PagesOf(ch(r)) = {}
       /\ \A u \in AllPages : u[1] \in Banks(id) /\ Entry(MainTables(id), u) # Free
            => \E s \in files : u \in PagesOf(ch(s))

\* What a pak holds is what the calls have put there, and no page of it is lost.
PaksConsistent == FilesKept /\ NothingLost
================================================================================
