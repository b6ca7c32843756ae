------------------------------ MODULE AudioProofs ------------------------------
(***************************************************************************)
(* Theorems about the audio library.  The first part is about the event    *)
(* queue of the players; then SndPlayer, for any slots, sounds and calls;  *)
(* SeqChannels, for any voices, channels, instruments and settings, and    *)
(* any number of events; Synthesizer, for any physical voices, notes,      *)
(* players, priorities and delays, while there are updates enough and the  *)
(* voice calls come from the handlers of the players; and the resampler of *)
(* AudioFilters, for any pitches and any cuts of the calls.                *)
(***************************************************************************)
EXTENDS SeqChannels, SndPlayer, Synthesizer, AudioFilters, FiniteSetTheorems, SequenceTheorems,
  WellFoundedInduction, TLAPS

------------------------------------------------------------------------------
(* The queue *)

\* How many numbers of S are not above x
Rank(S, x) == Cardinality({k \in S : k <= x})

LEMMA NumbersAreFinite ==
  ASSUME NEW n \in Nat, NEW S \in SUBSET (1..n)
  PROVE  IsFiniteSet(S) /\ Cardinality(S) \in Nat
<1>1. IsFiniteSet(1..n)
  BY FS_Interval
<1>2. IsFiniteSet(S)
  BY <1>1, FS_Subset
<1> QED BY <1>2, FS_CardinalityType

LEMMA RankIsNumber ==
  ASSUME NEW n \in Nat, NEW S \in SUBSET (1..n), NEW x \in S
  PROVE  IsFiniteSet(S) /\ Cardinality(S) \in Nat /\ Rank(S, x) \in 1..Cardinality(S)
<1>1. IsFiniteSet(S) /\ Cardinality(S) \in Nat
  BY NumbersAreFinite
<1>2. {k \in S : k <= x} \subseteq S /\ x \in {k \in S : k <= x}
  OBVIOUS
<1>3. IsFiniteSet({k \in S : k <= x}) /\ Rank(S, x) \in Nat /\ Rank(S, x) <= Cardinality(S)
  BY <1>1, <1>2, FS_Subset, FS_CardinalityType DEF Rank
<1>4. Rank(S, x) # 0
  BY <1>2, <1>3, FS_EmptySet DEF Rank
<1> QED BY <1>1, <1>3, <1>4

LEMMA RankGrows ==
  ASSUME NEW n \in Nat, NEW S \in SUBSET (1..n), NEW x \in S, NEW y \in S, x < y
  PROVE  Rank(S, x) < Rank(S, y)
<1>1. IsFiniteSet(S)
  BY NumbersAreFinite
<1>2. {k \in S : k <= x} \subseteq {k \in S : k <= y} /\ {k \in S : k <= x} # {k \in S : k <= y}
  <2>1. y \in {k \in S : k <= y} /\ y \notin {k \in S : k <= x}
    OBVIOUS
  <2>2. {k \in S : k <= x} # {k \in S : k <= y}
    BY <2>1
  <2>3. \A k \in S : k <= x => k <= y
    <3>1. \A k \in S : k \in Nat
      OBVIOUS
    <3> QED BY <3>1
  <2>4. {k \in S : k <= x} \subseteq {k \in S : k <= y}
    BY <2>3
  <2> QED BY <2>2, <2>4
<1>3. {k \in S : k <= y} \subseteq S
  OBVIOUS
<1>4. IsFiniteSet({k \in S : k <= y})
  BY <1>1, <1>3, FS_Subset
<1>5. Rank(S, x) <= Rank(S, y) /\ Rank(S, x) # Rank(S, y)
  BY <1>2, <1>4, FS_Subset DEF Rank
<1>6. Rank(S, x) \in Nat /\ Rank(S, y) \in Nat
  <2>1. Cardinality(S) \in Nat /\ Rank(S, x) \in 1..Cardinality(S) /\ Rank(S, y) \in 1..Cardinality(S)
    BY RankIsNumber
  <2> QED BY <2>1
<1> QED BY <1>5, <1>6

\* Ascending numbers the elements of a set, each once.
LEMMA AscendingCounts ==
  ASSUME NEW n \in Nat, NEW S \in SUBSET (1..n)
  PROVE  /\ Cardinality(S) \in Nat
         /\ Ascending(S) \in [1..Cardinality(S) -> S]
         /\ \A i, j \in 1..Cardinality(S) : Ascending(S)[i] = Ascending(S)[j] => i = j
         /\ \A x \in S : \E i \in 1..Cardinality(S) : Ascending(S)[i] = x
         /\ \A i, j \in 1..Cardinality(S) : i < j => Ascending(S)[i] < Ascending(S)[j]
<1> DEFINE c == Cardinality(S)
           r == [x \in S |-> Rank(S, x)]
           f == Ascending(S)
<1>1. IsFiniteSet(S) /\ c \in Nat
  BY NumbersAreFinite
<1>2. IsFiniteSet(1..c) /\ Cardinality(1..c) = c
  BY <1>1, FS_Interval
<1>3. r \in [S -> 1..c]
  BY RankIsNumber
<1>4. \A x, y \in S : x # y => r[x] # r[y]
  <2>1. \A x, y \in S : x < y => r[x] < r[y]
    BY RankGrows
  <2>2. \A x, y \in S : r[x] \in Nat /\ (x # y => x < y \/ y < x)
    BY <1>3, <1>1
  <2> QED BY <2>1, <2>2
<1>5. r \in Injection(S, 1..c)
  BY <1>3, <1>4 DEF Injection, IsInjective
<1>6. r \in Surjection(S, 1..c)
  BY <1>1, <1>2, <1>5, FS_Injection
<1>7. \A i \in 1..c : \E x \in S : r[x] = i
  BY <1>6 DEF Surjection
<1>8. \A i \in 1..c : f[i] \in S /\ r[f[i]] = i
  <2> SUFFICES ASSUME NEW i \in 1..c PROVE f[i] \in S /\ r[f[i]] = i
    OBVIOUS
  <2>1. f[i] = CHOOSE x \in S : Rank(S, x) = i
    BY DEF Ascending, Rank
  <2>2. \E x \in S : Rank(S, x) = i
    BY <1>7
  <2> QED BY <2>1, <2>2
<1>9. f \in [1..c -> S]
  BY <1>8 DEF Ascending
<1>10. \A x \in S : f[r[x]] = x /\ r[x] \in 1..c
  BY <1>3, <1>4, <1>8
<1>11. \A i, j \in 1..c : f[i] = f[j] => i = j
  BY <1>8
<1>12. \A i, j \in 1..c : i < j => f[i] < f[j]
  <2> SUFFICES ASSUME NEW i \in 1..c, NEW j \in 1..c, i < j, ~(f[i] < f[j]) PROVE FALSE
    OBVIOUS
  <2>1. f[i] \in S /\ f[j] \in S /\ Rank(S, f[i]) = i /\ Rank(S, f[j]) = j
    BY <1>8
  <2>2. f[i] # f[j]
    BY <2>1
  <2>3. f[j] < f[i]
    <3>1. f[i] \in 1..n /\ f[j] \in 1..n
      BY <2>1
    <3> QED BY <2>2, <3>1
  <2>4. Rank(S, f[j]) < Rank(S, f[i])
    BY <2>1, <2>3, RankGrows
  <2> QED BY <1>1, <2>1, <2>4
<1> QED BY <1>1, <1>9, <1>10, <1>11, <1>12

\* A queue of items of events of Evts
IsItem(r, Evts) == DOMAIN r = {"delta", "evt"} /\ r.evt \in Evts
IsQueue(q, Evts) == \E S : q \in Seq(S) /\ \A r \in S : IsItem(r, Evts)

\* r is q with one more event e.
Inserted(q, r, e) ==
  /\ Len(r) = Len(q) + 1
  /\ \E p \in 1..Len(r) :
       /\ r[p].evt = e
       /\ \A i \in 1..Len(q) : i < p => r[i].evt = q[i].evt
       /\ \A i \in 1..Len(q) : p <= i => r[i + 1].evt = q[i].evt

\* r is q with one more event e, d from now.
Placed(q, r, e, d) ==
  /\ Len(r) = Len(q) + 1
  /\ \/ /\ \A i \in 1..Len(q) : ~(d < DueAt(q, i))
        /\ \A i \in 1..Len(q) : r[i] = q[i]
        /\ r[Len(q) + 1].delta = IF d = End THEN 0 ELSE d - DueAt(q, Len(q))
     \/ \E k \in 1..Len(q) :
          /\ d < DueAt(q, k) /\ \A i \in 1..(k - 1) : ~(d < DueAt(q, i))
          /\ \A i \in 1..(k - 1) : r[i] = q[i]
          /\ r[k].delta = d - DueAt(q, k - 1)
          /\ r[k + 1].delta = q[k].delta - (d - DueAt(q, k - 1))
          /\ \A i \in (k + 1)..Len(q) : r[i + 1] = q[i]

\* r is q without the events of the positions gone; the others stay due when they were.
Thinned(q, r, gone) ==
  \E f \in [1..Len(r) -> (1..Len(q)) \ gone] :
    /\ \A i \in 1..Len(r) : r[i].evt = q[f[i]].evt
    /\ \A i \in 1..Len(r) :
         r[i].delta = DueAt(q, f[i]) - (IF i = 1 THEN 0 ELSE DueAt(q, f[i - 1]))
    /\ \A i, j \in 1..Len(r) : i < j => f[i] < f[j]
    /\ \A i, j \in 1..Len(r) : f[i] = f[j] => i = j
    /\ \A k \in (1..Len(q)) \ gone : \E i \in 1..Len(r) : f[i] = k

LEMMA QueueFacts ==
  ASSUME NEW Evts, NEW q, IsQueue(q, Evts)
  PROVE  /\ Len(q) \in Nat /\ DOMAIN q = 1..Len(q)
         /\ \A i \in 1..Len(q) : IsItem(q[i], Evts)
<1>1. PICK S : q \in Seq(S) /\ \A r \in S : IsItem(r, Evts)
  BY DEF IsQueue
<1>2. Len(q) \in Nat /\ DOMAIN q = 1..Len(q)
  BY <1>1
<1>3. \A i \in 1..Len(q) : q[i] \in S
  BY <1>1, ElementOfSeq
<1> QED BY <1>1, <1>2, <1>3

LEMMA FirstIsOne ==
  ASSUME NEW S \in SUBSET Nat, S # {}
  PROVE  FirstOf(S) \in S /\ \A y \in S : FirstOf(S) <= y
<1>1. PICK x \in S : \A y \in S : ~ (<< y, x >> \in OpToRel(<, Nat))
  BY NatLessThanWellFounded, WFMin
<1>2. \A y \in S : ~ (y < x)
  BY <1>1 DEF OpToRel
<1>3. \A y \in S : x <= y
  BY <1>2
<1> QED BY <1>3 DEF FirstOf

LEMMA PostInserts ==
  ASSUME NEW Evts, NEW q, IsQueue(q, Evts), Len(q) < MaxEvents, NEW e \in Evts, NEW d
  PROVE  /\ IsQueue(PostEvent(q, e, d), Evts) /\ Inserted(q, PostEvent(q, e, d), e)
         /\ Placed(q, PostEvent(q, e, d), e, d)
<1>1. PICK S : q \in Seq(S) /\ \A r \in S : IsItem(r, Evts)
  BY DEF IsQueue
<1> DEFINE n == Len(q)
           later == {i \in 1..Len(q) : d < DueAt(q, i)}
           r == PostEvent(q, e, d)
<1>2. n \in Nat /\ Len(q) # MaxEvents /\ \A i \in 1..n : q[i] \in S /\ IsItem(q[i], Evts)
  BY <1>1, ElementOfSeq, EventQueueAssumption
<1>3. CASE later = {}
  <2>1. r = PutLast(q, e, d)
    BY <1>2, <1>3 DEF PostEvent
  <2>2. PICK w : w = IF d = End THEN 0 ELSE d - DueAt(q, Len(q))
    OBVIOUS
  <2>3. PICK x : x = [delta |-> w, evt |-> e]
    OBVIOUS
  <2>4. r = Append(q, x) /\ IsItem(x, Evts) /\ x.evt = e /\ x.delta = w
    BY <2>1, <2>2, <2>3 DEF PutLast, IsItem
  <2> HIDE DEF r
  <2>5. r \in Seq(S \cup {x}) /\ Len(r) = n + 1 /\ r[n + 1] = x /\ \A i \in 1..n : r[i] = q[i]
    BY <1>1, <2>4, AppendProperties
  <2>6. IsQueue(r, Evts)
    BY <1>1, <2>4, <2>5 DEF IsQueue
  <2>7. Inserted(q, r, e)
    BY <1>2, <2>4, <2>5 DEF Inserted
  <2>8. Placed(q, r, e, d)
    BY <1>3, <2>2, <2>4, <2>5 DEF Placed
  <2> QED BY <2>6, <2>7, <2>8 DEF r
<1>4. CASE later # {}
  <2>1. PICK k : k = FirstOf(later)
    OBVIOUS
  <2>2. k \in 1..n
    <3>1. later \subseteq 1..n /\ later \in SUBSET Nat
      BY <1>2
    <3> QED BY <1>4, <2>1, <3>1, FirstIsOne
  <2>3. r = PutBefore(q, k, e, d)
    BY <1>2, <1>4, <2>1 DEF PostEvent
  <2>4. PICK w : w = d - DueAt(q, k - 1)
    OBVIOUS
  <2>5. PICK y : y = [q[k] EXCEPT !.delta = @ - w]
    OBVIOUS
  <2>6. PICK x : x = [delta |-> w, evt |-> e]
    OBVIOUS
  <2>7. PICK z : z = [q EXCEPT ![k] = y]
    OBVIOUS
  <2>8. r = InsertAt(z, k, x)
    <3>1. [q EXCEPT ![k].delta = @ - w] = z
      BY <2>5, <2>7
    <3> QED BY <2>3, <2>4, <2>6, <3>1 DEF PutBefore
  <2>9. /\ IsItem(y, Evts) /\ y.evt = q[k].evt /\ IsItem(x, Evts) /\ x.evt = e
        /\ y.delta = q[k].delta - w /\ x.delta = w
    BY <1>2, <2>2, <2>5, <2>6 DEF IsItem
  <2> DEFINE T == S \cup {x, y}
  <2>10. z \in Seq(T) /\ Len(z) = n /\ z[k] = y /\ \A i \in 1..n : i # k => z[i] = q[i]
    BY <1>1, <2>2, <2>7, ExceptSeq
  <2>11. \A t \in T : IsItem(t, Evts)
    BY <1>1, <2>9
  <2>12. x \in T
    OBVIOUS
  <2>13. \A i \in 1..n : z[i].evt = q[i].evt
    BY <2>9, <2>10
  <2>14. r = SubSeq(z, 1, k - 1) \o << x >> \o SubSeq(z, k, n)
    BY <2>8, <2>10 DEF InsertAt
  <2> HIDE DEF r, T
  <2>15. /\ SubSeq(z, 1, k - 1) \in Seq(T) /\ Len(SubSeq(z, 1, k - 1)) = k - 1
         /\ \A i \in 1..(k - 1) : SubSeq(z, 1, k - 1)[i] = z[i]
    BY <1>2, <2>2, <2>10
  <2>16. /\ SubSeq(z, k, n) \in Seq(T) /\ Len(SubSeq(z, k, n)) = n - k + 1
         /\ \A i \in 1..(n - k + 1) : SubSeq(z, k, n)[i] = z[k + i - 1]
    BY <1>2, <2>2, <2>10
  <2>17. PICK a : a = SubSeq(z, 1, k - 1)
    OBVIOUS
  <2>18. PICK b : b = SubSeq(z, k, n)
    OBVIOUS
  <2>19. a \in Seq(T) /\ Len(a) = k - 1 /\ b \in Seq(T) /\ Len(b) = n - k + 1
    BY <2>15, <2>16, <2>17, <2>18
  <2>20. r = a \o << x >> \o b
    BY <2>14, <2>17, <2>18
  <2>21. r \in Seq(T) /\ Len(r) = n + 1
    <3>1. << x >> \in Seq(T) /\ Len(<< x >>) = 1
      BY <2>12
    <3>2. a \o << x >> \in Seq(T) /\ Len(a \o << x >>) = k - 1 + 1
      BY <2>19, <3>1, ConcatProperties
    <3>3. r \in Seq(T) /\ Len(r) = Len(a \o << x >>) + Len(b)
      BY <2>19, <2>20, <3>2, ConcatProperties
    <3>4. Len(r) = (k - 1 + 1) + (n - k + 1)
      BY <2>19, <3>2, <3>3
    <3>5. n \in Nat /\ k \in Nat
      BY <1>2, <2>2
    <3>6. (k - 1 + 1) + (n - k + 1) = n + 1
      BY <3>5
    <3> QED BY <3>3, <3>4, <3>6
  <2>22. \A i \in 1..n : i < k => r[i] = z[i]
    BY <1>2, <2>2, <2>12, <2>15, <2>17, <2>19, <2>20
  <2>23. r[k] = x
    BY <1>2, <2>2, <2>12, <2>19, <2>20
  <2>24. \A i \in 1..n : k <= i => r[i + 1] = z[i]
    <3> SUFFICES ASSUME NEW i \in 1..n, k <= i PROVE r[i + 1] = z[i]
      OBVIOUS
    <3>1. r[i + 1] = b[i + 1 - k]
      BY <1>2, <2>2, <2>12, <2>19, <2>20
    <3>2. b[i + 1 - k] = z[k + (i + 1 - k) - 1]
      BY <1>2, <2>2, <2>16, <2>18
    <3> QED BY <1>2, <2>2, <3>1, <3>2
  <2>25. IsQueue(r, Evts)
    BY <2>11, <2>21 DEF IsQueue
  <2>26. Inserted(q, r, e)
    <3>1. k \in 1..Len(r) /\ r[k].evt = e
      BY <1>2, <2>2, <2>9, <2>21, <2>23
    <3>2. \A i \in 1..n : i < k => r[i].evt = q[i].evt
      BY <2>13, <2>22
    <3>3. \A i \in 1..n : k <= i => r[i + 1].evt = q[i].evt
      BY <2>13, <2>24
    <3> QED BY <2>21, <3>1, <3>2, <3>3 DEF Inserted
  <2>27. d < DueAt(q, k) /\ \A i \in 1..(k - 1) : ~(d < DueAt(q, i))
    <3>1. later \subseteq 1..n /\ later \in SUBSET Nat
      BY <1>2
    <3>2. k \in later /\ \A i \in later : k <= i
      BY <1>4, <2>1, <3>1, FirstIsOne
    <3>3. \A i \in 1..(k - 1) : i \in 1..n /\ ~(k <= i)
      BY <1>2, <2>2
    <3>4. \A i \in 1..(k - 1) : i \notin later
      BY <3>2, <3>3
    <3> QED BY <3>2, <3>3, <3>4
  <2>28. Placed(q, r, e, d)
    <3>1. \A i \in 1..(k - 1) : r[i] = q[i]
      <4> TAKE i \in 1..(k - 1)
      <4>1. i \in 1..n /\ i < k /\ i # k
        BY <1>2, <2>2
      <4> QED BY <2>10, <2>22, <4>1
    <3>2. r[k].delta = d - DueAt(q, k - 1)
      BY <2>4, <2>9, <2>23
    <3>3. r[k + 1].delta = q[k].delta - (d - DueAt(q, k - 1))
      <4>1. k <= k
        BY <1>2, <2>2
      <4>2. r[k + 1] = z[k]
        BY <2>2, <2>24, <4>1
      <4> QED BY <2>4, <2>9, <2>10, <4>2
    <3>4. \A i \in (k + 1)..n : r[i + 1] = q[i]
      <4> TAKE i \in (k + 1)..n
      <4>1. i \in 1..n /\ k <= i /\ i # k
        BY <1>2, <2>2
      <4> QED BY <2>10, <2>24, <4>1
    <3> QED BY <2>2, <2>21, <2>27, <3>1, <3>2, <3>3, <3>4 DEF Placed
  <2> QED BY <2>25, <2>26, <2>28 DEF r
<1> QED BY <1>3, <1>4

LEMMA WithoutThins ==
  ASSUME NEW Evts, NEW q, IsQueue(q, Evts), NEW gone
  PROVE  IsQueue(Without(q, gone), Evts) /\ Thinned(q, Without(q, gone), gone)
<1> DEFINE S == (1..Len(q)) \ gone
           f == Ascending(S)
           r == Without(q, gone)
<1>1. Len(q) \in Nat /\ \A i \in 1..Len(q) : IsItem(q[i], Evts)
  BY QueueFacts
<1>2. S \in SUBSET (1..Len(q))
  OBVIOUS
<1> HIDE DEF S
<1>3. /\ Cardinality(S) \in Nat /\ f \in [1..Cardinality(S) -> S]
      /\ \A i, j \in 1..Cardinality(S) : f[i] = f[j] => i = j
      /\ \A x \in S : \E i \in 1..Cardinality(S) : f[i] = x
      /\ \A i, j \in 1..Cardinality(S) : i < j => f[i] < f[j]
  BY <1>1, <1>2, AscendingCounts
<1>4. PICK k \in Nat : k = Cardinality(S)
  BY <1>3
<1>5. Len(f) = k
  BY <1>3, <1>4
<1> HIDE DEF f
<1> DEFINE item(i) == [q[f[i]] EXCEPT !.delta =
                         DueAt(q, f[i]) - (IF i = 1 THEN 0 ELSE DueAt(q, f[i - 1]))]
<1>6. r = [i \in 1..k |-> item(i)]
  BY <1>5 DEF Without, S, f
<1>7. \A i \in 1..k : f[i] \in 1..Len(q)
  BY <1>2, <1>3, <1>4
<1>8. \A i \in 1..k :
        /\ IsItem(item(i), Evts) /\ item(i).evt = q[f[i]].evt
        /\ item(i).delta = DueAt(q, f[i]) - (IF i = 1 THEN 0 ELSE DueAt(q, f[i - 1]))
  BY <1>1, <1>7 DEF IsItem
<1> HIDE DEF item, r
<1>9. \A i \in 1..k : r[i] = item(i)
  BY <1>6
<1>10. r \in Seq({item(i) : i \in 1..k}) /\ Len(r) = k
  <2> DEFINE items == {item(i) : i \in 1..k}
  <2>1. \A i \in 1..k : item(i) \in items
    OBVIOUS
  <2> HIDE DEF items
  <2>2. r \in [1..k -> items]
    BY <1>6, <2>1
  <2>3. r \in Seq(items) /\ Len(r) = k
    BY <2>2
  <2> QED BY <2>3 DEF items
<1>11. IsQueue(r, Evts)
  BY <1>8, <1>10 DEF IsQueue
<1>12. Thinned(q, r, gone)
  <2>1. f \in [1..Len(r) -> (1..Len(q)) \ gone]
    BY <1>3, <1>4, <1>10 DEF S
  <2>2. \A i \in 1..Len(r) : r[i].evt = q[f[i]].evt
    BY <1>8, <1>9, <1>10
  <2>3. \A i, j \in 1..Len(r) : f[i] = f[j] => i = j
    BY <1>3, <1>4, <1>10
  <2>4. \A x \in (1..Len(q)) \ gone : \E i \in 1..Len(r) : f[i] = x
    BY <1>3, <1>4, <1>10 DEF S
  <2>5. \A i \in 1..Len(r) :
          r[i].delta = DueAt(q, f[i]) - (IF i = 1 THEN 0 ELSE DueAt(q, f[i - 1]))
    BY <1>8, <1>9, <1>10
  <2>6. \A i, j \in 1..Len(r) : i < j => f[i] < f[j]
    BY <1>3, <1>4, <1>10
  <2> QED BY <2>1, <2>2, <2>3, <2>4, <2>5, <2>6 DEF Thinned
<1> QED BY <1>11, <1>12 DEF r

------------------------------------------------------------------------------
(* How often an event comes: among the next event and those of the queue *)

Absent(q, e) == \A i \in 1..Len(q) : q[i].evt # e
Single(q, e) ==
  \E i \in 1..Len(q) : q[i].evt = e /\ \A j \in 1..Len(q) : q[j].evt = e => j = i

Never(nxt, q, e) == nxt # e /\ Absent(q, e)
Once(nxt, q, e) == (nxt = e /\ Absent(q, e)) \/ (nxt # e /\ Single(q, e))
Coming(nxt, q, e) == nxt = e \/ ~Absent(q, e)

LEMMA InsertedCounts ==
  ASSUME NEW q, NEW r, NEW e, Len(q) \in Nat, Inserted(q, r, e)
  PROVE  /\ Absent(q, e) => Single(r, e)
         /\ ~Absent(r, e)
         /\ \A x : x # e => (Absent(q, x) <=> Absent(r, x)) /\ (Single(q, x) => Single(r, x))
<1>1. PICK p \in 1..Len(r) :
        /\ r[p].evt = e
        /\ \A i \in 1..Len(q) : i < p => r[i].evt = q[i].evt
        /\ \A i \in 1..Len(q) : p <= i => r[i + 1].evt = q[i].evt
  BY DEF Inserted
<1>2. Len(r) = Len(q) + 1
  BY DEF Inserted
<1> DEFINE at(i) == IF i < p THEN i ELSE i + 1
           was(i) == IF i < p THEN i ELSE i - 1
<1>3. \A i \in 1..Len(q) : at(i) \in 1..Len(r) /\ at(i) # p /\ was(at(i)) = i /\ r[at(i)].evt = q[i].evt
  BY <1>1, <1>2
<1>4. \A i \in 1..Len(r) : i # p => was(i) \in 1..Len(q) /\ at(was(i)) = i
  BY <1>1, <1>2
<1> HIDE DEF at, was
<1>5. \A i \in 1..Len(r) : i # p => r[i].evt = q[was(i)].evt
  BY <1>3, <1>4
<1>6. ASSUME Absent(q, e) PROVE Single(r, e)
  <2>1. \A i \in 1..Len(r) : r[i].evt = e => i = p
    BY <1>4, <1>5, <1>6 DEF Absent
  <2> QED BY <1>1, <2>1 DEF Single
<1>7. ~Absent(r, e)
  BY <1>1 DEF Absent
<1>8. ASSUME NEW x, x # e PROVE Absent(q, x) <=> Absent(r, x)
  <2>1. Absent(q, x) => Absent(r, x)
    <3>1. \A i \in 1..Len(r) : r[i].evt = x => q[was(i)].evt = x /\ was(i) \in 1..Len(q)
      BY <1>1, <1>4, <1>5, <1>8
    <3> QED BY <3>1 DEF Absent
  <2>2. Absent(r, x) => Absent(q, x)
    <3>1. \A i \in 1..Len(q) : q[i].evt = x => r[at(i)].evt = x /\ at(i) \in 1..Len(r)
      BY <1>3
    <3> QED BY <3>1 DEF Absent
  <2> QED BY <2>1, <2>2
<1>9. ASSUME NEW x, x # e, Single(q, x) PROVE Single(r, x)
  <2>1. PICK i \in 1..Len(q) : q[i].evt = x /\ \A j \in 1..Len(q) : q[j].evt = x => j = i
    BY <1>9 DEF Single
  <2>2. at(i) \in 1..Len(r) /\ r[at(i)].evt = x
    BY <1>3, <2>1
  <2>3. \A j \in 1..Len(r) : r[j].evt = x => j = at(i)
    BY <1>1, <1>4, <1>5, <1>9, <2>1
  <2> QED BY <2>2, <2>3 DEF Single
<1> QED BY <1>6, <1>7, <1>8, <1>9

LEMMA ThinnedCounts ==
  ASSUME NEW q, NEW r, NEW gone, Thinned(q, r, gone), NEW x
  PROVE  /\ (\A i \in 1..Len(q) : q[i].evt = x => i \in gone) => Absent(r, x)
         /\ (\A i \in 1..Len(q) : q[i].evt = x => i \notin gone) =>
              (Absent(q, x) <=> Absent(r, x)) /\ (Single(q, x) => Single(r, x))
<1>1. PICK f \in [1..Len(r) -> (1..Len(q)) \ gone] :
        /\ \A i \in 1..Len(r) : r[i].evt = q[f[i]].evt
        /\ \A i, j \in 1..Len(r) : f[i] = f[j] => i = j
        /\ \A k \in (1..Len(q)) \ gone : \E i \in 1..Len(r) : f[i] = k
  BY DEF Thinned
<1>2. \A i \in 1..Len(r) : f[i] \in 1..Len(q) /\ f[i] \notin gone
  BY <1>1
<1>3. ASSUME \A i \in 1..Len(q) : q[i].evt = x => i \in gone PROVE Absent(r, x)
  BY <1>1, <1>2, <1>3 DEF Absent
<1>4. ASSUME \A i \in 1..Len(q) : q[i].evt = x => i \notin gone
      PROVE  (Absent(q, x) <=> Absent(r, x)) /\ (Single(q, x) => Single(r, x))
  <2>1. \A k \in 1..Len(q) : q[k].evt = x => \E i \in 1..Len(r) : f[i] = k /\ r[i].evt = x
    BY <1>1, <1>4
  <2>2. Absent(q, x) <=> Absent(r, x)
    BY <1>1, <1>2, <2>1 DEF Absent
  <2>3. ASSUME Single(q, x) PROVE Single(r, x)
    <3>1. PICK k \in 1..Len(q) : q[k].evt = x /\ \A j \in 1..Len(q) : q[j].evt = x => j = k
      BY <2>3 DEF Single
    <3>2. PICK i \in 1..Len(r) : f[i] = k /\ r[i].evt = x
      BY <2>1, <3>1
    <3>3. \A j \in 1..Len(r) : r[j].evt = x => f[j] = k
      BY <1>1, <1>2, <3>1
    <3>4. \A j \in 1..Len(r) : r[j].evt = x => j = i
      BY <1>1, <3>2, <3>3
    <3> QED BY <3>2, <3>4 DEF Single
  <2> QED BY <2>2, <2>3
<1> QED BY <1>3, <1>4

\* The next event is taken from the queue r.
LEMMA TurnCounts ==
  ASSUME NEW Evts, NoEvent \notin Evts, NEW r, IsQueue(r, Evts), NEW x \in Evts
  PROVE  /\ IsQueue(AfterNext(r), Evts) /\ NextEvent(r).evt \in Evts \cup {NoEvent}
         /\ Absent(r, x) => Never(NextEvent(r).evt, AfterNext(r), x)
         /\ Single(r, x) => Once(NextEvent(r).evt, AfterNext(r), x)
         /\ ~Absent(r, x) => Coming(NextEvent(r).evt, AfterNext(r), x)
<1>1. PICK S : r \in Seq(S) /\ \A i \in S : IsItem(i, Evts)
  BY DEF IsQueue
<1>2. CASE r = << >>
  <2>1. NextEvent(r).evt = NoEvent /\ AfterNext(r) = r /\ Len(r) = 0
    BY <1>2 DEF NextEvent, AfterNext
  <2>2. Absent(r, x) /\ ~Single(r, x)
    BY <2>1 DEF Absent, Single
  <2>3. NoEvent # x
    OBVIOUS
  <2> QED BY <2>1, <2>2, <2>3 DEF Never
<1>3. CASE r # << >>
  <2> DEFINE t == Tail(r)
             n == Len(r)
  <2>1. NextEvent(r).evt = r[1].evt /\ AfterNext(r) = t
    BY <1>1, <1>3 DEF NextEvent, AfterNext
  <2>2. /\ n \in Nat /\ n # 0 /\ t \in Seq(S) /\ Len(t) = n - 1
        /\ \A i \in 1..(n - 1) : t[i] = r[i + 1]
    BY <1>1, <1>3, HeadTailProperties, EmptySeq
  <2>3. IsQueue(t, Evts)
    BY <1>1, <2>2 DEF IsQueue
  <2>4. r[1].evt \in Evts
    <3>1. 1 \in 1..Len(r)
      BY <2>2
    <3> QED BY <3>1, QueueFacts DEF IsItem
  <2> HIDE DEF t
  <2>5. \A i \in 1..n : i # 1 => i - 1 \in 1..Len(t) /\ t[i - 1] = r[i]
    BY <2>2
  <2>6. \A i \in 1..Len(t) : i + 1 \in 1..n /\ t[i] = r[i + 1] /\ i + 1 # 1 /\ i = (i + 1) - 1
    BY <2>2
  <2>7. 1 \in 1..n
    BY <2>2
  <2>8. Absent(r, x) <=> r[1].evt # x /\ Absent(t, x)
    BY <2>5, <2>6, <2>7 DEF Absent
  <2>9. ASSUME Single(r, x) PROVE (r[1].evt = x /\ Absent(t, x)) \/ (r[1].evt # x /\ Single(t, x))
    <3>1. PICK i \in 1..n : r[i].evt = x /\ \A j \in 1..n : r[j].evt = x => j = i
      BY <2>9 DEF Single
    <3>2. CASE i = 1
      BY <2>6, <3>1, <3>2 DEF Absent
    <3>3. CASE i # 1
      <4>1. i - 1 \in 1..Len(t) /\ t[i - 1].evt = x /\ r[1].evt # x
        BY <2>5, <2>7, <3>1, <3>3
      <4>2. \A j \in 1..Len(t) : t[j].evt = x => j = i - 1
        BY <2>6, <3>1
      <4> QED BY <4>1, <4>2 DEF Single
    <3> QED BY <3>2, <3>3
  <2> QED BY <2>1, <2>3, <2>4, <2>8, <2>9 DEF Never, Once, Coming
<1> QED BY <1>2, <1>3

------------------------------------------------------------------------------
(* The sounds *)

SndSpec == SndInit /\ [][SndNext]_sndVars

SndEvents ==
  {SndApi} \cup [type : {"play", "decay", "stop", "end"}, slot : Slots]
           \cup [type : {"pitch"}, slot : Slots, pitch : Pitches]

\* What is to come for slot s, whose state is sl
SlotEnds(nxt, q, sl, s) ==
  /\ DOMAIN sl = {"sound", "state", "pitch"} /\ sl.state \in {"playing", "stopping", "stopped"}
  /\ sl.state = "playing" =>
       /\ sl.sound # NoSound /\ Never(nxt, q, Evt("end", s))
       /\ \/ Once(nxt, q, Evt("decay", s))
          \/ /\ Never(nxt, q, Evt("decay", s))
             /\ SndDecay[sl.sound] = Looped \/ Coming(nxt, q, Evt("stop", s))
  /\ sl.state = "stopping" => sl.sound # NoSound /\ Once(nxt, q, Evt("end", s))
  /\ sl.state = "stopped" => Never(nxt, q, Evt("decay", s)) /\ Never(nxt, q, Evt("end", s))

SndInv ==
  /\ IsQueue(sndq, SndEvents) /\ sndNext \in SndEvents \cup {NoEvent}
  /\ DOMAIN slot = Slots
  /\ \A s \in Slots : SlotEnds(sndNext, sndq, slot[s], s)

\* Nothing of slot s is next.
Idle(nxt, s) == \A t \in {"decay", "stop", "end"} : nxt # Evt(t, s)

LEMMA EventsDiffer ==
  ASSUME NEW s \in Slots
  PROVE  /\ NoEvent \notin SndEvents /\ SndApi \in SndEvents
         /\ \A t \in {"play", "decay", "stop", "end"} : Evt(t, s) \in SndEvents /\ Evt(t, s) # NoEvent
         /\ Idle(NoEvent, s) /\ Idle(SndApi, s)
<1>1. NoEvent \notin SndEvents
  <2>1. \A e \in SndEvents : e.type # "none"
    BY DEF SndEvents, SndApi
  <2> QED BY <2>1 DEF NoEvent
<1>2. \A t : Evt(t, s).type = t
  BY DEF Evt
<1>3. Idle(NoEvent, s) /\ Idle(SndApi, s)
  <2>1. NoEvent.type = "none" /\ SndApi.type = "api"
    BY DEF NoEvent, SndApi
  <2> QED BY <1>2, <2>1 DEF Idle
<1>4. \A t \in {"play", "decay", "stop", "end"} : Evt(t, s) \in SndEvents
  BY DEF Evt, SndEvents
<1>5. SndApi \in SndEvents
  BY DEF SndEvents
<1> QED BY <1>1, <1>3, <1>4, <1>5

LEMMA EvtIsOne ==
  ASSUME NEW t, NEW s, NEW u, NEW v, Evt(t, s) = Evt(u, v) PROVE t = u /\ s = v
<1>1. Evt(t, s).type = t /\ Evt(u, v).type = u /\ Evt(t, s).slot = s /\ Evt(u, v).slot = v
  BY DEF Evt
<1> QED BY <1>1

\* An event that is not for the end of a sound of s can go.
LEMMA IdleGoes ==
  ASSUME NEW nxt, NEW q, NEW sl, NEW s, SlotEnds(nxt, q, sl, s), Idle(nxt, s), s \in Slots
  PROVE  SlotEnds(NoEvent, q, sl, s)
<1>1. \A t \in {"decay", "stop", "end"} :
        nxt # Evt(t, s) /\ NoEvent # Evt(t, s)
  BY EventsDiffer DEF Idle
<1>2. \A t \in {"decay", "stop", "end"} :
        /\ Never(nxt, q, Evt(t, s)) <=> Never(NoEvent, q, Evt(t, s))
        /\ Once(nxt, q, Evt(t, s)) <=> Once(NoEvent, q, Evt(t, s))
        /\ Coming(nxt, q, Evt(t, s)) <=> Coming(NoEvent, q, Evt(t, s))
  BY <1>1 DEF Never, Once, Coming
<1> QED BY <1>2 DEF SlotEnds

\* The handler goes on with the first event of q.
LEMMA SoundTurn ==
  ASSUME NEW q, IsQueue(q, SndEvents), NEW sl, NEW s \in Slots, SlotEnds(NoEvent, q, sl, s)
  PROVE  SlotEnds(NextEvent(q).evt, AfterNext(q), sl, s)
<1>1. \A t \in {"decay", "stop", "end"} : Evt(t, s) \in SndEvents /\ NoEvent # Evt(t, s)
  BY EventsDiffer
<1>2. NoEvent \notin SndEvents
  BY EventsDiffer
<1>3. \A x \in SndEvents :
         /\ Absent(q, x) => Never(NextEvent(q).evt, AfterNext(q), x)
         /\ Single(q, x) => Once(NextEvent(q).evt, AfterNext(q), x)
         /\ ~Absent(q, x) => Coming(NextEvent(q).evt, AfterNext(q), x)
  BY <1>2, TurnCounts
<1>4. \A t \in {"decay", "stop", "end"} :
        /\ Never(NoEvent, q, Evt(t, s)) => Never(NextEvent(q).evt, AfterNext(q), Evt(t, s))
        /\ Once(NoEvent, q, Evt(t, s)) => Once(NextEvent(q).evt, AfterNext(q), Evt(t, s))
        /\ Coming(NoEvent, q, Evt(t, s)) => Coming(NextEvent(q).evt, AfterNext(q), Evt(t, s))
  <2> TAKE t \in {"decay", "stop", "end"}
  <2>1. Evt(t, s) \in SndEvents /\ NoEvent # Evt(t, s)
    BY <1>1
  <2> QED BY <1>3, <2>1 DEF Never, Once, Coming
<1> QED BY <1>4 DEF SlotEnds

\* Another event is posted.
LEMMA PostEnds ==
  ASSUME NEW q, IsQueue(q, SndEvents), Len(q) < MaxEvents, NEW nxt, NEW sl, NEW s \in Slots,
         SlotEnds(nxt, q, sl, s),
         NEW e \in SndEvents, e # Evt("decay", s), e # Evt("end", s), NEW d
  PROVE  SlotEnds(nxt, PostEvent(q, e, d), sl, s)
<1> DEFINE r == PostEvent(q, e, d)
<1>1. Len(q) \in Nat /\ Inserted(q, r, e)
  BY PostInserts, QueueFacts
<1> HIDE DEF r
<1>2. /\ ~Absent(r, e)
      /\ \A x : x # e => (Absent(q, x) <=> Absent(r, x)) /\ (Single(q, x) => Single(r, x))
  BY <1>1, InsertedCounts
<1>3. \A t \in {"decay", "end"} :
        /\ Never(nxt, q, Evt(t, s)) => Never(nxt, r, Evt(t, s))
        /\ Once(nxt, q, Evt(t, s)) => Once(nxt, r, Evt(t, s))
  <2> TAKE t \in {"decay", "end"}
  <2>1. Evt(t, s) # e
    OBVIOUS
  <2> QED BY <1>2, <2>1 DEF Never, Once
<1>4. Coming(nxt, q, Evt("stop", s)) => Coming(nxt, r, Evt("stop", s))
  BY <1>2 DEF Coming
<1>5. SlotEnds(nxt, r, sl, s)
  BY <1>3, <1>4 DEF SlotEnds
<1> QED BY <1>5 DEF r

\* What was posted for a slot is taken out; the rest stays.
LEMMA RemoveEnds ==
  ASSUME NEW q, IsQueue(q, SndEvents), NEW s \in Slots
  PROVE  /\ IsQueue(RemoveEvents(q, s), SndEvents)
         /\ \A t \in {"decay", "stop", "end"} : Absent(RemoveEvents(q, s), Evt(t, s))
         /\ \A u \in Slots : \A sl : u # s /\ SlotEnds(NoEvent, q, sl, u) =>
              SlotEnds(NoEvent, RemoveEvents(q, s), sl, u)
<1> DEFINE gone == {i \in 1..Len(q) : q[i].evt.type # "api" /\ q[i].evt.slot = s}
           r == RemoveEvents(q, s)
<1>1. IsQueue(r, SndEvents) /\ Thinned(q, r, gone)
  BY WithoutThins DEF RemoveEvents
<1>2. \A t \in {"decay", "stop", "end"} : \A u :
        \A i \in 1..Len(q) : q[i].evt = Evt(t, u) => (i \in gone <=> u = s)
  <2>1. \A t, u : Evt(t, u).type = t /\ Evt(t, u).slot = u
    BY DEF Evt
  <2> QED BY <2>1
<1> HIDE DEF gone, r
<1>3. \A x : /\ (\A i \in 1..Len(q) : q[i].evt = x => i \in gone) => Absent(r, x)
             /\ (\A i \in 1..Len(q) : q[i].evt = x => i \notin gone) =>
                  (Absent(q, x) <=> Absent(r, x)) /\ (Single(q, x) => Single(r, x))
  BY <1>1, ThinnedCounts
<1>4. \A t \in {"decay", "stop", "end"} : Absent(r, Evt(t, s))
  BY <1>2, <1>3
<1>5. ASSUME NEW u \in Slots, NEW sl, u # s, SlotEnds(NoEvent, q, sl, u)
      PROVE  SlotEnds(NoEvent, r, sl, u)
  <2>1. \A t \in {"decay", "stop", "end"} :
          (Absent(q, Evt(t, u)) <=> Absent(r, Evt(t, u))) /\ (Single(q, Evt(t, u)) => Single(r, Evt(t, u)))
    BY <1>2, <1>3, <1>5
  <2>2. \A t \in {"decay", "stop", "end"} :
        /\ Never(NoEvent, q, Evt(t, u)) => Never(NoEvent, r, Evt(t, u))
        /\ Once(NoEvent, q, Evt(t, u)) => Once(NoEvent, r, Evt(t, u))
        /\ Coming(NoEvent, q, Evt(t, u)) => Coming(NoEvent, r, Evt(t, u))
    BY <2>1 DEF Never, Once, Coming
  <2> QED BY <1>5, <2>2 DEF SlotEnds
<1> QED BY <1>1, <1>4, <1>5 DEF r

\* The handler took the next event, left the queue r, and slot s alone or as sl.
LEMMA TurnInv ==
  ASSUME SndInv, NEW r, IsQueue(r, SndEvents), SndTurn(r), NEW s \in Slots, NEW sl,
         \/ slot' = slot /\ sl = slot[s]
         \/ slot' = [slot EXCEPT ![s] = sl],
         SlotEnds(NoEvent, r, sl, s),
         \A u \in Slots : u # s => SlotEnds(NoEvent, r, slot[u], u)
  PROVE  SndInv'
<1>1. sndNext' = NextEvent(r).evt /\ sndq' = AfterNext(r)
  BY DEF SndTurn
<1>2. NoEvent \notin SndEvents /\ SndApi \in SndEvents
  BY EventsDiffer
<1>3. IsQueue(sndq', SndEvents) /\ sndNext' \in SndEvents \cup {NoEvent}
  BY <1>1, <1>2, TurnCounts
<1>4. DOMAIN slot = Slots
  BY DEF SndInv
<1>5. DOMAIN slot' = Slots /\ slot'[s] = sl /\ \A u \in Slots : u # s => slot'[u] = slot[u]
  BY <1>4
<1>6. \A u \in Slots : SlotEnds(NoEvent, r, slot'[u], u)
  BY <1>5
<1>7. \A u \in Slots : SlotEnds(sndNext', sndq', slot'[u], u)
  BY <1>1, <1>6, SoundTurn
<1> QED BY <1>3, <1>5, <1>7 DEF SndInv

LEMMA OthersIdle ==
  ASSUME SndInv, NEW s \in Slots, sndNext.slot = s, sndNext # NoEvent, sndNext # SndApi
  PROVE  \A u \in Slots : u # s => SlotEnds(NoEvent, sndq, slot[u], u)
<1>1. SUFFICES ASSUME NEW u \in Slots, u # s PROVE SlotEnds(NoEvent, sndq, slot[u], u)
  OBVIOUS
<1>2. \A t : Evt(t, u).slot = u
  BY DEF Evt
<1>3. Idle(sndNext, u)
  BY <1>1, <1>2 DEF Idle
<1>4. SlotEnds(sndNext, sndq, slot[u], u)
  BY DEF SndInv
<1> QED BY <1>3, <1>4, IdleGoes

LEMMA SilencedEnds ==
  ASSUME SndInv, NEW s \in Slots, sndNext.slot = s, sndNext # NoEvent, sndNext # SndApi, Silenced(s)
  PROVE  SndInv'
<1> DEFINE r == RemoveEvents(sndq, s)
<1>1. IsQueue(sndq, SndEvents) /\ SlotEnds(sndNext, sndq, slot[s], s) /\ DOMAIN slot = Slots
  BY DEF SndInv
<1>2. /\ IsQueue(r, SndEvents) /\ \A t \in {"decay", "stop", "end"} : Absent(r, Evt(t, s))
      /\ \A u \in Slots : u # s => SlotEnds(NoEvent, r, slot[u], u)
  BY <1>1, RemoveEnds, OthersIdle
<1> HIDE DEF r
<1>3. PICK sl : sl = [slot[s] EXCEPT !.state = "stopped"]
  OBVIOUS
<1>4. slot' = [slot EXCEPT ![s] = sl] /\ SndTurn(r)
  BY <1>3 DEF Silenced, r
<1>5. SlotEnds(NoEvent, r, sl, s)
  <2>1. DOMAIN slot[s] = {"sound", "state", "pitch"}
    BY <1>1 DEF SlotEnds
  <2>2. DOMAIN sl = {"sound", "state", "pitch"} /\ sl.state = "stopped"
    BY <1>3, <2>1
  <2>3. \A t \in {"decay", "stop", "end"} : NoEvent # Evt(t, s)
    BY EventsDiffer
  <2> QED BY <1>2, <2>2, <2>3 DEF SlotEnds, Never
<1> QED BY <1>2, <1>4, <1>5, TurnInv

\* The next event is of slot s, for a sound whose end it does not bring nearer.
LEMMA NothingHappens ==
  ASSUME SndInv, NEW s \in Slots, sndNext.slot = s, sndNext # NoEvent, sndNext # SndApi,
         SlotEnds(NoEvent, sndq, slot[s], s), SndTurn(sndq), UNCHANGED slot
  PROVE  SndInv'
<1>1. IsQueue(sndq, SndEvents)
  BY DEF SndInv
<1> QED BY <1>1, OthersIdle, TurnInv

LEMMA HandledIs ==
  ASSUME NEW s \in Slots, NEW t \in {"play", "decay", "stop", "end"}, Handles(t, s)
  PROVE  /\ sndNext = Evt(t, s) /\ sndNext.slot = s /\ sndNext # NoEvent /\ sndNext # SndApi
         /\ \A v \in {"decay", "stop", "end"} : v # t => sndNext # Evt(v, s)
<1>1. sndNext = Evt(t, s)
  BY DEF Handles
<1>2. sndNext.slot = s /\ sndNext.type = t
  BY <1>1 DEF Evt
<1>3. NoEvent.type = "none" /\ SndApi.type = "api"
  BY DEF NoEvent, SndApi
<1>4. \A v : Evt(v, s).type = v
  BY DEF Evt
<1> QED BY <1>1, <1>2, <1>3, <1>4

LEMMA OthersPost ==
  ASSUME SndInv, Len(sndq) < MaxEvents, NEW s \in Slots, NEW t \in {"decay", "stop", "end"}, NEW d,
         \A u \in Slots : u # s => SlotEnds(NoEvent, sndq, slot[u], u)
  PROVE  \A u \in Slots : u # s => SlotEnds(NoEvent, PostEvent(sndq, Evt(t, s), d), slot[u], u)
<1>1. IsQueue(sndq, SndEvents) /\ Evt(t, s) \in SndEvents
  BY EventsDiffer DEF SndInv
<1>2. ASSUME NEW u \in Slots, u # s
      PROVE  SlotEnds(NoEvent, PostEvent(sndq, Evt(t, s), d), slot[u], u)
  <2>1. Evt(t, s) # Evt("decay", u) /\ Evt(t, s) # Evt("end", u)
    BY <1>2, EvtIsOne
  <2>2. SlotEnds(NoEvent, sndq, slot[u], u)
    BY <1>2
  <2> QED BY <1>1, <2>1, <2>2, PostEnds
<1> QED BY <1>2

LEMMA PlayStep ==
  ASSUME SndInv, Len(sndq) < MaxEvents, NEW s \in Slots, PlaySound(s) PROVE SndInv'
<1>1. /\ sndNext.slot = s /\ sndNext # NoEvent /\ sndNext # SndApi /\ Idle(sndNext, s)
  BY HandledIs DEF PlaySound, Idle
<1>2. IsQueue(sndq, SndEvents) /\ SlotEnds(sndNext, sndq, slot[s], s) /\ DOMAIN slot = Slots
  BY DEF SndInv
<1>3. SlotEnds(NoEvent, sndq, slot[s], s)
  BY <1>1, <1>2, IdleGoes
<1>4. CASE slot[s].state # "stopped" \/ slot[s].sound = NoSound
  BY <1>1, <1>3, <1>4, NothingHappens DEF PlaySound
<1>5. CASE ~ (slot[s].state # "stopped" \/ slot[s].sound = NoSound)
  <2>1. PICK d : d = Duration(SndAttack[slot[s].sound], s)
    OBVIOUS
  <2> DEFINE r == PostEvent(sndq, Evt("decay", s), d)
  <2>2. PICK sl : sl = [slot[s] EXCEPT !.state = "playing"]
    OBVIOUS
  <2>3. SndTurn(r) /\ slot' = [slot EXCEPT ![s] = sl]
    BY <1>5, <2>1, <2>2 DEF PlaySound
  <2>4. Evt("decay", s) \in SndEvents /\ Evt("end", s) # Evt("decay", s)
        /\ NoEvent # Evt("decay", s) /\ NoEvent # Evt("end", s)
    BY EventsDiffer, EvtIsOne
  <2>5. IsQueue(r, SndEvents) /\ Inserted(sndq, r, Evt("decay", s)) /\ Len(sndq) \in Nat
    BY <1>2, <2>4, PostInserts, QueueFacts
  <2>6. \A u \in Slots : u # s => SlotEnds(NoEvent, r, slot[u], u)
    BY <1>1, OthersIdle, OthersPost
  <2> HIDE DEF r
  <2>7. Absent(sndq, Evt("decay", s)) /\ Absent(sndq, Evt("end", s))
    BY <1>3, <1>5 DEF SlotEnds, Never
  <2>8. Single(r, Evt("decay", s)) /\ Absent(r, Evt("end", s))
    BY <2>4, <2>5, <2>7, InsertedCounts
  <2>9. DOMAIN slot[s] = {"sound", "state", "pitch"}
    BY <1>2 DEF SlotEnds
  <2>10. DOMAIN sl = {"sound", "state", "pitch"} /\ sl.state = "playing" /\ sl.sound # NoSound
    BY <1>5, <2>2, <2>9
  <2>11. SlotEnds(NoEvent, r, sl, s)
    BY <2>4, <2>8, <2>10 DEF SlotEnds, Never, Once
  <2> QED BY <2>3, <2>5, <2>6, <2>11, TurnInv
<1> QED BY <1>4, <1>5

LEMMA StopStep ==
  ASSUME SndInv, Len(sndq) < MaxEvents, NEW s \in Slots, StopSound(s) PROVE SndInv'
<1>1. /\ sndNext.slot = s /\ sndNext # NoEvent /\ sndNext # SndApi
      /\ sndNext # Evt("decay", s) /\ sndNext # Evt("end", s)
  BY HandledIs DEF StopSound
<1>2. IsQueue(sndq, SndEvents) /\ SlotEnds(sndNext, sndq, slot[s], s) /\ DOMAIN slot = Slots
  BY DEF SndInv
<1>3. NoEvent # Evt("decay", s) /\ NoEvent # Evt("end", s) /\ Evt("end", s) \in SndEvents
  BY EventsDiffer
<1>4. CASE slot[s].state # "playing" \/ slot[s].sound = NoSound
  <2>1. slot[s].state # "playing"
    BY <1>2, <1>4 DEF SlotEnds
  <2>2. SlotEnds(NoEvent, sndq, slot[s], s)
    BY <1>1, <1>2, <1>3, <2>1 DEF SlotEnds, Never, Once
  <2> QED BY <1>1, <1>4, <2>2, NothingHappens DEF StopSound
<1>5. CASE slot[s].state = "playing" /\ slot[s].sound # NoSound
  <2>1. PICK d : d = Duration(SndRelease[slot[s].sound], s)
    OBVIOUS
  <2>2. CASE d = 0
    BY <1>1, <1>5, <2>1, <2>2, SilencedEnds DEF StopSound
  <2>3. CASE d # 0
    <3> DEFINE r == PostEvent(sndq, Evt("end", s), d)
    <3>1. PICK sl : sl = [slot[s] EXCEPT !.state = "stopping"]
      OBVIOUS
    <3>2. SndTurn(r) /\ slot' = [slot EXCEPT ![s] = sl]
      BY <1>5, <2>1, <2>3, <3>1 DEF StopSound
    <3>3. IsQueue(r, SndEvents) /\ Inserted(sndq, r, Evt("end", s)) /\ Len(sndq) \in Nat
      BY <1>2, <1>3, PostInserts, QueueFacts
    <3>4. \A u \in Slots : u # s => SlotEnds(NoEvent, r, slot[u], u)
      BY <1>1, OthersIdle, OthersPost
    <3> HIDE DEF r
    <3>5. Absent(sndq, Evt("end", s))
      BY <1>2, <1>5 DEF SlotEnds, Never
    <3>6. Single(r, Evt("end", s))
      BY <3>3, <3>5, InsertedCounts
    <3>7. DOMAIN slot[s] = {"sound", "state", "pitch"}
      BY <1>2 DEF SlotEnds
    <3>8. DOMAIN sl = {"sound", "state", "pitch"} /\ sl.state = "stopping" /\ sl.sound # NoSound
      BY <1>5, <3>1, <3>7
    <3>9. SlotEnds(NoEvent, r, sl, s)
      BY <1>3, <3>6, <3>8 DEF SlotEnds, Once
    <3> QED BY <3>2, <3>3, <3>4, <3>9, TurnInv
  <2> QED BY <2>2, <2>3
<1> QED BY <1>4, <1>5

LEMMA DecayStep ==
  ASSUME SndInv, Len(sndq) < MaxEvents, NEW s \in Slots, DecaySound(s) PROVE SndInv'
<1>1. /\ sndNext.slot = s /\ sndNext # NoEvent /\ sndNext # SndApi
      /\ sndNext = Evt("decay", s) /\ sndNext # Evt("end", s) /\ sndNext # Evt("stop", s)
  BY HandledIs DEF DecaySound
<1>2. IsQueue(sndq, SndEvents) /\ SlotEnds(sndNext, sndq, slot[s], s) /\ DOMAIN slot = Slots
  BY DEF SndInv
<1>3. /\ NoEvent # Evt("decay", s) /\ NoEvent # Evt("end", s) /\ NoEvent # Evt("stop", s)
      /\ Evt("stop", s) \in SndEvents
  BY EventsDiffer
<1>4. slot[s].state # "stopped"
  BY <1>1, <1>2 DEF SlotEnds, Never
<1>5. slot[s].state = "playing" => Absent(sndq, Evt("decay", s)) /\ Absent(sndq, Evt("end", s))
  BY <1>1, <1>2 DEF SlotEnds, Never, Once
<1>6. CASE SndDecay[slot[s].sound] = Looped
  <2>1. SlotEnds(NoEvent, sndq, slot[s], s)
    BY <1>1, <1>2, <1>3, <1>4, <1>5, <1>6 DEF SlotEnds, Never, Once
  <2> QED BY <1>1, <1>6, <2>1, NothingHappens DEF DecaySound
<1>7. CASE SndDecay[slot[s].sound] # Looped
  <2>1. PICK d : d = Duration(SndDecay[slot[s].sound], s)
    OBVIOUS
  <2> DEFINE r == PostEvent(sndq, Evt("stop", s), d)
  <2>2. SndTurn(r) /\ slot' = slot
    BY <1>7, <2>1 DEF DecaySound
  <2>3. IsQueue(r, SndEvents) /\ Inserted(sndq, r, Evt("stop", s)) /\ Len(sndq) \in Nat
    BY <1>2, <1>3, PostInserts, QueueFacts
  <2>4. \A u \in Slots : u # s => SlotEnds(NoEvent, r, slot[u], u)
    BY <1>1, OthersIdle, OthersPost
  <2> HIDE DEF r
  <2>5. Evt("stop", s) # Evt("decay", s) /\ Evt("stop", s) # Evt("end", s)
    BY EvtIsOne
  <2>6. ~Absent(r, Evt("stop", s))
    BY <2>3, InsertedCounts
  <2>7. \A x : x # Evt("stop", s) => (Absent(sndq, x) <=> Absent(r, x)) /\ (Single(sndq, x) => Single(r, x))
    BY <2>3, InsertedCounts
  <2>8. slot[s].state = "stopping" => Single(sndq, Evt("end", s))
    BY <1>1, <1>2 DEF SlotEnds, Once
  <2>9. SlotEnds(NoEvent, r, slot[s], s)
    BY <1>2, <1>3, <1>4, <1>5, <2>5, <2>6, <2>7, <2>8 DEF SlotEnds, Never, Once, Coming
  <2> QED BY <2>2, <2>3, <2>4, <2>9, TurnInv
<1> QED BY <1>6, <1>7

LEMMA EndStep ==
  ASSUME SndInv, NEW s \in Slots, EndSound(s) PROVE SndInv'
<1>1. Handles("end", s) /\ Silenced(s)
  BY DEF EndSound
<1>2. sndNext.slot = s /\ sndNext # NoEvent /\ sndNext # SndApi
  BY <1>1, HandledIs
<1> QED BY <1>1, <1>2, SilencedEnds

LEMMA PitchStep ==
  ASSUME SndInv, NEW s \in Slots, PitchSound(s) PROVE SndInv'
<1>1. /\ sndNext.slot = s /\ sndNext # NoEvent /\ sndNext # SndApi /\ Idle(sndNext, s)
  <2>1. sndNext.slot = s /\ sndNext.type = "pitch"
    BY DEF PitchSound
  <2>2. NoEvent.type = "none" /\ SndApi.type = "api" /\ \A t : Evt(t, s).type = t
    BY DEF NoEvent, SndApi, Evt
  <2> QED BY <2>1, <2>2 DEF Idle
<1>2. IsQueue(sndq, SndEvents) /\ SlotEnds(sndNext, sndq, slot[s], s) /\ DOMAIN slot = Slots
  BY DEF SndInv
<1>3. SlotEnds(NoEvent, sndq, slot[s], s)
  BY <1>1, <1>2, IdleGoes
<1>4. PICK sl : sl = [slot[s] EXCEPT !.pitch = sndNext.pitch]
  OBVIOUS
<1>5. SndTurn(sndq) /\ slot' = [slot EXCEPT ![s] = sl]
  BY <1>4 DEF PitchSound
<1>6. DOMAIN slot[s] = {"sound", "state", "pitch"}
  BY <1>2 DEF SlotEnds
<1>7. DOMAIN sl = {"sound", "state", "pitch"} /\ sl.state = slot[s].state /\ sl.sound = slot[s].sound
  BY <1>4, <1>6
<1>8. SlotEnds(NoEvent, sndq, sl, s)
  BY <1>3, <1>7 DEF SlotEnds
<1>9. \A u \in Slots : u # s => SlotEnds(NoEvent, sndq, slot[u], u)
  BY <1>1, OthersIdle
<1> QED BY <1>2, <1>5, <1>8, <1>9, TurnInv

LEMMA ApiStep ==
  ASSUME SndInv, Len(sndq) < MaxEvents, SndApiEvent PROVE SndInv'
<1> DEFINE r == PostEvent(sndq, SndApi, SndFrame)
<1>1. IsQueue(sndq, SndEvents) /\ SndApi \in SndEvents /\ NoEvent \notin SndEvents
  BY DEF SndInv, SndEvents, SndApi, NoEvent
<1>2. IsQueue(r, SndEvents)
  BY <1>1, PostInserts
<1>3. ASSUME NEW u \in Slots PROVE SlotEnds(NoEvent, r, slot[u], u)
  <2>1. SlotEnds(sndNext, sndq, slot[u], u) /\ Idle(sndNext, u)
    BY EventsDiffer DEF SndInv, SndApiEvent
  <2>2. SlotEnds(NoEvent, sndq, slot[u], u)
    BY <2>1, IdleGoes
  <2>3. SndApi # Evt("decay", u) /\ SndApi # Evt("end", u)
    BY EventsDiffer DEF Idle
  <2> QED BY <1>1, <2>2, <2>3, PostEnds
<1> HIDE DEF r
<1>4. sndNext' = NextEvent(r).evt /\ sndq' = AfterNext(r) /\ slot' = slot
  BY DEF SndApiEvent, SndTurn, r
<1>5. IsQueue(sndq', SndEvents) /\ sndNext' \in SndEvents \cup {NoEvent}
  BY <1>1, <1>2, <1>4, TurnCounts
<1>6. \A u \in Slots : SlotEnds(sndNext', sndq', slot'[u], u)
  BY <1>2, <1>3, <1>4, SoundTurn
<1> QED BY <1>4, <1>5, <1>6 DEF SndInv

LEMMA ProgramStep ==
  ASSUME SndInv, Len(sndq) < MaxEvents, NEW s \in Slots, Program(s) PROVE SndInv'
<1>1. \E e \in SndEvents : \E d : PostSnd(e, d) /\ e.type \in {"play", "stop", "pitch"}
  <2>1. \A t \in {"play", "stop"} : Evt(t, s) \in SndEvents /\ Evt(t, s).type = t
    BY DEF Evt, SndEvents
  <2>2. \A p \in Pitches : LET e == [type |-> "pitch", slot |-> s, pitch |-> p]
                           IN e \in SndEvents /\ e.type = "pitch"
    BY DEF SndEvents
  <2> QED BY <2>1, <2>2 DEF Program
<1>2. PICK e \in SndEvents : \E d : PostSnd(e, d) /\ e.type \in {"play", "stop", "pitch"}
  BY <1>1
<1>3. PICK d : PostSnd(e, d) /\ e.type \in {"play", "stop", "pitch"}
  BY <1>2
<1>4. IsQueue(sndq, SndEvents) /\ IsQueue(PostEvent(sndq, e, d), SndEvents)
  BY PostInserts DEF SndInv
<1>5. sndq' = PostEvent(sndq, e, d) /\ sndNext' = sndNext /\ slot' = slot
  BY <1>3 DEF PostSnd
<1>6. ASSUME NEW u \in Slots PROVE SlotEnds(sndNext', sndq', slot'[u], u)
  <2>1. SlotEnds(sndNext, sndq, slot[u], u)
    BY DEF SndInv
  <2>2. \A t : Evt(t, u).type = t
    BY DEF Evt
  <2>3. e # Evt("decay", u) /\ e # Evt("end", u)
    BY <1>3, <2>2
  <2> QED BY <1>4, <1>5, <2>1, <2>3, PostEnds
<1> QED BY <1>4, <1>5, <1>6 DEF SndInv

LEMMA ASlotOfItsOwn ==
  ASSUME SndInv, NEW s \in Slots, NEW sl, DOMAIN sl = {"sound", "state", "pitch"}, sl.state = "stopped",
         slot[s].state = "stopped", slot' = [slot EXCEPT ![s] = sl], UNCHANGED << sndq, sndNext >>
  PROVE  SndInv'
<1>1. DOMAIN slot = Slots /\ \A u \in Slots : SlotEnds(sndNext, sndq, slot[u], u)
  BY DEF SndInv
<1>2. DOMAIN slot' = Slots /\ slot'[s] = sl /\ \A u \in Slots : u # s => slot'[u] = slot[u]
  BY <1>1
<1>3. SlotEnds(sndNext, sndq, sl, s)
  BY <1>1 DEF SlotEnds
<1>4. \A u \in Slots : SlotEnds(sndNext', sndq', slot'[u], u)
  BY <1>1, <1>2, <1>3
<1> QED BY <1>2, <1>4 DEF SndInv

LEMMA AllocateStep ==
  ASSUME SndInv, NEW s \in Slots, NEW sound \in Sounds, Allocate(sound, s) PROVE SndInv'
<1>1. PICK sl : sl = [sound |-> sound, state |-> "stopped", pitch |-> 1]
  OBVIOUS
<1>2. slot' = [slot EXCEPT ![s] = sl] /\ UNCHANGED << sndq, sndNext >> /\ slot[s].sound = NoSound
  BY <1>1 DEF Allocate
<1>3. slot[s].state = "stopped"
  <2>1. SlotEnds(sndNext, sndq, slot[s], s)
    BY DEF SndInv
  <2> QED BY <1>2, <2>1 DEF SlotEnds
<1>4. DOMAIN sl = {"sound", "state", "pitch"} /\ sl.state = "stopped"
  BY <1>1
<1> QED BY <1>2, <1>3, <1>4, ASlotOfItsOwn

LEMMA DeallocateStep ==
  ASSUME SndInv, NEW s \in Slots, Deallocate(s) PROVE SndInv'
<1>1. PICK sl : sl = [slot[s] EXCEPT !.sound = NoSound]
  OBVIOUS
<1>2. slot' = [slot EXCEPT ![s] = sl] /\ UNCHANGED << sndq, sndNext >> /\ slot[s].state = "stopped"
  BY <1>1 DEF Deallocate
<1>3. DOMAIN slot[s] = {"sound", "state", "pitch"}
  BY DEF SndInv, SlotEnds
<1>4. DOMAIN sl = {"sound", "state", "pitch"} /\ sl.state = "stopped"
  BY <1>1, <1>2, <1>3
<1> QED BY <1>2, <1>4, ASlotOfItsOwn

LEMMA SndStep == SndInv /\ Len(sndq) < MaxEvents /\ [SndNext]_sndVars => SndInv'
<1> SUFFICES ASSUME SndInv, Len(sndq) < MaxEvents, [SndNext]_sndVars PROVE SndInv'
  OBVIOUS
<1>1. CASE UNCHANGED sndVars
  BY <1>1 DEF sndVars, SndInv
<1>2. CASE SndApiEvent
  BY <1>2, ApiStep
<1>3. ASSUME NEW s \in Slots, SndHandler(s) PROVE SndInv'
  BY <1>3, PlayStep, StopStep, DecayStep, EndStep, PitchStep DEF SndHandler
<1>4. ASSUME NEW s \in Slots, Deallocate(s) \/ Program(s) PROVE SndInv'
  BY <1>4, DeallocateStep, ProgramStep
<1>5. ASSUME NEW s \in Slots, NEW sound \in Sounds, Allocate(sound, s) PROVE SndInv'
  BY <1>5, AllocateStep
<1> QED BY <1>1, <1>2, <1>3, <1>4, <1>5 DEF SndNext

LEMMA SndStart == SndInit => SndInv
<1> SUFFICES ASSUME SndInit PROVE SndInv
  OBVIOUS
<1>1. sndq = << >> /\ sndNext = SndApi
  BY DEF SndInit
<1>2. IsQueue(sndq, SndEvents)
  <2>1. PICK S : S = {}
    OBVIOUS
  <2>2. sndq \in Seq(S)
    BY <1>1
  <2>3. \A r \in S : IsItem(r, SndEvents)
    BY <2>1
  <2> QED BY <2>2, <2>3 DEF IsQueue
<1>3. SndApi \in SndEvents
  BY DEF SndEvents
<1>4. DOMAIN slot = Slots
  BY DEF SndInit
<1>5. ASSUME NEW s \in Slots PROVE SlotEnds(sndNext, sndq, slot[s], s)
  <2>1. DOMAIN slot[s] = {"sound", "state", "pitch"} /\ slot[s].state = "stopped"
    BY DEF SndInit
  <2>2. \A t \in {"decay", "end"} : Never(sndNext, sndq, Evt(t, s))
    <3>1. \A t \in {"decay", "end"} : SndApi # Evt(t, s)
      BY EventsDiffer DEF Idle
    <3>2. Len(sndq) = 0
      BY <1>1
    <3> QED BY <1>1, <3>1, <3>2 DEF Never, Absent
  <2> QED BY <2>1, <2>2 DEF SlotEnds
<1> QED BY <1>1, <1>2, <1>3, <1>4, <1>5 DEF SndInv

LEMMA WaitingCounts ==
  ASSUME NEW t, NEW s, Len(sndq) \in Nat
  PROVE  /\ Never(sndNext, sndq, Evt(t, s)) => Waiting(t, s) = 0
         /\ Once(sndNext, sndq, Evt(t, s)) => Waiting(t, s) = 1
         /\ Coming(sndNext, sndq, Evt(t, s)) => Waiting(t, s) > 0
<1> DEFINE e == Evt(t, s)
           at == {i \in 1..Len(sndq) : sndq[i].evt = e}
<1>1. at \in SUBSET (1..Len(sndq)) /\ Len(sndq) \in Nat
  OBVIOUS
<1> HIDE DEF at
<1>2. IsFiniteSet(at) /\ Cardinality(at) \in Nat
  BY <1>1, NumbersAreFinite
<1>3. Absent(sndq, e) => at = {}
  BY DEF Absent, at
<1>4. Absent(sndq, e) => Cardinality(at) = 0
  BY <1>3, FS_EmptySet
<1>5. ~Absent(sndq, e) => at # {}
  BY DEF Absent, at
<1>6. ~Absent(sndq, e) => Cardinality(at) # 0
  BY <1>2, <1>5, FS_EmptySet
<1>7. ASSUME Single(sndq, e) PROVE Cardinality(at) = 1
  <2>1. PICK i \in 1..Len(sndq) : sndq[i].evt = e /\ \A j \in 1..Len(sndq) : sndq[j].evt = e => j = i
    BY <1>7 DEF Single
  <2>2. at = {i}
    BY <2>1 DEF at
  <2> QED BY <2>2, FS_Singleton
<1>8. Waiting(t, s) = (IF sndNext = e THEN 1 ELSE 0) + Cardinality(at)
  BY DEF Waiting, Handles, at
<1> QED BY <1>2, <1>4, <1>6, <1>7, <1>8 DEF Never, Once, Coming

LEMMA EndsAreSounds == SndInv => SoundsEnd
<1> SUFFICES ASSUME SndInv, NEW s \in Slots
             PROVE  LET n(type) == Waiting(type, s)
                    IN CASE slot[s].state = "playing" ->
                              /\ slot[s].sound # NoSound /\ n("end") = 0
                              /\ n("decay") = 1
                                 \/ (n("decay") = 0 /\ (SndDecay[slot[s].sound] = Looped \/ n("stop") > 0))
                         [] slot[s].state = "stopping" -> slot[s].sound # NoSound /\ n("end") = 1
                         [] OTHER -> n("decay") = 0 /\ n("end") = 0
  BY DEF SoundsEnd
<1>1. Len(sndq) \in Nat
  BY QueueFacts DEF SndInv
<1>2. \A t : /\ Never(sndNext, sndq, Evt(t, s)) => Waiting(t, s) = 0
             /\ Once(sndNext, sndq, Evt(t, s)) => Waiting(t, s) = 1
             /\ Coming(sndNext, sndq, Evt(t, s)) => Waiting(t, s) > 0
  BY <1>1, WaitingCounts
<1>3. SlotEnds(sndNext, sndq, slot[s], s)
  BY DEF SndInv
<1>4. CASE slot[s].state = "playing"
  <2>1. /\ slot[s].sound # NoSound /\ Waiting("end", s) = 0
        /\ \/ Waiting("decay", s) = 1
           \/ Waiting("decay", s) = 0 /\ (SndDecay[slot[s].sound] = Looped \/ Waiting("stop", s) > 0)
    BY <1>2, <1>3, <1>4 DEF SlotEnds
  <2> QED BY <1>4, <2>1
<1>5. CASE slot[s].state = "stopping"
  <2>1. slot[s].sound # NoSound /\ Waiting("end", s) = 1
    BY <1>2, <1>3, <1>5 DEF SlotEnds
  <2> QED BY <1>5, <2>1
<1>6. CASE slot[s].state = "stopped"
  <2>1. Waiting("decay", s) = 0 /\ Waiting("end", s) = 0
    BY <1>2, <1>3, <1>6 DEF SlotEnds
  <2> QED BY <1>6, <2>1
<1> QED BY <1>3, <1>4, <1>5, <1>6 DEF SlotEnds

(* A sound ends, once, and leaves nothing behind, for any number of slots, sounds,
   durations and calls of the program (_handleEvent and the calls in sndp*.c), while the
   queue has an item for what is posted: alEvtqPostEvent drops an event without one, and
   then the end of a sound can be what is lost. *)
THEOREM EverySoundEnds ==
  SndSpec /\ [](Len(sndq) < MaxEvents) => []SoundsEnd
<1> QED BY SndStart, SndStep, EndsAreSounds, PTL DEF SndSpec

------------------------------------------------------------------------------
(* The voices of the sequence players *)

ChannelsSpec == ChannelsInit /\ [][ChannelsNext]_chanVars

------------------------------------------------------------------------------
(* What the variables hold *)

\* A record with the fields of a channel, of a voice, of what the synthesizer was told
IsChan(ch) == DOMAIN ch = {"fx", "pan", "vol", "range", "bend"}
IsNote(n) ==
  /\ DOMAIN n = {"chan", "env", "velocity", "gain", "tremolo", "vibrato", "segment", "over"}
  /\ n.chan \in Channels /\ n.env \in {"attack", "decay", "release"} /\ n.over \in BOOLEAN
IsTold(t) == DOMAIN t = {"env", "vol", "at", "pan", "pitch", "fx"}

AskedTypes ==
  [type : {"vol"}, x : Levels] \cup [type : {"play", "stopping", "seq", "bank"}]
    \cup [type : {"midi"}, kind : {"vol", "pan", "fx"}, chan : Channels, x : Levels]
    \cup [type : {"midi"}, kind : {"program"}, chan : Channels, x : Insts]

\* A voice n that was told t sounds as the settings say; one that was let go is silent.
HeardAs(n, t, ch, player, new) ==
  /\ IsNote(n) /\ IsTold(t)
  /\ n.env = "release" => n.gain = "none" /\ t.vol = Silent0
  /\ n.env # "release" =>
       /\ t.pitch = Pitch0(n, ch) /\ t.fx = ch.fx
       /\ << n.chan, "pan" >> \in new \/ t.pan = ch.pan
       /\ << n.chan, "vol" >> \in new \/ t.vol = Vol(n, ch, player)
       /\ n.over \/ t.at = n.segment
Fits(n, t, chs, player, new) == n = Free0 \/ HeardAs(n, t, chs[n.chan], player, new)

\* A sequence or a bank that was asked for is next, and the player has stopped.
NothingBehind(q, run) ==
  \A i \in 1..Len(q) : q[i].type \in {"seq", "bank"} => i = 1 /\ run = "stopped"

ChannelsTypes ==
  /\ voices = [v \in SVoices |-> voices[v]] /\ told = [v \in SVoices |-> told[v]]
  /\ chans = [c \in Channels |-> chans[c]] /\ \A c \in Channels : IsChan(chans[c])
  /\ requests \in Seq(AskedTypes)

ChannelsInv ==
  /\ ChannelsTypes
  /\ \A v \in SVoices : Fits(voices[v], told[v], chans, playerVol, newInst)
  /\ running = "stopped" => Mapped = {}
  /\ NothingBehind(requests, running)
  /\ ~asserted

------------------------------------------------------------------------------
LEMMA FitsAsSet == ChannelsInv => VoicesAsSet
<1> SUFFICES ASSUME ChannelsInv PROVE VoicesAsSet
  OBVIOUS
<1>1. \A v \in Mapped : v \in SVoices /\ voices[v] # Free0
  BY DEF Mapped, Free0
<1>2. \A v \in Mapped : HeardAs(voices[v], told[v], chans[voices[v].chan], playerVol, newInst)
  BY <1>1 DEF ChannelsInv, Fits
<1>3. \A v \in Mapped : voices[v].env = "release" => told[v].vol = Silent0
  BY <1>2 DEF HeardAs
<1>4. ASSUME NEW v \in Mapped, voices[v].env # "release"
      PROVE  LET n == voices[v]  ch == chans[n.chan]
             IN /\ told[v].pitch = Pitch0(n, ch) /\ told[v].fx = ch.fx
                /\ << n.chan, "pan" >> \in newInst \/ told[v].pan = ch.pan
                /\ << n.chan, "vol" >> \in newInst \/ told[v].vol = Vol(n, ch, playerVol)
                /\ n.over \/ told[v].at = n.segment
  BY <1>2, <1>4 DEF HeardAs
<1>5. ~asserted
  BY DEF ChannelsInv
<1> QED BY <1>3, <1>4, <1>5 DEF VoicesAsSet, Held0

------------------------------------------------------------------------------
(* What each thing done to a voice keeps *)

\* Tell a voice its volume again.
LEMMA HeardTold ==
  ASSUME NEW n, NEW m, NEW t, NEW ch, NEW player, NEW p2, NEW new,
         HeardAs(n, t, ch, player, new), IsNote(m), m.chan = n.chan, m.vibrato = n.vibrato,
         m.env = "release" <=> n.env = "release", m.env = "release" => m.gain = "none"
  PROVE  HeardAs(m, [t EXCEPT !.vol = Vol(m, ch, p2), !.at = When(m)], ch, p2, new)
<1> DEFINE u == [t EXCEPT !.vol = Vol(m, ch, p2), !.at = When(m)]
<1>1. /\ u.vol = Vol(m, ch, p2) /\ u.at = When(m) /\ u.pan = t.pan /\ u.pitch = t.pitch /\ u.fx = t.fx
      /\ IsTold(u)
  BY DEF HeardAs, IsTold
<1> SUFFICES HeardAs(m, u, ch, p2, new)
  OBVIOUS
<1> HIDE DEF u
<1>2. m.env = "release" => u.vol = Silent0
  BY <1>1 DEF Vol
<1>3. Pitch0(m, ch) = Pitch0(n, ch)
  BY DEF Pitch0
<1>4. m.over \/ u.at = m.segment
  BY <1>1 DEF When
<1> QED BY <1>1, <1>2, <1>3, <1>4 DEF HeardAs

LEMMA ReleaseSilences ==
  ASSUME NEW n, NEW t, NEW ch, NEW player, NEW new, HeardAs(n, t, ch, player, new)
  PROVE  HeardAs(Released(n), [t EXCEPT !.vol = Silent0, !.at = "release"], ch, player, new)
<1> DEFINE m == Released(n)
           u == [t EXCEPT !.vol = Silent0, !.at = "release"]
<1>1. /\ m.env = "release" /\ m.gain = "none" /\ m.chan = n.chan /\ m.over = FALSE
      /\ DOMAIN m = DOMAIN n
  BY DEF HeardAs, IsNote, Released
<1>2. IsNote(m)
  <2> HIDE DEF m
  <2> QED BY <1>1 DEF HeardAs, IsNote
<1>3. u.vol = Silent0 /\ IsTold(u)
  BY DEF HeardAs, IsTold
<1> SUFFICES HeardAs(m, u, ch, player, new)
  OBVIOUS
<1> HIDE DEF m, u
<1> QED BY <1>1, <1>2, <1>3 DEF HeardAs

\* The steps that leave what was asked for alone
Kept ==
  /\ voices' = [v \in SVoices |-> voices'[v]] /\ told' = [v \in SVoices |-> told'[v]]
  /\ chans' = [c \in Channels |-> chans'[c]] /\ \A c \in Channels : IsChan(chans'[c])
  /\ \A v \in SVoices : Fits(voices'[v], told'[v], chans', playerVol', newInst')
  /\ running # "playing" => \A v \in SVoices : voices[v] = Free0 => voices'[v] = Free0

LEMMA MappedSounds ==
  ASSUME ChannelsInv, NEW v \in Mapped
  PROVE  v \in SVoices /\ HeardAs(voices[v], told[v], chans[voices[v].chan], playerVol, newInst)
<1>1. v \in SVoices /\ voices[v] # Free0
  BY DEF Mapped, Free0
<1> QED BY <1>1 DEF ChannelsInv, Fits

LEMMA FreeOrMapped ==
  ASSUME ChannelsInv, NEW v \in SVoices, v \notin Mapped
  PROVE  voices[v] = Free0
<1>1. voices[v].env = "free"
  BY DEF Mapped
<1>2. Fits(voices[v], told[v], chans, playerVol, newInst)
  BY DEF ChannelsInv
<1> QED BY <1>1, <1>2 DEF Fits, HeardAs, IsNote

\* Voices are told their volumes as they are now.
LEMMA TellKeeps ==
  ASSUME ChannelsInv, NEW S, S \subseteq Mapped,
         UNCHANGED << chans, newInst >>,
         playerVol' = playerVol \/ S = Mapped,
         voices' = [v \in SVoices |-> voices'[v]],
         \A v \in SVoices \ S : voices'[v] = voices[v],
         \A v \in S : /\ IsNote(voices'[v]) /\ voices'[v].chan = voices[v].chan
                      /\ voices'[v].vibrato = voices[v].vibrato
                      /\ voices'[v].env = "release" <=> voices[v].env = "release"
                      /\ voices'[v].env = "release" => voices'[v].gain = "none",
         told' = TellVol(told, voices', chans, playerVol', S)
  PROVE  Kept
<1>1. \A v \in SVoices :
        told'[v] = IF v \in S THEN [told[v] EXCEPT !.vol = Vol(voices'[v], chans[voices'[v].chan], playerVol'),
                                                   !.at = When(voices'[v])] ELSE told[v]
  BY DEF TellVol
<1>2. told' = [v \in SVoices |-> told'[v]]
  BY DEF TellVol
<1>3. ASSUME NEW v \in S PROVE Fits(voices'[v], told'[v], chans', playerVol', newInst')
  <2>1. v \in SVoices /\ HeardAs(voices[v], told[v], chans[voices[v].chan], playerVol, newInst)
    BY MappedSounds
  <2>2. voices'[v].chan = voices[v].chan
    OBVIOUS
  <2>3. told'[v] = [told[v] EXCEPT !.vol = Vol(voices'[v], chans[voices[v].chan], playerVol'),
                                   !.at = When(voices'[v])]
    BY <1>1, <2>1, <2>2
  <2>4. /\ IsNote(voices'[v]) /\ voices'[v].vibrato = voices[v].vibrato
        /\ voices'[v].env = "release" <=> voices[v].env = "release"
        /\ voices'[v].env = "release" => voices'[v].gain = "none"
    OBVIOUS
  <2>5. HeardAs(voices'[v], [told[v] EXCEPT !.vol = Vol(voices'[v], chans[voices[v].chan], playerVol'),
                                          !.at = When(voices'[v])],
              chans[voices[v].chan], playerVol', newInst)
    BY <2>1, <2>2, <2>4, HeardTold
  <2> QED BY <2>2, <2>3, <2>5 DEF Fits
<1>4. ASSUME NEW v \in SVoices \ S PROVE Fits(voices'[v], told'[v], chans', playerVol', newInst')
  <2>1. voices'[v] = voices[v] /\ told'[v] = told[v]
    BY <1>1
  <2>2. CASE playerVol' = playerVol
    BY <2>1, <2>2 DEF ChannelsInv
  <2>3. CASE S = Mapped
    <3>1. v \in SVoices /\ v \notin Mapped
      BY <2>3
    <3>2. voices[v] = Free0
      BY <3>1, FreeOrMapped
    <3> QED BY <2>1, <3>2 DEF Fits
  <2> QED BY <2>2, <2>3
<1>5. \A v \in SVoices : voices[v] = Free0 => voices'[v] = Free0
  <2>1. \A v \in S : voices[v] # Free0
    BY DEF Mapped, Free0
  <2> QED BY <2>1
<1> QED BY <1>2, <1>3, <1>4, <1>5 DEF Kept, ChannelsInv, ChannelsTypes

\* Voices are let go.
LEMMA ReleaseKeeps ==
  ASSUME ChannelsInv, NEW S, S \subseteq Mapped, ReleaseAll(S), UNCHANGED << chans, playerVol, newInst >>
  PROVE  Kept
<1>1. /\ voices' = [v \in SVoices |-> voices'[v]] /\ told' = [v \in SVoices |-> told'[v]]
      /\ \A v \in SVoices :
           /\ voices'[v] = IF v \in S THEN Released(voices[v]) ELSE voices[v]
           /\ told'[v] = IF v \in S THEN [told[v] EXCEPT !.vol = Silent0, !.at = "release"] ELSE told[v]
  BY DEF ReleaseAll
<1>2. ASSUME NEW v \in S PROVE Fits(voices'[v], told'[v], chans', playerVol', newInst')
  <2>1. v \in SVoices /\ HeardAs(voices[v], told[v], chans[voices[v].chan], playerVol, newInst)
    BY MappedSounds
  <2>2. voices'[v] = Released(voices[v]) /\ told'[v] = [told[v] EXCEPT !.vol = Silent0, !.at = "release"]
    BY <1>1, <2>1
  <2>3. HeardAs(Released(voices[v]), [told[v] EXCEPT !.vol = Silent0, !.at = "release"],
              chans[voices[v].chan], playerVol, newInst)
    BY <2>1, ReleaseSilences
  <2>4. voices'[v].chan = voices[v].chan
    BY <2>2, <2>1 DEF Released, HeardAs, IsNote
  <2> QED BY <2>2, <2>3, <2>4 DEF Fits
<1>3. ASSUME NEW v \in SVoices \ S PROVE Fits(voices'[v], told'[v], chans', playerVol', newInst')
  BY <1>1 DEF ChannelsInv
<1>4. \A v \in SVoices : voices[v] = Free0 => voices'[v] = Free0
  <2>1. \A v \in S : voices[v] # Free0
    BY DEF Mapped, Free0
  <2> QED BY <1>1, <2>1
<1> QED BY <1>1, <1>2, <1>3, <1>4 DEF Kept, ChannelsInv, ChannelsTypes

------------------------------------------------------------------------------
(* The events *)

\* A step that changes one thing a voice is told
LEMMA HeardPan ==
  ASSUME NEW n, NEW t, NEW ch, NEW x, NEW player, NEW new,
         HeardAs(n, t, ch, player, new), IsChan(ch)
  PROVE  HeardAs(n, [t EXCEPT !.pan = x], [ch EXCEPT !.pan = x], player, new \ {<< n.chan, "pan" >>})
<1> DEFINE u == [t EXCEPT !.pan = x]
           d == [ch EXCEPT !.pan = x]
<1>1. u.vol = t.vol /\ u.at = t.at /\ u.pan = x /\ u.pitch = t.pitch /\ u.fx = t.fx /\ IsTold(u)
  BY DEF HeardAs, IsTold
<1>2. d.pan = x /\ d.vol = ch.vol /\ d.bend = ch.bend /\ d.fx = ch.fx
  BY DEF IsChan
<1>3. Pitch0(n, d) = Pitch0(n, ch) /\ Vol(n, d, player) = Vol(n, ch, player)
  BY <1>2 DEF Pitch0, Vol
<1>4. << n.chan, "vol" >> \in new => << n.chan, "vol" >> \in new \ {<< n.chan, "pan" >>}
  OBVIOUS
<1> SUFFICES HeardAs(n, u, d, player, new \ {<< n.chan, "pan" >>})
  OBVIOUS
<1> HIDE DEF u, d
<1> QED BY <1>1, <1>2, <1>3, <1>4 DEF HeardAs

LEMMA HeardVol ==
  ASSUME NEW n, NEW t, NEW ch, NEW x, NEW player, NEW new,
         HeardAs(n, t, ch, player, new), IsChan(ch)
  PROVE  LET d == [ch EXCEPT !.vol = x]
         IN HeardAs(n, IF n.env # "release" THEN [t EXCEPT !.vol = Vol(n, d, player), !.at = When(n)] ELSE t,
                  d, player, new \ {<< n.chan, "vol" >>})
<1> DEFINE d == [ch EXCEPT !.vol = x]
           w == [t EXCEPT !.vol = Vol(n, d, player), !.at = When(n)]
           u == IF n.env # "release" THEN w ELSE t
<1>1. d.pan = ch.pan /\ d.bend = ch.bend /\ d.fx = ch.fx
  BY DEF IsChan
<1> HIDE DEF d
<1>2. /\ w.vol = Vol(n, d, player) /\ w.at = When(n) /\ w.pan = t.pan /\ w.pitch = t.pitch /\ w.fx = t.fx
      /\ IsTold(w)
  BY DEF HeardAs, IsTold
<1>3. Pitch0(n, d) = Pitch0(n, ch)
  BY <1>1 DEF Pitch0
<1>4. << n.chan, "pan" >> \in new => << n.chan, "pan" >> \in new \ {<< n.chan, "vol" >>}
  OBVIOUS
<1>5. n.over \/ When(n) = n.segment
  BY DEF When
<1> HIDE DEF w
<1>6. HeardAs(n, u, d, player, new \ {<< n.chan, "vol" >>})
  BY <1>1, <1>2, <1>3, <1>4, <1>5 DEF HeardAs
<1> QED BY <1>6 DEF u, w, d

LEMMA HeardFX ==
  ASSUME NEW n, NEW t, NEW ch, NEW x, NEW player, NEW new,
         HeardAs(n, t, ch, player, new), IsChan(ch)
  PROVE  HeardAs(n, [t EXCEPT !.fx = x], [ch EXCEPT !.fx = x], player, new)
<1> DEFINE u == [t EXCEPT !.fx = x]
           d == [ch EXCEPT !.fx = x]
<1>1. u.vol = t.vol /\ u.at = t.at /\ u.pan = t.pan /\ u.pitch = t.pitch /\ u.fx = x /\ IsTold(u)
  BY DEF HeardAs, IsTold
<1>2. d.pan = ch.pan /\ d.vol = ch.vol /\ d.bend = ch.bend /\ d.fx = x
  BY DEF IsChan
<1>3. Pitch0(n, d) = Pitch0(n, ch) /\ Vol(n, d, player) = Vol(n, ch, player)
  BY <1>2 DEF Pitch0, Vol
<1> SUFFICES HeardAs(n, u, d, player, new)
  OBVIOUS
<1> HIDE DEF u, d
<1> QED BY <1>1, <1>2, <1>3 DEF HeardAs

LEMMA HeardBend ==
  ASSUME NEW n, NEW t, NEW ch, NEW x, NEW player, NEW new,
         HeardAs(n, t, ch, player, new), IsChan(ch)
  PROVE  LET d == [ch EXCEPT !.bend = x]
         IN HeardAs(n, [t EXCEPT !.pitch = Pitch0(n, d)], d, player, new)
<1> DEFINE d == [ch EXCEPT !.bend = x]
           u == [t EXCEPT !.pitch = Pitch0(n, d)]
<1>1. d.pan = ch.pan /\ d.vol = ch.vol /\ d.fx = ch.fx
  BY DEF IsChan
<1>2. Vol(n, d, player) = Vol(n, ch, player)
  BY <1>1 DEF Vol
<1> HIDE DEF d
<1>3. u.vol = t.vol /\ u.at = t.at /\ u.pan = t.pan /\ u.pitch = Pitch0(n, d) /\ u.fx = t.fx /\ IsTold(u)
  BY DEF HeardAs, IsTold
<1> HIDE DEF u
<1>4. HeardAs(n, u, d, player, new)
  BY <1>1, <1>2, <1>3 DEF HeardAs
<1> QED BY <1>4 DEF u, d

\* A new program or bank
LEMMA HeardProgram ==
  ASSUME NEW n, NEW t, NEW ch, NEW i, NEW player, NEW new, NEW more,
         HeardAs(n, t, ch, player, new), IsChan(ch), {n.chan} \X {"pan", "vol"} \subseteq more
  PROVE  HeardAs(n, t, SetInst(ch, i), player, new \cup more) /\ IsChan(SetInst(ch, i))
<1> DEFINE d == SetInst(ch, i)
<1>1. d.bend = ch.bend /\ d.fx = ch.fx /\ IsChan(d)
  BY DEF SetInst, IsChan
<1>2. << n.chan, "pan" >> \in more /\ << n.chan, "vol" >> \in more
  OBVIOUS
<1>3. Pitch0(n, d) = Pitch0(n, ch)
  BY <1>1 DEF Pitch0
<1> HIDE DEF d
<1>4. HeardAs(n, t, d, player, new \cup more)
  BY <1>1, <1>2, <1>3 DEF HeardAs
<1> QED BY <1>1, <1>4 DEF d

\* What every step on a channel relies on
LEMMA HasChan ==
  ASSUME ChannelsInv, NEW v \in SVoices, voices[v] # Free0
  PROVE  /\ HeardAs(voices[v], told[v], chans[voices[v].chan], playerVol, newInst)
         /\ voices[v].chan \in Channels /\ v \in Mapped
<1>1. HeardAs(voices[v], told[v], chans[voices[v].chan], playerVol, newInst)
  BY DEF ChannelsInv, Fits
<1> QED BY <1>1 DEF HeardAs, IsNote, Mapped

LEMMA PanKeeps ==
  ASSUME ChannelsInv, NEW c \in Channels, NEW x, ChannelPan(c, x)
  PROVE  Kept
<1>1. /\ chans' = [d \in Channels |-> chans'[d]] /\ chans'[c] = [chans[c] EXCEPT !.pan = x]
      /\ \A d \in Channels : IsChan(chans[d]) /\ (d # c => chans'[d] = chans[d])
  BY DEF ChannelPan, ChannelsInv, ChannelsTypes
<1>2. \A d \in Channels : IsChan(chans'[d])
  BY <1>1 DEF IsChan
<1>3. /\ voices' = voices /\ playerVol' = playerVol /\ newInst' = newInst \ {<< c, "pan" >>}
      /\ told' = [v \in SVoices |-> told'[v]]
      /\ \A v \in SVoices : told'[v] = IF v \in On(c) THEN [told[v] EXCEPT !.pan = x] ELSE told[v]
  BY DEF ChannelPan
<1>4. ASSUME NEW v \in SVoices, voices[v] # Free0
      PROVE  HeardAs(voices[v], told'[v], chans'[voices[v].chan], playerVol, newInst')
  <2>1. /\ HeardAs(voices[v], told[v], chans[voices[v].chan], playerVol, newInst)
        /\ voices[v].chan \in Channels /\ v \in Mapped
    BY <1>4, HasChan
  <2>2. CASE voices[v].chan = c
    <3>1. told'[v] = [told[v] EXCEPT !.pan = x]
      BY <1>3, <2>1, <2>2 DEF On
    <3>2. HeardAs(voices[v], told[v], chans[c], playerVol, newInst) /\ IsChan(chans[c])
      BY <1>1, <2>1, <2>2
    <3>3. HeardAs(voices[v], [told[v] EXCEPT !.pan = x], [chans[c] EXCEPT !.pan = x], playerVol,
                newInst \ {<< voices[v].chan, "pan" >>})
      BY <3>2, HeardPan
    <3> QED BY <1>1, <1>3, <2>2, <3>1, <3>3
  <2>3. CASE voices[v].chan # c
    <3>1. told'[v] = told[v] /\ chans'[voices[v].chan] = chans[voices[v].chan]
      BY <1>1, <1>3, <2>1, <2>3 DEF On
    <3>2. \A y : << voices[v].chan, y >> \in newInst => << voices[v].chan, y >> \in newInst'
      BY <1>3, <2>3
    <3> QED BY <2>1, <3>1, <3>2 DEF HeardAs
  <2> QED BY <2>2, <2>3
<1> QED BY <1>1, <1>2, <1>3, <1>4 DEF Kept, Fits, ChannelsInv, ChannelsTypes

LEMMA VolKeeps ==
  ASSUME ChannelsInv, NEW c \in Channels, NEW x, ChannelVol(c, x)
  PROVE  Kept
<1>1. /\ chans' = [d \in Channels |-> chans'[d]] /\ chans'[c] = [chans[c] EXCEPT !.vol = x]
      /\ \A d \in Channels : IsChan(chans[d]) /\ (d # c => chans'[d] = chans[d])
  BY DEF ChannelVol, ChannelsInv, ChannelsTypes
<1>2. \A d \in Channels : IsChan(chans'[d])
  BY <1>1 DEF IsChan
<1>3. /\ voices' = voices /\ playerVol' = playerVol /\ newInst' = newInst \ {<< c, "vol" >>}
      /\ told' = [v \in SVoices |-> told'[v]]
      /\ \A v \in SVoices :
           told'[v] = IF v \in On(c) \cap Held0
                      THEN [told[v] EXCEPT !.vol = Vol(voices[v], chans'[voices[v].chan], playerVol),
                                           !.at = When(voices[v])] ELSE told[v]
  <2>1. /\ voices' = voices /\ playerVol' = playerVol /\ newInst' = newInst \ {<< c, "vol" >>}
        /\ told' = TellVol(told, voices, chans', playerVol, On(c) \cap Held0)
    BY DEF ChannelVol
  <2> QED BY <2>1 DEF TellVol
<1>4. ASSUME NEW v \in SVoices, voices[v] # Free0
      PROVE  HeardAs(voices[v], told'[v], chans'[voices[v].chan], playerVol, newInst')
  <2>1. /\ HeardAs(voices[v], told[v], chans[voices[v].chan], playerVol, newInst)
        /\ voices[v].chan \in Channels /\ v \in Mapped
    BY <1>4, HasChan
  <2>2. CASE voices[v].chan = c
    <3>1. v \in On(c) \cap Held0 <=> voices[v].env # "release"
      BY <2>1, <2>2 DEF On, Held0
    <3>2. told'[v] = IF voices[v].env # "release"
                     THEN [told[v] EXCEPT !.vol = Vol(voices[v], [chans[c] EXCEPT !.vol = x], playerVol),
                                          !.at = When(voices[v])] ELSE told[v]
      BY <1>1, <1>3, <2>2, <3>1
    <3>3. HeardAs(voices[v], told[v], chans[c], playerVol, newInst) /\ IsChan(chans[c])
      BY <1>1, <2>1, <2>2
    <3>4. HeardAs(voices[v], IF voices[v].env # "release"
                           THEN [told[v] EXCEPT !.vol = Vol(voices[v], [chans[c] EXCEPT !.vol = x], playerVol),
                                                !.at = When(voices[v])] ELSE told[v],
                [chans[c] EXCEPT !.vol = x], playerVol, newInst \ {<< voices[v].chan, "vol" >>})
      BY <3>3, HeardVol
    <3> QED BY <1>1, <1>3, <2>2, <3>2, <3>4
  <2>3. CASE voices[v].chan # c
    <3>1. told'[v] = told[v] /\ chans'[voices[v].chan] = chans[voices[v].chan]
      BY <1>1, <1>3, <2>1, <2>3 DEF On
    <3>2. \A y : << voices[v].chan, y >> \in newInst => << voices[v].chan, y >> \in newInst'
      BY <1>3, <2>3
    <3> QED BY <2>1, <3>1, <3>2 DEF HeardAs
  <2> QED BY <2>2, <2>3
<1> QED BY <1>1, <1>2, <1>3, <1>4 DEF Kept, Fits, ChannelsInv, ChannelsTypes

LEMMA FXKeeps ==
  ASSUME ChannelsInv, NEW c \in Channels, NEW x, ChannelFX(c, x)
  PROVE  Kept
<1>1. /\ chans' = [d \in Channels |-> chans'[d]] /\ chans'[c] = [chans[c] EXCEPT !.fx = x]
      /\ \A d \in Channels : IsChan(chans[d]) /\ (d # c => chans'[d] = chans[d])
  BY DEF ChannelFX, ChannelsInv, ChannelsTypes
<1>2. \A d \in Channels : IsChan(chans'[d])
  BY <1>1 DEF IsChan
<1>3. /\ voices' = voices /\ playerVol' = playerVol /\ newInst' = newInst
      /\ told' = [v \in SVoices |-> told'[v]]
      /\ \A v \in SVoices : told'[v] = IF v \in On(c) THEN [told[v] EXCEPT !.fx = x] ELSE told[v]
  BY DEF ChannelFX
<1>4. ASSUME NEW v \in SVoices, voices[v] # Free0
      PROVE  HeardAs(voices[v], told'[v], chans'[voices[v].chan], playerVol, newInst)
  <2>1. /\ HeardAs(voices[v], told[v], chans[voices[v].chan], playerVol, newInst)
        /\ voices[v].chan \in Channels /\ v \in Mapped
    BY <1>4, HasChan
  <2>2. CASE voices[v].chan = c
    <3>1. told'[v] = [told[v] EXCEPT !.fx = x]
      BY <1>3, <2>1, <2>2 DEF On
    <3>2. HeardAs(voices[v], told[v], chans[c], playerVol, newInst) /\ IsChan(chans[c])
      BY <1>1, <2>1, <2>2
    <3>3. HeardAs(voices[v], [told[v] EXCEPT !.fx = x], [chans[c] EXCEPT !.fx = x], playerVol, newInst)
      BY <3>2, HeardFX
    <3> QED BY <1>1, <2>2, <3>1, <3>3
  <2>3. CASE voices[v].chan # c
    <3>1. told'[v] = told[v] /\ chans'[voices[v].chan] = chans[voices[v].chan]
      BY <1>1, <1>3, <2>1, <2>3 DEF On
    <3> QED BY <2>1, <3>1
  <2> QED BY <2>2, <2>3
<1> QED BY <1>1, <1>2, <1>3, <1>4 DEF Kept, Fits, ChannelsInv, ChannelsTypes

LEMMA BendKeeps ==
  ASSUME ChannelsInv, NEW c \in Channels, NEW x, PitchBend(c, x)
  PROVE  Kept
<1> DEFINE d == [chans[c] EXCEPT !.bend = << chans[c].range, x >>]
<1>1. /\ chans' = [e \in Channels |-> chans'[e]] /\ chans'[c] = d
      /\ \A e \in Channels : IsChan(chans[e]) /\ (e # c => chans'[e] = chans[e])
  BY DEF PitchBend, ChannelsInv, ChannelsTypes
<1>2. \A e \in Channels : IsChan(chans'[e])
  BY <1>1 DEF IsChan
<1>3. /\ voices' = voices /\ playerVol' = playerVol /\ newInst' = newInst
      /\ told' = [v \in SVoices |-> told'[v]]
      /\ \A v \in SVoices :
           told'[v] = IF v \in On(c) THEN [told[v] EXCEPT !.pitch = Pitch0(voices[v], chans'[c])] ELSE told[v]
  BY DEF PitchBend
<1>4. ASSUME NEW v \in SVoices, voices[v] # Free0
      PROVE  HeardAs(voices[v], told'[v], chans'[voices[v].chan], playerVol, newInst)
  <2>1. /\ HeardAs(voices[v], told[v], chans[voices[v].chan], playerVol, newInst)
        /\ voices[v].chan \in Channels /\ v \in Mapped
    BY <1>4, HasChan
  <2>2. CASE voices[v].chan = c
    <3>1. told'[v] = [told[v] EXCEPT !.pitch = Pitch0(voices[v], d)]
      <4> HIDE DEF d
      <4> QED BY <1>1, <1>3, <2>1, <2>2 DEF On
    <3>2. HeardAs(voices[v], told[v], chans[c], playerVol, newInst) /\ IsChan(chans[c])
      BY <1>1, <2>1, <2>2
    <3>3. HeardAs(voices[v], [told[v] EXCEPT !.pitch = Pitch0(voices[v], d)], d, playerVol, newInst)
      BY <3>2, HeardBend
    <3> HIDE DEF d
    <3> QED BY <1>1, <2>2, <3>1, <3>3
  <2>3. CASE voices[v].chan # c
    <3>1. told'[v] = told[v] /\ chans'[voices[v].chan] = chans[voices[v].chan]
      BY <1>1, <1>3, <2>1, <2>3 DEF On
    <3> QED BY <2>1, <3>1
  <2> QED BY <2>2, <2>3
<1> QED BY <1>1, <1>2, <1>3, <1>4 DEF Kept, Fits, ChannelsInv, ChannelsTypes

LEMMA ProgramKeeps ==
  ASSUME ChannelsInv, NEW c \in Channels, NEW i, Program0(c, i)
  PROVE  Kept
<1> DEFINE more == {c} \X {"pan", "vol"}
<1>1. /\ chans' = [d \in Channels |-> chans'[d]] /\ chans'[c] = SetInst(chans[c], i)
      /\ \A d \in Channels : IsChan(chans[d]) /\ (d # c => chans'[d] = chans[d])
  BY DEF Program0, ChannelsInv, ChannelsTypes
<1>2. \A d \in Channels : IsChan(chans'[d])
  BY <1>1 DEF IsChan, SetInst
<1>3. UNCHANGED << voices, playerVol, told >> /\ newInst' = newInst \cup more
  BY DEF Program0
<1>4. ASSUME NEW v \in SVoices, voices[v] # Free0
      PROVE  HeardAs(voices[v], told[v], chans'[voices[v].chan], playerVol, newInst')
  <2>1. /\ HeardAs(voices[v], told[v], chans[voices[v].chan], playerVol, newInst)
        /\ voices[v].chan \in Channels
    BY <1>4, HasChan
  <2>2. CASE voices[v].chan = c
    <3>1. /\ HeardAs(voices[v], told[v], chans[c], playerVol, newInst) /\ IsChan(chans[c])
          /\ {voices[v].chan} \X {"pan", "vol"} \subseteq more
      BY <1>1, <2>1, <2>2
    <3> HIDE DEF more
    <3>2. HeardAs(voices[v], told[v], SetInst(chans[c], i), playerVol, newInst \cup more)
      BY <3>1, HeardProgram
    <3> QED BY <1>1, <1>3, <2>2, <3>2
  <2>3. CASE voices[v].chan # c
    <3> HIDE DEF more
    <3>1. chans'[voices[v].chan] = chans[voices[v].chan] /\ newInst \subseteq newInst'
      BY <1>1, <1>3, <2>1, <2>3
    <3> QED BY <2>1, <3>1 DEF HeardAs
  <2> QED BY <2>2, <2>3
<1> HIDE DEF more
<1> QED BY <1>1, <1>2, <1>3, <1>4 DEF Kept, Fits, ChannelsInv, ChannelsTypes

LEMMA NoteOnKeeps ==
  ASSUME ChannelsInv, NEW v \in SVoices, NEW c \in Channels, NoteOn(v, c)
  PROVE  Kept
<1> DEFINE n == [chan |-> c, env |-> "attack", velocity |-> "struck", gain |-> "attack",
                 tremolo |-> Default, vibrato |-> Default, segment |-> "attack", over |-> FALSE]
           t == [env |-> "on", vol |-> Vol(n, chans[c], playerVol), at |-> "attack", pan |-> chans[c].pan,
                 pitch |-> Pitch0(n, chans[c]), fx |-> chans[c].fx]
<1>1. /\ voices' = [voices EXCEPT ![v] = n] /\ told' = [told EXCEPT ![v] = t]
      /\ running = "playing" /\ UNCHANGED << chans, playerVol, newInst >>
  BY DEF NoteOn
<1>2. HeardAs(n, t, chans[c], playerVol, newInst) /\ n.chan = c
  <2>1. IsNote(n) /\ n.env = "attack" /\ n.chan = c /\ n.segment = "attack"
    BY DEF IsNote
  <2>2. /\ IsTold(t) /\ t.vol = Vol(n, chans[c], playerVol) /\ t.at = "attack" /\ t.pan = chans[c].pan
        /\ t.pitch = Pitch0(n, chans[c]) /\ t.fx = chans[c].fx
    BY DEF IsTold
  <2> HIDE DEF n, t
  <2> QED BY <2>1, <2>2 DEF HeardAs
<1> HIDE DEF n, t
<1>3. /\ voices' = [w \in SVoices |-> voices'[w]] /\ told' = [w \in SVoices |-> told'[w]]
      /\ voices'[v] = n /\ told'[v] = t
      /\ \A w \in SVoices : w # v => voices'[w] = voices[w] /\ told'[w] = told[w]
  BY <1>1 DEF ChannelsInv, ChannelsTypes
<1>4. \A w \in SVoices : Fits(voices'[w], told'[w], chans', playerVol', newInst')
  BY <1>1, <1>2, <1>3 DEF ChannelsInv, Fits
<1> QED BY <1>1, <1>3, <1>4 DEF Kept, ChannelsInv, ChannelsTypes

LEMMA VibratoKeeps ==
  ASSUME ChannelsInv, NEW v \in SVoices, NEW x, Vibrato(v, x)
  PROVE  Kept
<1> DEFINE n == voices[v]
           m == [n EXCEPT !.vibrato = x]
           t == told[v]
           u == [t EXCEPT !.pitch = Pitch0(m, chans[n.chan])]
<1>1. HeardAs(n, t, chans[n.chan], playerVol, newInst)
  BY MappedSounds DEF Vibrato
<1>2. /\ voices' = [voices EXCEPT ![v] = m] /\ UNCHANGED << chans, playerVol, newInst >>
      /\ told' = [told EXCEPT ![v] = [told[v] EXCEPT !.pitch = Pitch0(voices'[v], chans[voices[v].chan])]]
  BY DEF Vibrato
<1>3. /\ m.chan = n.chan /\ m.env = n.env /\ m.over = n.over /\ m.segment = n.segment /\ m.gain = n.gain
      /\ m.tremolo = n.tremolo /\ m.velocity = n.velocity /\ DOMAIN m = DOMAIN n
  BY <1>1 DEF HeardAs, IsNote
<1>4. IsNote(m) /\ \A ch, p : Vol(m, ch, p) = Vol(n, ch, p)
  <2> HIDE DEF m, n
  <2> QED BY <1>1, <1>3 DEF HeardAs, IsNote, Vol
<1>5. /\ u.vol = t.vol /\ u.at = t.at /\ u.pan = t.pan /\ u.pitch = Pitch0(m, chans[n.chan]) /\ u.fx = t.fx
      /\ IsTold(u)
  <2> HIDE DEF m, n, t
  <2> QED BY <1>1 DEF HeardAs, IsTold
<1>6. HeardAs(m, u, chans[m.chan], playerVol, newInst)
  <2> HIDE DEF m, n, t, u
  <2> QED BY <1>1, <1>3, <1>4, <1>5 DEF HeardAs
<1>7. /\ voices' = [w \in SVoices |-> voices'[w]] /\ voices'[v] = m
      /\ \A w \in SVoices : w # v => voices'[w] = voices[w]
  <2> HIDE DEF m
  <2> QED BY <1>2 DEF ChannelsInv, ChannelsTypes
<1>8. /\ told' = [w \in SVoices |-> told'[w]] /\ told'[v] = u
      /\ \A w \in SVoices : w # v => told'[w] = told[w]
  <2>1. [told[v] EXCEPT !.pitch = Pitch0(voices'[v], chans[voices[v].chan])] = u
    BY <1>7
  <2> HIDE DEF u
  <2> QED BY <1>2, <2>1 DEF ChannelsInv, ChannelsTypes
<1>9. n # Free0
  BY DEF Vibrato, Mapped, Free0
<1> HIDE DEF m, u
<1>10. \A w \in SVoices : Fits(voices'[w], told'[w], chans', playerVol', newInst')
  BY <1>2, <1>6, <1>7, <1>8 DEF ChannelsInv, Fits
<1> QED BY <1>2, <1>7, <1>8, <1>9, <1>10 DEF Kept, ChannelsInv, ChannelsTypes

LEMMA VoiceEndsKeeps ==
  ASSUME ChannelsInv, NEW v \in SVoices, VoiceEnds(v)
  PROVE  Kept
<1>1. /\ voices' = [w \in SVoices |-> voices'[w]] /\ told' = [w \in SVoices |-> told'[w]]
      /\ voices'[v] = Free0 /\ UNCHANGED << chans, playerVol, newInst >>
      /\ \A w \in SVoices : w # v => voices'[w] = voices[w] /\ told'[w] = told[w]
  BY DEF VoiceEnds, ChannelsInv, ChannelsTypes
<1>2. \A w \in SVoices : Fits(voices'[w], told'[w], chans', playerVol', newInst')
  BY <1>1 DEF ChannelsInv, Fits
<1> QED BY <1>1, <1>2 DEF Kept, ChannelsInv, ChannelsTypes

LEMMA SegmentEndsKeeps ==
  ASSUME ChannelsInv, NEW v \in SVoices, SegmentEnds(v)
  PROVE  Kept
<1> DEFINE n == voices[v]
           m == [n EXCEPT !.over = TRUE]
<1>1. HeardAs(n, told[v], chans[n.chan], playerVol, newInst) /\ n # Free0
  BY MappedSounds DEF SegmentEnds, Held0, Mapped, Free0
<1>2. voices' = [voices EXCEPT ![v] = m] /\ UNCHANGED << chans, playerVol, newInst, told >>
  BY DEF SegmentEnds
<1>3. /\ m.chan = n.chan /\ m.env = n.env /\ m.over = TRUE /\ m.gain = n.gain /\ m.vibrato = n.vibrato
      /\ m.tremolo = n.tremolo /\ m.velocity = n.velocity /\ DOMAIN m = DOMAIN n
  BY <1>1 DEF HeardAs, IsNote
<1>4. /\ IsNote(m) /\ \A ch, p : Vol(m, ch, p) = Vol(n, ch, p)
      /\ \A ch : Pitch0(m, ch) = Pitch0(n, ch)
  <2> HIDE DEF m, n
  <2> QED BY <1>1, <1>3 DEF HeardAs, IsNote, Vol, Pitch0
<1>5. HeardAs(m, told[v], chans[m.chan], playerVol, newInst)
  <2> HIDE DEF m, n
  <2> QED BY <1>1, <1>3, <1>4 DEF HeardAs
<1> HIDE DEF m
<1>6. /\ voices' = [w \in SVoices |-> voices'[w]] /\ voices'[v] = m
      /\ \A w \in SVoices : w # v => voices'[w] = voices[w]
  BY <1>2 DEF ChannelsInv, ChannelsTypes
<1>7. \A w \in SVoices : Fits(voices'[w], told'[w], chans', playerVol', newInst')
  BY <1>2, <1>5, <1>6 DEF ChannelsInv, Fits
<1> QED BY <1>1, <1>2, <1>6, <1>7 DEF Kept, ChannelsInv, ChannelsTypes

LEMMA PressureKeeps ==
  ASSUME ChannelsInv, NEW S, S \subseteq Mapped, NEW vel, Pressure(S, vel)
  PROVE  Kept
<1>1. /\ voices' = [v \in SVoices |-> voices'[v]]
      /\ \A v \in SVoices : voices'[v] = IF v \in S THEN [voices[v] EXCEPT !.velocity = vel] ELSE voices[v]
      /\ told' = TellVol(told, voices', chans, playerVol, S)
      /\ UNCHANGED << chans, playerVol, newInst >>
  BY DEF Pressure
<1>2. ASSUME NEW v \in S
      PROVE  /\ IsNote(voices'[v]) /\ voices'[v].chan = voices[v].chan
             /\ voices'[v].vibrato = voices[v].vibrato
             /\ voices'[v].env = "release" <=> voices[v].env = "release"
             /\ voices'[v].env = "release" => voices'[v].gain = "none"
  <2>1. v \in SVoices /\ HeardAs(voices[v], told[v], chans[voices[v].chan], playerVol, newInst)
    BY MappedSounds
  <2>2. voices'[v] = [voices[v] EXCEPT !.velocity = vel]
    BY <1>1, <2>1
  <2> QED BY <2>1, <2>2 DEF HeardAs, IsNote
<1>3. \A v \in SVoices \ S : voices'[v] = voices[v]
  BY <1>1
<1> QED BY <1>1, <1>2, <1>3, TellKeeps

LEMMA EnvelopeKeeps ==
  ASSUME ChannelsInv, NEW v \in SVoices, EnvelopeEvent(v)
  PROVE  Kept
<1> DEFINE m == [voices[v] EXCEPT !.env = "decay", !.gain = "decay", !.segment = "decay", !.over = FALSE]
<1>1. voices' = [voices EXCEPT ![v] = m] /\ voices[v].env = "attack"
  BY DEF EnvelopeEvent
<1>2. v \in Mapped
  BY <1>1 DEF Mapped
<1>3. IsNote(voices[v])
  BY <1>2, MappedSounds DEF HeardAs
<1>4. /\ IsNote(m) /\ m.chan = voices[v].chan /\ m.vibrato = voices[v].vibrato /\ m.env = "decay"
  <2>1. /\ m.chan = voices[v].chan /\ m.vibrato = voices[v].vibrato /\ m.env = "decay" /\ m.over = FALSE
        /\ DOMAIN m = DOMAIN voices[v]
    BY <1>3 DEF IsNote
  <2> HIDE DEF m
  <2> QED BY <1>3, <2>1 DEF IsNote
<1> HIDE DEF m
<1>5. /\ voices' = [w \in SVoices |-> voices'[w]] /\ voices'[v] = m
      /\ \A w \in SVoices \ {v} : voices'[w] = voices[w]
  BY <1>1 DEF ChannelsInv, ChannelsTypes
<1>6. told' = TellVol(told, voices', chans, playerVol, {v}) /\ UNCHANGED << chans, playerVol, newInst >>
  BY DEF EnvelopeEvent
<1>7. \A w \in {v} : /\ IsNote(voices'[w]) /\ voices'[w].chan = voices[w].chan
                     /\ voices'[w].vibrato = voices[w].vibrato
                     /\ voices'[w].env = "release" <=> voices[w].env = "release"
                     /\ voices'[w].env = "release" => voices'[w].gain = "none"
  BY <1>1, <1>4, <1>5
<1>8. {v} \subseteq Mapped
  BY <1>2
<1>9. playerVol' = playerVol \/ {v} = Mapped
  BY <1>6
<1> QED BY <1>5, <1>6, <1>7, <1>8, <1>9, TellKeeps

LEMMA TremoloKeeps ==
  ASSUME ChannelsInv, NEW v \in SVoices, NEW x, Tremolo(v, x)
  PROVE  Kept
<1> DEFINE m == [voices[v] EXCEPT !.tremolo = x]
<1>1. voices' = [voices EXCEPT ![v] = m] /\ v \in Mapped
  BY DEF Tremolo
<1>2. HeardAs(voices[v], told[v], chans[voices[v].chan], playerVol, newInst)
  BY <1>1, MappedSounds
<1>3. /\ IsNote(m) /\ m.chan = voices[v].chan /\ m.vibrato = voices[v].vibrato /\ m.env = voices[v].env
      /\ m.gain = voices[v].gain
  <2>1. /\ m.chan = voices[v].chan /\ m.vibrato = voices[v].vibrato /\ m.env = voices[v].env
        /\ m.gain = voices[v].gain /\ m.over = voices[v].over /\ DOMAIN m = DOMAIN voices[v]
    BY <1>2 DEF HeardAs, IsNote
  <2> HIDE DEF m
  <2> QED BY <1>2, <2>1 DEF HeardAs, IsNote
<1> HIDE DEF m
<1>5. /\ voices' = [w \in SVoices |-> voices'[w]] /\ voices'[v] = m
      /\ \A w \in SVoices \ {v} : voices'[w] = voices[w]
  BY <1>1 DEF ChannelsInv, ChannelsTypes
<1>6. told' = TellVol(told, voices', chans, playerVol, {v}) /\ UNCHANGED << chans, playerVol, newInst >>
  BY DEF Tremolo
<1>7. \A w \in {v} : /\ IsNote(voices'[w]) /\ voices'[w].chan = voices[w].chan
                     /\ voices'[w].vibrato = voices[w].vibrato
                     /\ voices'[w].env = "release" <=> voices[w].env = "release"
                     /\ voices'[w].env = "release" => voices'[w].gain = "none"
  BY <1>2, <1>3, <1>5 DEF HeardAs
<1>8. {v} \subseteq Mapped
  BY <1>1
<1>9. playerVol' = playerVol \/ {v} = Mapped
  BY <1>6
<1> QED BY <1>5, <1>6, <1>7, <1>8, <1>9, TellKeeps

LEMMA PlayerVolumeKeeps ==
  ASSUME ChannelsInv, NEW x, PlayerVolume(x)
  PROVE  Kept
<1>1. /\ voices' = voices /\ UNCHANGED << chans, newInst >>
      /\ told' = TellVol(told, voices', chans, playerVol', Mapped)
  BY DEF PlayerVolume
<1>2. voices' = [v \in SVoices |-> voices'[v]] /\ \A v \in SVoices \ Mapped : voices'[v] = voices[v]
  BY <1>1 DEF ChannelsInv, ChannelsTypes
<1>3. \A v \in Mapped : /\ IsNote(voices'[v]) /\ voices'[v].chan = voices[v].chan
                        /\ voices'[v].vibrato = voices[v].vibrato
                        /\ voices'[v].env = "release" <=> voices[v].env = "release"
                        /\ voices'[v].env = "release" => voices'[v].gain = "none"
  BY <1>1, MappedSounds DEF HeardAs
<1>4. Mapped \subseteq Mapped /\ (playerVol' = playerVol \/ Mapped = Mapped)
  OBVIOUS
<1> QED BY <1>1, <1>2, <1>3, <1>4, TellKeeps

LEMMA FreshBankKeeps ==
  ASSUME ChannelsInv, Mapped = {}, FreshBank
  PROVE  Kept
<1>1. /\ chans' = [c \in Channels |-> SetInst(Reset0, FirstInst)]
      /\ UNCHANGED << playerVol, voices, told >>
  BY DEF FreshBank, FromBank
<1>2. \A v \in SVoices : voices[v] = Free0
  BY FreeOrMapped
<1>3. IsChan(SetInst(Reset0, FirstInst))
  BY DEF IsChan, SetInst, Reset0
<1> QED BY <1>1, <1>2, <1>3 DEF Kept, Fits, ChannelsInv, ChannelsTypes

------------------------------------------------------------------------------
(* The queue of what was asked for *)

\* What is left of the queue was in it.
LEMMA LeftFrom ==
  ASSUME NEW Set, NEW q \in Seq(Set)
  PROVE  /\ ButMessages(q) \in Seq(Set)
         /\ \A i \in 1..Len(ButMessages(q)) : \E j \in 1..Len(q) : ButMessages(q)[i] = q[j]
<1> DEFINE S == {i \in 1..Len(q) : q[i].type # "midi"}
           f == Ascending(S)
<1>1. S \in SUBSET (1..Len(q)) /\ Len(q) \in Nat
  OBVIOUS
<1> HIDE DEF S
<1>2. Cardinality(S) \in Nat /\ f \in [1..Cardinality(S) -> S]
  BY <1>1, AscendingCounts
<1>3. PICK k \in Nat : k = Cardinality(S)
  BY <1>2
<1>4. Len(f) = k
  BY <1>2, <1>3
<1> HIDE DEF f
<1>5. ButMessages(q) = [i \in 1..k |-> q[f[i]]]
  BY <1>4 DEF ButMessages, S, f
<1>6. \A i \in 1..k : f[i] \in 1..Len(q) /\ q[f[i]] \in Set
  <2>1. \A i \in 1..k : f[i] \in 1..Len(q)
    BY <1>1, <1>2, <1>3
  <2> QED BY <2>1, ElementOfSeq
<1>7. ButMessages(q) \in [1..k -> Set]
  BY <1>5, <1>6
<1>8. ButMessages(q) \in Seq(Set) /\ Len(ButMessages(q)) = k
  BY <1>7
<1> QED BY <1>5, <1>6, <1>8

LEMMA RestIsCalm ==
  ASSUME NEW q \in Seq(AskedTypes), q # << >>, NEW run, NothingBehind(q, run)
  PROVE  \A i \in 1..Len(Tail(q)) : Tail(q)[i].type \notin {"seq", "bank"}
<1>1. \A i \in 1..Len(Tail(q)) : i + 1 \in 1..Len(q) /\ Tail(q)[i] = q[i + 1] /\ i + 1 # 1
  <2>1. Len(q) \in Nat /\ Len(q) # 0 /\ Len(Tail(q)) = Len(q) - 1
    BY EmptySeq
  <2>2. \A i \in 1..Len(Tail(q)) : Tail(q)[i] = q[i + 1]
    BY <2>1
  <2> QED BY <2>1, <2>2
<1> QED BY <1>1 DEF NothingBehind

\* What a voice's step keeps, the invariant keeps.
LEMMA KeptIsEnough ==
  ASSUME ChannelsInv, Kept, requests' \in Seq(AskedTypes), NothingBehind(requests', running'), ~asserted',
         running' = "stopped" => running = "stopped"
  PROVE  ChannelsInv'
<1>1. running' = "stopped" => Mapped' = {}
  <2> SUFFICES ASSUME running' = "stopped" PROVE \A v \in SVoices : voices'[v].env = "free"
    BY DEF Mapped
  <2>1. running = "stopped" /\ Mapped = {}
    BY DEF ChannelsInv
  <2>2. \A v \in SVoices : voices'[v] = Free0
    BY <2>1, FreeOrMapped DEF Kept
  <2> QED BY <2>2 DEF Free0
<1> QED BY <1>1 DEF Kept, ChannelsInv, ChannelsTypes

LEMMA AskStep ==
  ASSUME ChannelsInv, NEW evt \in AskedTypes, Ask(evt),
         evt.type \in {"seq", "bank"} => requests = << >> /\ running = "stopped"
  PROVE  ChannelsInv'
<1>1. requests' = Append(requests, evt) /\ requests \in Seq(AskedTypes)
  BY DEF Ask, ChannelsInv, ChannelsTypes
<1>2. /\ requests' \in Seq(AskedTypes) /\ Len(requests') = Len(requests) + 1 /\ Len(requests) \in Nat
      /\ requests'[Len(requests) + 1] = evt
      /\ \A i \in 1..Len(requests) : requests'[i] = requests[i]
  BY <1>1, AppendProperties
<1>3. UNCHANGED << running, chans, playerVol, voices, told, newInst, asserted >>
  BY DEF Ask
<1>4. NothingBehind(requests', running')
  <2> SUFFICES ASSUME NEW i \in 1..Len(requests'), requests'[i].type \in {"seq", "bank"}
               PROVE  i = 1 /\ running = "stopped"
    BY <1>3 DEF NothingBehind
  <2>1. CASE i = Len(requests) + 1
    <3>1. requests = << >> /\ running = "stopped"
      BY <1>2, <2>1
    <3>2. Len(requests) = 0
      BY <3>1
    <3> QED BY <2>1, <3>1, <3>2
  <2>2. CASE i # Len(requests) + 1
    <3>1. i \in 1..Len(requests)
      BY <1>2, <2>2
    <3> QED BY <1>2, <3>1 DEF ChannelsInv, NothingBehind
  <2> QED BY <2>1, <2>2
<1> QED BY <1>2, <1>3, <1>4 DEF ChannelsInv, ChannelsTypes, Mapped

LEMMA EventStep == ChannelsInv /\ Event => ChannelsInv'
<1> SUFFICES ASSUME ChannelsInv, Event PROVE ChannelsInv'
  OBVIOUS
<1>1. UNCHANGED << running, requests, asserted >>
  BY DEF Event
<1>2. ASSUME NEW c \in Channels, NEW x, NEW kind, Midi0(kind, c, x) PROVE Kept
  BY <1>2, VolKeeps, PanKeeps, FXKeeps, ProgramKeeps DEF Midi0
<1>3. ASSUME NEW v \in SVoices, NoteGoes(v) PROVE Kept
  <2>1. {v} \subseteq Mapped /\ ReleaseAll({v}) /\ UNCHANGED << chans, playerVol, newInst >>
    BY <1>3 DEF NoteGoes, Held0
  <2> QED BY <2>1, ReleaseKeeps
<1>4. \A c \in Channels : On(c) \subseteq Mapped
  BY DEF On
<1>5. \A v \in Held0 : {v} \subseteq Mapped
  BY DEF Held0
<1>6. Kept
  <2>1. ASSUME NEW v \in SVoices, EnvelopeEvent(v) \/ VoiceEnds(v) \/ SegmentEnds(v) PROVE Kept
    BY <2>1, EnvelopeKeeps, VoiceEndsKeeps, SegmentEndsKeeps
  <2>2. ASSUME NEW v \in SVoices, NEW x \in Levels, Tremolo(v, x) \/ Vibrato(v, x) PROVE Kept
    BY <2>2, TremoloKeeps, VibratoKeeps
  <2>3. ASSUME NEW v \in SVoices, NEW c \in Channels, NoteOn(v, c) PROVE Kept
    BY <2>3, NoteOnKeeps
  <2>4. ASSUME NEW v \in Held0, NEW x \in Levels, Pressure({v}, x) PROVE Kept
    BY <2>4, <1>5, PressureKeeps
  <2>5. ASSUME NEW c \in Channels, NEW x \in Levels, Pressure(On(c), x) \/ PitchBend(c, x) PROVE Kept
    BY <2>5, <1>4, PressureKeeps, BendKeeps
  <2>6. ASSUME NEW c \in Channels, NEW i \in Insts, Program0(c, i) PROVE Kept
    BY <2>6, ProgramKeeps
  <2> QED BY <1>2, <1>3, <2>1, <2>2, <2>3, <2>4, <2>5, <2>6 DEF Event
<1> QED BY <1>1, <1>6, KeptIsEnough DEF ChannelsInv, ChannelsTypes

LEMMA AskedStep == ChannelsInv /\ AskedEvent => ChannelsInv'
<1> SUFFICES ASSUME ChannelsInv, AskedEvent PROVE ChannelsInv'
  OBVIOUS
<1> DEFINE e == Head(requests)
           rest == Tail(requests)
<1>1. /\ requests \in Seq(AskedTypes) /\ requests # << >> /\ NothingBehind(requests, running) /\ ~asserted
  BY DEF AskedEvent, ChannelsInv, ChannelsTypes
<1>2. e \in AskedTypes /\ rest \in Seq(AskedTypes) /\ e = requests[1] /\ 1 \in 1..Len(requests)
  BY <1>1, HeadTailProperties, EmptySeq
<1>3. \A i \in 1..Len(rest) : rest[i].type \notin {"seq", "bank"}
  BY <1>1, RestIsCalm
<1>4. \A run : NothingBehind(rest, run)
  BY <1>3 DEF NothingBehind
<1>5. e.type \in {"seq", "bank"} => running = "stopped"
  BY <1>1, <1>2 DEF NothingBehind
<1>6. e.type = "midi" => e.chan \in Channels
  BY <1>2 DEF AskedTypes
<1> HIDE DEF e, rest
<1>7. CASE e.type = "vol" /\ PlayerVolume(e.x) /\ requests' = rest /\ UNCHANGED << running, asserted >>
  <2>1. Kept
    BY <1>7, PlayerVolumeKeeps
  <2> QED BY <1>1, <1>2, <1>4, <1>7, <2>1, KeptIsEnough
<1>8. CASE e.type = "midi" /\ Midi0(e.kind, e.chan, e.x) /\ requests' = rest /\ UNCHANGED << running, asserted >>
  <2>1. Kept
    BY <1>6, <1>8, VolKeeps, PanKeeps, FXKeeps, ProgramKeeps DEF Midi0
  <2> QED BY <1>1, <1>2, <1>4, <1>8, <2>1, KeptIsEnough
<1>9. ASSUME UNCHANGED << chans, playerVol, newInst, voices, told >>
      PROVE  Kept
  BY <1>9 DEF Kept, ChannelsInv, ChannelsTypes
<1>10. CASE /\ e.type = "play" /\ running' = "playing" /\ requests' = rest
            /\ UNCHANGED << voices, told, asserted >> /\ Unsettled
  <2>1. Kept
    BY <1>9, <1>10 DEF Unsettled
  <2> QED BY <1>1, <1>2, <1>4, <1>10, <2>1, KeptIsEnough
<1>11. CASE /\ e.type = "stopping" /\ running = "playing" /\ running' = "stopping"
            /\ requests' = ButMessages(rest) /\ ReleaseAll(Held0)
            /\ UNCHANGED asserted /\ Unsettled
  <2>1. Held0 \subseteq Mapped
    BY DEF Held0
  <2>2. Kept
    BY <1>11, <2>1, ReleaseKeeps DEF Unsettled
  <2>5. /\ requests' \in Seq(AskedTypes)
        /\ \A i \in 1..Len(requests') : \E j \in 1..Len(rest) : requests'[i] = rest[j]
    BY <1>2, <1>11, LeftFrom
  <2>6. NothingBehind(requests', running')
    BY <1>3, <2>5 DEF NothingBehind
  <2> QED BY <1>1, <1>11, <2>2, <2>5, <2>6, KeptIsEnough
<1>12. CASE /\ e.type = "stopping" /\ running # "playing" /\ requests' = rest
            /\ UNCHANGED << running, voices, told, asserted >> /\ Unsettled
  <2>1. Kept
    BY <1>9, <1>12 DEF Unsettled
  <2> QED BY <1>1, <1>2, <1>4, <1>12, <2>1, KeptIsEnough
<1>13. CASE /\ e.type \in {"seq", "bank"} /\ FreshBank /\ requests' = rest
            /\ asserted' = IF e.type = "seq" THEN running = "playing" ELSE running # "stopped"
            /\ UNCHANGED running
  <2>1. running = "stopped" /\ Mapped = {}
    BY <1>5, <1>13 DEF ChannelsInv
  <2>2. Kept
    BY <1>13, <2>1, FreshBankKeeps
  <2>3. ~asserted'
    BY <1>13, <2>1
  <2> QED BY <1>2, <1>4, <1>13, <2>2, <2>3, KeptIsEnough
<1> QED BY <1>7, <1>8, <1>10, <1>11, <1>12, <1>13 DEF AskedEvent, e, rest

LEMMA ChannelsStep ==
  ASSUME Patient PROVE ChannelsInv /\ [ChannelsNext]_chanVars => ChannelsInv'
<1> SUFFICES ASSUME ChannelsInv, [ChannelsNext]_chanVars PROVE ChannelsInv'
  OBVIOUS
<1>1. ASSUME NEW x \in Levels, AskVol(x) PROVE ChannelsInv'
  BY <1>1, AskStep DEF AskVol, AskedTypes
<1>2. ASSUME NEW c \in Channels, NEW x \in Levels, AskChlVol(c, x) \/ AskPan(c, x) \/ AskFXMix(c, x)
      PROVE  ChannelsInv'
  BY <1>2, AskStep DEF AskChlVol, AskPan, AskFXMix, AskedTypes
<1>3. ASSUME NEW c \in Channels, NEW i \in Insts, AskProgram(c, i) PROVE ChannelsInv'
  BY <1>3, AskStep DEF AskProgram, AskedTypes
<1>4. ASSUME AskPlay \/ AskStopping PROVE ChannelsInv'
  BY <1>4, AskStep DEF AskPlay, AskStopping, AskedTypes
<1>5. ASSUME AskSeq \/ AskBank PROVE ChannelsInv'
  BY <1>5, AskStep DEF AskSeq, AskBank, AskedTypes
<1>6. CASE Stopped0
  <2>1. /\ Mapped = {} /\ running' = "stopped" /\ running = "stopping"
        /\ UNCHANGED << chans, playerVol, voices, told, requests, newInst, asserted >>
    BY <1>6 DEF Stopped0
  <2>2. NothingBehind(requests', running')
    BY <2>1 DEF ChannelsInv, NothingBehind
  <2> QED BY <2>1, <2>2 DEF ChannelsInv, ChannelsTypes, Mapped
<1>7. CASE UNCHANGED chanVars
  BY <1>7 DEF chanVars, ChannelsInv, ChannelsTypes, Mapped
<1> QED BY <1>1, <1>2, <1>3, <1>4, <1>5, <1>6, <1>7, EventStep, AskedStep DEF ChannelsNext

LEMMA ChannelsStart == ChannelsInit => ChannelsInv
<1> SUFFICES ASSUME ChannelsInit PROVE ChannelsInv
  OBVIOUS
<1>1. \A v \in SVoices : voices[v] = Free0
  BY DEF ChannelsInit
<1>2. chans = [c \in Channels |-> SetInst(Reset0, FirstInst)]
  BY DEF ChannelsInit, FromBank
<1>3. IsChan(SetInst(Reset0, FirstInst))
  BY DEF IsChan, SetInst, Reset0
<1>4. ChannelsTypes
  BY <1>2, <1>3 DEF ChannelsTypes, ChannelsInit
<1>5. Mapped = {}
  BY <1>1 DEF Mapped, Free0
<1>6. NothingBehind(requests, running)
  BY DEF ChannelsInit, NothingBehind
<1>7. ~asserted
  BY DEF ChannelsInit
<1> QED BY <1>1, <1>4, <1>5, <1>6, <1>7 DEF ChannelsInv, Fits

(* A voice that sounds is as the player, its channel and its note are set now, whatever
   changed in which order, and one that was let go is silent, for any number of voices,
   channels and settings (__handleMIDIMsg, __seqpVoiceHandler, __vsVol).  The program
   must be patient for the assertions of the handler: alSeqpGetState tells it that the
   player has stopped while a call to play may still be in the queue. *)
THEOREM VoicesAreAsSet ==
  ASSUME Patient
  PROVE  ChannelsSpec => []VoicesAsSet
<1> QED BY ChannelsStart, ChannelsStep, FitsAsSet, PTL DEF ChannelsSpec

------------------------------------------------------------------------------
(* The synthesis driver *)

SynSpec == SynInit /\ [][SynNext]_synVars

------------------------------------------------------------------------------
(* The inductive invariant *)

Updates == [type : {"start", "stop", "vol", "free"}, at : Int]

\* A list has each of its elements once.
IsList(l, S) == l \in Seq(S) /\ \A i, j \in 1..Len(l) : l[i] = l[j] => i = j

SynTypes ==
  /\ synPhase \in {"idle", "due", "handler", "render"}
  /\ IsList(clients, Players) /\ samplesLeft \in [Players -> Int]
  /\ paramSamples \in Int /\ toRender \in Int
  /\ pvoice \in [VVoices -> PVoices \cup {NoPV}] /\ vvoice \in [PVoices -> VVoices \cup {NoVV}]
  /\ offset \in [PVoices -> Nat] /\ ctrl \in [PVoices -> Seq(Updates)]
  /\ motion \in [PVoices -> BOOLEAN]

\* Every physical voice is in one list, once.
ListsShare(free, lame, alloc) ==
  /\ IsList(free, PVoices) /\ IsList(lame, PVoices) /\ IsList(alloc, PVoices)
  /\ \A p \in PVoices :
       /\ Contains(free, p) \/ Contains(lame, p) \/ Contains(alloc, p)
       /\ ~(Contains(free, p) /\ Contains(lame, p))
       /\ ~(Contains(free, p) /\ Contains(alloc, p))
       /\ ~(Contains(lame, p) /\ Contains(alloc, p))

NotesKnown(pv, vv, alloc) ==
  \A v \in VVoices : pv[v] # NoPV => vv[pv[v]] = v /\ Contains(alloc, pv[v])

Owned(pv, vv, p) == vv[p] # NoVV /\ pv[vv[p]] = p

\* A free is the last of the updates of a voice.
FreeIsLast(us) == \A i \in 1..Len(us) : us[i].type = "free" => i = Len(us)
HasFree(us) == \E i \in 1..Len(us) : us[i].type = "free"

\* A voice, owned by a note or not, allocated or not, its updates, offset and motion
VoiceFits(owned, alloc, us, off, moves) ==
  /\ FreeIsLast(us)
  /\ HasFree(us) <=> alloc /\ ~owned
  /\ alloc /\ ~owned => off # 0
  /\ ~alloc => off = 0
  /\ owned <=> Moving(us, moves)

VoicesFit ==
  \A p \in PVoices :
    VoiceFits(Owned(pvoice, vvoice, p), Contains(pAlloc, p), ctrl[p], offset[p], motion[p])

\* Updates in the order of their times, none late and none after time b
Timed(us, b) ==
  /\ \A i \in 1..Len(us) : 0 <= us[i].at /\ us[i].at <= b
  /\ \A i, j \in 1..Len(us) : i <= j => us[i].at <= us[j].at

TimedTo(b) == \A p \in PVoices : Timed(ctrl[p], b + offset[p])
LeftFor(b) == \A c \in Players : Contains(clients, c) => samplesLeft[c] >= b

Schedule ==
  /\ synPhase = "idle" => TimedTo(0) /\ LeftFor(0)
  /\ synPhase = "due" =>
       /\ clients # << >> /\ toRender = OutLen /\ TimedTo(OutLen) /\ LeftFor(0)
       /\ \A c \in Players : Contains(clients, c) => TimedTo(Aligned(samplesLeft[c]))
  /\ synPhase = "handler" =>
       /\ clients # << >> /\ toRender = OutLen /\ paramSamples >= 0 /\ paramSamples <= OutLen
       /\ TimedTo(paramSamples) /\ LeftFor(0)
       /\ \A c \in Players : Contains(clients, c) => Aligned(samplesLeft[c]) >= paramSamples
  /\ synPhase = "render" => toRender > 0 /\ TimedTo(toRender) /\ LeftFor(toRender)

SynInv ==
  /\ SynTypes /\ ListsShare(pFree, pLame, pAlloc) /\ NotesKnown(pvoice, vvoice, pAlloc)
  /\ VoicesFit /\ Schedule

------------------------------------------------------------------------------
(* Numbers and lists *)

LEMMA LeastOfNumbers ==
  ASSUME NEW S \in SUBSET Nat, S # {}
  PROVE  \E x \in S : \A y \in S : x <= y
<1>1. PICK x \in S : \A y \in S : ~ (<< y, x >> \in OpToRel(<, Nat))
  BY NatLessThanWellFounded, WFMin
<1>2. \A y \in S : ~ (y < x)
  BY <1>1 DEF OpToRel
<1>3. \A y \in S : x <= y
  BY <1>2
<1> QED BY <1>3

\* What holds of 0, and of the successor of each number it holds of, holds of all.
LEMMA AllNumbers ==
  ASSUME NEW S, 0 \in S, \A n \in Nat : n \in S => n + 1 \in S
  PROVE  \A n \in Nat : n \in S
<1> SUFFICES ASSUME Nat \ S # {} PROVE FALSE
  OBVIOUS
<1>1. PICK x \in Nat \ S : \A y \in Nat \ S : x <= y
  <2>1. Nat \ S \in SUBSET Nat
    OBVIOUS
  <2> QED BY <2>1, LeastOfNumbers
<1>2. x # 0 /\ x - 1 \in Nat /\ (x - 1) + 1 = x /\ ~ (x <= x - 1)
  BY <1>1
<1>3. x - 1 \in S
  BY <1>1, <1>2
<1> QED BY <1>1, <1>2, <1>3

LEMMA MaxIsLast ==
  ASSUME NEW n \in Nat, NEW S \in SUBSET (0..n), S # {}
  PROVE  Max(S) \in S /\ \A x \in S : x <= Max(S)
<1> DEFINE T == {n - x : x \in S}
<1>1. T \in SUBSET Nat /\ T # {}
  <2>1. \A x \in S : n - x \in Nat
    OBVIOUS
  <2>2. PICK x : x \in S
    OBVIOUS
  <2>3. n - x \in T
    BY <2>2
  <2> QED BY <2>1, <2>3
<1>2. PICK y \in T : \A z \in T : y <= z
  BY <1>1, LeastOfNumbers
<1>3. PICK x \in S : y = n - x
  BY <1>2
<1>4. \A z \in S : n - z \in T
  OBVIOUS
<1>5. \A z \in S : z <= x
  <2> TAKE z \in S
  <2>1. n - x <= n - z
    BY <1>2, <1>3, <1>4
  <2> QED BY <2>1
<1>6. x \in S /\ \A z \in S : x >= z
  BY <1>5
<1>7. Max(S) \in S /\ \A z \in S : Max(S) >= z
  BY <1>6 DEF Max
<1> QED BY <1>7

\* The list Unlinked makes, up to each position
Keeps(f, l, gone, n) ==
  f = [i \in 0..n |->
        IF i = 0 THEN << >> ELSE IF l[i] \in gone THEN f[i - 1] ELSE Append(f[i - 1], l[i])]

LEMMA KeepsExists ==
  ASSUME NEW l, NEW gone
  PROVE  \A n \in Nat : \E f : Keeps(f, l, gone, n)
<1> DEFINE S == {n \in Nat : \E f : Keeps(f, l, gone, n)}
           step(f, i) == IF l[i] \in gone THEN f[i - 1] ELSE Append(f[i - 1], l[i])
<1>1. 0 \in S
  <2>1. Keeps([i \in 0..0 |-> << >>], l, gone, 0)
    BY DEF Keeps
  <2> QED BY <2>1
<1>2. ASSUME NEW n \in Nat, n \in S PROVE n + 1 \in S
  <2>1. PICK f : Keeps(f, l, gone, n)
    BY <1>2
  <2> DEFINE g == [i \in 0..(n + 1) |-> IF i = n + 1 THEN step(f, n + 1) ELSE f[i]]
  <2>2. \A i \in 0..n : f[i] = IF i = 0 THEN << >> ELSE step(f, i)
    BY <2>1 DEF Keeps
  <2>3. ASSUME NEW i \in 0..(n + 1)
        PROVE  g[i] = IF i = 0 THEN << >> ELSE step(g, i)
    <3>1. CASE i = n + 1
      <4>1. i # 0 /\ i - 1 = n /\ n \in 0..(n + 1) /\ n # n + 1
        BY <3>1
      <4>2. g[i - 1] = f[n] /\ g[i] = step(f, n + 1) /\ (n + 1) - 1 = n
        BY <3>1, <4>1
      <4> HIDE DEF g
      <4> QED BY <3>1, <4>1, <4>2
    <3>2. CASE i # n + 1 /\ i # 0
      <4>1. i \in 0..n /\ i - 1 \in 0..(n + 1) /\ i - 1 # n + 1
        BY <3>2
      <4>2. g[i - 1] = f[i - 1] /\ g[i] = f[i]
        BY <3>2, <4>1
      <4> HIDE DEF g
      <4> QED BY <2>2, <3>2, <4>1, <4>2
    <3>3. CASE i = 0
      BY <2>2, <3>3
    <3> QED BY <3>1, <3>2, <3>3
  <2>4. Keeps(g, l, gone, n + 1)
    <3>1. g = [i \in 0..(n + 1) |-> g[i]]
      OBVIOUS
    <3> HIDE DEF g
    <3> QED BY <2>3, <3>1 DEF Keeps
  <2> QED BY <2>4
<1> HIDE DEF S
<1>3. \A n \in Nat : n \in S
  BY <1>1, <1>2, AllNumbers
<1> QED BY <1>3 DEF S

\* r is the first i of the list l without those of gone.
IsLeft(r, l, gone, E, i) ==
  /\ IsList(r, E)
  /\ \A a \in 1..Len(r) : r[a] \notin gone /\ \E j \in 1..i : l[j] = r[a]
  /\ \A j \in 1..i : l[j] \notin gone => \E a \in 1..Len(r) : r[a] = l[j]

LEMMA UnlinkedLeaves ==
  ASSUME NEW E, NEW l, IsList(l, E), NEW gone
  PROVE  /\ IsList(Unlinked(l, gone), E)
         /\ \A x : Contains(Unlinked(l, gone), x) <=> Contains(l, x) /\ x \notin gone
<1>1. l \in Seq(E) /\ Len(l) \in Nat /\ \A i \in 1..Len(l) : l[i] \in E
  BY ElementOfSeq DEF IsList
<1> DEFINE f == CHOOSE g : Keeps(g, l, gone, Len(l))
           n == Len(l)
<1>2. Keeps(f, l, gone, n)
  BY <1>1, KeepsExists
<1>3. Unlinked(l, gone) = f[n]
  BY DEF Unlinked, Keeps
<1> HIDE DEF f
<1>4. \A i \in 0..n : f[i] = IF i = 0 THEN << >>
                            ELSE IF l[i] \in gone THEN f[i - 1] ELSE Append(f[i - 1], l[i])
  BY <1>2 DEF Keeps
<1> DEFINE S == {i \in Nat : i <= n => IsLeft(f[i], l, gone, E, i)}
<1>5. 0 \in S
  <2>1. f[0] = << >>
    BY <1>1, <1>4
  <2>2. IsLeft(<< >>, l, gone, E, 0)
    BY DEF IsLeft, IsList
  <2> QED BY <2>1, <2>2
<1>6. ASSUME NEW i \in Nat, i \in S PROVE i + 1 \in S
  <2> SUFFICES ASSUME i + 1 <= n PROVE IsLeft(f[i + 1], l, gone, E, i + 1)
    OBVIOUS
  <2>1. IsLeft(f[i], l, gone, E, i) /\ i + 1 \in 1..n /\ (i + 1) - 1 = i
    BY <1>1, <1>6
  <2>2. PICK k : k = f[i]
    OBVIOUS
  <2>3. PICK x : x = l[i + 1]
    OBVIOUS
  <2>4. /\ k \in Seq(E) /\ Len(k) \in Nat /\ \A a, b \in 1..Len(k) : k[a] = k[b] => a = b
        /\ \A a \in 1..Len(k) : k[a] \notin gone /\ \E j \in 1..i : l[j] = k[a]
        /\ \A j \in 1..i : l[j] \notin gone => \E a \in 1..Len(k) : k[a] = l[j]
    BY <2>1, <2>2 DEF IsLeft, IsList
  <2>5. f[i + 1] = IF x \in gone THEN k ELSE Append(k, x)
    <3>1. i + 1 \in 0..n /\ i + 1 # 0
      BY <1>1, <2>1
    <3> QED BY <1>4, <2>1, <2>2, <2>3, <3>1
  <2>6. \A j \in 1..(i + 1) : j \in 1..i \/ j = i + 1
    OBVIOUS
  <2>7. x \in E /\ \A j \in 1..i : j \in 1..n /\ l[j] # x
    <3>1. \A j \in 1..i : j \in 1..n /\ j # i + 1
      BY <1>1, <2>1
    <3>2. \A a, b \in 1..n : l[a] = l[b] => a = b
      BY DEF IsList
    <3> QED BY <1>1, <2>1, <2>3, <3>1, <3>2
  <2>8. CASE x \in gone
    <3>1. f[i + 1] = k
      BY <2>5, <2>8
    <3>2. \A a \in 1..Len(k) : k[a] \notin gone /\ \E j \in 1..(i + 1) : l[j] = k[a]
      BY <2>4
    <3>3. \A j \in 1..(i + 1) : l[j] \notin gone => \E a \in 1..Len(k) : k[a] = l[j]
      BY <2>3, <2>4, <2>6, <2>8
    <3> QED BY <2>4, <3>1, <3>2, <3>3 DEF IsLeft, IsList
  <2>9. CASE x \notin gone
    <3>1. PICK m : m = Append(k, x)
      OBVIOUS
    <3>2. /\ m \in Seq(E) /\ Len(m) = Len(k) + 1 /\ m[Len(k) + 1] = x
          /\ \A a \in 1..Len(k) : m[a] = k[a]
      BY <2>4, <2>7, <3>1, AppendProperties
    <3>3. \A a \in 1..Len(m) : a \in 1..Len(k) \/ a = Len(k) + 1
      BY <2>4, <3>2
    <3>4. \A a \in 1..Len(k) : m[a] # x
      BY <2>4, <2>7, <3>2
    <3>5. \A a, b \in 1..Len(m) : m[a] = m[b] => a = b
      BY <2>4, <3>2, <3>3, <3>4
    <3>6. \A a \in 1..Len(m) : m[a] \notin gone /\ \E j \in 1..(i + 1) : l[j] = m[a]
      BY <2>3, <2>4, <2>9, <3>2, <3>3
    <3>7. \A j \in 1..(i + 1) : l[j] \notin gone => \E a \in 1..Len(m) : m[a] = l[j]
      <4>1. \A a \in 1..Len(k) : a \in 1..Len(m)
        BY <2>4, <3>2
      <4>2. Len(k) + 1 \in 1..Len(m)
        BY <2>4, <3>2
      <4> QED BY <2>3, <2>4, <2>6, <3>2, <4>1, <4>2
    <3>8. f[i + 1] = m
      BY <2>5, <2>9, <3>1
    <3> QED BY <3>2, <3>5, <3>6, <3>7, <3>8 DEF IsLeft, IsList
  <2> QED BY <2>8, <2>9
<1> HIDE DEF S
<1>7. \A i \in Nat : i \in S
  BY <1>5, <1>6, AllNumbers
<1>8. IsLeft(f[n], l, gone, E, n)
  BY <1>1, <1>7 DEF S
<1>9. PICK r : r = f[n]
  OBVIOUS
<1>10. /\ IsList(r, E)
       /\ \A a \in 1..Len(r) : r[a] \notin gone /\ \E j \in 1..n : l[j] = r[a]
       /\ \A j \in 1..n : l[j] \notin gone => \E a \in 1..Len(r) : r[a] = l[j]
  BY <1>8, <1>9 DEF IsLeft
<1>11. \A x : Contains(r, x) <=> Contains(l, x) /\ x \notin gone
  BY <1>10 DEF Contains
<1> QED BY <1>3, <1>9, <1>10, <1>11

LEMMA AlignedGrows ==
  ASSUME NEW x \in Int, NEW y \in Int, x <= y
  PROVE  /\ Aligned(x) \in Int /\ Aligned(x) <= Aligned(y) /\ Aligned(x) <= x
         /\ 0 <= x => 0 <= Aligned(x)
<1>1. PICK a \in Nat \ {0} : a = Align
  BY SynthesizerAssumption
<1>2. a # 0
  OBVIOUS
<1>3. x % a \in 0..(a - 1)
  BY <1>2
<1>4. x - (x % a) <= y - (y % a)
  BY <1>2, SMTT(30)
<1>5. 0 <= x => 0 <= x - (x % a)
  <2> SUFFICES ASSUME 0 <= x PROVE 0 - (0 % a) <= x - (x % a) /\ 0 % a = 0
    BY <1>3
  <2>1. 0 - (0 % a) <= x - (x % a)
    BY <1>2, SMTT(30)
  <2>2. 0 % a = 0
    BY <1>2, SMTT(30)
  <2> QED BY <2>1, <2>2
<1> QED BY <1>1, <1>3, <1>4, <1>5 DEF Aligned

LEMMA JoinLists ==
  ASSUME NEW E, NEW k, IsList(k, E), NEW l, IsList(l, E), \A x : ~(Contains(k, x) /\ Contains(l, x))
  PROVE  /\ IsList(k \o l, E) /\ Len(k \o l) = Len(k) + Len(l)
         /\ \A x : Contains(k \o l, x) <=> Contains(k, x) \/ Contains(l, x)
<1>1. /\ k \in Seq(E) /\ Len(k) \in Nat /\ \A a, b \in 1..Len(k) : k[a] = k[b] => a = b
      /\ l \in Seq(E) /\ Len(l) \in Nat /\ \A a, b \in 1..Len(l) : l[a] = l[b] => a = b
  BY DEF IsList
<1>2. PICK m : m = k \o l
  OBVIOUS
<1>3. /\ m \in Seq(E) /\ Len(m) = Len(k) + Len(l)
      /\ \A i \in 1..Len(m) : m[i] = IF i <= Len(k) THEN k[i] ELSE l[i - Len(k)]
  BY <1>1, <1>2, ConcatProperties
<1>4. \A a \in 1..Len(m) : IF a <= Len(k) THEN a \in 1..Len(k) ELSE a - Len(k) \in 1..Len(l)
  BY <1>1, <1>3
<1>5. \A a \in 1..Len(k) : a \in 1..Len(m) /\ m[a] = k[a]
  BY <1>1, <1>3
<1>6. \A a \in 1..Len(l) : a + Len(k) \in 1..Len(m) /\ m[a + Len(k)] = l[a]
  <2> SUFFICES ASSUME NEW a \in 1..Len(l) PROVE a + Len(k) \in 1..Len(m) /\ m[a + Len(k)] = l[a]
    OBVIOUS
  <2>1. PICK i \in 1..Len(m) : i = a + Len(k)
    BY <1>1, <1>3
  <2>2. ~(i <= Len(k)) /\ i - Len(k) = a
    BY <1>1, <2>1
  <2> QED BY <1>3, <2>1, <2>2
<1>7. \A x : Contains(m, x) <=> Contains(k, x) \/ Contains(l, x)
  <2>1. ASSUME NEW a \in 1..Len(m), NEW x, m[a] = x PROVE Contains(k, x) \/ Contains(l, x)
    BY <1>3, <1>4, <2>1 DEF Contains
  <2>2. ASSUME NEW a \in 1..Len(k), NEW x, k[a] = x PROVE Contains(m, x)
    BY <1>5, <2>2 DEF Contains
  <2>3. ASSUME NEW a \in 1..Len(l), NEW x, l[a] = x PROVE Contains(m, x)
    BY <1>6, <2>3 DEF Contains
  <2> QED BY <2>1, <2>2, <2>3 DEF Contains
<1>8. \A a \in 1..Len(k) : \A b \in 1..Len(l) : k[a] # l[b]
  BY DEF Contains
<1>9. \A a, b \in 1..Len(m) : m[a] = m[b] => a = b
  <2> SUFFICES ASSUME NEW a \in 1..Len(m), NEW b \in 1..Len(m), m[a] = m[b] PROVE a = b
    OBVIOUS
  <2>1. CASE a <= Len(k) /\ b <= Len(k)
    BY <1>1, <1>3, <1>4, <2>1
  <2>2. CASE ~(a <= Len(k)) /\ ~(b <= Len(k))
    <3>1. /\ a - Len(k) \in 1..Len(l) /\ b - Len(k) \in 1..Len(l)
          /\ l[a - Len(k)] = l[b - Len(k)]
      BY <1>3, <1>4, <2>2
    <3>2. a - Len(k) = b - Len(k)
      BY <1>1, <3>1
    <3>3. a \in Int /\ b \in Int
      OBVIOUS
    <3> QED BY <1>1, <3>2, <3>3
  <2>3. CASE a <= Len(k) /\ ~(b <= Len(k))
    <3>1. a \in 1..Len(k) /\ b - Len(k) \in 1..Len(l) /\ k[a] = l[b - Len(k)]
      BY <1>3, <1>4, <2>3
    <3> QED BY <1>8, <3>1
  <2>4. CASE ~(a <= Len(k)) /\ b <= Len(k)
    <3>1. b \in 1..Len(k) /\ a - Len(k) \in 1..Len(l) /\ k[b] = l[a - Len(k)]
      BY <1>3, <1>4, <2>4
    <3> QED BY <1>8, <3>1
  <2> QED BY <2>1, <2>2, <2>3, <2>4
<1> QED BY <1>2, <1>3, <1>7, <1>9 DEF IsList

LEMMA ListsJoined ==
  ASSUME NEW E, NEW k, IsList(k, E), NEW l, IsList(l, E), \A x : ~(Contains(k, x) /\ Contains(l, x)),
         NEW m, m = k \o l
  PROVE  /\ IsList(m, E) /\ Len(m) = Len(k) + Len(l)
         /\ \A x : Contains(m, x) <=> Contains(k, x) \/ Contains(l, x)
BY JoinLists

LEMMA ListLeft ==
  ASSUME NEW E, NEW l, IsList(l, E), NEW gone, NEW k, k = Unlinked(l, gone)
  PROVE  IsList(k, E) /\ \A x : Contains(k, x) <=> Contains(l, x) /\ x \notin gone
BY UnlinkedLeaves

LEMMA OneList ==
  ASSUME NEW E, NEW x \in E
  PROVE  IsList(<< x >>, E) /\ \A y : Contains(<< x >>, y) <=> y = x
<1>1. << x >> \in Seq(E) /\ Len(<< x >>) = 1 /\ << x >>[1] = x
  OBVIOUS
<1>2. \A i \in 1..1 : i = 1
  OBVIOUS
<1> QED BY <1>1, <1>2 DEF IsList, Contains

LEMMA TailList ==
  ASSUME NEW E, NEW l, IsList(l, E), l # << >>
  PROVE  /\ Head(l) \in E /\ Contains(l, Head(l)) /\ IsList(Tail(l), E)
         /\ \A x : Contains(Tail(l), x) <=> Contains(l, x) /\ x # Head(l)
<1>1. l \in Seq(E) /\ Len(l) \in Nat /\ \A a, b \in 1..Len(l) : l[a] = l[b] => a = b
  BY DEF IsList
<1>2. PICK t : t = Tail(l)
  OBVIOUS
<1>3. /\ Len(l) # 0 /\ Head(l) = l[1] /\ l[1] \in E
      /\ t \in Seq(E) /\ Len(t) = Len(l) - 1 /\ \A i \in 1..(Len(l) - 1) : t[i] = l[i + 1]
  BY <1>1, <1>2, HeadTailProperties, EmptySeq
<1>4. \A i \in 1..Len(t) : i + 1 \in 1..Len(l) /\ t[i] = l[i + 1] /\ i + 1 # 1
  BY <1>1, <1>3
<1>5. \A i \in 1..Len(l) : i # 1 => i - 1 \in 1..Len(t) /\ t[i - 1] = l[i]
  <2> TAKE i \in 1..Len(l)
  <2> HAVE i # 1
  <2>1. i - 1 \in 1..(Len(l) - 1) /\ (i - 1) + 1 = i
    BY <1>1
  <2> QED BY <1>3, <2>1
<1>6. 1 \in 1..Len(l)
  BY <1>1, <1>3
<1>7. \A x : Contains(t, x) <=> Contains(l, x) /\ x # l[1]
  <2>1. ASSUME NEW x, Contains(t, x) PROVE Contains(l, x) /\ x # l[1]
    BY <1>1, <1>4, <1>6, <2>1 DEF Contains
  <2>2. ASSUME NEW x, Contains(l, x), x # l[1] PROVE Contains(t, x)
    BY <1>5, <2>2 DEF Contains
  <2> QED BY <2>1, <2>2
<1>8. \A a, b \in 1..Len(t) : t[a] = t[b] => a = b
  <2> SUFFICES ASSUME NEW a \in 1..Len(t), NEW b \in 1..Len(t), t[a] = t[b] PROVE a = b
    OBVIOUS
  <2>1. a + 1 = b + 1
    BY <1>1, <1>4
  <2> QED BY <1>3, <2>1
<1>9. Contains(l, l[1])
  BY <1>6 DEF Contains
<1> QED BY <1>2, <1>3, <1>7, <1>8, <1>9 DEF IsList

LEMMA ReverseList ==
  ASSUME NEW E, NEW l, IsList(l, E)
  PROVE  IsList(Reverse(l), E) /\ \A x : Contains(Reverse(l), x) <=> Contains(l, x)
<1>1. /\ l \in Seq(E) /\ Len(l) \in Nat /\ \A a, b \in 1..Len(l) : l[a] = l[b] => a = b
      /\ \A a \in 1..Len(l) : l[a] \in E
  BY ElementOfSeq DEF IsList
<1>2. PICK n \in Nat : n = Len(l)
  BY <1>1
<1> DEFINE r == Reverse(l)
<1>3. \A i \in 1..n : (n - i) + 1 \in 1..n /\ (n - ((n - i) + 1)) + 1 = i
  OBVIOUS
<1>4. r = [i \in 1..n |-> l[(n - i) + 1]]
  BY <1>2 DEF Reverse
<1>5. r \in [1..n -> E]
  BY <1>1, <1>2, <1>3, <1>4
<1>6. r \in Seq(E) /\ Len(r) = n /\ \A i \in 1..n : r[i] = l[(n - i) + 1]
  BY <1>4, <1>5
<1> HIDE DEF r
<1>7. \A a, b \in 1..n : r[a] = r[b] => a = b
  <2> SUFFICES ASSUME NEW a \in 1..n, NEW b \in 1..n, r[a] = r[b] PROVE a = b
    OBVIOUS
  <2>1. (n - a) + 1 = (n - b) + 1
    BY <1>1, <1>2, <1>3, <1>6
  <2> QED BY <2>1
<1>8. \A x : Contains(r, x) <=> Contains(l, x)
  <2>1. \A i \in 1..n : l[i] = r[(n - i) + 1]
    <3> SUFFICES ASSUME NEW i \in 1..n PROVE l[i] = r[(n - i) + 1]
      OBVIOUS
    <3>1. PICK j \in 1..n : j = (n - i) + 1
      BY <1>3
    <3>2. (n - j) + 1 = i
      BY <3>1
    <3> QED BY <1>6, <3>1, <3>2
  <2>2. \A i \in 1..n : (n - i) + 1 \in 1..n /\ r[i] = l[(n - i) + 1]
    BY <1>3, <1>6
  <2>3. ASSUME NEW x, NEW i \in 1..n, r[i] = x PROVE \E j \in 1..n : l[j] = x
    BY <2>2, <2>3
  <2>4. ASSUME NEW x, NEW i \in 1..n, l[i] = x PROVE \E j \in 1..n : r[j] = x
    BY <2>1, <2>2, <2>4
  <2> QED BY <1>2, <1>6, <2>3, <2>4 DEF Contains
<1> QED BY <1>2, <1>6, <1>7, <1>8 DEF IsList, r

\* A finite set, listed
LEMMA SetListed ==
  ASSUME NEW E, NEW S \in SUBSET E, IsFiniteSet(S)
  PROVE  IsList(SetToSeq(S), E) /\ \A x : Contains(SetToSeq(S), x) <=> x \in S
<1> DEFINE n == Cardinality(S)
           l == SetToSeq(S)
<1>1. n \in Nat /\ ExistsBijection(1..n, S)
  BY FS_CardinalityType
<1>2. PICK f : f \in Bijection(1..n, S)
  BY <1>1 DEF ExistsBijection
<1>3. f \in [1..n -> S] /\ IsInjective(f)
  BY <1>2 DEF Bijection, Injection, IsInjective
<1>4. l \in [1..n -> S] /\ IsInjective(l)
  BY <1>3 DEF SetToSeq
<1> HIDE DEF l
<1>5. \A a, b \in 1..n : l[a] = l[b] => a = b
  BY <1>4 DEF IsInjective
<1>6. l \in Seq(S) /\ Len(l) = n
  BY <1>1, <1>4
<1>7. IsFiniteSet(1..n) /\ Cardinality(1..n) = n
  BY <1>1, FS_Interval
<1>8. l \in Injection(1..n, S)
  BY <1>4 DEF Injection, IsInjective
<1>9. l \in Surjection(1..n, S)
  BY <1>1, <1>7, <1>8, FS_Injection
<1>10. \A x \in S : \E i \in 1..n : l[i] = x
  BY <1>9 DEF Surjection
<1>11. \A x : Contains(l, x) <=> x \in S
  BY <1>4, <1>6, <1>10 DEF Contains
<1>12. l \in Seq(E)
  BY <1>6
<1> QED BY <1>5, <1>6, <1>11, <1>12 DEF IsList, l

\* The first of those of the least rank
LEMMA LeastRanked ==
  ASSUME NEW n \in Nat, NEW I \in SUBSET (1..n), I # {}, NEW r \in [I -> Int]
  PROVE  \E i \in I : \A j \in I : r[i] <= r[j] /\ (j < i => r[i] < r[j])
<1> DEFINE Best(i, m) == i \in I /\ i <= m /\ \A j \in I : j <= m => r[i] <= r[j] /\ (j < i => r[i] < r[j])
           S == {m \in Nat : (\A j \in I : m < j) \/ \E i \in I : Best(i, m)}
<1>1. 0 \in S
  OBVIOUS
<1>2. ASSUME NEW m \in Nat, m \in S PROVE m + 1 \in S
  <2>1. \A j \in I : j \in Int /\ r[j] \in Int
    OBVIOUS
  <2>2. \A j \in I : j <= m + 1 => j <= m \/ j = m + 1
    BY <2>1
  <2>3. CASE m + 1 \notin I
    <3>1. CASE \A j \in I : m < j
      <4>1. \A j \in I : m + 1 < j
        BY <2>1, <2>3, <3>1
      <4> QED BY <4>1
    <3>2. CASE \E i \in I : Best(i, m)
      <4>1. PICK i \in I : Best(i, m)
        BY <3>2
      <4>2. Best(i, m + 1)
        BY <2>1, <2>2, <2>3, <4>1
      <4> QED BY <4>2
    <3> QED BY <1>2, <3>1, <3>2
  <2>4. CASE m + 1 \in I
    <3>1. CASE \A j \in I : m < j
      <4>1. Best(m + 1, m + 1)
        BY <2>1, <2>2, <2>4, <3>1
      <4> QED BY <2>4, <4>1
    <3>2. CASE \E i \in I : Best(i, m)
      <4>1. PICK i \in I : Best(i, m)
        BY <3>2
      <4>2. CASE r[m + 1] < r[i]
        <5>1. Best(m + 1, m + 1)
          <6> SUFFICES ASSUME NEW j \in I, j <= m + 1
                       PROVE  r[m + 1] <= r[j] /\ (j < m + 1 => r[m + 1] < r[j])
            BY <2>1, <2>4
          <6>1. CASE j = m + 1
            BY <2>1, <6>1
          <6>2. CASE j <= m
            BY <2>1, <2>4, <4>1, <4>2, <6>2
          <6> QED BY <2>2, <6>1, <6>2
        <5> QED BY <2>4, <5>1
      <4>3. CASE ~(r[m + 1] < r[i])
        <5>1. Best(i, m + 1)
          <6> SUFFICES ASSUME NEW j \in I, j <= m + 1
                       PROVE  r[i] <= r[j] /\ (j < i => r[i] < r[j])
            BY <2>1, <4>1
          <6>1. CASE j = m + 1
            BY <2>1, <2>4, <4>1, <4>3, <6>1
          <6>2. CASE j <= m
            BY <2>1, <4>1, <6>2
          <6> QED BY <2>2, <6>1, <6>2
        <5> QED BY <5>1
      <4> QED BY <4>2, <4>3
    <3> QED BY <1>2, <3>1, <3>2
  <2> QED BY <2>3, <2>4
<1>3. n \in S
  <2> HIDE DEF S
  <2>1. \A m \in Nat : m \in S
    BY <1>1, <1>2, AllNumbers
  <2> QED BY <2>1
<1>4. ~ \A j \in I : n < j
  <2>1. PICK j \in I : TRUE
    OBVIOUS
  <2>2. j \in 1..n /\ ~(n < j)
    OBVIOUS
  <2> QED BY <2>1, <2>2
<1>5. PICK i \in I : Best(i, n)
  BY <1>3, <1>4
<1> QED BY <1>5

------------------------------------------------------------------------------
(* Updates *)

LEMMA UpdateFields ==
  ASSUME NEW us \in Seq(Updates)
  PROVE  \A i \in 1..Len(us) : us[i] \in Updates /\ us[i].at \in Int
<1>1. \A i \in 1..Len(us) : us[i] \in Updates
  BY ElementOfSeq
<1>2. \A u \in Updates : u.at \in Int
  BY DEF Updates
<1> QED BY <1>1, <1>2

LEMMA FunctionIsSeq ==
  ASSUME NEW E, NEW d \in Nat, NEW f \in [1..d -> E]
  PROVE  f \in Seq(E) /\ Len(f) = d
OBVIOUS

LEMMA UpdateMoved ==
  ASSUME NEW u \in Updates, NEW a \in Int, NEW w, w = [u EXCEPT !.at = a]
  PROVE  w \in Updates /\ w.type = u.type /\ w.at = a
<1>1. DOMAIN u = {"type", "at"} /\ u.type \in {"start", "stop", "vol", "free"}
  BY DEF Updates
<1>2. DOMAIN w = {"type", "at"} /\ w.type = u.type /\ w.at = a
  BY <1>1
<1>3. w = [type |-> w.type, at |-> w.at]
  BY <1>2
<1> QED BY <1>1, <1>2, <1>3 DEF Updates

LastSwitch(us, i) == i \in Switches(us) /\ \A j \in Switches(us) : j <= i

LEMMA SwitchesEnd ==
  ASSUME NEW us \in Seq(Updates), NEW m
  PROVE  /\ Switches(us) = {} => Moving(us, m) = m
         /\ Switches(us) # {} => \E i \in Nat : LastSwitch(us, i)
         /\ \A i : LastSwitch(us, i) => (Moving(us, m) <=> us[i].type = "start")
<1>1. PICK n \in Nat : n = Len(us)
  OBVIOUS
<1>2. Switches(us) \in SUBSET (0..n) /\ Switches(us) \subseteq Nat
  BY <1>1 DEF Switches
<1>3. ASSUME Switches(us) # {}
      PROVE  Max(Switches(us)) \in Switches(us) /\ \A x \in Switches(us) : x <= Max(Switches(us))
  BY <1>2, <1>3, MaxIsLast
<1>4. ASSUME NEW i, LastSwitch(us, i) PROVE Moving(us, m) <=> us[i].type = "start"
  <2>1. Switches(us) # {} /\ i \in Switches(us) /\ \A j \in Switches(us) : j <= i
    BY <1>4 DEF LastSwitch
  <2>2. i = Max(Switches(us))
    BY <1>2, <1>3, <2>1
  <2> QED BY <2>1, <2>2 DEF Moving
<1>5. Switches(us) # {} => \E i \in Nat : LastSwitch(us, i)
  BY <1>2, <1>3 DEF LastSwitch
<1>6. Switches(us) = {} => Moving(us, m) = m
  BY DEF Moving
<1> QED BY <1>4, <1>5, <1>6

\* An update is added.
LEMMA UpdateAdded ==
  ASSUME NEW us \in Seq(Updates), NEW u \in Updates, NEW m \in BOOLEAN
  PROVE  LET more == Append(us, u)
         IN /\ more \in Seq(Updates) /\ Moving(more, m) \in BOOLEAN
            /\ u.type \in {"start", "stop"} => (Moving(more, m) <=> u.type = "start")
            /\ u.type \notin {"start", "stop"} => (Moving(more, m) <=> Moving(us, m))
            /\ HasFree(more) <=> HasFree(us) \/ u.type = "free"
            /\ FreeIsLast(us) /\ ~HasFree(us) => FreeIsLast(more)
            /\ \A b, c \in Int : Timed(us, b) /\ b <= c /\ 0 <= c /\ u.at = c => Timed(more, c)
<1>1. PICK k : k = Append(us, u)
  OBVIOUS
<1>2. PICK n \in Nat : n = Len(us)
  OBVIOUS
<1>3. k \in Seq(Updates) /\ Len(k) = n + 1 /\ k[n + 1] = u /\ \A i \in 1..n : k[i] = us[i]
  BY <1>1, <1>2, AppendProperties
<1>4. \A i \in 1..(n + 1) : i \in 1..n \/ i = n + 1
  OBVIOUS
<1>5. \A i \in 1..n : i \in 1..(n + 1) /\ i <= n + 1 /\ i # n + 1
  OBVIOUS
<1>6. n + 1 \in 1..(n + 1)
  OBVIOUS
<1>7. Switches(k) = Switches(us) \cup (IF u.type \in {"start", "stop"} THEN {n + 1} ELSE {})
  <2>1. \A i \in 1..n : i \in Switches(k) <=> i \in Switches(us)
    BY <1>2, <1>3, <1>5 DEF Switches
  <2>2. Switches(us) \subseteq 1..n /\ Switches(k) \subseteq 1..(n + 1)
    BY <1>2, <1>3 DEF Switches
  <2>3. n + 1 \in Switches(k) <=> u.type \in {"start", "stop"}
    BY <1>3, <1>6 DEF Switches
  <2> QED BY <1>4, <2>1, <2>2, <2>3
<1>8. ASSUME u.type \in {"start", "stop"} PROVE Moving(k, m) <=> u.type = "start"
  <2>1. LastSwitch(k, n + 1)
    BY <1>7, <1>8, <1>2, <1>5 DEF LastSwitch, Switches
  <2> QED BY <1>3, <2>1, SwitchesEnd
<1>9. ASSUME u.type \notin {"start", "stop"} PROVE Moving(k, m) <=> Moving(us, m)
  <2>1. Switches(k) = Switches(us) /\ Switches(us) \subseteq 1..n
    BY <1>2, <1>7, <1>9 DEF Switches
  <2>2. CASE Switches(us) = {}
    BY <1>3, <2>1, <2>2, SwitchesEnd
  <2>3. CASE Switches(us) # {}
    <3>1. PICK i \in Nat : LastSwitch(us, i)
      BY <2>3, SwitchesEnd
    <3>2. LastSwitch(k, i) /\ i \in 1..n
      BY <2>1, <3>1 DEF LastSwitch
    <3>3. Moving(k, m) <=> k[i].type = "start"
      BY <1>3, <3>2, SwitchesEnd
    <3>4. Moving(us, m) <=> us[i].type = "start"
      BY <3>1, SwitchesEnd
    <3> QED BY <1>3, <3>2, <3>3, <3>4
  <2> QED BY <2>2, <2>3
<1>10. HasFree(k) <=> HasFree(us) \/ u.type = "free"
  <2>1. HasFree(k) <=> \E i \in 1..(n + 1) : k[i].type = "free"
    BY <1>3 DEF HasFree
  <2>2. HasFree(us) <=> \E i \in 1..n : k[i].type = "free"
    BY <1>2, <1>3 DEF HasFree
  <2>3. ASSUME NEW i \in 1..(n + 1), k[i].type = "free"
        PROVE  u.type = "free" \/ \E j \in 1..n : k[j].type = "free"
    BY <1>3, <1>4, <2>3
  <2> QED BY <1>3, <1>5, <1>6, <2>1, <2>2, <2>3
<1>11. FreeIsLast(us) /\ ~HasFree(us) => FreeIsLast(k)
  BY <1>2, <1>3, <1>4 DEF HasFree, FreeIsLast
<1>12. ASSUME NEW b \in Int, NEW c \in Int, Timed(us, b), b <= c, 0 <= c, u.at = c
       PROVE  Timed(k, c)
  <2>1. \A i \in 1..n : 0 <= us[i].at /\ us[i].at <= b /\ us[i].at \in Int
    BY <1>2, <1>12, UpdateFields DEF Timed
  <2>2. \A i \in 1..(n + 1) : 0 <= k[i].at /\ k[i].at <= c
    BY <1>3, <1>4, <1>12, <2>1
  <2>3. \A i, j \in 1..n : i <= j => us[i].at <= us[j].at
    BY <1>2, <1>12 DEF Timed
  <2>4. ASSUME NEW i \in 1..(n + 1), NEW j \in 1..(n + 1), i <= j PROVE k[i].at <= k[j].at
    <3>1. CASE j = n + 1
      BY <1>3, <1>12, <2>2, <3>1
    <3>2. CASE j # n + 1
      <4>1. i \in 1..n /\ j \in 1..n
        BY <2>4, <3>2
      <4> QED BY <1>3, <2>3, <2>4, <4>1
    <3> QED BY <3>1, <3>2
  <2> QED BY <1>3, <2>2, <2>4 DEF Timed
<1>13. Moving(k, m) \in BOOLEAN
  BY DEF Moving
<1> QED BY <1>1, <1>3, <1>8, <1>9, <1>10, <1>11, <1>12, <1>13

LEMMA UpdateAddedFrees ==
  ASSUME NEW us \in Seq(Updates), ~HasFree(us), FreeIsLast(us), NEW u \in Updates,
         NEW b \in Nat, u.at = b, Timed(us, b), NEW more, more = Append(us, u)
  PROVE  /\ more \in Seq(Updates) /\ FreeIsLast(more) /\ Timed(more, b)
         /\ HasFree(more) <=> u.type = "free"
<1>1. /\ more \in Seq(Updates) /\ (FreeIsLast(us) /\ ~HasFree(us) => FreeIsLast(more))
      /\ HasFree(more) <=> HasFree(us) \/ u.type = "free"
  BY UpdateAdded
<1>2. \A d, c \in Int : Timed(us, d) /\ d <= c /\ 0 <= c /\ u.at = c => Timed(more, c)
  BY UpdateAdded
<1>3. Timed(more, b)
  BY <1>2
<1> QED BY <1>1, <1>3

LEMMA UpdateAddedMoves ==
  ASSUME NEW us \in Seq(Updates), NEW u \in Updates, NEW m \in BOOLEAN, NEW more, more = Append(us, u)
  PROVE  /\ u.type = "start" => Moving(more, m)
         /\ u.type = "stop" => ~Moving(more, m)
         /\ u.type \notin {"start", "stop"} => (Moving(more, m) <=> Moving(us, m))
<1>1. u.type \in {"start", "stop"} => (Moving(more, m) <=> u.type = "start")
  BY UpdateAdded
<1>2. u.type \notin {"start", "stop"} => (Moving(more, m) <=> Moving(us, m))
  BY UpdateAdded
<1> QED BY <1>1, <1>2

LEMMA UpdateAddedKeeps ==
  ASSUME NEW us \in Seq(Updates), NEW u \in Updates, u.type \notin {"start", "stop"},
         NEW m \in BOOLEAN, NEW more, more = Append(us, u)
  PROVE  Moving(more, m) <=> Moving(us, m)
BY UpdateAddedMoves

\* late is what is left of us after its first k, each n earlier.
LateOf(late, us, k, n) ==
  /\ late \in Seq(Updates) /\ Len(late) = Len(us) - k
  /\ \A i \in 1..Len(late) : late[i].type = us[i + k].type /\ late[i].at = us[i + k].at - n

\* The first k updates, and what is left of the others
SplitAt(us, k, n, now, late) ==
  /\ us \in Seq(Updates) /\ k \in 0..Len(us) /\ n \in Int
  /\ LateOf(late, us, k, n) /\ now = SubSeq(us, 1, k)

LEMMA UpdatesSplit ==
  ASSUME NEW us, NEW k, NEW n, NEW now, NEW late, SplitAt(us, k, n, now, late), NEW m \in BOOLEAN
  PROVE  /\ Moving(now, m) \in BOOLEAN
         /\ Moving(late, Moving(now, m)) <=> Moving(us, m)
         /\ HasFree(us) <=> HasFree(now) \/ HasFree(late)
         /\ FreeIsLast(us) => FreeIsLast(late) /\ (HasFree(now) => k = Len(us))
<1>0. us \in Seq(Updates) /\ k \in 0..Len(us) /\ n \in Int /\ LateOf(late, us, k, n) /\ now = SubSeq(us, 1, k)
  BY DEF SplitAt
<1>16. us \in Seq(Updates)
  BY <1>0
<1>1. PICK l \in Nat : l = Len(us)
  BY <1>0
<1>2. k \in Nat /\ k <= l
  BY <1>0, <1>1
<1>3. now \in Seq(Updates) /\ Len(now) = k /\ \A i \in 1..k : now[i] = us[i]
  BY <1>0, <1>1, <1>2
<1>4. /\ late \in Seq(Updates) /\ Len(late) = l - k
      /\ \A i \in 1..(l - k) : late[i].type = us[i + k].type
  BY <1>0, <1>1 DEF LateOf
<1>5. \A i \in 1..l : IF i <= k THEN i \in 1..k
                      ELSE i - k \in 1..(l - k) /\ us[i].type = late[i - k].type
  <2> SUFFICES ASSUME NEW i \in 1..l, ~(i <= k)
               PROVE  i - k \in 1..(l - k) /\ us[i].type = late[i - k].type
    BY <1>2
  <2>1. PICK j \in 1..(l - k) : j = i - k
    BY <1>2
  <2>2. j + k = i
    BY <1>2, <2>1
  <2> QED BY <1>4, <2>1, <2>2
<1>6. \A i \in 1..(l - k) : i + k \in 1..l /\ ~(i + k <= k)
  BY <1>2
<1>7. \A i \in 1..k : i \in 1..l
  BY <1>2
<1>8. HasFree(us) <=> HasFree(now) \/ HasFree(late)
  <2>1. HasFree(us) <=> \E i \in 1..l : us[i].type = "free"
    BY <1>1 DEF HasFree
  <2>2. HasFree(now) <=> \E i \in 1..k : us[i].type = "free"
    BY <1>3 DEF HasFree
  <2>3. HasFree(late) <=> \E i \in 1..(l - k) : us[i + k].type = "free"
    BY <1>4 DEF HasFree
  <2>4. ASSUME NEW i \in 1..l, us[i].type = "free"
        PROVE  (\E j \in 1..k : us[j].type = "free") \/ \E j \in 1..(l - k) : us[j + k].type = "free"
    BY <1>4, <1>5, <2>4
  <2> QED BY <1>6, <1>7, <2>1, <2>2, <2>3, <2>4
<1>9. ASSUME FreeIsLast(us) PROVE FreeIsLast(late) /\ (HasFree(now) => k = Len(us))
  <2>1. \A i \in 1..l : us[i].type = "free" => i = l
    BY <1>1, <1>9 DEF FreeIsLast
  <2>2. FreeIsLast(late)
    <3> SUFFICES ASSUME NEW i \in 1..(l - k), late[i].type = "free" PROVE i = l - k
      BY <1>4 DEF FreeIsLast
    <3>1. i + k = l
      BY <1>4, <1>6, <2>1
    <3> QED BY <1>2, <3>1
  <2>3. ASSUME HasFree(now) PROVE k = l
    <3>1. PICK i \in 1..k : us[i].type = "free"
      BY <1>3, <2>3 DEF HasFree
    <3>2. i = l
      BY <1>7, <2>1, <3>1
    <3> QED BY <1>2, <3>2
  <2> QED BY <1>1, <2>2, <2>3
<1>10. Moving(now, m) \in BOOLEAN
  BY DEF Moving
<1>11. PICK m1 \in BOOLEAN : m1 = Moving(now, m)
  BY <1>10
<1>12. /\ Switches(us) = {i \in 1..l : us[i].type \in {"start", "stop"}}
       /\ Switches(now) = {i \in 1..k : us[i].type \in {"start", "stop"}}
       /\ Switches(late) = {i \in 1..(l - k) : us[i + k].type \in {"start", "stop"}}
  BY <1>1, <1>3, <1>4 DEF Switches
<1>13. ASSUME NEW j \in Nat, LastSwitch(late, j) PROVE Moving(late, m1) <=> Moving(us, m)
  <2>1. j \in Switches(late) /\ \A x \in Switches(late) : x <= j
    BY <1>13 DEF LastSwitch
  <2>2. j \in 1..(l - k) /\ us[j + k].type \in {"start", "stop"}
    BY <1>12, <2>1
  <2>3. j + k \in Switches(us)
    BY <1>6, <1>12, <2>2
  <2>4. ASSUME NEW x \in Switches(us) PROVE x <= j + k
    <3>1. x \in 1..l /\ us[x].type \in {"start", "stop"}
      BY <1>12
    <3>2. CASE x <= k
      BY <1>2, <2>2, <3>1, <3>2
    <3>3. CASE ~(x <= k)
      <4>1. PICK y \in 1..(l - k) : y = x - k
        BY <1>5, <3>1, <3>3
      <4>2. x = y + k
        BY <1>2, <3>1, <4>1
      <4>3. y \in Switches(late)
        BY <1>12, <3>1, <4>2
      <4>4. y <= j
        BY <2>1, <4>3
      <4> QED BY <1>2, <2>2, <4>2, <4>4
    <3> QED BY <3>2, <3>3
  <2>5. LastSwitch(us, j + k)
    BY <2>3, <2>4 DEF LastSwitch
  <2>6. Moving(us, m) <=> us[j + k].type = "start"
    BY <2>5, <1>16, SwitchesEnd
  <2>7. Moving(late, m1) <=> late[j].type = "start"
    BY <1>4, <1>13, <1>16, SwitchesEnd
  <2> QED BY <1>4, <2>2, <2>6, <2>7
<1>14. ASSUME Switches(late) = {} PROVE Moving(late, m1) <=> Moving(us, m)
  <2>1. Moving(late, m1) = m1
    BY <1>4, <1>14, <1>16, SwitchesEnd
  <2>2. Switches(us) = Switches(now)
    <3>1. ASSUME NEW i \in Switches(us) PROVE i \in Switches(now)
      <4>1. i \in 1..l /\ us[i].type \in {"start", "stop"}
        BY <1>12
      <4>2. i <= k
        <5> SUFFICES ASSUME ~(i <= k) PROVE FALSE
          OBVIOUS
        <5>1. PICK y \in 1..(l - k) : y = i - k
          BY <1>5, <4>1
        <5>2. i = y + k
          BY <1>2, <4>1, <5>1
        <5>3. y \in Switches(late)
          BY <1>12, <4>1, <5>2
        <5> QED BY <1>14, <5>3
      <4> QED BY <1>5, <1>12, <4>1, <4>2
    <3>2. Switches(now) \subseteq Switches(us)
      BY <1>7, <1>12
    <3> QED BY <3>1, <3>2
  <2>3. CASE Switches(us) = {}
    BY <1>3, <1>11, <2>1, <2>2, <2>3, <1>16, SwitchesEnd
  <2>4. CASE Switches(us) # {}
    <3>1. PICK i \in Nat : LastSwitch(us, i)
      BY <2>4, <1>16, SwitchesEnd
    <3>2. LastSwitch(now, i) /\ i \in 1..k
      BY <1>12, <2>2, <3>1 DEF LastSwitch
    <3>3. Moving(us, m) <=> us[i].type = "start"
      BY <3>1, <1>16, SwitchesEnd
    <3>4. Moving(now, m) <=> now[i].type = "start"
      BY <1>3, <3>2, <1>16, SwitchesEnd
    <3> QED BY <1>3, <1>11, <2>1, <3>2, <3>3, <3>4
  <2> QED BY <2>3, <2>4
<1>15. Moving(late, m1) <=> Moving(us, m)
  <2>1. CASE Switches(late) # {}
    <3>1. PICK j \in Nat : LastSwitch(late, j)
      BY <1>4, <2>1, <1>16, SwitchesEnd
    <3> QED BY <1>13, <3>1
  <2> QED BY <1>14, <2>1
<1> QED BY <1>1, <1>3, <1>8, <1>9, <1>10, <1>11, <1>15

LEMMA TimedLonger ==
  ASSUME NEW us \in Seq(Updates), NEW b \in Int, NEW c \in Int, b <= c, Timed(us, b)
  PROVE  Timed(us, c)
<1>1. \A i \in 1..Len(us) : us[i].at \in Int
  BY UpdateFields
<1> QED BY <1>1 DEF Timed

\* The updates up to a time are the first ones of the list.
Reaches(us, n, k) ==
  /\ k \in 0..Len(us)
  /\ \A i \in 1..k : us[i].at <= n
  /\ k < Len(us) => us[k + 1].at > n

LEMMA ReachedIsFirst ==
  ASSUME NEW p \in PVoices, ctrl[p] \in Seq(Updates), NEW n \in Int
  PROVE  Reaches(ctrl[p], n, Reached(p, n))
<1>1. PICK us \in Seq(Updates) : us = ctrl[p]
  OBVIOUS
<1>2. PICK l \in Nat : l = Len(us)
  OBVIOUS
<1>3. \A i \in 1..l : us[i].at \in Int
  BY <1>2, UpdateFields
<1> DEFINE S == {k \in 0..l : \A i \in 1..k : us[i].at <= n}
<1>4. S \in SUBSET (0..l) /\ 0 \in S
  OBVIOUS
<1>5. PICK k : k = Max(S)
  OBVIOUS
<1>6. k \in S /\ \A x \in S : x <= k
  BY <1>4, <1>5, MaxIsLast
<1>7. k < l => us[k + 1].at > n
  <2> SUFFICES ASSUME k < l, ~(us[k + 1].at > n) PROVE FALSE
    OBVIOUS
  <2>1. k + 1 \in 1..l /\ k \in Nat
    BY <1>6
  <2>2. us[k + 1].at <= n
    BY <1>3, <2>1
  <2>3. \A i \in 1..(k + 1) : i \in 1..k \/ i = k + 1
    BY <2>1
  <2>4. k + 1 \in S
    BY <1>6, <2>1, <2>2, <2>3
  <2>5. k + 1 <= k
    BY <1>6, <2>4
  <2> QED BY <2>1, <2>5
<1>8. k = Reached(p, n)
  BY <1>1, <1>2, <1>5 DEF Reached
<1> QED BY <1>1, <1>2, <1>6, <1>7, <1>8 DEF Reaches

LEMMA LateIsTimed ==
  ASSUME NEW us \in Seq(Updates), NEW n \in Int, NEW k, Reaches(us, n, k), NEW late, LateOf(late, us, k, n),
         NEW b \in Int, Timed(us, b)
  PROVE  Timed(late, b - n)
<1>1. PICK l \in Nat : l = Len(us)
  OBVIOUS
<1>2. k \in Nat /\ k <= l /\ (k < l => us[k + 1].at > n)
  BY <1>1 DEF Reaches
<1>3. \A i \in 1..l : us[i].at \in Int /\ us[i].at <= b
  BY <1>1, UpdateFields DEF Timed
<1>4. \A i, j \in 1..l : i <= j => us[i].at <= us[j].at
  BY <1>1 DEF Timed
<1>5. Len(late) = l - k /\ \A i \in 1..(l - k) : late[i].at = us[i + k].at - n
  BY <1>1 DEF LateOf
<1>6. \A i \in 1..(l - k) : i + k \in 1..l /\ k + 1 \in 1..l /\ k + 1 <= i + k /\ k < l
  BY <1>2
<1>7. ASSUME NEW i \in 1..(l - k) PROVE 0 <= late[i].at /\ late[i].at <= b - n
  <2>1. us[k + 1].at <= us[i + k].at /\ us[k + 1].at > n
    BY <1>2, <1>4, <1>6
  <2>2. us[i + k].at \in Int /\ us[i + k].at <= b /\ us[k + 1].at \in Int
    BY <1>3, <1>6
  <2> QED BY <1>5, <2>1, <2>2
<1>8. ASSUME NEW i \in 1..(l - k), NEW j \in 1..(l - k), i <= j PROVE late[i].at <= late[j].at
  <2>1. i + k <= j + k
    BY <1>2, <1>8
  <2>2. us[i + k].at <= us[j + k].at
    BY <1>4, <1>6, <2>1
  <2>3. us[i + k].at \in Int /\ us[j + k].at \in Int
    BY <1>3, <1>6
  <2> QED BY <1>5, <2>2, <2>3
<1> QED BY <1>5, <1>7, <1>8 DEF Timed

\* What Pulled leaves of a list
LEMMA PulledIsLate ==
  ASSUME NEW us \in Seq(Updates), NEW k \in 0..Len(us), NEW n \in Int,
         NEW cut, cut = SubSeq(us, k + 1, Len(us)),
         NEW late, late = [i \in 1..Len(cut) |-> [cut[i] EXCEPT !.at = @ - n]]
  PROVE  LateOf(late, us, k, n)
<1>1. PICK l \in Nat : l = Len(us)
  OBVIOUS
<1>2. k \in Nat /\ k <= l
  BY <1>1
<1>3. Len(cut) = l - k /\ \A i \in 1..(l - k) : cut[i] = us[i + k]
  BY <1>1, <1>2
<1>4. \A i \in 1..(l - k) : i + k \in 1..l
  BY <1>2
<1>5. \A i \in 1..(l - k) : cut[i] \in Updates
  BY <1>1, <1>3, <1>4, ElementOfSeq
<1>6. \A i \in 1..(l - k) : /\ late[i] \in Updates
                            /\ late[i].type = us[i + k].type /\ late[i].at = us[i + k].at - n
  <2> SUFFICES ASSUME NEW i \in 1..(l - k)
               PROVE  /\ late[i] \in Updates
                      /\ late[i].type = us[i + k].type /\ late[i].at = us[i + k].at - n
    OBVIOUS
  <2>1. PICK x \in Updates : x = us[i + k]
    BY <1>3, <1>5
  <2>2. late[i] = [x EXCEPT !.at = x.at - n]
    BY <1>3, <2>1
  <2>3. x.at \in Int
    BY DEF Updates
  <2>4. PICK a \in Int : a = x.at - n
    BY <2>3
  <2>5. PICK w : w = late[i]
    OBVIOUS
  <2>6. w = [x EXCEPT !.at = a]
    BY <2>2, <2>4, <2>5
  <2>7. w \in Updates /\ w.type = x.type /\ w.at = a
    BY <2>6, UpdateMoved
  <2> QED BY <2>1, <2>4, <2>5, <2>7
<1>7. l - k \in Nat
  BY <1>2
<1>8. late = [i \in 1..(l - k) |-> late[i]]
  BY <1>3
<1>9. late \in Seq(Updates) /\ Len(late) = l - k
  <2>1. PICK d \in Nat : d = l - k
    BY <1>7
  <2>2. PICK f : f = late
    OBVIOUS
  <2>3. f \in [1..d -> Updates]
    BY <1>6, <1>8, <2>1, <2>2
  <2>4. f \in Seq(Updates) /\ Len(f) = d
    BY <2>3, FunctionIsSeq
  <2> QED BY <2>1, <2>2, <2>4
<1> QED BY <1>1, <1>6, <1>9 DEF LateOf

------------------------------------------------------------------------------
(* The voice calls *)

IsSynth(s) ==
  /\ DOMAIN s = {"free", "lame", "alloc", "pv", "vv", "offset", "ctrl"}
  /\ s.pv \in [VVoices -> PVoices \cup {NoPV}] /\ s.vv \in [PVoices -> VVoices \cup {NoVV}]
  /\ s.offset \in [PVoices -> Nat] /\ s.ctrl \in [PVoices -> Seq(Updates)]

SameVoices(r, s) == r.free = s.free /\ r.lame = s.lame /\ r.alloc = s.alloc /\ r.vv = s.vv
SameLists(r, s) == r.free = s.free /\ r.lame = s.lame /\ r.alloc = s.alloc

Good(s, b) ==
  /\ ListsShare(s.free, s.lame, s.alloc) /\ NotesKnown(s.pv, s.vv, s.alloc)
  /\ \A p \in PVoices :
       /\ VoiceFits(Owned(s.pv, s.vv, p), Contains(s.alloc, p), s.ctrl[p], s.offset[p], motion[p])
       /\ Timed(s.ctrl[p], b + s.offset[p])

\* The places of the updates in the lists
Places(c) == UNION {{p} \X DOMAIN c[p] : p \in PVoices}

LEMMA PlacesFinite ==
  ASSUME NEW c \in [PVoices -> Seq(Updates)]
  PROVE  IsFiniteSet(Places(c))
<1> DEFINE F == [p \in PVoices |-> {p} \X DOMAIN c[p]]
           S == {F[p] : p \in PVoices}
<1>1. IsFiniteSet(PVoices)
  BY SynthesizerAssumption
<1>2. IsFiniteSet(S)
  <2>1. F \in Surjection(PVoices, S)
    BY DEF Surjection
  <2> QED BY <1>1, <2>1, FS_Surjection
<1>3. \A p \in PVoices : IsFiniteSet({p} \X DOMAIN c[p])
  <2> TAKE p \in PVoices
  <2>1. DOMAIN c[p] = 1..Len(c[p]) /\ Len(c[p]) \in Nat
    OBVIOUS
  <2>2. IsFiniteSet(DOMAIN c[p])
    BY <2>1, FS_Interval
  <2>3. IsFiniteSet({p})
    BY FS_Singleton
  <2> QED BY <2>2, <2>3, FS_Product
<1>4. \A T \in S : IsFiniteSet(T)
  BY <1>3
<1>5. Places(c) = UNION S
  BY DEF Places
<1> QED BY <1>2, <1>4, <1>5, FS_UNION

LEMMA PlacesGrow ==
  ASSUME NEW c \in [PVoices -> Seq(Updates)], NEW p \in PVoices, NEW u \in Updates,
         NEW d, d = [c EXCEPT ![p] = Append(c[p], u)]
  PROVE  /\ Cardinality(Places(c)) \in Nat
         /\ Cardinality(Places(d)) = Cardinality(Places(c)) + 1
<1>1. IsFiniteSet(Places(c))
  BY PlacesFinite
<1>2. PICK n \in Nat : n = Len(c[p])
  OBVIOUS
<1>3. PICK k : k = Append(c[p], u)
  OBVIOUS
<1>4. c[p] \in Seq(Updates)
  OBVIOUS
<1>5. k \in Seq(Updates) /\ Len(k) = n + 1
  BY <1>2, <1>3, <1>4, AppendProperties
<1>6. DOMAIN c[p] = 1..n /\ DOMAIN k = 1..(n + 1)
  BY <1>2, <1>4, <1>5
<1>7. d[p] = k /\ \A q \in PVoices : q # p => d[q] = c[q]
  BY <1>3
<1>8. Places(c) = {x \in PVoices \X Int : x[2] \in DOMAIN c[x[1]]}
  <2>1. \A q \in PVoices : DOMAIN c[q] \subseteq Int
    OBVIOUS
  <2> QED BY <2>1 DEF Places
<1>9. Places(d) = {x \in PVoices \X Int : x[2] \in DOMAIN d[x[1]]}
  <2>1. \A q \in PVoices : DOMAIN d[q] \subseteq Int
    <3> SUFFICES ASSUME NEW q \in PVoices PROVE DOMAIN d[q] \subseteq Int
      OBVIOUS
    <3>1. CASE q = p
      BY <1>6, <1>7, <3>1
    <3>2. CASE q # p
      <4>1. DOMAIN c[q] \subseteq Int
        OBVIOUS
      <4> QED BY <1>7, <3>2, <4>1
    <3> QED BY <3>1, <3>2
  <2> QED BY <2>1 DEF Places
<1>10. \A x \in PVoices \X Int :
         x[2] \in DOMAIN d[x[1]] <=> x[2] \in DOMAIN c[x[1]] \/ x = << p, n + 1 >>
  <2> SUFFICES ASSUME NEW q \in PVoices, NEW j \in Int
               PROVE  j \in DOMAIN d[q] <=> j \in DOMAIN c[q] \/ (q = p /\ j = n + 1)
    OBVIOUS
  <2>1. CASE q = p
    <3>1. j \in 1..(n + 1) <=> j \in 1..n \/ j = n + 1
      OBVIOUS
    <3> QED BY <1>6, <1>7, <2>1, <3>1
  <2>2. CASE q # p
    BY <1>7, <2>2
  <2> QED BY <2>1, <2>2
<1>11. << p, n + 1 >> \in PVoices \X Int /\ << p, n + 1 >> \notin Places(c)
  <2>1. n + 1 \notin 1..n
    OBVIOUS
  <2> QED BY <1>6, <1>8, <2>1
<1>12. Places(d) = Places(c) \cup {<< p, n + 1 >>}
  <2> HIDE DEF Places
  <2> QED BY <1>8, <1>9, <1>10, <1>11
<1>13. PICK x : x = << p, n + 1 >>
  OBVIOUS
<1>14. x \notin Places(c) /\ Places(d) = Places(c) \cup {x}
  BY <1>11, <1>12, <1>13
<1> QED BY <1>1, <1>14, FS_AddElement, FS_CardinalityType

LEMMA UsedIsNumber ==
  ASSUME NEW s, IsSynth(s)
  PROVE  Used(s) \in Nat /\ MaxUpdates \in Nat
<1>1. s.ctrl \in [PVoices -> Seq(Updates)]
  BY DEF IsSynth
<1>2. IsFiniteSet(Places(s.ctrl))
  BY <1>1, PlacesFinite
<1> QED BY <1>2, FS_CardinalityType, SynthesizerAssumption DEF Used, Places

NewUpdate(type, at) == [type |-> type, at |-> at]

LEMMA NewUpdates ==
  ASSUME NEW type \in {"start", "stop", "vol", "free"}, NEW at \in Int
  PROVE  /\ NewUpdate(type, at) \in Updates
         /\ NewUpdate(type, at).type = type /\ NewUpdate(type, at).at = at
BY DEF NewUpdate, Updates

\* r is s with the update u of p.
Added(r, s, p, u) ==
  /\ SameLists(r, s) /\ r.vv = s.vv /\ r.pv = s.pv /\ r.offset = s.offset
  /\ r.ctrl = [s.ctrl EXCEPT ![p] = Append(s.ctrl[p], u)]

LEMMA UpdateIsAdded ==
  ASSUME NEW s, IsSynth(s), NEW p \in PVoices, NEW type \in {"start", "stop", "vol", "free"},
         NEW at \in Int, Used(s) < MaxUpdates, NEW r, r = AddUpdate(s, p, type, at),
         NEW v, v = NewUpdate(type, at)
  PROVE  Added(r, s, p, v) /\ IsSynth(r) /\ Used(s) \in Nat /\ Used(r) = Used(s) + 1
<1>1. PICK u \in Updates : u = v /\ u = [type |-> type, at |-> at]
  BY NewUpdates DEF NewUpdate
<1>2. PICK c \in [PVoices -> Seq(Updates)] : c = s.ctrl
  BY DEF IsSynth
<1>3. PICK d : d = [c EXCEPT ![p] = Append(c[p], u)]
  OBVIOUS
<1>4. d \in [PVoices -> Seq(Updates)]
  BY <1>3
<1>5. Cardinality(Places(c)) \in Nat /\ Cardinality(Places(d)) = Cardinality(Places(c)) + 1
  BY <1>3, PlacesGrow
<1>6. Used(s) = Cardinality(Places(c)) /\ Used(s) \in Nat /\ MaxUpdates \in Nat
  BY <1>2, <1>5, SynthesizerAssumption DEF Used, Places
<1>7. r = [s EXCEPT !.ctrl = d]
  BY <1>1, <1>2, <1>3, <1>6 DEF AddUpdate
<1>8. /\ DOMAIN r = DOMAIN s /\ r.ctrl = d
      /\ r.free = s.free /\ r.lame = s.lame /\ r.alloc = s.alloc
      /\ r.pv = s.pv /\ r.vv = s.vv /\ r.offset = s.offset
  BY <1>7 DEF IsSynth
<1>9. IsSynth(r)
  BY <1>4, <1>8 DEF IsSynth
<1>10. Used(r) = Cardinality(Places(d))
  BY <1>8 DEF Used, Places
<1> QED BY <1>1, <1>2, <1>3, <1>5, <1>6, <1>8, <1>9, <1>10 DEF SameLists, Added

LEMMA GoodVoice ==
  ASSUME NEW s, IsSynth(s), NEW b \in Int, Good(s, b), NEW p \in PVoices
  PROVE  /\ s.ctrl[p] \in Seq(Updates) /\ s.offset[p] \in Nat /\ Timed(s.ctrl[p], b + s.offset[p])
         /\ VoiceFits(Owned(s.pv, s.vv, p), Contains(s.alloc, p), s.ctrl[p], s.offset[p], motion[p])
BY DEF IsSynth, Good

\* A voice call changes the updates of p alone, and the notes and the lists so that the
\* other voices stay as they are.
LeavesOthers(s, r, p) ==
  \A q \in PVoices : q # p =>
    /\ Owned(r.pv, r.vv, q) <=> Owned(s.pv, s.vv, q)
    /\ Contains(r.alloc, q) <=> Contains(s.alloc, q)
    /\ r.ctrl[q] = s.ctrl[q] /\ r.offset[q] = s.offset[q]

LEMMA OneVoiceChanges ==
  ASSUME NEW s, IsSynth(s), NEW b \in Int, Good(s, b), NEW r, IsSynth(r), NEW p \in PVoices,
         ListsShare(r.free, r.lame, r.alloc), NotesKnown(r.pv, r.vv, r.alloc),
         LeavesOthers(s, r, p),
         VoiceFits(Owned(r.pv, r.vv, p), Contains(r.alloc, p), r.ctrl[p], r.offset[p], motion[p]),
         Timed(r.ctrl[p], b + r.offset[p])
  PROVE  Good(r, b)
<1>1. ASSUME NEW q \in PVoices, q # p
      PROVE  /\ VoiceFits(Owned(r.pv, r.vv, q), Contains(r.alloc, q), r.ctrl[q], r.offset[q], motion[q])
             /\ Timed(r.ctrl[q], b + r.offset[q])
  <2>1. /\ VoiceFits(Owned(s.pv, s.vv, q), Contains(s.alloc, q), s.ctrl[q], s.offset[q], motion[q])
        /\ Timed(s.ctrl[q], b + s.offset[q])
    BY GoodVoice
  <2> QED BY <1>1, <2>1 DEF VoiceFits, LeavesOthers
<1> QED BY <1>1 DEF Good

Changed(s, r, p, b) ==
  /\ IsSynth(s) /\ Good(s, b) /\ IsSynth(r) /\ p \in PVoices
  /\ ListsShare(r.free, r.lame, r.alloc) /\ NotesKnown(r.pv, r.vv, r.alloc)
  /\ LeavesOthers(s, r, p)
  /\ VoiceFits(Owned(r.pv, r.vv, p), Contains(r.alloc, p), r.ctrl[p], r.offset[p], motion[p])
  /\ Timed(r.ctrl[p], b + r.offset[p])

LEMMA ChangedIsGood ==
  ASSUME NEW s, NEW r, NEW p, NEW b \in Int, Changed(s, r, p, b)
  PROVE  Good(r, b)
BY OneVoiceChanges DEF Changed

\* Voice p is given to note v, which had none.
Gives(pv, vv, pw, vw, v, p) ==
  /\ pv \in [VVoices -> PVoices \cup {NoPV}] /\ vv \in [PVoices -> VVoices \cup {NoVV}]
  /\ v \in VVoices /\ p \in PVoices /\ pv[v] = NoPV
  /\ pw = [pv EXCEPT ![v] = p] /\ vw = [vv EXCEPT ![p] = v]

LEMMA OwnedChanges ==
  ASSUME NEW pv, NEW vv, NEW pw, NEW vw, NEW v, NEW p, Gives(pv, vv, pw, vw, v, p)
  PROVE  /\ Owned(pw, vw, p)
         /\ \A q \in PVoices : q # p => (Owned(pw, vw, q) <=> Owned(pv, vv, q))
<1>1. NoPV \notin PVoices /\ NoVV \notin VVoices
  BY SynthesizerAssumption
<1>2. /\ pv \in [VVoices -> PVoices \cup {NoPV}] /\ vv \in [PVoices -> VVoices \cup {NoVV}]
      /\ v \in VVoices /\ p \in PVoices /\ pv[v] = NoPV
      /\ pw = [pv EXCEPT ![v] = p] /\ vw = [vv EXCEPT ![p] = v]
  BY DEF Gives
<1>3. ASSUME NEW q \in PVoices, q # p PROVE Owned(pw, vw, q) <=> Owned(pv, vv, q)
  <2>1. vw[q] = vv[q] /\ vv[q] \in VVoices \cup {NoVV}
    BY <1>2, <1>3
  <2>2. CASE vv[q] = v
    BY <1>1, <1>2, <1>3, <2>1, <2>2 DEF Owned
  <2>3. CASE vv[q] # v
    BY <1>1, <1>2, <2>1, <2>3 DEF Owned
  <2> QED BY <2>2, <2>3
<1> QED BY <1>1, <1>2, <1>3 DEF Owned

\* A note gets a voice that is in no note's hands, which starts at once.
Freshly(s, r, p, v, u, b) ==
  /\ IsSynth(s) /\ IsSynth(r) /\ Good(s, b)
  /\ p \in PVoices /\ ~Contains(s.alloc, p) /\ v \in VVoices /\ s.pv[v] = NoPV
  /\ ListsShare(r.free, r.lame, r.alloc)
  /\ \A x : Contains(r.alloc, x) <=> x = p \/ Contains(s.alloc, x)
  /\ r.pv = [s.pv EXCEPT ![v] = p] /\ r.vv = [s.vv EXCEPT ![p] = v]
  /\ r.offset = [s.offset EXCEPT ![p] = 0]
  /\ u \in Updates /\ u.type = "start" /\ u.at = b
  /\ r.ctrl = [s.ctrl EXCEPT ![p] = Append(s.ctrl[p], u)]

LEMMA FreshStarts ==
  ASSUME motion \in [PVoices -> BOOLEAN], NEW s, NEW r, NEW p, NEW v, NEW u, NEW b \in Nat,
         Freshly(s, r, p, v, u, b)
  PROVE  Good(r, b)
<1>1. /\ IsSynth(s) /\ IsSynth(r) /\ Good(s, b) /\ p \in PVoices
      /\ ListsShare(r.free, r.lame, r.alloc)
  BY DEF Freshly
<1>2. PICK us \in Seq(Updates) : us = s.ctrl[p]
  BY <1>1, GoodVoice
<1>3. /\ Timed(us, b + s.offset[p]) /\ s.offset[p] \in Nat
      /\ VoiceFits(Owned(s.pv, s.vv, p), Contains(s.alloc, p), us, s.offset[p], motion[p])
  BY <1>1, <1>2, GoodVoice
<1>4. ~Contains(s.alloc, p) /\ Contains(r.alloc, p)
  BY DEF Freshly
<1>5. s.offset[p] = 0 /\ ~HasFree(us) /\ FreeIsLast(us)
  BY <1>3, <1>4 DEF VoiceFits
<1>6. PICK k : k = Append(us, u)
  OBVIOUS
<1>7. u \in Updates /\ u.type = "start" /\ u.at = b
  BY DEF Freshly
<1>8. /\ s.pv \in [VVoices -> PVoices \cup {NoPV}] /\ s.vv \in [PVoices -> VVoices \cup {NoVV}]
      /\ s.offset \in [PVoices -> Nat] /\ s.ctrl \in [PVoices -> Seq(Updates)]
  BY <1>1 DEF IsSynth
<1>9. r.ctrl[p] = k /\ r.offset[p] = 0
  BY <1>1, <1>2, <1>6, <1>8 DEF Freshly
<1>10. PICK m \in BOOLEAN : m = motion[p]
  BY <1>1
<1>11. k \in Seq(Updates) /\ ~HasFree(k) /\ FreeIsLast(k) /\ Timed(k, b)
  <2>1. Timed(us, b)
    BY <1>3, <1>5
  <2>2. k \in Seq(Updates) /\ FreeIsLast(k) /\ Timed(k, b) /\ (HasFree(k) <=> u.type = "free")
    BY <1>5, <1>6, <1>7, <2>1, UpdateAddedFrees
  <2> QED BY <1>7, <2>2
<1>12. Moving(k, m)
  BY <1>6, <1>7, UpdateAddedMoves
<1>13. Gives(s.pv, s.vv, r.pv, r.vv, v, p)
  BY <1>8 DEF Gives, Freshly
<1>14. Owned(r.pv, r.vv, p) /\ \A q \in PVoices : q # p => (Owned(r.pv, r.vv, q) <=> Owned(s.pv, s.vv, q))
  BY <1>13, OwnedChanges
<1>15. VoiceFits(Owned(r.pv, r.vv, p), Contains(r.alloc, p), k, 0, m)
  BY <1>4, <1>11, <1>12, <1>14 DEF VoiceFits
<1>16. NotesKnown(r.pv, r.vv, r.alloc)
  <2> SUFFICES ASSUME NEW w \in VVoices, r.pv[w] # NoPV
               PROVE  r.vv[r.pv[w]] = w /\ Contains(r.alloc, r.pv[w])
    BY DEF NotesKnown
  <2>1. /\ r.pv = [s.pv EXCEPT ![v] = p] /\ r.vv = [s.vv EXCEPT ![p] = v] /\ v \in VVoices
        /\ \A x : Contains(s.alloc, x) => Contains(r.alloc, x)
    BY DEF Freshly
  <2>2. CASE w = v
    BY <1>1, <1>4, <1>8, <2>1, <2>2
  <2>3. CASE w # v
    <3>1. r.pv[w] = s.pv[w] /\ s.pv[w] \in PVoices
      BY <1>8, <2>1, <2>3
    <3>2. s.vv[s.pv[w]] = w /\ Contains(s.alloc, s.pv[w])
      BY <1>1, <3>1 DEF Good, NotesKnown
    <3>3. s.pv[w] # p
      BY <1>4, <3>2
    <3> QED BY <1>8, <2>1, <3>1, <3>2, <3>3
  <2> QED BY <2>2, <2>3
<1>17. \A q \in PVoices : q # p => /\ Contains(r.alloc, q) <=> Contains(s.alloc, q)
                                   /\ r.ctrl[q] = s.ctrl[q] /\ r.offset[q] = s.offset[q]
  BY <1>8 DEF Freshly
<1>18. LeavesOthers(s, r, p)
  BY <1>14, <1>17 DEF LeavesOthers
<1>19. /\ VoiceFits(Owned(r.pv, r.vv, p), Contains(r.alloc, p), r.ctrl[p], r.offset[p], motion[p])
       /\ Timed(r.ctrl[p], b + r.offset[p])
  <2>1. b + 0 = b
    OBVIOUS
  <2> QED BY <1>9, <1>10, <1>11, <1>15, <2>1
<1> QED BY <1>1, <1>16, <1>18, <1>19, OneVoiceChanges

\* A voice is stolen: its note fades until the voice starts with the new one.
Steals(s, r, p, v, w, u1, u2, u3, b) ==
  /\ IsSynth(s) /\ IsSynth(r) /\ Good(s, b) /\ SameLists(r, s)
  /\ p \in PVoices /\ Contains(s.alloc, p) /\ s.offset[p] = 0
  /\ v \in VVoices /\ s.pv[v] = NoPV /\ w \in VVoices /\ w = s.vv[p]
  /\ r.pv = [[s.pv EXCEPT ![w] = NoPV] EXCEPT ![v] = p] /\ r.vv = [s.vv EXCEPT ![p] = v]
  /\ r.offset = [s.offset EXCEPT ![p] = Offset]
  /\ u1 \in Updates /\ u1.type = "vol" /\ u1.at = b
  /\ u2 \in Updates /\ u2.type = "stop" /\ u2.at = b + Offset
  /\ u3 \in Updates /\ u3.type = "start" /\ u3.at = b + Offset
  /\ r.ctrl = [s.ctrl EXCEPT ![p] = Append(Append(Append(s.ctrl[p], u1), u2), u3)]

LEMMA StolenStarts ==
  ASSUME motion \in [PVoices -> BOOLEAN], NEW s, NEW r, NEW p, NEW v, NEW w,
         NEW u1, NEW u2, NEW u3, NEW b \in Nat, Steals(s, r, p, v, w, u1, u2, u3, b)
  PROVE  Good(r, b)
<1>1. /\ IsSynth(s) /\ IsSynth(r) /\ Good(s, b) /\ p \in PVoices /\ SameLists(r, s)
      /\ Contains(s.alloc, p) /\ s.offset[p] = 0
  BY DEF Steals
<1>2. PICK us \in Seq(Updates) : us = s.ctrl[p]
  BY <1>1, GoodVoice
<1>3. /\ Timed(us, b + s.offset[p])
      /\ VoiceFits(Owned(s.pv, s.vv, p), Contains(s.alloc, p), us, s.offset[p], motion[p])
  <2>1. IsSynth(s) /\ Good(s, b) /\ p \in PVoices
    BY <1>1
  <2> QED BY <1>2, <2>1, GoodVoice
<1>4. ~HasFree(us) /\ FreeIsLast(us) /\ Owned(s.pv, s.vv, p) /\ Timed(us, b)
  BY <1>1, <1>3 DEF VoiceFits
<1>5. /\ s.pv \in [VVoices -> PVoices \cup {NoPV}] /\ s.vv \in [PVoices -> VVoices \cup {NoVV}]
      /\ s.offset \in [PVoices -> Nat] /\ s.ctrl \in [PVoices -> Seq(Updates)]
  BY <1>1 DEF IsSynth
<1>6. PICK c \in Nat : c = b + Offset /\ b <= c
  BY SynthesizerAssumption
<1>7. /\ u1 \in Updates /\ u1.type = "vol" /\ u1.at = b
      /\ u2 \in Updates /\ u2.type = "stop" /\ u2.at = c
      /\ u3 \in Updates /\ u3.type = "start" /\ u3.at = c
  BY <1>6 DEF Steals
<1>8. PICK k1 : k1 = Append(us, u1)
  OBVIOUS
<1>9. PICK k2 : k2 = Append(k1, u2)
  OBVIOUS
<1>10. PICK k3 : k3 = Append(k2, u3)
  OBVIOUS
<1>11. k1 \in Seq(Updates) /\ ~HasFree(k1) /\ FreeIsLast(k1) /\ Timed(k1, b)
  <2>1. k1 \in Seq(Updates) /\ (HasFree(k1) <=> u1.type = "free") /\ FreeIsLast(k1) /\ Timed(k1, b)
    BY <1>4, <1>7, <1>8, UpdateAddedFrees
  <2> QED BY <1>7, <2>1
<1>12. k2 \in Seq(Updates) /\ ~HasFree(k2) /\ FreeIsLast(k2) /\ Timed(k2, c)
  <2>1. Timed(k1, c)
    BY <1>6, <1>11, TimedLonger
  <2>2. k2 \in Seq(Updates) /\ (HasFree(k2) <=> u2.type = "free") /\ FreeIsLast(k2) /\ Timed(k2, c)
    BY <1>7, <1>9, <1>11, <2>1, UpdateAddedFrees
  <2> QED BY <1>7, <2>2
<1>13. k3 \in Seq(Updates) /\ ~HasFree(k3) /\ FreeIsLast(k3) /\ Timed(k3, c)
  <2>1. k3 \in Seq(Updates) /\ (HasFree(k3) <=> u3.type = "free") /\ FreeIsLast(k3) /\ Timed(k3, c)
    BY <1>7, <1>10, <1>12, UpdateAddedFrees
  <2> QED BY <1>7, <2>1
<1>14. PICK m \in BOOLEAN : m = motion[p]
  BY <1>1
<1>15. Moving(k3, m)
  <2>1. k2 \in Seq(Updates) /\ u3 \in Updates /\ u3.type = "start"
    BY <1>7, <1>12
  <2> QED BY <1>10, <2>1, UpdateAddedMoves
<1>16. Offset # 0 /\ Offset \in Nat
  BY SynthesizerAssumption
<1>17. r.ctrl[p] = k3 /\ r.offset[p] = Offset
  BY <1>1, <1>2, <1>5, <1>8, <1>9, <1>10 DEF Steals
<1>18. NoPV \notin PVoices /\ NoVV \notin VVoices
  BY SynthesizerAssumption
<1>19. /\ v \in VVoices /\ w \in VVoices /\ w = s.vv[p] /\ s.pv[v] = NoPV
       /\ r.pv = [[s.pv EXCEPT ![w] = NoPV] EXCEPT ![v] = p] /\ r.vv = [s.vv EXCEPT ![p] = v]
  BY DEF Steals
<1>20. PICK pw \in [VVoices -> PVoices \cup {NoPV}] : pw = [s.pv EXCEPT ![w] = NoPV]
  BY <1>5
<1>21. s.pv[w] = p /\ w # v
  BY <1>1, <1>4, <1>18, <1>19 DEF Owned
<1>22. pw[v] = NoPV /\ \A x \in VVoices : x # w => pw[x] = s.pv[x]
  BY <1>5, <1>19, <1>20
<1>23. r.pv = [pw EXCEPT ![v] = p]
  BY <1>19, <1>20
<1>24. Gives(pw, s.vv, r.pv, r.vv, v, p)
  BY <1>1, <1>5, <1>19, <1>22, <1>23 DEF Gives
<1>25. Owned(r.pv, r.vv, p) /\ \A q \in PVoices : q # p => (Owned(r.pv, r.vv, q) <=> Owned(pw, s.vv, q))
  BY <1>24, OwnedChanges
<1>26. ASSUME NEW q \in PVoices, q # p PROVE Owned(pw, s.vv, q) <=> Owned(s.pv, s.vv, q)
  <2>1. s.vv[q] \in VVoices \cup {NoVV}
    BY <1>5
  <2>2. CASE s.vv[q] = w
    <3>1. pw[s.vv[q]] = NoPV
      BY <1>5, <1>19, <1>20, <2>2
    <3> QED BY <1>18, <1>21, <1>26, <2>2, <3>1 DEF Owned
  <2>3. CASE s.vv[q] # w
    BY <1>22, <2>1, <2>3 DEF Owned
  <2> QED BY <2>2, <2>3
<1>27. Contains(r.alloc, p) /\ \A q \in PVoices : Contains(r.alloc, q) <=> Contains(s.alloc, q)
  BY <1>1 DEF SameLists
<1>28. VoiceFits(Owned(r.pv, r.vv, p), Contains(r.alloc, p), k3, Offset, m)
  BY <1>13, <1>15, <1>16, <1>25, <1>27 DEF VoiceFits
<1>29. /\ VoiceFits(Owned(r.pv, r.vv, p), Contains(r.alloc, p), r.ctrl[p], r.offset[p], motion[p])
       /\ Timed(r.ctrl[p], b + r.offset[p])
  BY <1>6, <1>13, <1>14, <1>17, <1>28
<1>30. NotesKnown(r.pv, r.vv, r.alloc)
  <2> SUFFICES ASSUME NEW x \in VVoices, r.pv[x] # NoPV
               PROVE  r.vv[r.pv[x]] = x /\ Contains(r.alloc, r.pv[x])
    BY DEF NotesKnown
  <2>1. CASE x = v
    BY <1>1, <1>5, <1>19, <1>23, <1>27, <2>1
  <2>2. CASE x # v
    <3>1. r.pv[x] = pw[x]
      BY <1>20, <1>23, <2>2
    <3>2. x # w
      <4>1. pw[w] = NoPV
        BY <1>5, <1>19, <1>20
      <4> QED BY <3>1, <4>1
    <3>3. r.pv[x] = s.pv[x] /\ s.pv[x] \in PVoices
      BY <1>5, <1>22, <3>1, <3>2
    <3>4. s.vv[s.pv[x]] = x /\ Contains(s.alloc, s.pv[x])
      BY <1>1, <3>3 DEF Good, NotesKnown
    <3>5. s.pv[x] # p
      BY <1>19, <3>2, <3>4
    <3> QED BY <1>5, <1>19, <1>27, <3>3, <3>4, <3>5
  <2> QED BY <2>1, <2>2
<1>31. ListsShare(r.free, r.lame, r.alloc)
  BY <1>1 DEF Good, SameLists
<1>32. \A q \in PVoices : q # p => r.ctrl[q] = s.ctrl[q] /\ r.offset[q] = s.offset[q]
  BY <1>5 DEF Steals
<1>33. LeavesOthers(s, r, p)
  BY <1>25, <1>26, <1>27, <1>32 DEF LeavesOthers
<1> QED BY <1>1, <1>29, <1>30, <1>31, <1>33, OneVoiceChanges

\* A note ends: its voice stops, and is freed when it has fallen silent.
Ends(s, r, p, v) ==
  /\ IsSynth(s) /\ IsSynth(r) /\ p \in PVoices /\ v \in VVoices /\ s.pv[v] = p
  /\ r.pv = [s.pv EXCEPT ![v] = NoPV] /\ r.vv = s.vv /\ r.offset = s.offset

LEMMA NoteIsGone ==
  ASSUME NEW s, NEW r, NEW p, NEW v, Ends(s, r, p, v), NEW b, Good(s, b)
  PROVE  /\ Owned(s.pv, s.vv, p) /\ Contains(s.alloc, p) /\ ~Owned(r.pv, r.vv, p)
         /\ \A q \in PVoices : q # p => (Owned(r.pv, r.vv, q) <=> Owned(s.pv, s.vv, q))
         /\ (\A q \in PVoices : q # p /\ Contains(s.alloc, q) => Contains(r.alloc, q))
              => NotesKnown(r.pv, r.vv, r.alloc)
<1>1. /\ s.pv \in [VVoices -> PVoices \cup {NoPV}] /\ s.vv \in [PVoices -> VVoices \cup {NoVV}]
      /\ p \in PVoices /\ v \in VVoices /\ s.pv[v] = p
      /\ r.pv = [s.pv EXCEPT ![v] = NoPV] /\ r.vv = s.vv
  BY DEF Ends, IsSynth
<1>2. NoPV \notin PVoices /\ NoVV \notin VVoices
  BY SynthesizerAssumption
<1>3. NotesKnown(s.pv, s.vv, s.alloc)
  BY DEF Good
<1>4. s.vv[p] = v /\ Contains(s.alloc, p)
  BY <1>1, <1>2, <1>3 DEF NotesKnown
<1>5. Owned(s.pv, s.vv, p) /\ ~Owned(r.pv, r.vv, p)
  BY <1>1, <1>2, <1>4 DEF Owned
<1>6. ASSUME NEW q \in PVoices, q # p PROVE Owned(r.pv, r.vv, q) <=> Owned(s.pv, s.vv, q)
  <2>1. r.vv[q] = s.vv[q] /\ s.vv[q] \in VVoices \cup {NoVV}
    BY <1>1
  <2>2. CASE s.vv[q] = v
    BY <1>1, <1>2, <1>6, <2>1, <2>2 DEF Owned
  <2>3. CASE s.vv[q] # v
    BY <1>1, <2>1, <2>3 DEF Owned
  <2> QED BY <2>2, <2>3
<1>7. ASSUME \A q \in PVoices : q # p /\ Contains(s.alloc, q) => Contains(r.alloc, q),
             NEW w \in VVoices, r.pv[w] # NoPV
      PROVE  r.vv[r.pv[w]] = w /\ Contains(r.alloc, r.pv[w])
  <2>1. w # v /\ r.pv[w] = s.pv[w] /\ s.pv[w] \in PVoices
    BY <1>1, <1>7
  <2>2. s.vv[s.pv[w]] = w /\ Contains(s.alloc, s.pv[w])
    BY <1>2, <1>3, <2>1 DEF NotesKnown
  <2>3. s.pv[w] # p
    BY <1>4, <2>1, <2>2
  <2> QED BY <1>1, <1>7, <2>1, <2>2, <2>3
<1> QED BY <1>4, <1>5, <1>6, <1>7 DEF NotesKnown

Fades(s, r, p, v, b, c, u1, u2) ==
  /\ Ends(s, r, p, v) /\ b \in Nat /\ Good(s, b) /\ SameLists(r, s)
  /\ s.offset[p] # 0 /\ c = b + s.offset[p]
  /\ u1 \in Updates /\ u1.type = "stop" /\ u1.at = c
  /\ u2 \in Updates /\ u2.type = "free" /\ u2.at = c
  /\ r.ctrl = [s.ctrl EXCEPT ![p] = Append(Append(s.ctrl[p], u1), u2)]

LEMMA NoteFades ==
  ASSUME motion \in [PVoices -> BOOLEAN], NEW s, NEW r, NEW p, NEW v, NEW b, NEW c, NEW u1, NEW u2,
         Fades(s, r, p, v, b, c, u1, u2)
  PROVE  Good(r, b)
<1> USE DEF Fades
<1>1. IsSynth(s) /\ IsSynth(r) /\ p \in PVoices /\ r.offset = s.offset
  BY DEF Ends
<1>2. PICK us \in Seq(Updates) : us = s.ctrl[p]
  BY <1>1, GoodVoice
<1>3. /\ Timed(us, c) /\ c \in Nat
      /\ VoiceFits(Owned(s.pv, s.vv, p), Contains(s.alloc, p), us, s.offset[p], motion[p])
  <2>1. /\ Timed(us, b + s.offset[p]) /\ s.offset[p] \in Nat
        /\ VoiceFits(Owned(s.pv, s.vv, p), Contains(s.alloc, p), us, s.offset[p], motion[p])
    BY <1>1, <1>2, GoodVoice
  <2> QED BY <2>1
<1>4. /\ Owned(s.pv, s.vv, p) /\ Contains(s.alloc, p) /\ ~Owned(r.pv, r.vv, p)
      /\ \A q \in PVoices : q # p => (Owned(r.pv, r.vv, q) <=> Owned(s.pv, s.vv, q))
      /\ NotesKnown(r.pv, r.vv, r.alloc)
  <2>1. \A q \in PVoices : q # p /\ Contains(s.alloc, q) => Contains(r.alloc, q)
    BY DEF SameLists
  <2> QED BY <2>1, NoteIsGone
<1>5. ~HasFree(us) /\ FreeIsLast(us)
  BY <1>3, <1>4 DEF VoiceFits
<1>6. PICK k1 : k1 = Append(us, u1)
  OBVIOUS
<1>7. PICK k2 : k2 = Append(k1, u2)
  OBVIOUS
<1>8. k1 \in Seq(Updates) /\ (HasFree(k1) <=> u1.type = "free") /\ FreeIsLast(k1) /\ Timed(k1, c)
  BY <1>3, <1>5, <1>6, UpdateAddedFrees
<1>9. ~HasFree(k1)
  BY <1>8
<1>10. k2 \in Seq(Updates) /\ (HasFree(k2) <=> u2.type = "free") /\ FreeIsLast(k2) /\ Timed(k2, c)
  BY <1>3, <1>7, <1>8, <1>9, UpdateAddedFrees
<1>11. PICK m \in BOOLEAN : m = motion[p]
  BY <1>1
<1>12. ~Moving(k1, m)
  BY <1>6, UpdateAddedMoves
<1>13. ~Moving(k2, m)
  <2>1. u2.type \notin {"start", "stop"}
    OBVIOUS
  <2>2. k1 \in Seq(Updates)
    BY <1>8
  <2>3. Moving(k2, m) <=> Moving(k1, m)
    BY <1>7, <2>1, <2>2, UpdateAddedKeeps
  <2> QED BY <1>12, <2>3
<1>14. r.ctrl[p] = k2 /\ \A q \in PVoices : q # p => r.ctrl[q] = s.ctrl[q]
  BY <1>1, <1>2, <1>6, <1>7 DEF IsSynth
<1>15. HasFree(k2)
  BY <1>10
<1>16. VoiceFits(Owned(r.pv, r.vv, p), Contains(r.alloc, p), k2, s.offset[p], m)
  BY <1>4, <1>10, <1>13, <1>15 DEF VoiceFits, SameLists
<1>17. LeavesOthers(s, r, p)
  BY <1>1, <1>4, <1>14 DEF LeavesOthers, SameLists
<1>18. ListsShare(r.free, r.lame, r.alloc)
  BY DEF Good, SameLists
<1>19. /\ VoiceFits(Owned(r.pv, r.vv, p), Contains(r.alloc, p), r.ctrl[p], r.offset[p], motion[p])
       /\ Timed(r.ctrl[p], b + r.offset[p])
  BY <1>1, <1>10, <1>11, <1>14, <1>16
<1>20. Changed(s, r, p, b)
  BY <1>1, <1>4, <1>17, <1>18, <1>19 DEF Changed
<1> QED BY <1>20, ChangedIsGood

Frees(s, r, p, v, b, u) ==
  /\ Ends(s, r, p, v) /\ b \in Nat /\ Good(s, b) /\ s.offset[p] = 0
  /\ ListsShare(r.free, r.lame, r.alloc)
  /\ \A x : Contains(r.alloc, x) <=> Contains(s.alloc, x) /\ x # p
  /\ u \in Updates /\ u.type = "stop" /\ u.at = b
  /\ r.ctrl = [s.ctrl EXCEPT ![p] = Append(s.ctrl[p], u)]

LEMMA NoteFrees ==
  ASSUME motion \in [PVoices -> BOOLEAN], NEW s, NEW r, NEW p, NEW v, NEW b, NEW u,
         Frees(s, r, p, v, b, u)
  PROVE  Good(r, b)
<1> USE DEF Frees
<1>1. IsSynth(s) /\ IsSynth(r) /\ p \in PVoices /\ r.offset = s.offset
  BY DEF Ends
<1>2. PICK us \in Seq(Updates) : us = s.ctrl[p]
  BY <1>1, GoodVoice
<1>3. /\ Timed(us, b)
      /\ VoiceFits(Owned(s.pv, s.vv, p), Contains(s.alloc, p), us, s.offset[p], motion[p])
  <2>1. /\ Timed(us, b + s.offset[p])
        /\ VoiceFits(Owned(s.pv, s.vv, p), Contains(s.alloc, p), us, s.offset[p], motion[p])
    BY <1>1, <1>2, GoodVoice
  <2>2. b + s.offset[p] = b
    OBVIOUS
  <2> QED BY <2>1, <2>2
<1>4. /\ Owned(s.pv, s.vv, p) /\ Contains(s.alloc, p) /\ ~Owned(r.pv, r.vv, p)
      /\ \A q \in PVoices : q # p => (Owned(r.pv, r.vv, q) <=> Owned(s.pv, s.vv, q))
      /\ NotesKnown(r.pv, r.vv, r.alloc)
  BY NoteIsGone
<1>5. ~HasFree(us) /\ FreeIsLast(us)
  BY <1>3, <1>4 DEF VoiceFits
<1>6. PICK k : k = Append(us, u)
  OBVIOUS
<1>7. k \in Seq(Updates) /\ (HasFree(k) <=> u.type = "free") /\ FreeIsLast(k) /\ Timed(k, b)
  BY <1>3, <1>5, <1>6, UpdateAddedFrees
<1>8. ~HasFree(k)
  BY <1>7
<1>9. PICK m \in BOOLEAN : m = motion[p]
  BY <1>1
<1>10. ~Moving(k, m)
  BY <1>6, UpdateAddedMoves
<1>11. r.ctrl[p] = k /\ \A q \in PVoices : q # p => r.ctrl[q] = s.ctrl[q]
  BY <1>1, <1>2, <1>6 DEF IsSynth
<1>12. ~Contains(r.alloc, p)
  OBVIOUS
<1>13. VoiceFits(Owned(r.pv, r.vv, p), Contains(r.alloc, p), k, 0, m)
  BY <1>4, <1>7, <1>8, <1>10, <1>12 DEF VoiceFits
<1>14. LeavesOthers(s, r, p)
  BY <1>1, <1>4, <1>11 DEF LeavesOthers
<1>15. r.offset[p] = 0 /\ b + 0 = b
  BY <1>1
<1>16. /\ VoiceFits(Owned(r.pv, r.vv, p), Contains(r.alloc, p), r.ctrl[p], r.offset[p], motion[p])
       /\ Timed(r.ctrl[p], b + r.offset[p])
  BY <1>7, <1>9, <1>11, <1>13, <1>15
<1>20. Changed(s, r, p, b)
  BY <1>1, <1>4, <1>14, <1>16 DEF Changed
<1> QED BY <1>20, ChangedIsGood

Louder(s, r, p, v, b, u) ==
  /\ IsSynth(s) /\ IsSynth(r) /\ b \in Nat /\ Good(s, b)
  /\ p \in PVoices /\ v \in VVoices /\ s.pv[v] = p
  /\ SameLists(r, s) /\ r.pv = s.pv /\ r.vv = s.vv /\ r.offset = s.offset
  /\ u \in Updates /\ u.type = "vol" /\ u.at = b + s.offset[p]
  /\ r.ctrl = [s.ctrl EXCEPT ![p] = Append(s.ctrl[p], u)]

LEMMA NoteIsLouder ==
  ASSUME motion \in [PVoices -> BOOLEAN], NEW s, NEW r, NEW p, NEW v, NEW b, NEW u,
         Louder(s, r, p, v, b, u)
  PROVE  Good(r, b)
<1> USE DEF Louder
<1>1. PICK us \in Seq(Updates) : us = s.ctrl[p]
  BY GoodVoice
<1>2. PICK c \in Nat : c = b + s.offset[p]
  BY GoodVoice
<1>3. /\ Timed(us, c)
      /\ VoiceFits(Owned(s.pv, s.vv, p), Contains(s.alloc, p), us, s.offset[p], motion[p])
  BY <1>1, <1>2, GoodVoice
<1>4. Owned(s.pv, s.vv, p) /\ Contains(s.alloc, p)
  BY SynthesizerAssumption DEF Good, NotesKnown, Owned
<1>5. ~HasFree(us) /\ FreeIsLast(us)
  BY <1>3, <1>4 DEF VoiceFits
<1>6. PICK k : k = Append(us, u)
  OBVIOUS
<1>7. k \in Seq(Updates) /\ (HasFree(k) <=> u.type = "free") /\ FreeIsLast(k) /\ Timed(k, c)
  BY <1>2, <1>3, <1>5, <1>6, UpdateAddedFrees
<1>8. ~HasFree(k)
  BY <1>7
<1>9. PICK m \in BOOLEAN : m = motion[p]
  OBVIOUS
<1>10. Moving(k, m) <=> Moving(us, m)
  BY <1>6, UpdateAddedMoves
<1>11. r.ctrl[p] = k /\ \A q \in PVoices : q # p => r.ctrl[q] = s.ctrl[q]
  BY <1>1, <1>6 DEF IsSynth
<1>12. VoiceFits(Owned(r.pv, r.vv, p), Contains(r.alloc, p), k, s.offset[p], m)
  <2>1. VoiceFits(Owned(s.pv, s.vv, p), Contains(s.alloc, p), us, s.offset[p], m)
    BY <1>3, <1>9
  <2> QED BY <1>4, <1>5, <1>7, <1>8, <1>10, <2>1 DEF VoiceFits, SameLists
<1>13. LeavesOthers(s, r, p)
  BY <1>11 DEF LeavesOthers, SameLists
<1>14. ListsShare(r.free, r.lame, r.alloc) /\ NotesKnown(r.pv, r.vv, r.alloc)
  BY DEF Good, SameLists
<1>15. /\ VoiceFits(Owned(r.pv, r.vv, p), Contains(r.alloc, p), r.ctrl[p], r.offset[p], motion[p])
       /\ Timed(r.ctrl[p], b + r.offset[p])
  BY <1>2, <1>7, <1>9, <1>11, <1>12
<1>20. Changed(s, r, p, b)
  BY <1>13, <1>14, <1>15 DEF Changed
<1> QED BY <1>20, ChangedIsGood

------------------------------------------------------------------------------
(* A note starts, ends or changes. *)

\* The head p of a list goes to the head of pAllocList.
TakesHead(lame, alloc, p, rest, more) ==
  lame # << >> /\ p = Head(lame) /\ rest = Tail(lame) /\ more = << p >> \o alloc

LEMMA HeadMoves ==
  ASSUME NEW free, NEW lame, NEW alloc, ListsShare(free, lame, alloc),
         NEW p, NEW rest, NEW more, TakesHead(lame, alloc, p, rest, more)
  PROVE  /\ p \in PVoices /\ ~Contains(alloc, p) /\ ListsShare(free, rest, more)
         /\ \A x : Contains(more, x) <=> x = p \/ Contains(alloc, x)
<1>1. /\ IsList(free, PVoices) /\ IsList(lame, PVoices) /\ IsList(alloc, PVoices)
      /\ \A x \in PVoices :
           /\ Contains(free, x) \/ Contains(lame, x) \/ Contains(alloc, x)
           /\ ~(Contains(free, x) /\ Contains(lame, x))
           /\ ~(Contains(free, x) /\ Contains(alloc, x))
           /\ ~(Contains(lame, x) /\ Contains(alloc, x))
  BY DEF ListsShare
<1>2. PICK t : t = Tail(lame)
  OBVIOUS
<1>3. /\ p \in PVoices /\ Contains(lame, p) /\ IsList(t, PVoices)
      /\ \A x : Contains(t, x) <=> Contains(lame, x) /\ x # p
  <2>1. IsList(lame, PVoices) /\ lame # << >> /\ p = Head(lame)
    BY <1>1 DEF TakesHead
  <2> QED BY <1>2, <2>1, TailList
<1>4. ~Contains(alloc, p)
  BY <1>1, <1>3
<1>5. PICK one : one = << p >>
  OBVIOUS
<1>6. IsList(one, PVoices) /\ \A y : Contains(one, y) <=> y = p
  BY <1>3, <1>5, OneList
<1>7. IsList(more, PVoices) /\ \A x : Contains(more, x) <=> Contains(one, x) \/ Contains(alloc, x)
  <2>1. \A x : ~(Contains(one, x) /\ Contains(alloc, x))
    BY <1>4, <1>6
  <2>2. more = one \o alloc
    BY <1>5 DEF TakesHead
  <2>3. IsList(one, PVoices) /\ IsList(alloc, PVoices)
    BY <1>1, <1>6
  <2> QED BY <2>1, <2>2, <2>3, ListsJoined
<1>8. ListsShare(free, t, more)
  BY <1>1, <1>3, <1>6, <1>7 DEF ListsShare
<1>9. t = rest
  BY <1>2 DEF TakesHead
<1> QED BY <1>3, <1>4, <1>6, <1>7, <1>8, <1>9

LEMMA ListsSwap ==
  ASSUME NEW free, NEW lame, NEW alloc, ListsShare(free, lame, alloc)
  PROVE  ListsShare(lame, free, alloc)
BY DEF ListsShare

\* Voice p goes from pAllocList to the head of pLameList.
FreesOne(lame, alloc, p, more, less) ==
  more = << p >> \o lame /\ less = Unlinked(alloc, {p})

LEMMA OneFreed ==
  ASSUME NEW free, NEW lame, NEW alloc, ListsShare(free, lame, alloc),
         NEW p \in PVoices, Contains(alloc, p), NEW more, NEW less, FreesOne(lame, alloc, p, more, less)
  PROVE  ListsShare(free, more, less) /\ \A x : Contains(less, x) <=> Contains(alloc, x) /\ x # p
<1>1. /\ IsList(free, PVoices) /\ IsList(lame, PVoices) /\ IsList(alloc, PVoices)
      /\ \A x \in PVoices :
           /\ Contains(free, x) \/ Contains(lame, x) \/ Contains(alloc, x)
           /\ ~(Contains(free, x) /\ Contains(lame, x))
           /\ ~(Contains(free, x) /\ Contains(alloc, x))
           /\ ~(Contains(lame, x) /\ Contains(alloc, x))
  BY DEF ListsShare
<1>2. IsList(less, PVoices) /\ \A x : Contains(less, x) <=> Contains(alloc, x) /\ x # p
  <2>1. PICK gone : gone = {p}
    OBVIOUS
  <2>2. less = Unlinked(alloc, gone)
    BY <2>1 DEF FreesOne
  <2>3. IsList(less, PVoices) /\ \A x : Contains(less, x) <=> Contains(alloc, x) /\ x \notin gone
    <3>1. IsList(alloc, PVoices)
      BY <1>1
    <3> QED BY <2>2, <3>1, ListLeft
  <2> QED BY <2>1, <2>3
<1>3. PICK one : one = << p >>
  OBVIOUS
<1>4. IsList(one, PVoices) /\ \A y : Contains(one, y) <=> y = p
  BY <1>3, OneList
<1>5. IsList(more, PVoices) /\ \A x : Contains(more, x) <=> Contains(one, x) \/ Contains(lame, x)
  <2>1. \A x : ~(Contains(one, x) /\ Contains(lame, x))
    BY <1>1, <1>4
  <2>2. more = one \o lame
    BY <1>3 DEF FreesOne
  <2>3. IsList(one, PVoices) /\ IsList(lame, PVoices)
    BY <1>1, <1>4
  <2> QED BY <2>1, <2>2, <2>3, ListsJoined
<1> QED BY <1>1, <1>2, <1>4, <1>5 DEF ListsShare

LEMMA VictimIsSound ==
  ASSUME NEW s, IsSynth(s), NEW b \in Int, Good(s, b), NEW n \in Int, NEW p, p = Victim(s, n), p # NoPV
  PROVE  p \in PVoices /\ Contains(s.alloc, p) /\ s.offset[p] = 0
<1> DEFINE rank(i) == Priority[Plays[s.vv[s.alloc[i]]]]
           open    == {i \in 1..Len(s.alloc) : rank(i) <= n /\ s.offset[s.alloc[i]] = 0}
           lowest  == {i \in open : \A j \in open : rank(i) <= rank(j)}
           r       == [i \in open |-> rank(i)]
<1>1. open # {} /\ p = s.alloc[Max(lowest)]
  BY DEF Victim
<1>2. IsList(s.alloc, PVoices)
  BY DEF Good, ListsShare
<1>3. PICK k \in Nat : k = Len(s.alloc)
  BY <1>2 DEF IsList
<1>4. ASSUME NEW i \in open
      PROVE  /\ s.alloc[i] \in PVoices /\ Contains(s.alloc, s.alloc[i]) /\ s.offset[s.alloc[i]] = 0
             /\ rank(i) \in Int
  <2>1. i \in 1..Len(s.alloc) /\ s.offset[s.alloc[i]] = 0
    OBVIOUS
  <2>2. PICK q : q = s.alloc[i]
    OBVIOUS
  <2>3. q \in PVoices /\ Contains(s.alloc, q)
    BY <1>2, <2>1, <2>2, ElementOfSeq DEF IsList, Contains
  <2>4. VoiceFits(Owned(s.pv, s.vv, q), Contains(s.alloc, q), s.ctrl[q], s.offset[q], motion[q])
    BY <2>3, GoodVoice
  <2>5. Owned(s.pv, s.vv, q)
    BY <2>1, <2>2, <2>3, <2>4 DEF VoiceFits
  <2>6. s.vv[q] \in VVoices
    BY <2>3, <2>5 DEF Owned, IsSynth
  <2>7. Priority[Plays[s.vv[q]]] \in Int
    BY <2>6, SynthesizerAssumption
  <2> QED BY <2>1, <2>2, <2>3, <2>7
<1>5. open \in SUBSET (1..k) /\ lowest \subseteq open
  BY <1>3
<1>6. r \in [open -> Int] /\ \A i \in open : r[i] = rank(i)
  BY <1>4
<1>7. lowest # {}
  <2> HIDE DEF open
  <2>1. PICK i \in open : \A j \in open : r[i] <= r[j]
    <3> HIDE DEF r
    <3> QED BY <1>1, <1>3, <1>5, <1>6, LeastRanked
  <2> QED BY <2>1
<1>8. Max(lowest) \in lowest
  <2> HIDE DEF lowest, open
  <2>1. lowest \in SUBSET (0..k)
    BY <1>5
  <2> QED BY <1>7, <2>1, MaxIsLast
<1> HIDE DEF lowest, open
<1>9. Max(lowest) \in open
  BY <1>5, <1>8
<1> QED BY <1>1, <1>4, <1>9

SynthNames == {"free", "lame", "alloc", "pv", "vv", "offset", "ctrl"}

LameTaken(s) == [s EXCEPT !.lame = Tail(@)]
FreeTaken(s) == [s EXCEPT !.free = Tail(@)]
ListedFirst(s, p) == [s EXCEPT !.alloc = << p >> \o @, !.offset[p] = 0]
GivenTo(s, p, v) == [s EXCEPT !.vv[p] = v, !.pv[v] = p]
TakenFrom(s, p) == [s EXCEPT !.offset[p] = Offset, !.pv[s.vv[p]] = NoPV]

\* What AllocVoice makes of s with a voice from a list
LEMMA HeadTaken ==
  ASSUME NEW s, IsSynth(s)
  PROVE  /\ IsSynth(LameTaken(s)) /\ LameTaken(s).lame = Tail(s.lame) /\ LameTaken(s).free = s.free
         /\ IsSynth(FreeTaken(s)) /\ FreeTaken(s).free = Tail(s.free) /\ FreeTaken(s).lame = s.lame
         /\ \A t \in {LameTaken(s), FreeTaken(s)} :
              t.alloc = s.alloc /\ t.pv = s.pv /\ t.vv = s.vv /\ t.offset = s.offset /\ t.ctrl = s.ctrl
<1>1. DOMAIN s = SynthNames
  BY DEF IsSynth, SynthNames
<1>2. PICK t : t = LameTaken(s)
  OBVIOUS
<1>3. /\ DOMAIN t = SynthNames /\ t.lame = Tail(s.lame) /\ t.free = s.free
      /\ t.alloc = s.alloc /\ t.pv = s.pv /\ t.vv = s.vv /\ t.offset = s.offset /\ t.ctrl = s.ctrl
  BY <1>1, <1>2 DEF LameTaken, SynthNames
<1>4. PICK u : u = FreeTaken(s)
  OBVIOUS
<1>5. /\ DOMAIN u = SynthNames /\ u.lame = s.lame /\ u.free = Tail(s.free)
      /\ u.alloc = s.alloc /\ u.pv = s.pv /\ u.vv = s.vv /\ u.offset = s.offset /\ u.ctrl = s.ctrl
  BY <1>1, <1>4 DEF FreeTaken, SynthNames
<1>6. IsSynth(t) /\ IsSynth(u)
  BY <1>3, <1>5 DEF IsSynth, SynthNames
<1> QED BY <1>2, <1>3, <1>4, <1>5, <1>6

FirstIs(x, s, p) ==
  /\ IsSynth(x) /\ x.free = s.free /\ x.lame = s.lame /\ x.alloc = << p >> \o s.alloc
  /\ x.pv = s.pv /\ x.vv = s.vv /\ x.offset = [s.offset EXCEPT ![p] = 0] /\ x.ctrl = s.ctrl
LEMMA FirstListed ==
  ASSUME NEW s, IsSynth(s), NEW p \in PVoices, NEW x, x = ListedFirst(s, p)
  PROVE  FirstIs(x, s, p)
<1>1. DOMAIN s = SynthNames
  BY DEF IsSynth, SynthNames
<1>2. /\ DOMAIN x = SynthNames /\ x.free = s.free /\ x.lame = s.lame /\ x.alloc = << p >> \o s.alloc
      /\ x.pv = s.pv /\ x.vv = s.vv /\ x.offset = [s.offset EXCEPT ![p] = 0] /\ x.ctrl = s.ctrl
  BY <1>1 DEF ListedFirst, SynthNames
<1>3. x.offset \in [PVoices -> Nat]
  BY <1>2 DEF IsSynth
<1>4. IsSynth(x)
  BY <1>2, <1>3 DEF IsSynth, SynthNames
<1> QED BY <1>2, <1>4 DEF FirstIs

LEMMA GivenVoice ==
  ASSUME NEW s, IsSynth(s), NEW p \in PVoices, NEW v \in VVoices, NEW x, x = GivenTo(s, p, v)
  PROVE  /\ IsSynth(x) /\ SameLists(x, s) /\ x.offset = s.offset /\ x.ctrl = s.ctrl
         /\ x.pv = [s.pv EXCEPT ![v] = p] /\ x.vv = [s.vv EXCEPT ![p] = v]
<1>1. DOMAIN s = SynthNames
  BY DEF IsSynth, SynthNames
<1>2. /\ DOMAIN x = SynthNames /\ x.free = s.free /\ x.lame = s.lame /\ x.alloc = s.alloc
      /\ x.offset = s.offset /\ x.ctrl = s.ctrl
      /\ x.pv = [s.pv EXCEPT ![v] = p] /\ x.vv = [s.vv EXCEPT ![p] = v]
  BY <1>1 DEF GivenTo, SynthNames
<1>3. x.pv \in [VVoices -> PVoices \cup {NoPV}] /\ x.vv \in [PVoices -> VVoices \cup {NoVV}]
  BY <1>2 DEF IsSynth
<1>4. IsSynth(x)
  BY <1>2, <1>3 DEF IsSynth, SynthNames
<1> QED BY <1>2, <1>4 DEF SameLists

LEMMA StolenVoice ==
  ASSUME NEW s, IsSynth(s), NEW p \in PVoices, NEW w \in VVoices, w = s.vv[p], NEW x, x = TakenFrom(s, p)
  PROVE  /\ IsSynth(x) /\ SameLists(x, s) /\ x.vv = s.vv /\ x.ctrl = s.ctrl
         /\ x.pv = [s.pv EXCEPT ![w] = NoPV] /\ x.offset = [s.offset EXCEPT ![p] = Offset]
<1>1. DOMAIN s = SynthNames
  BY DEF IsSynth, SynthNames
<1>2. /\ DOMAIN x = SynthNames /\ x.free = s.free /\ x.lame = s.lame /\ x.alloc = s.alloc
      /\ x.vv = s.vv /\ x.ctrl = s.ctrl
      /\ x.pv = [s.pv EXCEPT ![w] = NoPV] /\ x.offset = [s.offset EXCEPT ![p] = Offset]
  BY <1>1 DEF TakenFrom, SynthNames
<1>3. Offset \in Nat
  BY SynthesizerAssumption
<1>4. x.pv \in [VVoices -> PVoices \cup {NoPV}] /\ x.offset \in [PVoices -> Nat]
  BY <1>2, <1>3 DEF IsSynth
<1>5. IsSynth(x)
  BY <1>2, <1>4 DEF IsSynth, SynthNames
<1> QED BY <1>2, <1>5 DEF SameLists

\* The conditions of a note's start
CanStart(s, v) ==
  /\ motion \in [PVoices -> BOOLEAN] /\ paramSamples \in Nat
  /\ IsSynth(s) /\ Good(s, paramSamples) /\ Used(s) + 3 <= MaxUpdates
  /\ v \in VVoices /\ s.pv[v] = NoPV
FromList(s, t, p) ==
  \/ t = LameTaken(s) /\ s.lame # << >> /\ p = Head(s.lame)
  \/ t = FreeTaken(s) /\ s.free # << >> /\ p = Head(s.free)
IsOpen(s, p) == p \in PVoices /\ Contains(s.alloc, p) /\ s.offset[p] = 0

LEMMA FreshNote ==
  ASSUME NEW s, NEW v, CanStart(s, v), NEW t, NEW p, FromList(s, t, p),
         NEW y, y = ListedFirst(t, p), NEW x, x = GivenTo(y, p, v), NEW r, r = Update(x, v, "start")
  PROVE  IsSynth(r) /\ Good(r, paramSamples)
<1>1. IsSynth(s) /\ v \in VVoices /\ ListsShare(s.free, s.lame, s.alloc)
  BY DEF Good, CanStart
<1>2. PICK more : more = << p >> \o s.alloc
  OBVIOUS
<1>3. /\ p \in PVoices /\ ~Contains(s.alloc, p) /\ ListsShare(t.free, t.lame, more)
      /\ \A q : Contains(more, q) <=> q = p \/ Contains(s.alloc, q)
  <2>1. CASE t = LameTaken(s) /\ s.lame # << >> /\ p = Head(s.lame)
    <3>1. PICK l : l = s.lame
      OBVIOUS
    <3>2. PICK k : k = Tail(l)
      OBVIOUS
    <3>3. l # << >> /\ p = Head(l) /\ t.lame = k /\ t.free = s.free
      BY <1>1, <2>1, <3>1, <3>2, HeadTaken
    <3>4. /\ p \in PVoices /\ ~Contains(s.alloc, p) /\ ListsShare(s.free, k, more)
          /\ \A q : Contains(more, q) <=> q = p \/ Contains(s.alloc, q)
      <4>1. ListsShare(s.free, l, s.alloc)
        BY <1>1, <3>1
      <4>2. TakesHead(l, s.alloc, p, k, more)
        BY <1>2, <3>2, <3>3 DEF TakesHead
      <4> QED BY <4>1, <4>2, HeadMoves
    <3> QED BY <3>3, <3>4
  <2>2. CASE t = FreeTaken(s) /\ s.free # << >> /\ p = Head(s.free)
    <3>1. PICK l : l = s.free
      OBVIOUS
    <3>2. PICK k : k = Tail(l)
      OBVIOUS
    <3>3. l # << >> /\ p = Head(l) /\ t.free = k /\ t.lame = s.lame
      BY <1>1, <2>2, <3>1, <3>2, HeadTaken
    <3>4. /\ p \in PVoices /\ ~Contains(s.alloc, p) /\ ListsShare(s.lame, k, more)
          /\ \A q : Contains(more, q) <=> q = p \/ Contains(s.alloc, q)
      <4>1. ListsShare(s.lame, l, s.alloc)
        BY <1>1, <3>1, ListsSwap
      <4>2. TakesHead(l, s.alloc, p, k, more)
        BY <1>2, <3>2, <3>3 DEF TakesHead
      <4> QED BY <4>1, <4>2, HeadMoves
    <3>5. ListsShare(k, s.lame, more)
      BY <3>4, ListsSwap
    <3> QED BY <3>3, <3>4, <3>5
  <2> QED BY <2>1, <2>2 DEF FromList
<1>4. /\ IsSynth(x) /\ x.free = t.free /\ x.lame = t.lame /\ x.alloc = more
      /\ x.pv = [s.pv EXCEPT ![v] = p] /\ x.vv = [s.vv EXCEPT ![p] = v]
      /\ x.offset = [s.offset EXCEPT ![p] = 0] /\ x.ctrl = s.ctrl
  <2>1. /\ IsSynth(t) /\ t.alloc = s.alloc /\ t.pv = s.pv /\ t.vv = s.vv
        /\ t.offset = s.offset /\ t.ctrl = s.ctrl
    BY <1>1, HeadTaken DEF FromList
  <2>2. /\ IsSynth(y) /\ y.free = t.free /\ y.lame = t.lame /\ y.alloc = << p >> \o t.alloc
        /\ y.pv = t.pv /\ y.vv = t.vv /\ y.offset = [t.offset EXCEPT ![p] = 0] /\ y.ctrl = t.ctrl
    <3>1. IsSynth(t) /\ p \in PVoices /\ y = ListedFirst(t, p)
      BY <1>3, <2>1
    <3>2. FirstIs(y, t, p)
      BY <3>1, FirstListed
    <3> QED BY <3>2 DEF FirstIs
  <2>3. /\ IsSynth(x) /\ SameLists(x, y) /\ x.offset = y.offset /\ x.ctrl = y.ctrl
        /\ x.pv = [y.pv EXCEPT ![v] = p] /\ x.vv = [y.vv EXCEPT ![p] = v]
    <3>1. IsSynth(y) /\ p \in PVoices
      BY <1>3, <2>2
    <3> QED BY <1>1, <3>1, GivenVoice
  <2> QED BY <1>2, <2>1, <2>2, <2>3 DEF SameLists
<1>5. PICK b \in Nat : b = paramSamples
  BY DEF CanStart
<1>6. x.pv[v] = p /\ x.offset[p] = 0 /\ p # NoPV
  <2>1. s.pv \in [VVoices -> PVoices \cup {NoPV}] /\ s.offset \in [PVoices -> Nat]
    BY <1>1 DEF IsSynth
  <2> QED BY <1>1, <1>3, <1>4, <2>1, SynthesizerAssumption
<1>7. r = AddUpdate(x, p, "start", b)
  <2>1. b + 0 = b
    OBVIOUS
  <2> QED BY <1>5, <1>6, <2>1 DEF Update
<1>8. Used(x) = Used(s)
  BY <1>4 DEF Used
<1>9. Used(x) < MaxUpdates
  BY <1>1, <1>8, UsedIsNumber DEF CanStart
<1>10. PICK u : u = NewUpdate("start", b)
  OBVIOUS
<1>11. u \in Updates /\ u.type = "start" /\ u.at = b
  BY <1>10, NewUpdates
<1>12. Added(r, x, p, u) /\ IsSynth(r)
  BY <1>3, <1>4, <1>7, <1>9, <1>10, UpdateIsAdded
<1>13. Freshly(s, r, p, v, u, b)
  <2>1. /\ SameLists(r, x) /\ r.vv = x.vv /\ r.pv = x.pv /\ r.offset = x.offset
        /\ r.ctrl = [x.ctrl EXCEPT ![p] = Append(x.ctrl[p], u)]
    BY <1>12 DEF Added
  <2>2. Good(s, b) /\ s.pv[v] = NoPV
    BY <1>5 DEF CanStart
  <2> QED BY <1>1, <1>3, <1>4, <1>11, <1>12, <2>1, <2>2 DEF Freshly, SameLists
<1>14. Good(r, b)
  BY <1>13, FreshStarts DEF CanStart
<1> QED BY <1>5, <1>12, <1>14

LEMMA StolenNote ==
  ASSUME NEW s, NEW v, CanStart(s, v), NEW p, IsOpen(s, p),
         NEW y, y = Stolen(s, p), NEW z, z = GivenTo(y, p, v), NEW r, r = Update(z, v, "start")
  PROVE  IsSynth(r) /\ Good(r, paramSamples)
<1>1. PICK b \in Nat : b = paramSamples
  BY DEF CanStart
<1>2. PICK c \in Nat : c = b + Offset
  BY SynthesizerAssumption
<1>3. IsSynth(s) /\ Good(s, b) /\ p \in PVoices /\ v \in VVoices /\ p # NoPV
  BY <1>1, SynthesizerAssumption DEF CanStart, IsOpen
<1>4. PICK w \in VVoices : w = s.vv[p]
  <2>1. VoiceFits(Owned(s.pv, s.vv, p), Contains(s.alloc, p), s.ctrl[p], s.offset[p], motion[p])
    BY <1>3, GoodVoice
  <2>2. Owned(s.pv, s.vv, p)
    BY <2>1 DEF VoiceFits, IsOpen
  <2>3. s.vv[p] \in VVoices \cup {NoVV}
    BY <1>3 DEF IsSynth
  <2> QED BY <2>2, <2>3 DEF Owned
<1>5. PICK x1 : x1 = TakenFrom(s, p)
  OBVIOUS
<1>6. /\ IsSynth(x1) /\ SameLists(x1, s) /\ x1.vv = s.vv /\ x1.ctrl = s.ctrl
      /\ x1.pv = [s.pv EXCEPT ![w] = NoPV] /\ x1.offset = [s.offset EXCEPT ![p] = Offset]
  BY <1>3, <1>4, <1>5, StolenVoice
<1>7. PICK n \in Nat : n = Used(s)
  BY <1>3, UsedIsNumber
<1>8. Used(x1) = n /\ n + 3 <= MaxUpdates /\ MaxUpdates \in Nat
  BY <1>3, <1>6, <1>7, UsedIsNumber DEF Used, CanStart
<1>9. PICK u1 : u1 = NewUpdate("vol", b)
  OBVIOUS
<1>10. PICK u2 : u2 = NewUpdate("stop", c)
  OBVIOUS
<1>11. PICK u3 : u3 = NewUpdate("start", c)
  OBVIOUS
<1>12. /\ u1 \in Updates /\ u1.type = "vol" /\ u1.at = b
       /\ u2 \in Updates /\ u2.type = "stop" /\ u2.at = b + Offset
       /\ u3 \in Updates /\ u3.type = "start" /\ u3.at = b + Offset
  BY <1>2, <1>9, <1>10, <1>11, NewUpdates
<1>13. PICK x2 : x2 = AddUpdate(x1, p, "vol", b)
  OBVIOUS
<1>14. Added(x2, x1, p, u1) /\ IsSynth(x2) /\ Used(x2) = n + 1
  <2>1. Used(x1) < MaxUpdates
    BY <1>8
  <2>2. IsSynth(x1) /\ b \in Int
    BY <1>6
  <2>3. Added(x2, x1, p, u1) /\ IsSynth(x2) /\ Used(x2) = Used(x1) + 1
    BY <1>3, <1>9, <1>13, <2>1, <2>2, UpdateIsAdded
  <2> QED BY <1>8, <2>3
<1>15. y = AddUpdate(x2, p, "stop", c)
  BY <1>1, <1>2, <1>5, <1>13 DEF Stolen, TakenFrom
<1>16. Added(y, x2, p, u2) /\ IsSynth(y) /\ Used(y) = n + 2
  <2>1. Used(x2) < MaxUpdates
    BY <1>8, <1>14
  <2>2. IsSynth(x2) /\ c \in Int
    BY <1>14
  <2>3. Added(y, x2, p, u2) /\ IsSynth(y) /\ Used(y) = Used(x2) + 1
    BY <1>3, <1>10, <1>15, <2>1, <2>2, UpdateIsAdded
  <2> QED BY <1>14, <2>3
<1>17. /\ IsSynth(z) /\ SameLists(z, y) /\ z.offset = y.offset /\ z.ctrl = y.ctrl
       /\ z.pv = [y.pv EXCEPT ![v] = p] /\ z.vv = [y.vv EXCEPT ![p] = v]
  <2>1. IsSynth(y)
    BY <1>16
  <2> QED BY <1>3, <2>1, GivenVoice
<1>18. /\ SameLists(x2, x1) /\ x2.vv = x1.vv /\ x2.pv = x1.pv /\ x2.offset = x1.offset
       /\ x2.ctrl = [x1.ctrl EXCEPT ![p] = Append(x1.ctrl[p], u1)]
  BY <1>14 DEF Added
<1>19. /\ SameLists(y, x2) /\ y.vv = x2.vv /\ y.pv = x2.pv /\ y.offset = x2.offset
       /\ y.ctrl = [x2.ctrl EXCEPT ![p] = Append(x2.ctrl[p], u2)]
  BY <1>16 DEF Added
<1>20. z.pv[v] = p /\ z.offset[p] = Offset
  <2>1. y.pv \in [VVoices -> PVoices \cup {NoPV}] /\ s.offset \in [PVoices -> Nat]
    BY <1>3, <1>16 DEF IsSynth
  <2>2. z.offset = [s.offset EXCEPT ![p] = Offset]
    BY <1>6, <1>17, <1>18, <1>19
  <2>3. z.pv[v] = p
    BY <1>3, <1>17, <2>1
  <2>4. z.offset[p] = Offset
    BY <1>3, <2>1, <2>2
  <2> QED BY <2>3, <2>4
<1>21. r = AddUpdate(z, p, "start", c)
  BY <1>1, <1>2, <1>3, <1>20 DEF Update
<1>22. Added(r, z, p, u3) /\ IsSynth(r)
  <2>1. Used(z) = Used(y)
    BY <1>17 DEF Used
  <2>2. Used(z) < MaxUpdates
    BY <1>8, <1>16, <2>1
  <2>3. IsSynth(z) /\ c \in Int
    BY <1>17
  <2> QED BY <1>3, <1>11, <1>21, <2>2, <2>3, UpdateIsAdded
<1>23. /\ SameLists(r, z) /\ r.vv = z.vv /\ r.pv = z.pv /\ r.offset = z.offset
       /\ r.ctrl = [z.ctrl EXCEPT ![p] = Append(z.ctrl[p], u3)]
  BY <1>22 DEF Added
<1>24. /\ r.pv = [[s.pv EXCEPT ![w] = NoPV] EXCEPT ![v] = p] /\ r.vv = [s.vv EXCEPT ![p] = v]
       /\ r.offset = [s.offset EXCEPT ![p] = Offset]
  BY <1>6, <1>17, <1>18, <1>19, <1>23
<1>25. SameLists(r, s)
  BY <1>6, <1>17, <1>18, <1>19, <1>23 DEF SameLists
<1>26. r.ctrl = [s.ctrl EXCEPT ![p] = Append(Append(Append(s.ctrl[p], u1), u2), u3)]
  <2>1. PICK f \in [PVoices -> Seq(Updates)] : f = s.ctrl
    BY <1>3 DEF IsSynth
  <2>2. PICK k1 : k1 = Append(f[p], u1)
    OBVIOUS
  <2>3. PICK k2 : k2 = Append(k1, u2)
    OBVIOUS
  <2>4. PICK k3 : k3 = Append(k2, u3)
    OBVIOUS
  <2>5. x2.ctrl = [f EXCEPT ![p] = k1]
    BY <1>6, <1>18, <2>1, <2>2
  <2>6. x2.ctrl[p] = k1
    BY <1>3, <2>5
  <2>7. y.ctrl = [f EXCEPT ![p] = k2]
    BY <1>19, <2>3, <2>5, <2>6
  <2>8. z.ctrl[p] = k2 /\ z.ctrl = [f EXCEPT ![p] = k2]
    BY <1>3, <1>17, <2>7
  <2>9. r.ctrl = [f EXCEPT ![p] = k3]
    BY <1>23, <2>4, <2>8
  <2> QED BY <2>1, <2>2, <2>3, <2>4, <2>9
<1>27. Steals(s, r, p, v, w, u1, u2, u3, b)
  <2>1. Contains(s.alloc, p) /\ s.offset[p] = 0 /\ s.pv[v] = NoPV
    BY DEF CanStart, IsOpen
  <2> QED BY <1>3, <1>4, <1>12, <1>22, <1>24, <1>25, <1>26, <2>1 DEF Steals
<1>28. Good(r, b)
  BY <1>27, StolenStarts DEF CanStart
<1> QED BY <1>1, <1>22, <1>28

LEMMA NoteStarts ==
  ASSUME NEW s, NEW v, CanStart(s, v), NEW x, x = AllocVoice(s, v), NEW r, r = Update(x, v, "start")
  PROVE  IsSynth(r) /\ Good(r, paramSamples)
<1>1. IsSynth(s) /\ v \in VVoices /\ s.pv[v] = NoPV /\ Good(s, paramSamples) /\ paramSamples \in Nat
  BY DEF CanStart
<1>2. CASE s.lame # << >>
  <2>1. PICK t : t = LameTaken(s)
    OBVIOUS
  <2>2. PICK p : p = Head(s.lame)
    OBVIOUS
  <2>3. PICK y : y = ListedFirst(t, p)
    OBVIOUS
  <2>4. x = GivenTo(y, p, v)
    BY <1>2, <2>1, <2>2, <2>3 DEF AllocVoice, LameTaken, ListedFirst, GivenTo
  <2>5. FromList(s, t, p)
    BY <1>2, <2>1, <2>2 DEF FromList
  <2> QED BY <2>3, <2>4, <2>5, FreshNote
<1>3. CASE s.lame = << >> /\ s.free # << >>
  <2>1. PICK t : t = FreeTaken(s)
    OBVIOUS
  <2>2. PICK p : p = Head(s.free)
    OBVIOUS
  <2>3. PICK y : y = ListedFirst(t, p)
    OBVIOUS
  <2>4. x = GivenTo(y, p, v)
    BY <1>3, <2>1, <2>2, <2>3 DEF AllocVoice, FreeTaken, ListedFirst, GivenTo
  <2>5. FromList(s, t, p)
    BY <1>3, <2>1, <2>2 DEF FromList
  <2> QED BY <2>3, <2>4, <2>5, FreshNote
<1>4. CASE s.lame = << >> /\ s.free = << >>
  <2>1. PICK n \in Int : n = Priority[Plays[v]]
    BY <1>1, SynthesizerAssumption
  <2>2. PICK p : p = Victim(s, n)
    OBVIOUS
  <2>3. x = IF p = NoPV THEN [s EXCEPT !.pv[v] = NoPV] ELSE GivenTo(Stolen(s, p), p, v)
    BY <1>4, <2>1, <2>2 DEF AllocVoice, GivenTo
  <2>4. CASE p = NoPV
    <3>1. x = [s EXCEPT !.pv[v] = NoPV]
      BY <2>3, <2>4
    <3>2. DOMAIN s = SynthNames /\ s.pv \in [VVoices -> PVoices \cup {NoPV}]
      BY <1>1 DEF IsSynth, SynthNames
    <3>3. /\ DOMAIN x = SynthNames /\ x.free = s.free /\ x.lame = s.lame /\ x.alloc = s.alloc
          /\ x.vv = s.vv /\ x.offset = s.offset /\ x.ctrl = s.ctrl
          /\ x.pv = [s.pv EXCEPT ![v] = NoPV]
      BY <3>1, <3>2 DEF SynthNames
    <3>4. x.pv = s.pv
      BY <1>1, <3>2, <3>3
    <3>5. r = x
      BY <1>1, <3>4 DEF Update
    <3>6. IsSynth(x)
      BY <1>1, <3>3, <3>4 DEF IsSynth, SynthNames
    <3>7. Good(x, paramSamples)
      BY <1>1, <3>3, <3>4 DEF Good
    <3> QED BY <3>5, <3>6, <3>7
  <2>5. CASE p # NoPV
    <3>1. p \in PVoices /\ Contains(s.alloc, p) /\ s.offset[p] = 0
      <4>1. IsSynth(s) /\ Good(s, paramSamples) /\ paramSamples \in Int
        BY <1>1
      <4> QED BY <2>2, <2>5, <4>1, VictimIsSound
    <3>2. PICK y : y = Stolen(s, p)
      OBVIOUS
    <3>3. x = GivenTo(y, p, v)
      BY <2>3, <2>5, <3>2
    <3>4. IsOpen(s, p)
      BY <3>1 DEF IsOpen
    <3> QED BY <3>2, <3>3, <3>4, StolenNote
  <2> QED BY <2>4, <2>5
<1> QED BY <1>2, <1>3, <1>4

\* The conditions of the other calls
CanCall(s, v, p) ==
  /\ motion \in [PVoices -> BOOLEAN] /\ paramSamples \in Nat
  /\ IsSynth(s) /\ Good(s, paramSamples) /\ Used(s) + 3 <= MaxUpdates
  /\ v \in VVoices /\ p \in PVoices /\ s.pv[v] = p

NoteOver(s, v) == [s EXCEPT !.pv[v] = NoPV]
VoiceFreed(s, v, p) == [s EXCEPT !.alloc = Unlinked(@, {p}), !.lame = << p >> \o @, !.pv[v] = NoPV]

LEMMA NoteIsOver ==
  ASSUME NEW s, IsSynth(s), NEW v \in VVoices, NEW x, x = NoteOver(s, v)
  PROVE  /\ IsSynth(x) /\ SameLists(x, s) /\ x.vv = s.vv /\ x.offset = s.offset /\ x.ctrl = s.ctrl
         /\ x.pv = [s.pv EXCEPT ![v] = NoPV]
<1>1. DOMAIN s = SynthNames
  BY DEF IsSynth, SynthNames
<1>2. /\ DOMAIN x = SynthNames /\ x.free = s.free /\ x.lame = s.lame /\ x.alloc = s.alloc
      /\ x.vv = s.vv /\ x.offset = s.offset /\ x.ctrl = s.ctrl
      /\ x.pv = [s.pv EXCEPT ![v] = NoPV]
  BY <1>1 DEF NoteOver, SynthNames
<1>3. x.pv \in [VVoices -> PVoices \cup {NoPV}]
  BY <1>2 DEF IsSynth
<1> QED BY <1>2, <1>3 DEF IsSynth, SynthNames, SameLists

LEMMA VoiceIsFreed ==
  ASSUME NEW s, IsSynth(s), NEW v \in VVoices, NEW p \in PVoices, NEW x, x = VoiceFreed(s, v, p)
  PROVE  /\ IsSynth(x) /\ x.free = s.free /\ FreesOne(s.lame, s.alloc, p, x.lame, x.alloc)
         /\ x.vv = s.vv /\ x.offset = s.offset /\ x.ctrl = s.ctrl
         /\ x.pv = [s.pv EXCEPT ![v] = NoPV]
<1>1. DOMAIN s = SynthNames
  BY DEF IsSynth, SynthNames
<1>2. PICK less : less = Unlinked(s.alloc, {p})
  OBVIOUS
<1>3. /\ DOMAIN x = SynthNames /\ x.free = s.free /\ x.lame = << p >> \o s.lame /\ x.alloc = less
      /\ x.vv = s.vv /\ x.offset = s.offset /\ x.ctrl = s.ctrl
      /\ x.pv = [s.pv EXCEPT ![v] = NoPV]
  BY <1>1, <1>2 DEF VoiceFreed, SynthNames
<1>4. x.pv \in [VVoices -> PVoices \cup {NoPV}]
  BY <1>3 DEF IsSynth
<1>5. IsSynth(x)
  BY <1>3, <1>4 DEF IsSynth, SynthNames
<1> QED BY <1>2, <1>3, <1>5 DEF FreesOne

\* What Update does for a note that has a voice
LEMMA NoteUpdated ==
  ASSUME NEW s, NEW v, NEW p, CanCall(s, v, p), NEW type \in {"start", "stop", "vol", "free"},
         NEW x, x = Update(s, v, type)
  PROVE  /\ p # NoPV /\ s.offset[p] \in Nat /\ paramSamples + s.offset[p] \in Nat /\ IsSynth(x)
         /\ Added(x, s, p, NewUpdate(type, paramSamples + s.offset[p]))
         /\ Used(x) \in Nat /\ Used(x) + 2 <= MaxUpdates /\ MaxUpdates \in Nat
<1>1. IsSynth(s) /\ v \in VVoices /\ p \in PVoices /\ s.pv[v] = p /\ p # NoPV
  BY SynthesizerAssumption DEF CanCall
<1>2. s.offset[p] \in Nat /\ paramSamples \in Nat
  BY <1>1 DEF IsSynth, CanCall
<1>3. PICK c \in Nat : c = paramSamples + s.offset[p]
  BY <1>2
<1>4. x = AddUpdate(s, p, type, c)
  BY <1>1, <1>3 DEF Update
<1>5. PICK n \in Nat : n = Used(s)
  BY <1>1, UsedIsNumber
<1>6. MaxUpdates \in Nat /\ n + 3 <= MaxUpdates
  BY <1>1, <1>5, UsedIsNumber DEF CanCall
<1>7. Used(s) < MaxUpdates
  BY <1>5, <1>6
<1>8. PICK u : u = NewUpdate(type, c)
  OBVIOUS
<1>9. Added(x, s, p, u) /\ IsSynth(x) /\ Used(x) = Used(s) + 1
  <2>1. IsSynth(s) /\ p \in PVoices /\ c \in Int
    BY <1>1
  <2> QED BY <1>4, <1>7, <1>8, <2>1, UpdateIsAdded
<1> QED BY <1>1, <1>2, <1>3, <1>5, <1>6, <1>8, <1>9

LEMMA NoteEnds ==
  ASSUME NEW s, NEW v, NEW p, CanCall(s, v, p), NEW x, x = Update(s, v, "stop"), NEW r, r = FreeVoice(x, v)
  PROVE  IsSynth(r) /\ Good(r, paramSamples)
<1>1. /\ IsSynth(s) /\ v \in VVoices /\ p \in PVoices /\ s.pv[v] = p /\ Good(s, paramSamples)
      /\ motion \in [PVoices -> BOOLEAN]
  BY DEF CanCall
<1>2. PICK b \in Nat : b = paramSamples
  BY DEF CanCall
<1>3. PICK c \in Nat : c = b + s.offset[p]
  BY <1>2, NoteUpdated
<1>4. PICK u1 : u1 = NewUpdate("stop", c)
  OBVIOUS
<1>5. /\ p # NoPV /\ IsSynth(x) /\ Added(x, s, p, u1)
      /\ Used(x) \in Nat /\ Used(x) + 2 <= MaxUpdates /\ MaxUpdates \in Nat
  BY <1>2, <1>3, <1>4, NoteUpdated
<1>6. u1 \in Updates /\ u1.type = "stop" /\ u1.at = c
  BY <1>4, NewUpdates
<1>7. /\ SameLists(x, s) /\ x.vv = s.vv /\ x.pv = s.pv /\ x.offset = s.offset
      /\ x.ctrl = [s.ctrl EXCEPT ![p] = Append(s.ctrl[p], u1)]
  BY <1>5 DEF Added
<1>8. x.pv[v] = p /\ x.offset[p] = s.offset[p] /\ c = paramSamples + x.offset[p]
  BY <1>1, <1>2, <1>3, <1>7
<1>9. CASE s.offset[p] # 0
  <2>1. PICK y : y = AddUpdate(x, p, "free", c)
    OBVIOUS
  <2>2. PICK u2 : u2 = NewUpdate("free", c)
    OBVIOUS
  <2>3. u2 \in Updates /\ u2.type = "free" /\ u2.at = c
    BY <2>2, NewUpdates
  <2>4. Added(y, x, p, u2) /\ IsSynth(y)
    <3>1. Used(x) < MaxUpdates
      BY <1>5
    <3> QED BY <1>1, <1>5, <2>1, <2>2, <3>1, UpdateIsAdded
  <2>5. r = NoteOver(y, v)
    <3>1. Used(x) # MaxUpdates
      BY <1>5
    <3> QED BY <1>5, <1>8, <1>9, <2>1, <3>1 DEF FreeVoice, NoteOver
  <2>6. /\ IsSynth(r) /\ SameLists(r, y) /\ r.vv = y.vv /\ r.offset = y.offset /\ r.ctrl = y.ctrl
        /\ r.pv = [y.pv EXCEPT ![v] = NoPV]
    BY <1>1, <2>4, <2>5, NoteIsOver
  <2>7. /\ SameLists(y, x) /\ y.vv = x.vv /\ y.pv = x.pv /\ y.offset = x.offset
        /\ y.ctrl = [x.ctrl EXCEPT ![p] = Append(x.ctrl[p], u2)]
    BY <2>4 DEF Added
  <2>8. SameLists(r, s)
    BY <1>7, <2>6, <2>7 DEF SameLists
  <2>9. Ends(s, r, p, v)
    BY <1>1, <1>7, <2>6, <2>7 DEF Ends
  <2>10. r.ctrl = [s.ctrl EXCEPT ![p] = Append(Append(s.ctrl[p], u1), u2)]
    <3>1. PICK f \in [PVoices -> Seq(Updates)] : f = s.ctrl
      BY <1>1 DEF IsSynth
    <3>2. PICK k1 : k1 = Append(f[p], u1)
      OBVIOUS
    <3>3. PICK k2 : k2 = Append(k1, u2)
      OBVIOUS
    <3>4. x.ctrl = [f EXCEPT ![p] = k1]
      BY <1>7, <3>1, <3>2
    <3>5. x.ctrl[p] = k1
      BY <1>1, <3>4
    <3>6. y.ctrl = [f EXCEPT ![p] = k2]
      BY <2>7, <3>3, <3>4, <3>5
    <3> QED BY <2>6, <3>1, <3>2, <3>3, <3>6
  <2>11. Fades(s, r, p, v, b, c, u1, u2)
    BY <1>1, <1>2, <1>3, <1>6, <1>9, <2>3, <2>8, <2>9, <2>10 DEF Fades
  <2>12. Good(r, b)
    BY <1>1, <2>11, NoteFades
  <2> QED BY <1>2, <2>6, <2>12
<1>10. CASE s.offset[p] = 0
  <2>1. r = VoiceFreed(x, v, p)
    BY <1>5, <1>8, <1>10 DEF FreeVoice, VoiceFreed
  <2>2. /\ IsSynth(r) /\ r.free = x.free /\ FreesOne(x.lame, x.alloc, p, r.lame, r.alloc)
        /\ r.vv = x.vv /\ r.offset = x.offset /\ r.ctrl = x.ctrl
        /\ r.pv = [x.pv EXCEPT ![v] = NoPV]
    BY <1>1, <1>5, <2>1, VoiceIsFreed
  <2>3. Ends(s, r, p, v)
    BY <1>1, <1>7, <2>2 DEF Ends
  <2>4. Contains(s.alloc, p) /\ ListsShare(s.free, s.lame, s.alloc)
    BY <1>1, <2>3, NoteIsGone DEF Good
  <2>5. FreesOne(s.lame, s.alloc, p, r.lame, r.alloc) /\ r.free = s.free
    BY <1>7, <2>2 DEF SameLists
  <2>6. ListsShare(s.free, r.lame, r.alloc) /\ \A q : Contains(r.alloc, q) <=> Contains(s.alloc, q) /\ q # p
    BY <1>1, <2>4, <2>5, OneFreed
  <2>9. ListsShare(r.free, r.lame, r.alloc) /\ \A q : Contains(r.alloc, q) <=> Contains(s.alloc, q) /\ q # p
    BY <2>5, <2>6
  <2>10. u1.at = b
    BY <1>3, <1>6, <1>10
  <2>11. Frees(s, r, p, v, b, u1)
    BY <1>1, <1>2, <1>6, <1>7, <1>10, <2>2, <2>3, <2>9, <2>10 DEF Frees
  <2>12. Good(r, b)
    BY <1>1, <2>11, NoteFrees
  <2> QED BY <1>2, <2>2, <2>12
<1> QED BY <1>9, <1>10

LEMMA NoteSet ==
  ASSUME NEW s, NEW v, NEW p, CanCall(s, v, p), NEW r, r = Update(s, v, "vol")
  PROVE  IsSynth(r) /\ Good(r, paramSamples)
<1>1. /\ IsSynth(s) /\ v \in VVoices /\ p \in PVoices /\ s.pv[v] = p /\ Good(s, paramSamples)
      /\ motion \in [PVoices -> BOOLEAN]
  BY DEF CanCall
<1>2. PICK b \in Nat : b = paramSamples
  BY DEF CanCall
<1>3. PICK c \in Nat : c = b + s.offset[p]
  BY <1>2, NoteUpdated
<1>4. PICK u : u = NewUpdate("vol", c)
  OBVIOUS
<1>5. IsSynth(r) /\ Added(r, s, p, u)
  BY <1>2, <1>3, <1>4, NoteUpdated
<1>6. u \in Updates /\ u.type = "vol" /\ u.at = c
  BY <1>4, NewUpdates
<1>7. Louder(s, r, p, v, b, u)
  BY <1>1, <1>2, <1>3, <1>5, <1>6 DEF Louder, Added
<1>8. Good(r, b)
  BY <1>1, <1>7, NoteIsLouder
<1> QED BY <1>2, <1>5, <1>8

------------------------------------------------------------------------------
(* A part of a frame *)

NowAt(p, n) == SubSeq(ctrl[p], 1, Reached(p, n))
LateAt(p, n) ==
  LET late == SubSeq(ctrl[p], Reached(p, n) + 1, Len(ctrl[p]))
  IN [i \in 1..Len(late) |-> [late[i] EXCEPT !.at = @ - n]]
GoneAt(n) == {p \in PVoices : \E i \in 1..Len(NowAt(p, n)) : NowAt(p, n)[i].type = "free"}
LeftAt(n) == [p \in PVoices |-> LateAt(p, n)]

VoicesGood ==
  /\ SynTypes /\ ListsShare(pFree, pLame, pAlloc) /\ NotesKnown(pvoice, vvoice, pAlloc) /\ VoicesFit

LEMMA SynthIsGood ==
  ASSUME VoicesGood, NEW b \in Int, TimedTo(b)
  PROVE  IsSynth(Synth) /\ Good(Synth, b)
<1>1. PICK s : s = Synth
  OBVIOUS
<1>2. /\ DOMAIN s = SynthNames /\ s.free = pFree /\ s.lame = pLame /\ s.alloc = pAlloc
      /\ s.pv = pvoice /\ s.vv = vvoice /\ s.offset = offset /\ s.ctrl = ctrl
  BY <1>1 DEF Synth, SynthNames
<1>3. IsSynth(s)
  BY <1>2 DEF VoicesGood, SynTypes, IsSynth, SynthNames
<1>4. Good(s, b)
  BY <1>2 DEF VoicesGood, VoicesFit, TimedTo, Good
<1> QED BY <1>1, <1>3, <1>4

\* One voice in a part of a frame
LEMMA VoicePulled ==
  ASSUME VoicesGood, NEW b \in Int, TimedTo(b), NEW n \in Int, NEW p \in PVoices
  PROVE  /\ LateAt(p, n) \in Seq(Updates) /\ Moving(NowAt(p, n), motion[p]) \in BOOLEAN
         /\ p \in GoneAt(n) => /\ Contains(pAlloc, p) /\ ~Owned(pvoice, vvoice, p)
                               /\ VoiceFits(FALSE, FALSE, LateAt(p, n), 0, Moving(NowAt(p, n), motion[p]))
                               /\ \A c \in Int : Timed(LateAt(p, n), c)
         /\ p \notin GoneAt(n) =>
              /\ VoiceFits(Owned(pvoice, vvoice, p), Contains(pAlloc, p), LateAt(p, n), offset[p],
                           Moving(NowAt(p, n), motion[p]))
              /\ Timed(LateAt(p, n), b + offset[p] - n)
<1>1. /\ ctrl[p] \in Seq(Updates) /\ offset[p] \in Nat /\ motion[p] \in BOOLEAN
      /\ VoiceFits(Owned(pvoice, vvoice, p), Contains(pAlloc, p), ctrl[p], offset[p], motion[p])
      /\ Timed(ctrl[p], b + offset[p])
  BY DEF VoicesGood, SynTypes, VoicesFit, TimedTo
<1>2. PICK us \in Seq(Updates) : us = ctrl[p]
  BY <1>1
<1>3. PICK m \in BOOLEAN : m = motion[p]
  BY <1>1
<1>4. PICK k : k = Reached(p, n)
  OBVIOUS
<1>5. Reaches(us, n, k)
  BY <1>1, <1>2, <1>4, ReachedIsFirst
<1>6. k \in 0..Len(us)
  BY <1>5 DEF Reaches
<1>7. PICK now : now = SubSeq(us, 1, k)
  OBVIOUS
<1>8. PICK cut : cut = SubSeq(us, k + 1, Len(us))
  OBVIOUS
<1>9. PICK late : late = [i \in 1..Len(cut) |-> [cut[i] EXCEPT !.at = @ - n]]
  OBVIOUS
<1>10. LateOf(late, us, k, n)
  BY <1>6, <1>8, <1>9, PulledIsLate
<1>11. NowAt(p, n) = now /\ LateAt(p, n) = late
  BY <1>2, <1>4, <1>7, <1>8, <1>9 DEF NowAt, LateAt
<1>12. p \in GoneAt(n) <=> HasFree(now)
  BY <1>11 DEF GoneAt, HasFree
<1>13. late \in Seq(Updates) /\ Len(late) = Len(us) - k
  BY <1>10 DEF LateOf
<1>14. PICK m1 : m1 = Moving(now, m)
  OBVIOUS
<1>15. /\ m1 \in BOOLEAN /\ (Moving(late, m1) <=> Moving(us, m))
       /\ HasFree(us) <=> HasFree(now) \/ HasFree(late)
       /\ FreeIsLast(us) => FreeIsLast(late) /\ (HasFree(now) => k = Len(us))
  <2>1. SplitAt(us, k, n, now, late)
    BY <1>6, <1>7, <1>10 DEF SplitAt
  <2> QED BY <1>14, <2>1, UpdatesSplit
<1>16. /\ FreeIsLast(us)
       /\ HasFree(us) <=> Contains(pAlloc, p) /\ ~Owned(pvoice, vvoice, p)
       /\ Contains(pAlloc, p) /\ ~Owned(pvoice, vvoice, p) => offset[p] # 0
       /\ ~Contains(pAlloc, p) => offset[p] = 0
       /\ Owned(pvoice, vvoice, p) <=> Moving(us, m)
  BY <1>1, <1>2, <1>3 DEF VoiceFits
<1>17. ASSUME p \in GoneAt(n)
       PROVE  /\ Contains(pAlloc, p) /\ ~Owned(pvoice, vvoice, p)
              /\ VoiceFits(FALSE, FALSE, late, 0, m1)
              /\ \A c \in Int : Timed(late, c)
  <2>1. HasFree(us) /\ k = Len(us)
    BY <1>12, <1>15, <1>16, <1>17
  <2>2. Len(late) = 0
    BY <1>2, <1>13, <2>1
  <2>3. ~HasFree(late) /\ FreeIsLast(late) /\ \A c \in Int : Timed(late, c)
    BY <2>2 DEF HasFree, FreeIsLast, Timed
  <2>4. ~Moving(late, m1) /\ ~Owned(pvoice, vvoice, p) /\ Contains(pAlloc, p)
    BY <1>15, <1>16, <2>1
  <2> QED BY <2>3, <2>4 DEF VoiceFits
<1>18. ASSUME p \notin GoneAt(n)
       PROVE  /\ VoiceFits(Owned(pvoice, vvoice, p), Contains(pAlloc, p), late, offset[p], m1)
              /\ Timed(late, b + offset[p] - n)
  <2>1. HasFree(us) <=> HasFree(late)
    BY <1>12, <1>15, <1>18
  <2>2. VoiceFits(Owned(pvoice, vvoice, p), Contains(pAlloc, p), late, offset[p], m1)
    BY <1>15, <1>16, <2>1 DEF VoiceFits
  <2>3. PICK c \in Int : c = b + offset[p]
    BY <1>1
  <2>4. Timed(us, c)
    BY <1>1, <1>2, <2>3
  <2>5. Timed(late, c - n)
    BY <1>5, <1>10, <2>4, LateIsTimed
  <2>6. b + offset[p] - n = c - n
    BY <1>1, <2>3
  <2> QED BY <2>2, <2>5, <2>6
<1> QED BY <1>3, <1>11, <1>13, <1>14, <1>15, <1>17, <1>18

\* What Freed makes of s
FreedOf(r, s, gone) ==
  /\ DOMAIN r = SynthNames /\ r.free = s.free /\ r.pv = s.pv /\ r.vv = s.vv /\ r.ctrl = s.ctrl
  /\ r.offset = [p \in PVoices |-> IF p \in gone THEN 0 ELSE s.offset[p]]
  /\ r.alloc = Unlinked(s.alloc, gone) /\ r.lame = SetToSeq(gone) \o s.lame

LEMMA VoicesFreed ==
  ASSUME NEW s, DOMAIN s = SynthNames, NEW gone
  PROVE  FreedOf(Freed(s, gone), s, gone)
BY DEF Freed, SynthNames, FreedOf

LEMMA NowAndLater ==
  ASSUME NEW n
  PROVE  /\ Pulled(n).synth = Freed([Synth EXCEPT !.ctrl = LeftAt(n)], GoneAt(n))
         /\ Pulled(n).motion = [p \in PVoices |-> Moving(NowAt(p, n), motion[p])]
BY DEF Pulled, LeftAt, LateAt, GoneAt, NowAt

LEMMA PulledIsGood ==
  ASSUME VoicesGood, NEW b \in Int, TimedTo(b), NEW n \in Int, NEW s, s = Pulled(n).synth,
         NEW m, m = Pulled(n).motion
  PROVE  /\ s.pv = pvoice /\ s.vv = vvoice /\ s.offset \in [PVoices -> Nat]
         /\ s.ctrl \in [PVoices -> Seq(Updates)] /\ m \in [PVoices -> BOOLEAN]
         /\ ListsShare(s.free, s.lame, s.alloc) /\ NotesKnown(pvoice, vvoice, s.alloc)
         /\ \A p \in PVoices :
              /\ VoiceFits(Owned(pvoice, vvoice, p), Contains(s.alloc, p), s.ctrl[p], s.offset[p], m[p])
              /\ Timed(s.ctrl[p], b - n + s.offset[p])
         /\ DOMAIN s = SynthNames
<1>1. PICK x : x = [Synth EXCEPT !.ctrl = LeftAt(n)]
  OBVIOUS
<1>2. /\ DOMAIN x = SynthNames /\ x.free = pFree /\ x.lame = pLame /\ x.alloc = pAlloc
      /\ x.pv = pvoice /\ x.vv = vvoice /\ x.offset = offset /\ x.ctrl = LeftAt(n)
  BY <1>1 DEF Synth, SynthNames
<1>3. PICK gone : gone = GoneAt(n)
  OBVIOUS
<1>4. s = Freed(x, gone) /\ m = [p \in PVoices |-> Moving(NowAt(p, n), motion[p])]
  BY <1>1, <1>3, NowAndLater
<1>5. PICK listed : listed = SetToSeq(gone)
  OBVIOUS
<1>6. PICK less : less = Unlinked(pAlloc, gone)
  OBVIOUS
<1>7. PICK lame : lame = listed \o pLame
  OBVIOUS
<1>8. /\ DOMAIN s = SynthNames /\ s.free = pFree /\ s.pv = pvoice /\ s.vv = vvoice /\ s.ctrl = LeftAt(n)
      /\ s.offset = [p \in PVoices |-> IF p \in gone THEN 0 ELSE offset[p]]
      /\ s.alloc = less /\ s.lame = lame
  <2>1. /\ DOMAIN s = SynthNames /\ s.free = x.free /\ s.pv = x.pv /\ s.vv = x.vv /\ s.ctrl = x.ctrl
        /\ s.offset = [p \in PVoices |-> IF p \in gone THEN 0 ELSE x.offset[p]]
        /\ s.alloc = Unlinked(x.alloc, gone) /\ s.lame = SetToSeq(gone) \o x.lame
    <3>1. DOMAIN x = SynthNames
      BY <1>2
    <3>2. s = Freed(x, gone)
      BY <1>4
    <3>3. FreedOf(Freed(x, gone), x, gone)
      BY <3>1, VoicesFreed
    <3> QED BY <3>2, <3>3 DEF FreedOf
  <2> QED BY <1>2, <1>5, <1>6, <1>7, <2>1
<1>9. /\ ListsShare(pFree, pLame, pAlloc) /\ NotesKnown(pvoice, vvoice, pAlloc)
      /\ offset \in [PVoices -> Nat] /\ pvoice \in [VVoices -> PVoices \cup {NoPV}]
  BY DEF VoicesGood, SynTypes
<1>10. /\ IsList(pFree, PVoices) /\ IsList(pLame, PVoices) /\ IsList(pAlloc, PVoices)
       /\ \A p \in PVoices :
            /\ Contains(pFree, p) \/ Contains(pLame, p) \/ Contains(pAlloc, p)
            /\ ~(Contains(pFree, p) /\ Contains(pLame, p))
            /\ ~(Contains(pFree, p) /\ Contains(pAlloc, p))
            /\ ~(Contains(pLame, p) /\ Contains(pAlloc, p))
  BY <1>9 DEF ListsShare
<1>11. /\ gone \in SUBSET PVoices /\ IsFiniteSet(gone)
  <2>1. gone \in SUBSET PVoices
    BY <1>3 DEF GoneAt
  <2> QED BY <2>1, SynthesizerAssumption, FS_Subset
<1>12. \A p \in gone : Contains(pAlloc, p) /\ ~Owned(pvoice, vvoice, p)
  BY <1>3, <1>11, VoicePulled
<1>13. IsList(listed, PVoices) /\ \A p : Contains(listed, p) <=> p \in gone
  BY <1>5, <1>11, SetListed
<1>14. IsList(less, PVoices) /\ \A p : Contains(less, p) <=> Contains(pAlloc, p) /\ p \notin gone
  BY <1>6, <1>10, ListLeft
<1>15. IsList(lame, PVoices) /\ \A p : Contains(lame, p) <=> p \in gone \/ Contains(pLame, p)
  <2>1. \A p : ~(Contains(listed, p) /\ Contains(pLame, p))
    BY <1>10, <1>11, <1>12, <1>13
  <2>2. IsList(listed, PVoices) /\ IsList(pLame, PVoices)
    BY <1>10, <1>13
  <2>3. IsList(lame, PVoices) /\ \A p : Contains(lame, p) <=> Contains(listed, p) \/ Contains(pLame, p)
    BY <1>7, <2>1, <2>2, ListsJoined
  <2> QED BY <1>13, <2>3
<1>16. ListsShare(pFree, lame, less)
  BY <1>10, <1>12, <1>14, <1>15 DEF ListsShare
<1>17. NotesKnown(pvoice, vvoice, less)
  <2> SUFFICES ASSUME NEW v \in VVoices, pvoice[v] # NoPV
               PROVE  vvoice[pvoice[v]] = v /\ Contains(less, pvoice[v])
    BY DEF NotesKnown
  <2>1. vvoice[pvoice[v]] = v /\ Contains(pAlloc, pvoice[v])
    BY <1>9 DEF NotesKnown
  <2>2. Owned(pvoice, vvoice, pvoice[v])
    BY <2>1, SynthesizerAssumption DEF Owned
  <2> QED BY <1>12, <1>14, <2>1, <2>2
<1>18. ASSUME NEW p \in PVoices
       PROVE  /\ VoiceFits(Owned(pvoice, vvoice, p), Contains(s.alloc, p), s.ctrl[p], s.offset[p], m[p])
              /\ Timed(s.ctrl[p], b - n + s.offset[p])
              /\ s.ctrl[p] \in Seq(Updates) /\ m[p] \in BOOLEAN
  <2>1. PICK mm : mm = Moving(NowAt(p, n), motion[p])
    OBVIOUS
  <2>2. PICK late : late = LateAt(p, n)
    OBVIOUS
  <2>3. s.ctrl[p] = late /\ m[p] = mm /\ offset[p] \in Nat
    BY <1>4, <1>8, <1>9, <2>1, <2>2 DEF LeftAt
  <2>4. late \in Seq(Updates) /\ mm \in BOOLEAN
    BY <2>1, <2>2, VoicePulled
  <2>5. CASE p \in gone
    <3>1. /\ Contains(pAlloc, p) /\ ~Owned(pvoice, vvoice, p) /\ VoiceFits(FALSE, FALSE, late, 0, mm)
          /\ \A c \in Int : Timed(late, c)
      <4>1. p \in GoneAt(n)
        BY <1>3, <2>5
      <4> QED BY <2>1, <2>2, <4>1, VoicePulled
    <3>2. s.offset[p] = 0 /\ ~Contains(s.alloc, p)
      BY <1>8, <1>14, <2>5
    <3>3. VoiceFits(Owned(pvoice, vvoice, p), Contains(s.alloc, p), late, 0, mm)
      BY <3>1, <3>2 DEF VoiceFits
    <3>4. Timed(late, b - n + 0)
      BY <3>1
    <3> QED BY <2>3, <2>4, <3>2, <3>3, <3>4
  <2>6. CASE p \notin gone
    <3>1. /\ VoiceFits(Owned(pvoice, vvoice, p), Contains(pAlloc, p), late, offset[p], mm)
          /\ Timed(late, b + offset[p] - n)
      <4>1. p \notin GoneAt(n)
        BY <1>3, <2>6
      <4> QED BY <2>1, <2>2, <4>1, VoicePulled
    <3>2. s.offset[p] = offset[p] /\ (Contains(s.alloc, p) <=> Contains(pAlloc, p))
      BY <1>8, <1>14, <2>6
    <3>3. b + offset[p] - n = b - n + offset[p]
      BY <2>3
    <3>4. VoiceFits(Owned(pvoice, vvoice, p), Contains(s.alloc, p), late, offset[p], mm)
      BY <3>1, <3>2 DEF VoiceFits
    <3> QED BY <2>3, <2>4, <3>1, <3>2, <3>3, <3>4
  <2> QED BY <2>5, <2>6
<1>19. s.offset \in [PVoices -> Nat]
  BY <1>8, <1>9
<1>20. s.ctrl \in [PVoices -> Seq(Updates)] /\ m \in [PVoices -> BOOLEAN]
  <2>1. s.ctrl = [p \in PVoices |-> s.ctrl[p]] /\ m = [p \in PVoices |-> m[p]]
    BY <1>4, <1>8 DEF LeftAt
  <2> QED BY <1>18, <2>1
<1> QED BY <1>8, <1>16, <1>17, <1>18, <1>19, <1>20

LEMMA LamesCollected ==
  ASSUME NEW free, NEW lame, NEW alloc, ListsShare(free, lame, alloc),
         NEW more, more = Reverse(lame) \o free
  PROVE  ListsShare(more, << >>, alloc)
<1>1. /\ IsList(free, PVoices) /\ IsList(lame, PVoices) /\ IsList(alloc, PVoices)
      /\ \A x \in PVoices :
           /\ Contains(free, x) \/ Contains(lame, x) \/ Contains(alloc, x)
           /\ ~(Contains(free, x) /\ Contains(lame, x))
           /\ ~(Contains(free, x) /\ Contains(alloc, x))
           /\ ~(Contains(lame, x) /\ Contains(alloc, x))
  BY DEF ListsShare
<1>2. PICK k : k = Reverse(lame)
  OBVIOUS
<1>3. IsList(k, PVoices) /\ \A x : Contains(k, x) <=> Contains(lame, x)
  BY <1>1, <1>2, ReverseList
<1>4. \A x : Contains(k, x) => x \in PVoices
  BY <1>3, ElementOfSeq DEF IsList, Contains
<1>5. IsList(more, PVoices) /\ \A x : Contains(more, x) <=> Contains(k, x) \/ Contains(free, x)
  <2>1. \A x : ~(Contains(k, x) /\ Contains(free, x))
    BY <1>1, <1>3, <1>4
  <2>2. more = k \o free /\ IsList(k, PVoices) /\ IsList(free, PVoices)
    BY <1>1, <1>2, <1>3
  <2> QED BY <2>1, <2>2, ListsJoined
<1>6. IsList(<< >>, PVoices) /\ \A x : ~Contains(<< >>, x)
  BY DEF IsList, Contains
<1> QED BY <1>1, <1>3, <1>5, <1>6 DEF ListsShare

------------------------------------------------------------------------------
(* The steps *)

\* __nextSampleTime finds a player than which none is due earlier.
LEMMA EarliestIsDue ==
  ASSUME IsList(clients, Players), clients # << >>, samplesLeft \in [Players -> Int]
  PROVE  /\ Contains(clients, Earliest) /\ Earliest \in Players
         /\ \A c \in Players : Contains(clients, c) => samplesLeft[Earliest] <= samplesLeft[c]
<1>1. PICK n \in Nat : n = Len(clients)
  BY DEF IsList
<1>2. PICK r : r = [i \in 1..n |-> samplesLeft[clients[i]]]
  OBVIOUS
<1>3. \A i \in 1..n : clients[i] \in Players
  BY <1>1, ElementOfSeq DEF IsList
<1>4. r \in [1..n -> Int]
  BY <1>2, <1>3
<1>5. 1..n # {}
  BY <1>1, EmptySeq DEF IsList
<1>6. \E i \in 1..n : \A j \in 1..n : r[i] <= r[j] /\ (j < i => r[i] < r[j])
  BY <1>4, <1>5, LeastRanked
<1>7. \E i \in 1..n : \A j \in 1..n : /\ samplesLeft[clients[i]] <= samplesLeft[clients[j]]
                                      /\ j < i => samplesLeft[clients[i]] < samplesLeft[clients[j]]
  BY <1>2, <1>6
<1>8. PICK i \in 1..n : /\ Earliest = clients[i]
                        /\ \A j \in 1..n : samplesLeft[clients[i]] <= samplesLeft[clients[j]]
  BY <1>1, <1>7 DEF Earliest
<1> QED BY <1>1, <1>3, <1>8 DEF Contains

\* Nothing happens to the voices.
VoicesUnchanged == UNCHANGED << pFree, pLame, pAlloc, pvoice, vvoice, offset, ctrl, motion >>
VoiceTypes ==
  /\ pvoice \in [VVoices -> PVoices \cup {NoPV}] /\ vvoice \in [PVoices -> VVoices \cup {NoVV}]
  /\ offset \in [PVoices -> Nat] /\ ctrl \in [PVoices -> Seq(Updates)]
  /\ motion \in [PVoices -> BOOLEAN]
VoicesSound ==
  /\ VoiceTypes /\ ListsShare(pFree, pLame, pAlloc) /\ NotesKnown(pvoice, vvoice, pAlloc) /\ VoicesFit
FrameTypes ==
  /\ synPhase \in {"idle", "due", "handler", "render"}
  /\ IsList(clients, Players) /\ samplesLeft \in [Players -> Int]
  /\ paramSamples \in Int /\ toRender \in Int

LEMMA InvariantParts == SynInv <=> VoicesSound /\ FrameTypes /\ Schedule
BY DEF SynInv, SynTypes, VoicesSound, VoiceTypes, FrameTypes

LEMMA InvariantPartsNext == SynInv' <=> VoicesSound' /\ FrameTypes' /\ Schedule'
BY DEF SynInv, SynTypes, VoicesSound, VoiceTypes, FrameTypes

LEMMA VoicesStay ==
  ASSUME VoicesSound, VoicesUnchanged
  PROVE  VoicesSound' /\ \A b \in Int : TimedTo(b) => TimedTo(b)'
<1>1. VoiceTypes'
  BY DEF VoicesSound, VoicesUnchanged, VoiceTypes
<1>2. ListsShare(pFree', pLame', pAlloc') /\ NotesKnown(pvoice', vvoice', pAlloc')
  BY DEF VoicesSound, VoicesUnchanged
<1>3. VoicesFit'
  BY DEF VoicesSound, VoicesUnchanged, VoicesFit
<1>4. \A b \in Int : TimedTo(b) => TimedTo(b)'
  BY DEF VoicesUnchanged, TimedTo
<1> QED BY <1>1, <1>2, <1>3, <1>4 DEF VoicesSound

LEMMA AllTimedLonger ==
  ASSUME VoicesSound, NEW b \in Int, NEW c \in Int, b <= c, TimedTo(b)
  PROVE  TimedTo(c)
<1> SUFFICES ASSUME NEW p \in PVoices PROVE Timed(ctrl[p], c + offset[p])
  BY DEF TimedTo
<1>1. ctrl[p] \in Seq(Updates) /\ offset[p] \in Nat
  BY DEF VoicesSound, VoiceTypes
<1>2. PICK x \in Int : x = b + offset[p]
  BY <1>1
<1>3. PICK y \in Int : y = c + offset[p]
  BY <1>1
<1>4. x <= y
  BY <1>1, <1>2, <1>3
<1>5. Timed(ctrl[p], x)
  BY <1>2 DEF TimedTo
<1> QED BY <1>1, <1>3, <1>4, <1>5, TimedLonger

LEMMA FrameStarts ==
  ASSUME SynInv, StartFrame
  PROVE  SynInv'
<1>1. VoicesSound /\ FrameTypes /\ Schedule
  BY InvariantParts
<1>2. VoicesSound' /\ \A b \in Int : TimedTo(b) => TimedTo(b)'
  <2>1. VoicesUnchanged
    BY DEF StartFrame, VoicesUnchanged, voiceVars
  <2> QED BY <1>1, <2>1, VoicesStay
<1>3. /\ synPhase' = "due" /\ toRender' = OutLen /\ clients' = clients /\ samplesLeft' = samplesLeft
      /\ paramSamples' = paramSamples /\ clients # << >> /\ synPhase = "idle"
  BY DEF StartFrame
<1>4. OutLen \in Nat \ {0}
  BY SynthesizerAssumption
<1>5. FrameTypes'
  BY <1>1, <1>3, <1>4 DEF FrameTypes
<1>6. TimedTo(0) /\ LeftFor(0)
  BY <1>1, <1>3 DEF Schedule
<1>7. LeftFor(0)'
  BY <1>3, <1>6 DEF LeftFor
<1>8. TimedTo(OutLen)'
  BY <1>1, <1>2, <1>4, <1>6, AllTimedLonger
<1>9. ASSUME NEW c \in Players, Contains(clients', c)
      PROVE  TimedTo(Aligned(samplesLeft[c]))'
  <2>1. samplesLeft[c] \in Int /\ samplesLeft[c] >= 0
    BY <1>1, <1>3, <1>6, <1>9 DEF FrameTypes, LeftFor
  <2>2. PICK a \in Int : a = Aligned(samplesLeft[c]) /\ 0 <= a
    BY <2>1, AlignedGrows
  <2>3. TimedTo(a)'
    BY <1>1, <1>2, <1>6, <2>2, AllTimedLonger
  <2>4. Aligned(samplesLeft'[c]) = a
    BY <1>3, <2>2
  <2> QED BY <2>3, <2>4 DEF TimedTo
<1>10. Schedule'
  BY <1>3, <1>7, <1>8, <1>9 DEF Schedule
<1> QED BY <1>2, <1>5, <1>10, InvariantPartsNext

LEMMA HandlerIsCalled ==
  ASSUME SynInv, CallHandler
  PROVE  SynInv'
<1>1. VoicesSound /\ FrameTypes /\ Schedule
  BY InvariantParts
<1>2. VoicesSound' /\ \A b \in Int : TimedTo(b) => TimedTo(b)'
  <2>1. VoicesUnchanged
    BY DEF CallHandler, VoicesUnchanged, voiceVars
  <2> QED BY <1>1, <2>1, VoicesStay
<1>3. PICK e : e = Earliest
  OBVIOUS
<1>4. /\ synPhase' = "handler" /\ toRender' = toRender /\ clients' = clients /\ samplesLeft' = samplesLeft
      /\ synPhase = "due" /\ samplesLeft[e] < OutLen
  BY <1>3 DEF CallHandler
<1>5. paramSamples' = Aligned(samplesLeft[e])
  BY <1>3 DEF CallHandler
<1>6. /\ clients # << >> /\ toRender = OutLen /\ LeftFor(0)
      /\ \A c \in Players : Contains(clients, c) => TimedTo(Aligned(samplesLeft[c]))
  BY <1>1, <1>4 DEF Schedule
<1>7. IsList(clients, Players) /\ samplesLeft \in [Players -> Int] /\ toRender \in Int
  BY <1>1 DEF FrameTypes
<1>8. /\ Contains(clients, e) /\ e \in Players
      /\ \A c \in Players : Contains(clients, c) => samplesLeft[e] <= samplesLeft[c]
  BY <1>3, <1>6, <1>7, EarliestIsDue
<1>9. PICK l \in Int : l = samplesLeft[e]
  BY <1>7, <1>8
<1>10. OutLen \in Nat \ {0}
  BY SynthesizerAssumption
<1>11. l >= 0 /\ l < OutLen
  BY <1>4, <1>6, <1>8, <1>9 DEF LeftFor
<1>12. PICK a \in Int : a = Aligned(l) /\ a <= l /\ 0 <= a
  BY <1>9, <1>11, AlignedGrows
<1>13. paramSamples' = a
  BY <1>5, <1>9, <1>12
<1>14. FrameTypes'
  BY <1>4, <1>7, <1>13 DEF FrameTypes
<1>15. TimedTo(a)
  BY <1>6, <1>8, <1>9, <1>12
<1>16. TimedTo(paramSamples)'
  <2>1. TimedTo(a)'
    BY <1>2, <1>15
  <2> QED BY <1>13, <2>1 DEF TimedTo
<1>17. LeftFor(0)'
  BY <1>4, <1>6 DEF LeftFor
<1>18. ASSUME NEW c \in Players, Contains(clients', c)
       PROVE  Aligned(samplesLeft'[c]) >= paramSamples'
  <2>1. PICK x \in Int : x = samplesLeft[c] /\ l <= x
    BY <1>4, <1>7, <1>8, <1>9, <1>18
  <2>2. Aligned(l) <= Aligned(x) /\ Aligned(x) \in Int
    BY <1>9, <2>1, AlignedGrows
  <2>3. Aligned(samplesLeft'[c]) = Aligned(x)
    BY <1>4, <2>1
  <2> QED BY <1>12, <1>13, <2>2, <2>3
<1>19. paramSamples' >= 0 /\ paramSamples' <= OutLen /\ toRender' = OutLen /\ clients' # << >>
  BY <1>4, <1>6, <1>9, <1>10, <1>11, <1>12, <1>13
<1>20. Schedule'
  BY <1>4, <1>16, <1>17, <1>18, <1>19 DEF Schedule
<1> QED BY <1>2, <1>14, <1>20, InvariantPartsNext

LEMMA HandlerEnds ==
  ASSUME SynInv, HandlerReturns
  PROVE  SynInv'
<1>1. VoicesSound /\ FrameTypes /\ Schedule
  BY InvariantParts
<1>2. VoicesSound' /\ \A b \in Int : TimedTo(b) => TimedTo(b)'
  <2>1. VoicesUnchanged
    BY DEF HandlerReturns, VoicesUnchanged, voiceVars
  <2> QED BY <1>1, <2>1, VoicesStay
<1>3. /\ synPhase' = "due" /\ toRender' = toRender /\ clients' = clients /\ paramSamples' = paramSamples
      /\ synPhase = "handler"
  BY DEF HandlerReturns
<1>4. PICK d \in Delays : samplesLeft' = [samplesLeft EXCEPT ![client] = @ + d]
  BY DEF HandlerReturns
<1>5. d \in Nat /\ OutLen \in Nat \ {0}
  BY SynthesizerAssumption
<1>6. /\ clients # << >> /\ toRender = OutLen /\ paramSamples >= 0 /\ paramSamples <= OutLen
      /\ TimedTo(paramSamples) /\ LeftFor(0)
      /\ \A c \in Players : Contains(clients, c) => Aligned(samplesLeft[c]) >= paramSamples
  BY <1>1, <1>3 DEF Schedule
<1>7. /\ IsList(clients, Players) /\ samplesLeft \in [Players -> Int] /\ toRender \in Int
      /\ paramSamples \in Int
  BY <1>1 DEF FrameTypes
<1>8. samplesLeft' \in [Players -> Int] /\ \A c \in Players : samplesLeft[c] <= samplesLeft'[c]
  <2>1. \A c \in Players : samplesLeft'[c] = (IF c = client THEN samplesLeft[c] + d ELSE samplesLeft[c])
    BY <1>4, <1>7
  <2>2. samplesLeft' = [c \in Players |-> samplesLeft'[c]]
    BY <1>4, <1>7
  <2>3. \A c \in Players : samplesLeft'[c] \in Int /\ samplesLeft[c] <= samplesLeft'[c]
    BY <1>5, <1>7, <2>1
  <2> QED BY <2>2, <2>3
<1>9. FrameTypes'
  BY <1>3, <1>7, <1>8 DEF FrameTypes
<1>10. LeftFor(0)'
  BY <1>3, <1>6, <1>7, <1>8 DEF LeftFor
<1>11. TimedTo(OutLen)'
  BY <1>1, <1>2, <1>5, <1>6, <1>7, AllTimedLonger
<1>12. ASSUME NEW c \in Players, Contains(clients', c)
       PROVE  TimedTo(Aligned(samplesLeft[c]))'
  <2>1. PICK x \in Int : x = samplesLeft[c]
    BY <1>7
  <2>2. PICK y \in Int : y = samplesLeft'[c] /\ x <= y
    BY <1>8, <2>1
  <2>3. Aligned(x) <= Aligned(y) /\ Aligned(x) \in Int
    BY <2>2, AlignedGrows
  <2>4. PICK a \in Int : a = Aligned(y)
    BY <2>2, AlignedGrows
  <2>5. paramSamples <= Aligned(x)
    BY <1>3, <1>6, <1>7, <1>12, <2>1, <2>3
  <2>6. paramSamples <= a
    BY <1>7, <2>3, <2>4, <2>5
  <2>7. TimedTo(a)
    BY <1>1, <1>6, <1>7, <2>6, AllTimedLonger
  <2>8. TimedTo(a)'
    BY <1>2, <2>7
  <2>9. Aligned(samplesLeft'[c]) = a
    BY <2>2, <2>4
  <2> QED BY <2>8, <2>9 DEF TimedTo
<1>13. Schedule'
  BY <1>3, <1>6, <1>10, <1>11, <1>12 DEF Schedule
<1> QED BY <1>2, <1>9, <1>13, InvariantPartsNext

LEMMA RenderingStarts ==
  ASSUME SynInv, AllCalled
  PROVE  SynInv'
<1>1. VoicesSound /\ FrameTypes /\ Schedule
  BY InvariantParts
<1>2. VoicesSound' /\ \A b \in Int : TimedTo(b) => TimedTo(b)'
  <2>1. VoicesUnchanged
    BY DEF AllCalled, VoicesUnchanged, voiceVars
  <2> QED BY <1>1, <2>1, VoicesStay
<1>3. PICK e : e = Earliest
  OBVIOUS
<1>4. /\ synPhase' = "render" /\ toRender' = toRender /\ clients' = clients /\ samplesLeft' = samplesLeft
      /\ synPhase = "due" /\ samplesLeft[e] >= OutLen
  BY <1>3 DEF AllCalled
<1>5. paramSamples' = Aligned(samplesLeft[e])
  BY <1>3 DEF AllCalled
<1>6. clients # << >> /\ toRender = OutLen /\ TimedTo(OutLen)
  BY <1>1, <1>4 DEF Schedule
<1>7. IsList(clients, Players) /\ samplesLeft \in [Players -> Int] /\ toRender \in Int
  BY <1>1 DEF FrameTypes
<1>8. /\ Contains(clients, e) /\ e \in Players
      /\ \A c \in Players : Contains(clients, c) => samplesLeft[e] <= samplesLeft[c]
  BY <1>3, <1>6, <1>7, EarliestIsDue
<1>9. PICK l \in Int : l = samplesLeft[e]
  BY <1>7, <1>8
<1>10. OutLen \in Nat \ {0}
  BY SynthesizerAssumption
<1>11. paramSamples' \in Int
  BY <1>5, <1>9, AlignedGrows
<1>12. FrameTypes'
  BY <1>4, <1>7, <1>11 DEF FrameTypes
<1>13. LeftFor(toRender)'
  BY <1>4, <1>6, <1>7, <1>8, <1>9, <1>10 DEF LeftFor
<1>14. TimedTo(toRender)'
  <2>1. TimedTo(OutLen)'
    BY <1>2, <1>6, <1>10
  <2> QED BY <1>4, <1>6, <2>1 DEF TimedTo
<1>15. Schedule'
  BY <1>4, <1>6, <1>10, <1>13, <1>14 DEF Schedule
<1> QED BY <1>2, <1>12, <1>15, InvariantPartsNext

LEMMA PlayerAdded ==
  ASSUME SynInv, NEW c \in Players, AddPlayer(c)
  PROVE  SynInv'
<1>1. VoicesSound /\ FrameTypes /\ Schedule
  BY InvariantParts
<1>2. VoicesSound' /\ \A b \in Int : TimedTo(b) => TimedTo(b)'
  <2>1. VoicesUnchanged
    BY DEF AddPlayer, VoicesUnchanged, voiceVars
  <2> QED BY <1>1, <2>1, VoicesStay
<1>3. /\ synPhase' = synPhase /\ toRender' = toRender /\ paramSamples' = paramSamples
      /\ synPhase = "idle" /\ ~Contains(clients, c)
      /\ clients' = << c >> \o clients /\ samplesLeft' = [samplesLeft EXCEPT ![c] = 0]
  BY DEF AddPlayer
<1>4. /\ IsList(clients, Players) /\ samplesLeft \in [Players -> Int] /\ toRender \in Int
      /\ paramSamples \in Int
  BY <1>1 DEF FrameTypes
<1>5. TimedTo(0) /\ LeftFor(0)
  BY <1>1, <1>3 DEF Schedule
<1>6. PICK one : one = << c >>
  OBVIOUS
<1>7. IsList(one, Players) /\ \A y : Contains(one, y) <=> y = c
  BY <1>6, OneList
<1>8. IsList(clients', Players) /\ \A x : Contains(clients', x) <=> x = c \/ Contains(clients, x)
  <2>1. \A x : ~(Contains(one, x) /\ Contains(clients, x))
    BY <1>3, <1>7
  <2>2. clients' = one \o clients
    BY <1>3, <1>6
  <2>3. IsList(clients', Players) /\ \A x : Contains(clients', x) <=> Contains(one, x) \/ Contains(clients, x)
    BY <1>4, <1>7, <2>1, <2>2, ListsJoined
  <2> QED BY <1>7, <2>3
<1>9. samplesLeft' \in [Players -> Int] /\ \A x \in Players : x # c => samplesLeft'[x] = samplesLeft[x]
  BY <1>3, <1>4
<1>10. samplesLeft'[c] = 0
  BY <1>3, <1>4
<1>11. FrameTypes'
  BY <1>3, <1>4, <1>8, <1>9 DEF FrameTypes
<1>12. LeftFor(0)'
  BY <1>5, <1>8, <1>9, <1>10 DEF LeftFor
<1>13. Schedule'
  BY <1>2, <1>3, <1>5, <1>12 DEF Schedule
<1> QED BY <1>2, <1>11, <1>13, InvariantPartsNext

LEMMA PlayerRemoved ==
  ASSUME SynInv, NEW c \in Players, RemovePlayer(c)
  PROVE  SynInv'
<1>1. VoicesSound /\ FrameTypes /\ Schedule
  BY InvariantParts
<1>2. VoicesSound' /\ \A b \in Int : TimedTo(b) => TimedTo(b)'
  <2>1. VoicesUnchanged
    BY DEF RemovePlayer, VoicesUnchanged, voiceVars
  <2> QED BY <1>1, <2>1, VoicesStay
<1>3. /\ synPhase' = synPhase /\ toRender' = toRender /\ paramSamples' = paramSamples
      /\ synPhase = "idle"
      /\ clients' = Unlinked(clients, {c}) /\ samplesLeft' = [samplesLeft EXCEPT ![c] = 0]
  BY DEF RemovePlayer
<1>4. /\ IsList(clients, Players) /\ samplesLeft \in [Players -> Int] /\ toRender \in Int
      /\ paramSamples \in Int
  BY <1>1 DEF FrameTypes
<1>5. TimedTo(0) /\ LeftFor(0)
  BY <1>1, <1>3 DEF Schedule
<1>6. PICK gone : gone = {c}
  OBVIOUS
<1>7. IsList(clients', Players) /\ \A x : Contains(clients', x) <=> Contains(clients, x) /\ x \notin gone
  <2>1. clients' = Unlinked(clients, gone)
    BY <1>3, <1>6
  <2> QED BY <1>4, <2>1, ListLeft
<1>8. samplesLeft' \in [Players -> Int] /\ \A x \in Players : x # c => samplesLeft'[x] = samplesLeft[x]
  BY <1>3, <1>4
<1>9. FrameTypes'
  BY <1>3, <1>4, <1>7, <1>8 DEF FrameTypes
<1>10. LeftFor(0)'
  BY <1>5, <1>6, <1>7, <1>8 DEF LeftFor
<1>11. Schedule'
  BY <1>2, <1>3, <1>5, <1>10 DEF Schedule
<1> QED BY <1>2, <1>9, <1>11, InvariantPartsNext

\* A voice call of a handler
LEMMA VoiceIsCalled ==
  ASSUME SynInv, ~Scarce, ~Outside, NEW v \in VVoices, VoiceCall(v)
  PROVE  SynInv'
<1>1. VoicesSound /\ FrameTypes /\ Schedule
  BY InvariantParts
<1>2. /\ synPhase' = synPhase /\ toRender' = toRender /\ paramSamples' = paramSamples
      /\ clients' = clients /\ samplesLeft' = samplesLeft /\ motion' = motion
      /\ synPhase = "handler" /\ Note(v)
  BY DEF VoiceCall
<1>3. /\ clients # << >> /\ toRender = OutLen /\ paramSamples >= 0 /\ paramSamples <= OutLen
      /\ TimedTo(paramSamples) /\ LeftFor(0)
      /\ \A c \in Players : Contains(clients, c) => Aligned(samplesLeft[c]) >= paramSamples
  BY <1>1, <1>2 DEF Schedule
<1>4. paramSamples \in Nat
  BY <1>1, <1>3 DEF FrameTypes
<1>5. VoicesGood
  <2>1. SynTypes
    BY DEF SynInv
  <2> QED BY <1>1, <2>1 DEF VoicesGood, VoicesSound
<1>6. PICK s : s = Synth
  OBVIOUS
<1>7. IsSynth(s) /\ Good(s, paramSamples) /\ s.pv = pvoice
  <2>1. IsSynth(Synth) /\ Good(Synth, paramSamples)
    BY <1>3, <1>4, <1>5, SynthIsGood
  <2>2. Synth.pv = pvoice
    BY DEF Synth
  <2> QED BY <1>6, <2>1, <2>2
<1>8. motion \in [PVoices -> BOOLEAN] /\ pvoice \in [VVoices -> PVoices \cup {NoPV}]
  BY <1>1 DEF VoicesSound, VoiceTypes
<1>9. Used(s) + 3 <= MaxUpdates
  BY <1>2, <1>6 DEF Note
<1>10. \E r : SynthBecomes(r) /\ IsSynth(r) /\ Good(r, paramSamples)
  <2>1. CASE StartNote(v)
    <3>1. pvoice[v] = NoPV /\ SynthBecomes(Update(AllocVoice(s, v), v, "start"))
      BY <1>6, <2>1 DEF StartNote
    <3>2. CanStart(s, v)
      BY <1>4, <1>7, <1>8, <1>9, <3>1 DEF CanStart
    <3>3. PICK x : x = AllocVoice(s, v)
      OBVIOUS
    <3>4. PICK r : r = Update(x, v, "start")
      OBVIOUS
    <3>5. IsSynth(r) /\ Good(r, paramSamples)
      BY <3>2, <3>3, <3>4, NoteStarts
    <3> QED BY <3>1, <3>3, <3>4, <3>5
  <2>2. CASE EndNote(v)
    <3>1. pvoice[v] # NoPV /\ SynthBecomes(FreeVoice(Update(s, v, "stop"), v))
      BY <1>6, <2>2 DEF EndNote
    <3>2. PICK p \in PVoices : p = pvoice[v]
      BY <1>8, <3>1
    <3>3. CanCall(s, v, p)
      BY <1>4, <1>7, <1>8, <1>9, <3>2 DEF CanCall
    <3>4. PICK x : x = Update(s, v, "stop")
      OBVIOUS
    <3>5. PICK r : r = FreeVoice(x, v)
      OBVIOUS
    <3>6. IsSynth(r) /\ Good(r, paramSamples)
      BY <3>3, <3>4, <3>5, NoteEnds
    <3> QED BY <3>1, <3>4, <3>5, <3>6
  <2>3. CASE SetVol(v)
    <3>1. pvoice[v] # NoPV /\ SynthBecomes(Update(s, v, "vol"))
      BY <1>6, <2>3 DEF SetVol
    <3>2. PICK p \in PVoices : p = pvoice[v]
      BY <1>8, <3>1
    <3>3. CanCall(s, v, p)
      BY <1>4, <1>7, <1>8, <1>9, <3>2 DEF CanCall
    <3>4. PICK r : r = Update(s, v, "vol")
      OBVIOUS
    <3>5. IsSynth(r) /\ Good(r, paramSamples)
      BY <3>3, <3>4, NoteSet
    <3> QED BY <3>1, <3>4, <3>5
  <2> QED BY <1>2, <2>1, <2>2, <2>3 DEF Note
<1>11. PICK r : SynthBecomes(r) /\ IsSynth(r) /\ Good(r, paramSamples)
  BY <1>10
<1>12. /\ pFree' = r.free /\ pLame' = r.lame /\ pAlloc' = r.alloc /\ pvoice' = r.pv
       /\ vvoice' = r.vv /\ offset' = r.offset /\ ctrl' = r.ctrl
  BY <1>11 DEF SynthBecomes
<1>13. VoiceTypes'
  BY <1>2, <1>8, <1>11, <1>12 DEF IsSynth, VoiceTypes
<1>14. ListsShare(pFree', pLame', pAlloc') /\ NotesKnown(pvoice', vvoice', pAlloc')
  BY <1>11, <1>12 DEF Good
<1>15. VoicesFit'
  BY <1>2, <1>11, <1>12 DEF Good, VoicesFit
<1>16. TimedTo(paramSamples)'
  BY <1>2, <1>11, <1>12 DEF Good, TimedTo
<1>17. FrameTypes'
  BY <1>1, <1>2 DEF FrameTypes
<1>18. LeftFor(0)'
  BY <1>2, <1>3 DEF LeftFor
<1>19. \A c \in Players : Contains(clients', c) => Aligned(samplesLeft'[c]) >= paramSamples'
  BY <1>2, <1>3
<1>20. Schedule'
  BY <1>2, <1>3, <1>16, <1>18, <1>19 DEF Schedule
<1> QED BY <1>13, <1>14, <1>15, <1>17, <1>20, InvariantPartsNext DEF VoicesSound

\* What the last part of a frame does at its end
Collected(s) == [s EXCEPT !.free = Reverse(s.lame) \o @, !.lame = << >>]

LEMMA AfterCollecting ==
  ASSUME NEW s, DOMAIN s = SynthNames, NEW r, r = Collected(s)
  PROVE  /\ r.free = Reverse(s.lame) \o s.free /\ r.lame = << >> /\ r.alloc = s.alloc /\ r.pv = s.pv
         /\ r.vv = s.vv /\ r.offset = s.offset /\ r.ctrl = s.ctrl
BY DEF Collected, SynthNames

Part == IF toRender < MaxOut THEN toRender ELSE MaxOut

LEMMA PartIsRendered ==
  ASSUME SynInv, Render
  PROVE  SynInv'
<1>1. VoicesSound /\ FrameTypes /\ Schedule
  BY InvariantParts
<1>2. PICK n : n = Part
  OBVIOUS
<1>3. PICK s : s = Pulled(n).synth
  OBVIOUS
<1>4. PICK m : m = Pulled(n).motion
  OBVIOUS
<1>5. PICK r : r = IF toRender = n THEN Collected(s) ELSE s
  OBVIOUS
<1>6. /\ synPhase = "render" /\ toRender' = toRender - n /\ motion' = m
      /\ samplesLeft' = [c \in Players |-> IF Contains(clients, c) THEN samplesLeft[c] - n ELSE 0]
      /\ paramSamples' = paramSamples - n /\ synPhase' = (IF toRender = n THEN "idle" ELSE "render")
      /\ clients' = clients
  BY <1>2, <1>4 DEF Render, Part
<1>7. SynthBecomes(r)
  BY <1>2, <1>3, <1>5 DEF Render, Part, Collected
<1>8. /\ pFree' = r.free /\ pLame' = r.lame /\ pAlloc' = r.alloc /\ pvoice' = r.pv
      /\ vvoice' = r.vv /\ offset' = r.offset /\ ctrl' = r.ctrl
  BY <1>7 DEF SynthBecomes
<1>9. /\ IsList(clients, Players) /\ samplesLeft \in [Players -> Int] /\ toRender \in Int
      /\ paramSamples \in Int
  BY <1>1 DEF FrameTypes
<1>10. toRender > 0 /\ TimedTo(toRender) /\ LeftFor(toRender)
  BY <1>1, <1>6 DEF Schedule
<1>11. PICK b \in Int : b = toRender
  BY <1>9
<1>12. n \in Int /\ n <= b /\ (b # n => n < b)
  <2>1. MaxOut \in Nat
    BY SynthesizerAssumption
  <2> QED BY <1>2, <1>11, <2>1 DEF Part
<1>13. PICK d \in Int : d = b - n /\ d >= 0 /\ (b # n => d > 0)
  BY <1>12
<1>14. VoicesGood
  <2>1. SynTypes
    BY DEF SynInv
  <2> QED BY <1>1, <2>1 DEF VoicesGood, VoicesSound
<1>15. TimedTo(b)
  BY <1>10, <1>11
<1>16. /\ s.pv = pvoice /\ s.vv = vvoice /\ s.offset \in [PVoices -> Nat]
       /\ s.ctrl \in [PVoices -> Seq(Updates)] /\ m \in [PVoices -> BOOLEAN]
       /\ ListsShare(s.free, s.lame, s.alloc) /\ NotesKnown(pvoice, vvoice, s.alloc)
       /\ \A p \in PVoices :
            /\ VoiceFits(Owned(pvoice, vvoice, p), Contains(s.alloc, p), s.ctrl[p], s.offset[p], m[p])
            /\ Timed(s.ctrl[p], b - n + s.offset[p])
       /\ DOMAIN s = SynthNames
  BY <1>3, <1>4, <1>12, <1>14, <1>15, PulledIsGood
<1>17. /\ r.alloc = s.alloc /\ r.pv = s.pv /\ r.vv = s.vv /\ r.offset = s.offset /\ r.ctrl = s.ctrl
       /\ ListsShare(r.free, r.lame, r.alloc)
  <2>1. CASE toRender = n
    <3>1. r = Collected(s)
      BY <1>5, <2>1
    <3>2. DOMAIN s = SynthNames
      BY <1>16
    <3>3. /\ r.free = Reverse(s.lame) \o s.free /\ r.lame = << >> /\ r.alloc = s.alloc /\ r.pv = s.pv
          /\ r.vv = s.vv /\ r.offset = s.offset /\ r.ctrl = s.ctrl
      BY <3>1, <3>2, AfterCollecting
    <3>4. PICK free : free = s.free
      OBVIOUS
    <3>5. PICK lame : lame = s.lame
      OBVIOUS
    <3>6. PICK alloc : alloc = s.alloc
      OBVIOUS
    <3>7. PICK more : more = Reverse(lame) \o free
      OBVIOUS
    <3>8. ListsShare(free, lame, alloc)
      BY <1>16, <3>4, <3>5, <3>6
    <3>9. ListsShare(more, << >>, alloc)
      BY <3>7, <3>8, LamesCollected
    <3>10. r.free = more /\ r.lame = << >> /\ r.alloc = alloc
      BY <3>3, <3>4, <3>5, <3>6, <3>7
    <3> QED BY <3>3, <3>9, <3>10
  <2>2. CASE toRender # n
    <3>1. r = s
      BY <1>5, <2>2
    <3> QED BY <1>16, <3>1
  <2> QED BY <2>1, <2>2
<1>18. pvoice' = pvoice /\ vvoice' = vvoice /\ pAlloc' = s.alloc /\ offset' = s.offset /\ ctrl' = s.ctrl
  BY <1>8, <1>16, <1>17
<1>19. VoiceTypes'
  BY <1>1, <1>6, <1>16, <1>18 DEF VoiceTypes, VoicesSound
<1>20. ListsShare(pFree', pLame', pAlloc') /\ NotesKnown(pvoice', vvoice', pAlloc')
  BY <1>8, <1>16, <1>17, <1>18
<1>21. VoicesFit'
  BY <1>6, <1>16, <1>18 DEF VoicesFit
<1>22. TimedTo(d)'
  BY <1>13, <1>16, <1>18 DEF TimedTo
<1>23. samplesLeft' \in [Players -> Int]
  BY <1>6, <1>9, <1>12
<1>24. toRender' = d
  BY <1>6, <1>11, <1>13
<1>25. FrameTypes'
  BY <1>6, <1>9, <1>12, <1>23, <1>24 DEF FrameTypes
<1>26. LeftFor(d)'
  <2> SUFFICES ASSUME NEW c \in Players, Contains(clients', c) PROVE samplesLeft'[c] >= d
    BY DEF LeftFor
  <2>1. samplesLeft'[c] = samplesLeft[c] - n
    BY <1>6
  <2>2. samplesLeft[c] \in Int /\ samplesLeft[c] >= b
    BY <1>6, <1>9, <1>10, <1>11 DEF LeftFor
  <2> QED BY <1>12, <1>13, <2>1, <2>2
<1>27. Schedule'
  <2>1. CASE toRender = n
    <3>1. d = 0 /\ synPhase' = "idle"
      BY <1>6, <1>11, <1>13, <2>1
    <3> QED BY <1>22, <1>26, <3>1 DEF Schedule
  <2>2. CASE toRender # n
    <3>1. d > 0 /\ synPhase' = "render"
      BY <1>6, <1>11, <1>13, <2>2
    <3>2. TimedTo(toRender)'
      BY <1>22, <1>24 DEF TimedTo
    <3>3. LeftFor(toRender)'
      BY <1>24, <1>26 DEF LeftFor
    <3> QED BY <1>24, <3>1, <3>2, <3>3 DEF Schedule
  <2> QED BY <2>1, <2>2
<1> QED BY <1>19, <1>20, <1>21, <1>25, <1>27, InvariantPartsNext DEF VoicesSound

LEMMA NoVoiceMoves ==
  ASSUME NEW m \in BOOLEAN
  PROVE  /\ Moving(<< >>, m) <=> m
         /\ FreeIsLast(<< >>) /\ ~HasFree(<< >>) /\ \A b \in Int : Timed(<< >>, b)
<1>1. Switches(<< >>) = {}
  BY DEF Switches
<1> QED BY <1>1 DEF Moving, FreeIsLast, HasFree, Timed

LEMMA SynStarts ==
  ASSUME SynInit
  PROVE  SynInv
<1>1. /\ synPhase = "idle" /\ clients = << >> /\ samplesLeft = [c \in Players |-> 0]
      /\ paramSamples = 0 /\ toRender = 0
      /\ pvoice = [v \in VVoices |-> NoPV] /\ vvoice = [p \in PVoices |-> NoVV]
      /\ offset = [p \in PVoices |-> 0] /\ ctrl = [p \in PVoices |-> << >>]
      /\ motion = [p \in PVoices |-> FALSE]
  BY DEF SynInit
<1>2. pFree = SetToSeq(PVoices) /\ pLame = << >> /\ pAlloc = << >>
  BY DEF SynInit
<1>3. IsList(pFree, PVoices) /\ \A p : Contains(pFree, p) <=> p \in PVoices
  BY <1>2, SynthesizerAssumption, SetListed
<1>4. ASSUME NEW S PROVE IsList(<< >>, S) /\ \A p : ~Contains(<< >>, p)
  BY DEF IsList, Contains
<1>5. ListsShare(pFree, pLame, pAlloc)
  BY <1>2, <1>3, <1>4 DEF ListsShare
<1>6. NotesKnown(pvoice, vvoice, pAlloc)
  BY <1>1 DEF NotesKnown
<1>7. VoiceTypes
  BY <1>1 DEF VoiceTypes
<1>8. ASSUME NEW p \in PVoices
      PROVE  VoiceFits(Owned(pvoice, vvoice, p), Contains(pAlloc, p), ctrl[p], offset[p], motion[p])
  <2>1. ~Owned(pvoice, vvoice, p)
    BY <1>1 DEF Owned
  <2>2. ctrl[p] = << >> /\ offset[p] = 0 /\ motion[p] = FALSE
    BY <1>1
  <2>3. ~Contains(pAlloc, p)
    BY <1>2, <1>4
  <2>4. ~Moving(<< >>, FALSE) /\ FreeIsLast(<< >>) /\ ~HasFree(<< >>)
    BY NoVoiceMoves
  <2> QED BY <2>1, <2>2, <2>3, <2>4 DEF VoiceFits
<1>9. VoicesFit
  BY <1>8 DEF VoicesFit
<1>10. FrameTypes
  BY <1>1, <1>4 DEF FrameTypes
<1>11. TimedTo(0)
  <2> SUFFICES ASSUME NEW p \in PVoices PROVE Timed(ctrl[p], 0 + offset[p])
    BY DEF TimedTo
  <2>1. ctrl[p] = << >>
    BY <1>1
  <2>2. PICK z : z = offset[p]
    OBVIOUS
  <2>5. z = 0
    BY <1>1, <2>2
  <2>6. 0 + z = 0
    BY <2>5
  <2>3. 0 + offset[p] = 0
    BY <2>2, <2>6
  <2>4. Timed(<< >>, 0)
    <3>1. TRUE \in BOOLEAN /\ 0 \in Int
      OBVIOUS
    <3>2. \A b \in Int : Timed(<< >>, b)
      BY <3>1, NoVoiceMoves
    <3> QED BY <3>1, <3>2
  <2> QED BY <2>1, <2>3, <2>4
<1>12. LeftFor(0)
  BY <1>1 DEF LeftFor
<1>13. Schedule
  BY <1>1, <1>11, <1>12 DEF Schedule
<1> QED BY <1>5, <1>6, <1>7, <1>9, <1>10, <1>13, InvariantParts DEF VoicesSound

LEMMA SynStutters ==
  ASSUME SynInv, UNCHANGED synVars
  PROVE  SynInv'
<1>1. VoicesSound /\ FrameTypes /\ Schedule
  BY InvariantParts
<1>2. /\ synPhase' = synPhase /\ clients' = clients /\ samplesLeft' = samplesLeft
      /\ paramSamples' = paramSamples /\ toRender' = toRender
  BY DEF synVars
<1>3. VoicesUnchanged
  BY DEF synVars, voiceVars, VoicesUnchanged
<1>4. VoicesSound' /\ \A b \in Int : TimedTo(b) => TimedTo(b)'
  BY <1>1, <1>3, VoicesStay
<1>5. FrameTypes'
  BY <1>1, <1>2 DEF FrameTypes
<1>6. Schedule'
  BY <1>1, <1>2, <1>3 DEF Schedule, TimedTo, LeftFor, VoicesUnchanged
<1> QED BY <1>4, <1>5, <1>6, InvariantPartsNext

------------------------------------------------------------------------------
(* What the invariant says of the voices *)

LEMMA ListCounts ==
  ASSUME NEW S, NEW l, IsList(l, S), \A x \in S : Contains(l, x)
  PROVE  Len(l) = Cardinality(S)
<1>1. PICK n \in Nat : n = Len(l)
  BY DEF IsList
<1>2. l \in [1..n -> S] /\ \A i, j \in 1..n : l[i] = l[j] => i = j
  BY <1>1 DEF IsList
<1>3. \A x \in S : \E i \in 1..n : l[i] = x
  BY <1>1 DEF Contains
<1>4. l \in Bijection(1..n, S)
  <2>1. l \in Injection(1..n, S)
    BY <1>2 DEF Injection, IsInjective
  <2>2. l \in Surjection(1..n, S)
    BY <1>2, <1>3 DEF Surjection
  <2> QED BY <2>1, <2>2 DEF Bijection
<1>5. IsFiniteSet(1..n) /\ Cardinality(1..n) = n
  BY FS_Interval
<1>6. Cardinality(S) = Cardinality(1..n)
  BY <1>4, <1>5, FS_Bijection DEF ExistsBijection
<1> QED BY <1>1, <1>5, <1>6

LEMMA ListHas ==
  ASSUME NEW S, NEW l, IsList(l, S)
  PROVE  \A x : x \in ToSet(l) <=> Contains(l, x)
<1>1. DOMAIN l = 1..Len(l)
  BY DEF IsList
<1> QED BY <1>1 DEF ToSet, Contains

\* A free that is the last of the updates is the only one.
LEMMA FreesCounted ==
  ASSUME NEW us \in Seq(Updates), FreeIsLast(us), NEW S,
         S = {i \in 1..Len(us) : us[i].type = "free"}
  PROVE  Cardinality(S) = (IF HasFree(us) THEN 1 ELSE 0)
<1>1. CASE HasFree(us)
  <2>1. PICK i \in 1..Len(us) : us[i].type = "free"
    BY <1>1 DEF HasFree
  <2>2. S = {i}
    BY <2>1 DEF FreeIsLast
  <2> QED BY <1>1, <2>2, FS_Singleton
<1>2. CASE ~HasFree(us)
  <2>1. S = {}
    BY <1>2 DEF HasFree
  <2> QED BY <1>2, <2>1, FS_EmptySet
<1> QED BY <1>1, <1>2

LEMMA UpdatesAreInOrder ==
  ASSUME SynInv
  PROVE  UpdatesInOrder
<1>1. VoicesSound /\ FrameTypes /\ Schedule
  BY InvariantParts
<1>2. \E b \in Int : TimedTo(b)
  <2>1. OutLen \in Int /\ paramSamples \in Int /\ toRender \in Int
    BY <1>1, SynthesizerAssumption DEF FrameTypes
  <2>2. CASE synPhase = "idle"
    BY <1>1, <2>2 DEF Schedule
  <2>3. CASE synPhase = "due"
    BY <1>1, <2>1, <2>3 DEF Schedule
  <2>4. CASE synPhase = "handler"
    BY <1>1, <2>1, <2>4 DEF Schedule
  <2>5. CASE synPhase = "render"
    BY <1>1, <2>1, <2>5 DEF Schedule
  <2> QED BY <1>1, <2>2, <2>3, <2>4, <2>5 DEF FrameTypes
<1>3. PICK b \in Int : TimedTo(b)
  BY <1>2
<1>4. ASSUME NEW p \in PVoices
      PROVE  /\ ctrl[p] # << >> => ctrl[p][1].at >= 0
             /\ \A i \in 2..Len(ctrl[p]) : ctrl[p][i - 1].at <= ctrl[p][i].at
  <2>1. PICK us \in Seq(Updates) : us = ctrl[p]
    BY <1>1 DEF VoicesSound, VoiceTypes
  <2>2. PICK c \in Int : c = b + offset[p]
    BY <1>1 DEF VoicesSound, VoiceTypes
  <2>3. Timed(us, c)
    BY <1>3, <2>1, <2>2 DEF TimedTo
  <2>4. PICK n \in Nat : n = Len(us)
    BY <2>1
  <2>5. ASSUME us # << >> PROVE us[1].at >= 0
    <3>1. 1 \in 1..n
      BY <2>1, <2>4, <2>5, EmptySeq
    <3>2. us[1].at \in Int
      BY <2>1, <2>4, <3>1, UpdateFields
    <3>3. 0 <= us[1].at
      BY <2>3, <2>4, <3>1 DEF Timed
    <3> QED BY <3>2, <3>3
  <2>6. ASSUME NEW i \in 2..n PROVE us[i - 1].at <= us[i].at
    <3>1. PICK j \in 1..n : j = i - 1 /\ j <= i
      BY <2>4
    <3>2. i \in 1..n
      BY <2>4
    <3>3. us[j].at <= us[i].at
      BY <2>3, <2>4, <3>1, <3>2 DEF Timed
    <3> QED BY <3>1, <3>3
  <2> QED BY <2>1, <2>4, <2>5, <2>6
<1> QED BY <1>4 DEF UpdatesInOrder

LEMMA VoicesDoMatch ==
  ASSUME SynInv
  PROVE  VoicesMatch
<1>1. VoicesSound /\ FrameTypes /\ Schedule
  BY InvariantParts
<1>2. /\ IsList(pFree, PVoices) /\ IsList(pLame, PVoices) /\ IsList(pAlloc, PVoices)
      /\ \A x \in PVoices :
           /\ Contains(pFree, x) \/ Contains(pLame, x) \/ Contains(pAlloc, x)
           /\ ~(Contains(pFree, x) /\ Contains(pLame, x))
           /\ ~(Contains(pFree, x) /\ Contains(pAlloc, x))
           /\ ~(Contains(pLame, x) /\ Contains(pAlloc, x))
  BY <1>1 DEF VoicesSound, ListsShare
<1>3. \A x : Contains(pFree, x) \/ Contains(pLame, x) \/ Contains(pAlloc, x) => x \in PVoices
  BY <1>2, ElementOfSeq DEF IsList, Contains
<1>4. PICK k : k = pFree \o pLame
  OBVIOUS
<1>5. /\ IsList(k, PVoices) /\ Len(k) = Len(pFree) + Len(pLame)
      /\ \A x : Contains(k, x) <=> Contains(pFree, x) \/ Contains(pLame, x)
  <2>1. \A x : ~(Contains(pFree, x) /\ Contains(pLame, x))
    BY <1>2, <1>3
  <2>2. IsList(pFree, PVoices) /\ IsList(pLame, PVoices)
    BY <1>2
  <2>3. IsList(k, PVoices) /\ \A x : Contains(k, x) <=> Contains(pFree, x) \/ Contains(pLame, x)
    BY <1>4, <2>1, <2>2, ListsJoined
  <2>4. Len(k) = Len(pFree) + Len(pLame)
    BY <1>4, <2>1, <2>2, ListsJoined
  <2> QED BY <2>3, <2>4
<1>6. PICK l : l = k \o pAlloc
  OBVIOUS
<1>7. /\ IsList(l, PVoices) /\ Len(l) = Len(k) + Len(pAlloc)
      /\ \A x : Contains(l, x) <=> Contains(k, x) \/ Contains(pAlloc, x)
  <2>1. \A x : ~(Contains(k, x) /\ Contains(pAlloc, x))
    BY <1>2, <1>3, <1>5
  <2>2. IsList(k, PVoices) /\ IsList(pAlloc, PVoices)
    BY <1>2, <1>5
  <2>3. IsList(l, PVoices) /\ \A x : Contains(l, x) <=> Contains(k, x) \/ Contains(pAlloc, x)
    BY <1>6, <2>1, <2>2, ListsJoined
  <2>4. Len(l) = Len(k) + Len(pAlloc)
    BY <1>6, <2>1, <2>2, ListsJoined
  <2> QED BY <2>3, <2>4
<1>8. Len(l) = Cardinality(PVoices)
  <2>1. \A x \in PVoices : Contains(l, x)
    BY <1>2, <1>5, <1>7
  <2> QED BY <1>7, <2>1, ListCounts
<1>9. Len(pFree) + Len(pLame) + Len(pAlloc) = Cardinality(PVoices)
  BY <1>5, <1>7, <1>8
<1>10. ToSet(pFree) \cup ToSet(pLame) \cup ToSet(pAlloc) = PVoices
  <2>1. /\ \A x : x \in ToSet(pFree) <=> Contains(pFree, x)
        /\ \A x : x \in ToSet(pLame) <=> Contains(pLame, x)
        /\ \A x : x \in ToSet(pAlloc) <=> Contains(pAlloc, x)
    BY <1>2, ListHas
  <2> QED BY <1>2, <1>3, <2>1
<1>11. \A v \in VVoices : pvoice[v] # NoPV => vvoice[pvoice[v]] = v /\ Contains(pAlloc, pvoice[v])
  BY <1>1 DEF VoicesSound, NotesKnown
<1>12. ASSUME NEW p \in PVoices
       PROVE  /\ InList(p, "free") = (IF Contains(pAlloc, p) /\ ~Owned(pvoice, vvoice, p) THEN 1 ELSE 0)
              /\ Owned(pvoice, vvoice, p) = Moving(ctrl[p], motion[p])
  <2>1. PICK us \in Seq(Updates) : us = ctrl[p]
    BY <1>1 DEF VoicesSound, VoiceTypes
  <2>2. PICK m \in BOOLEAN : m = motion[p]
    BY <1>1 DEF VoicesSound, VoiceTypes
  <2>3. VoiceFits(Owned(pvoice, vvoice, p), Contains(pAlloc, p), us, offset[p], m)
    BY <1>1, <2>1, <2>2 DEF VoicesSound, VoicesFit
  <2>4. /\ FreeIsLast(us) /\ (HasFree(us) <=> Contains(pAlloc, p) /\ ~Owned(pvoice, vvoice, p))
        /\ Owned(pvoice, vvoice, p) <=> Moving(us, m)
    BY <2>3 DEF VoiceFits
  <2>5. PICK S : S = {i \in 1..Len(us) : us[i].type = "free"}
    OBVIOUS
  <2>6. InList(p, "free") = Cardinality(S)
    BY <2>1, <2>5 DEF InList
  <2>7. Cardinality(S) = (IF HasFree(us) THEN 1 ELSE 0)
    BY <2>1, <2>4, <2>5, FreesCounted
  <2>8. Moving(us, m) \in BOOLEAN
    BY <2>2 DEF Moving
  <2>9. Owned(pvoice, vvoice, p) \in BOOLEAN
    BY DEF Owned
  <2>10. Owned(pvoice, vvoice, p) = Moving(us, m)
    BY <2>4, <2>8, <2>9
  <2> QED BY <2>1, <2>2, <2>4, <2>6, <2>7, <2>10
<1>13. ASSUME NEW p \in PVoices
       PROVE  LET owned == vvoice[p] # NoVV /\ pvoice[vvoice[p]] = p
              IN /\ InList(p, "free") = (IF Contains(pAlloc, p) /\ ~owned THEN 1 ELSE 0)
                 /\ owned = Moving(ctrl[p], motion[p])
  BY <1>12 DEF Owned
<1> QED BY <1>9, <1>10, <1>11, <1>13 DEF VoicesMatch

LEMMA SynSteps ==
  ASSUME SynInv, ~Scarce, ~Outside, [SynNext]_synVars
  PROVE  SynInv'
<1>1. CASE StartFrame
  BY <1>1, FrameStarts
<1>2. CASE CallHandler
  BY <1>2, HandlerIsCalled
<1>3. CASE HandlerReturns
  BY <1>3, HandlerEnds
<1>4. CASE AllCalled
  BY <1>4, RenderingStarts
<1>5. CASE Render
  BY <1>5, PartIsRendered
<1>6. ASSUME NEW v \in VVoices, VoiceCall(v) PROVE SynInv'
  BY <1>6, VoiceIsCalled
<1>7. ASSUME NEW c \in Players, AddPlayer(c) PROVE SynInv'
  BY <1>7, PlayerAdded
<1>8. ASSUME NEW c \in Players, RemovePlayer(c) PROVE SynInv'
  BY <1>8, PlayerRemoved
<1>9. CASE UNCHANGED synVars
  BY <1>9, SynStutters
<1> QED BY <1>1, <1>2, <1>3, <1>4, <1>5, <1>6, <1>7, <1>8, <1>9 DEF SynNext

\* Every physical voice is always in one list and does what its note last told it: a
\* note and its voice know each other, a voice without its note is freed exactly once,
\* and no update comes late or out of order (alAudioFrame, alSynAllocVoice,
\* alSynFreeVoice, alEnvmixerPull).
THEOREM VoicesStayInStep ==
  ASSUME ~Scarce, ~Outside
  PROVE  SynSpec => []VoicesInStep
<1>1. SynInit => SynInv
  BY SynStarts
<1>2. SynInv /\ [SynNext]_synVars => SynInv'
  BY SynSteps
<1>3. SynInv => VoicesInStep
  BY UpdatesAreInOrder, VoicesDoMatch DEF VoicesInStep
<1> QED BY <1>1, <1>2, <1>3, PTL DEF SynSpec

------------------------------------------------------------------------------
(* The resampler of a voice (AudioFilters) *)

\* What the resampler keeps: its own count, the microcode's and the player's are one.
ResamplerInv ==
  /\ resampler \in [delta : 0 .. UnityPitch - 1, first : BOOLEAN, upitch : BOOLEAN, ratio : Nat]
  /\ rspAt \in 0 .. UnityPitch - 1
  /\ resampled \in [taken : Nat, passed : Nat, due : Nat]
  /\ note \in [on : BOOLEAN, unity : BOOLEAN, pitch : Nat]
  /\ resampler.upitch <=> note.on /\ note.unity
  /\ Steps(resampler.ratio) = Steps(note.pitch)
  /\ resampler.delta = IF resampler.first THEN 0 ELSE rspAt
  /\ ResamplerInStep

LEMMA DivisionAddsUp ==
  ASSUME NEW a \in Nat, NEW u \in Nat \ {0}
  PROVE  a = (u * (a \div u)) + (a % u) /\ a % u \in 0 .. u - 1 /\ a \div u \in Nat
OBVIOUS

LEMMA ProductsAdd ==
  ASSUME NEW a \in Nat, NEW b \in Nat, NEW u \in Nat
  PROVE  (a + b) * u = (a * u) + (u * b) /\ (a + b) * u \in Nat /\ a * u \in Nat /\ u * b \in Nat
OBVIOUS

LEMMA ProductIsNat == ASSUME NEW a \in Nat, NEW b \in Nat PROVE a * b \in Nat /\ a * b = b * a
OBVIOUS

LEMMA StepsAre ==
  ASSUME NEW pitch \in Nat
  PROVE  Steps(pitch) \in Nat /\ Steps(2 * Steps(pitch)) = Steps(pitch)
BY ResamplerAssumption DEF Steps, Lesser

LEMMA SumsAgree ==
  ASSUME NEW a \in Nat, NEW b \in Nat, NEW c \in Nat, NEW r \in Nat, NEW d \in Nat, NEW i \in Nat,
         NEW due \in Nat, c = a + b, b + r = d + i, a + d = due
  PROVE  c + r = due + i
OBVIOUS

LEMMA ResamplerStarts == ResampleInit => ResamplerInv
BY ResamplerAssumption DEF ResampleInit, ResamplerInv, ResamplerInStep, NoSamples

LEMMA PullKeeps ==
  ASSUME ResamplerInv, NEW n \in OutCounts, ResamplePull(n)
  PROVE  ResamplerInv'
<1> USE ResamplerAssumption
<1> DEFINE steps == Steps(resampler.ratio)
           incr  == steps * n
           fin   == resampler.delta + incr
           far   == Passes(resampler.first, steps, n)
           asked == n * (IF note.unity THEN UnityPitch ELSE Steps(note.pitch))
<1>1. /\ resampler.delta \in 0 .. UnityPitch - 1 /\ resampler.ratio \in Nat /\ note.pitch \in Nat
      /\ resampled.taken \in Nat /\ resampled.passed \in Nat /\ resampled.due \in Nat
      /\ resampler.upitch <=> note.unity
      /\ note.on /\ note' = note /\ n \in Nat
  BY DEF ResamplePull, ResamplerInv
<1>2. steps \in Nat /\ incr \in Nat /\ fin \in Nat /\ steps = Steps(note.pitch)
  BY <1>1, StepsAre, ProductIsNat DEF ResamplerInv
<1>3. far = fin BY <1>1 DEF Passes, ResamplerInv
<1>4. CASE resampler.upitch
  <2>1. /\ resampler' = resampler /\ rspAt' = rspAt
        /\ resampled' = [taken |-> resampled.taken + n, passed |-> resampled.passed + n,
                         due |-> resampled.due + (n * UnityPitch)]
    BY <1>1, <1>4 DEF ResamplePull
  <2>2. (resampled.taken + n) * UnityPitch = (resampled.taken * UnityPitch) + (UnityPitch * n)
        /\ n * UnityPitch \in Nat /\ n * UnityPitch = UnityPitch * n
    BY <1>1, ProductsAdd, ProductIsNat
  <2>3. (resampled.taken * UnityPitch) + resampler.delta = resampled.due
        /\ resampled.taken * UnityPitch \in Nat /\ resampled.passed = resampled.taken
    BY <1>1, ProductIsNat DEF ResamplerInv, ResamplerInStep
  <2>4. ((resampled.taken + n) * UnityPitch) + resampler.delta = resampled.due + (n * UnityPitch)
    BY <1>1, <2>2, <2>3
  <2>5. resampled' \in [taken : Nat, passed : Nat, due : Nat]
    BY <1>1, <2>1, <2>2
  <2>6. ResamplerInStep' BY <2>1, <2>3, <2>4 DEF ResamplerInStep
  <2> QED BY <1>1, <2>1, <2>5, <2>6 DEF ResamplerInv
<1>5. CASE ~resampler.upitch
  <2>1. /\ resampler' = [resampler EXCEPT !.ratio = 2 * steps, !.first = FALSE, !.delta = fin % UnityPitch]
        /\ rspAt' = fin % UnityPitch
        /\ resampled' = [taken |-> resampled.taken + (fin \div UnityPitch),
                         passed |-> resampled.passed + (fin \div UnityPitch),
                         due |-> resampled.due + asked]
    BY <1>1, <1>3, <1>5 DEF ResamplePull
  <2>2. asked = incr
    BY <1>1, <1>2, <1>5, ProductIsNat
  <2> HIDE DEF fin, far, asked, incr, steps
  <2>3. /\ fin = (UnityPitch * (fin \div UnityPitch)) + (fin % UnityPitch)
        /\ fin % UnityPitch \in 0 .. UnityPitch - 1 /\ fin \div UnityPitch \in Nat
    BY <1>2, DivisionAddsUp
  <2> DEFINE q == fin \div UnityPitch
             r == fin % UnityPitch
  <2>4. (resampled.taken + q) * UnityPitch = (resampled.taken * UnityPitch) + (UnityPitch * q)
        /\ UnityPitch * q \in Nat /\ resampled.taken * UnityPitch \in Nat
    BY <1>1, <2>3, ProductsAdd
  <2>5. (resampled.taken * UnityPitch) + resampler.delta = resampled.due /\ resampled.passed = resampled.taken
    BY DEF ResamplerInv, ResamplerInStep
  <2>6. fin = resampler.delta + incr BY DEF fin
  <2> HIDE DEF q, r
  <2>7. ((resampled.taken + q) * UnityPitch) + r = resampled.due + incr
    <3>1. r \in Nat /\ (UnityPitch * q) + r = resampler.delta + incr BY <2>3, <2>6 DEF q, r
    <3>2. (resampled.taken + q) * UnityPitch \in Nat BY <2>4
    <3>3. resampler.delta \in Nat /\ incr \in Nat /\ resampled.due \in Nat BY <1>1, <1>2
    <3> QED BY <2>4, <2>5, <3>1, <3>2, <3>3, SumsAgree
  <2>8. resampled' = [taken |-> resampled.taken + q, passed |-> resampled.passed + q, due |-> resampled.due + incr]
    BY <2>1, <2>2 DEF q
  <2>9. resampler' \in [delta : 0 .. UnityPitch - 1, first : BOOLEAN, upitch : BOOLEAN, ratio : Nat]
        /\ resampler'.delta = r /\ ~resampler'.first /\ resampler'.ratio = 2 * steps
        /\ resampler'.upitch = resampler.upitch /\ rspAt' = r
    <3>1. resampler \in [delta : 0 .. UnityPitch - 1, first : BOOLEAN, upitch : BOOLEAN, ratio : Nat]
      BY DEF ResamplerInv
    <3>2. r \in 0 .. UnityPitch - 1 /\ 2 * steps \in Nat BY <1>2, <2>3 DEF r
    <3>3. resampler' = [resampler EXCEPT !.ratio = 2 * steps, !.first = FALSE, !.delta = r] /\ rspAt' = r
      BY <2>1 DEF r
    <3> HIDE DEF r
    <3> QED BY <3>1, <3>2, <3>3
  <2>10. resampled' \in [taken : Nat, passed : Nat, due : Nat]
    BY <1>1, <1>2, <2>3, <2>8 DEF q
  <2>11. ResamplerInStep' BY <2>5, <2>7, <2>8, <2>9 DEF ResamplerInStep
  <2>12. Steps(2 * steps) = steps BY <1>1, StepsAre DEF steps
  <2>13. Steps(resampler'.ratio) = Steps(note'.pitch) BY <1>1, <1>2, <2>9, <2>12
  <2>14. rspAt' \in 0 .. UnityPitch - 1 BY <2>3, <2>9 DEF r
  <2>15. note' \in [on : BOOLEAN, unity : BOOLEAN, pitch : Nat] BY <1>1 DEF ResamplerInv
  <2>16. resampler'.upitch <=> note'.on /\ note'.unity BY <1>1, <2>9
  <2>17. resampler'.delta = IF resampler'.first THEN 0 ELSE rspAt' BY <2>9
  <2> QED BY <2>9, <2>10, <2>11, <2>13, <2>14, <2>15, <2>16, <2>17 DEF ResamplerInv
<1> QED BY <1>4, <1>5

LEMMA ResamplerStep ==
  ASSUME ~Unstopped, ResamplerInv, [ResampleNext]_resampleVars
  PROVE  ResamplerInv'
<1> USE ResamplerAssumption
<1>1. ASSUME NEW unity \in BOOLEAN, NEW pitch \in VoicePitches \cup {resampler.ratio}, StartResample(unity, pitch)
      PROVE  ResamplerInv'
  <2>1. pitch \in Nat BY DEF ResamplerInv
  <2> QED BY <1>1, <2>1 DEF StartResample, ResamplerInv, ResamplerInStep, Steps, Lesser
<1>2. ASSUME NEW pitch \in VoicePitches, SetPitch(pitch) PROVE ResamplerInv'
  <2>1. pitch \in Nat OBVIOUS
  <2> QED BY <1>2, <2>1 DEF SetPitch, ResamplerInv, ResamplerInStep, Steps, Lesser
<1>3. CASE ResetResampler
  <2>1. /\ resampler' = [resampler EXCEPT !.delta = 0, !.first = TRUE, !.upitch = FALSE]
        /\ note' = [note EXCEPT !.on = FALSE] /\ rspAt' = rspAt
        /\ resampled' = [taken |-> 0, passed |-> 0, due |-> 0]
    BY <1>3 DEF ResetResampler, NoSamples
  <2>2. resampler' \in [delta : 0 .. UnityPitch - 1, first : BOOLEAN, upitch : BOOLEAN, ratio : Nat]
        /\ resampler'.delta = 0 /\ resampler'.first /\ ~resampler'.upitch
        /\ resampler'.ratio = resampler.ratio
    <3>1. resampler \in [delta : 0 .. UnityPitch - 1, first : BOOLEAN, upitch : BOOLEAN, ratio : Nat]
      BY DEF ResamplerInv
    <3>2. 0 \in 0 .. UnityPitch - 1 OBVIOUS
    <3> DEFINE D == 0 .. UnityPitch - 1
    <3> HIDE DEF D
    <3>3. resampler \in [delta : D, first : BOOLEAN, upitch : BOOLEAN, ratio : Nat] /\ 0 \in D
      BY <3>1, <3>2 DEF D
    <3>4. /\ resampler' \in [delta : D, first : BOOLEAN, upitch : BOOLEAN, ratio : Nat]
          /\ resampler'.delta = 0 /\ resampler'.first /\ ~resampler'.upitch
          /\ resampler'.ratio = resampler.ratio
      BY <2>1, <3>3
    <3> QED BY <3>4 DEF D
  <2>3. note' \in [on : BOOLEAN, unity : BOOLEAN, pitch : Nat] /\ ~note'.on /\ note'.pitch = note.pitch
    BY <2>1 DEF ResamplerInv
  <2>4. Steps(resampler'.ratio) = Steps(note'.pitch) BY <2>2, <2>3 DEF ResamplerInv
  <2>5. ResamplerInStep' /\ resampled' \in [taken : Nat, passed : Nat, due : Nat]
    BY <2>1, <2>2 DEF ResamplerInStep
  <2>6. rspAt' \in 0 .. UnityPitch - 1 BY <2>1 DEF ResamplerInv
  <2> QED BY <2>2, <2>3, <2>4, <2>5, <2>6 DEF ResamplerInv
<1>4. ASSUME NEW n \in OutCounts, ResamplePull(n) PROVE ResamplerInv'
  BY <1>4, PullKeeps
<1>5. CASE UNCHANGED resampleVars
  BY <1>5 DEF resampleVars, ResamplerInv, ResamplerInStep, Steps
<1> QED BY <1>1, <1>2, <1>3, <1>4, <1>5 DEF ResampleNext

\* Where no voice is started before it was stopped: the load filter is asked for exactly the
\* samples that the microcode passes over, and the sound goes on at the pitch it was given, for
\* any pitches and cuts of the calls (alResamplePull of resample.c).
THEOREM ResamplerKeepsPitch ==
  ASSUME ~Unstopped
  PROVE  ResampleSpec => []ResamplerInStep
<1>1. ResampleInit => ResamplerInv BY ResamplerStarts
<1>2. ResamplerInv /\ [ResampleNext]_resampleVars => ResamplerInv' BY ResamplerStep
<1>3. ResamplerInv => ResamplerInStep BY DEF ResamplerInv
<1> QED BY <1>1, <1>2, <1>3, PTL DEF ResampleSpec
================================================================================
