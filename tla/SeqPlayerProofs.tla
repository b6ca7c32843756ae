----------------------------- MODULE SeqPlayerProofs -----------------------------
(***************************************************************************)
(* The theorem about SeqPlayer, the sequence players, for any voices,      *)
(* keys, sounds and calls, while the queue of the player has room.  First  *)
(* when the events of a queue are due; then what each thing done to a      *)
(* voice, and to all of them, does to the queue; and then the steps of the *)
(* handler and the calls of the program.                                   *)
(***************************************************************************)
EXTENDS SeqPlayer, AudioProofs

------------------------------------------------------------------------------
(* The sequence players (SeqPlayer): when the events of their queue are due *)

\* The sums DueAt makes, up to each position
Dues(f, q, n) == f = [i \in 0..n |-> IF i = 0 THEN 0 ELSE f[i - 1] + q[i].delta]

LEMMA DuesExist ==
  ASSUME NEW q
  PROVE  \A n \in Nat : \E f : Dues(f, q, n)
<1> DEFINE S == {n \in Nat : \E f : Dues(f, q, n)}
           step(f, i) == f[i - 1] + q[i].delta
<1>1. 0 \in S
  <2>1. Dues([i \in 0..0 |-> 0], q, 0)
    BY DEF Dues
  <2> QED BY <2>1
<1>2. ASSUME NEW n \in Nat, n \in S PROVE n + 1 \in S
  <2>1. PICK f : Dues(f, q, n)
    BY <1>2
  <2> DEFINE g == [i \in 0..(n + 1) |-> IF i = n + 1 THEN step(f, n + 1) ELSE f[i]]
  <2>2. \A i \in 0..n : f[i] = IF i = 0 THEN 0 ELSE step(f, i)
    BY <2>1 DEF Dues
  <2>3. ASSUME NEW i \in 0..(n + 1)
        PROVE  g[i] = IF i = 0 THEN 0 ELSE step(g, i)
    <3>1. CASE i = n + 1
      <4>1. i # 0 /\ i - 1 = n /\ n \in 0..(n + 1) /\ n # n + 1
        BY <3>1
      <4>2. g[i - 1] = f[n] /\ g[i] = step(f, n + 1) /\ (n + 1) - 1 = n
        BY <3>1, <4>1
      <4> HIDE DEF g
      <4> QED BY <3>1, <4>1, <4>2
    <3>2. CASE i # n + 1 /\ i # 0
      <4>1. i \in 0..n /\ i - 1 \in 0..(n + 1) /\ i - 1 # n + 1
        BY <3>2
      <4>2. g[i - 1] = f[i - 1] /\ g[i] = f[i]
        BY <3>2, <4>1
      <4> HIDE DEF g
      <4> QED BY <2>2, <3>2, <4>1, <4>2
    <3>3. CASE i = 0
      BY <2>2, <3>3
    <3> QED BY <3>1, <3>2, <3>3
  <2>4. Dues(g, q, n + 1)
    <3>1. g = [i \in 0..(n + 1) |-> g[i]]
      OBVIOUS
    <3> HIDE DEF g
    <3> QED BY <2>3, <3>1 DEF Dues
  <2> QED BY <2>4
<1> HIDE DEF S
<1>3. \A n \in Nat : n \in S
  BY <1>1, <1>2, AllNumbers
<1> QED BY <1>3 DEF S

LEMMA DueAtAdds ==
  ASSUME NEW q, Len(q) \in Nat
  PROVE  DueAt(q, 0) = 0 /\ \A i \in 1..Len(q) : DueAt(q, i) = DueAt(q, i - 1) + q[i].delta
<1>1. PICK f : f = CHOOSE g : Dues(g, q, Len(q))
  OBVIOUS
<1>2. Dues(f, q, Len(q))
  BY <1>1, DuesExist
<1>3. \A i : DueAt(q, i) = f[i]
  BY <1>1 DEF DueAt, Dues
<1>4. \A i \in 0..Len(q) : f[i] = IF i = 0 THEN 0 ELSE f[i - 1] + q[i].delta
  BY <1>2 DEF Dues
<1>5. \A i \in 1..Len(q) : f[i] = f[i - 1] + q[i].delta
  BY <1>4
<1> QED BY <1>3, <1>4, <1>5

LEMMA DueAtIs ==
  ASSUME NEW q, Len(q) \in Nat, NEW f, f[0] = 0, \A i \in 1..Len(q) : f[i] = f[i - 1] + q[i].delta
  PROVE  \A i \in 0..Len(q) : DueAt(q, i) = f[i]
<1> DEFINE S == {n \in Nat : n <= Len(q) => DueAt(q, n) = f[n]}
<1>1. 0 \in S
  BY DueAtAdds
<1>2. ASSUME NEW n \in Nat, n \in S PROVE n + 1 \in S
  <2>1. CASE ~(n + 1 <= Len(q))
    BY <2>1
  <2>2. CASE n + 1 <= Len(q)
    <3>1. n <= Len(q) /\ n + 1 \in 1..Len(q) /\ (n + 1) - 1 = n
      BY <2>2
    <3>2. DueAt(q, n + 1) = DueAt(q, n) + q[n + 1].delta
      BY <3>1, DueAtAdds
    <3>3. f[n + 1] = f[n] + q[n + 1].delta
      BY <3>1
    <3> QED BY <1>2, <3>1, <3>2, <3>3
  <2> QED BY <2>1, <2>2
<1> HIDE DEF S
<1>3. \A n \in Nat : n \in S
  BY <1>1, <1>2, AllNumbers
<1> QED BY <1>3 DEF S

LEMMA DueAtGrows ==
  ASSUME NEW q, Len(q) \in Nat, \A i \in 1..Len(q) : q[i].delta \in Nat
  PROVE  /\ \A i \in 0..Len(q) : DueAt(q, i) \in Nat
         /\ \A i, j \in 0..Len(q) : i <= j => DueAt(q, i) <= DueAt(q, j)
<1> DEFINE S == {n \in Nat : n <= Len(q) => DueAt(q, n) \in Nat}
           T(i) == {n \in Nat : i <= n /\ n <= Len(q) => DueAt(q, i) <= DueAt(q, n)}
<1>1. 0 \in S
  BY DueAtAdds
<1>2. \A n \in Nat : n + 1 <= Len(q) =>
         /\ n <= Len(q) /\ q[n + 1].delta \in Nat
         /\ DueAt(q, n + 1) = DueAt(q, n) + q[n + 1].delta
  <2> SUFFICES ASSUME NEW n \in Nat, n + 1 <= Len(q)
               PROVE  /\ n <= Len(q) /\ q[n + 1].delta \in Nat
                      /\ DueAt(q, n + 1) = DueAt(q, n) + q[n + 1].delta
    OBVIOUS
  <2>1. n <= Len(q) /\ n + 1 \in 1..Len(q) /\ (n + 1) - 1 = n
    OBVIOUS
  <2> QED BY <2>1, DueAtAdds
<1>3. \A n \in Nat : n \in S => n + 1 \in S
  BY <1>2
<1> HIDE DEF S
<1>4. \A n \in Nat : n \in S
  BY <1>1, <1>3, AllNumbers
<1>5. \A i \in 0..Len(q) : DueAt(q, i) \in Nat
  BY <1>4 DEF S
<1>6. ASSUME NEW i \in 0..Len(q) PROVE \A j \in 0..Len(q) : i <= j => DueAt(q, i) <= DueAt(q, j)
  <2>1. 0 \in T(i)
    BY <1>5
  <2>2. ASSUME NEW n \in Nat, n \in T(i) PROVE n + 1 \in T(i)
    <3>1. CASE i <= n /\ n + 1 <= Len(q)
      <4>1. n \in 0..Len(q) /\ q[n + 1].delta \in Nat /\ DueAt(q, n + 1) = DueAt(q, n) + q[n + 1].delta
        BY <1>2, <3>1
      <4>2. DueAt(q, i) <= DueAt(q, n) /\ DueAt(q, n) \in Nat /\ DueAt(q, i) \in Nat
        BY <1>5, <2>2, <3>1, <4>1
      <4> QED BY <4>1, <4>2
    <3>2. CASE i = n + 1
      BY <1>5, <3>2
    <3>3. CASE ~(i <= n + 1 /\ n + 1 <= Len(q))
      BY <3>3
    <3> QED BY <3>1, <3>2, <3>3
  <2> HIDE DEF T
  <2>3. \A n \in Nat : n \in T(i)
    BY <2>1, <2>2, AllNumbers
  <2> QED BY <2>3 DEF T
<1> QED BY <1>5, <1>6

\* No event is due before the one in front of it, or after the end of time.
QueueInTime(q) ==
  /\ \A i \in 1..Len(q) : q[i].delta \in Nat
  /\ \A i \in 1..Len(q) : DueAt(q, i) <= End

LEMMA EndIsNat == End \in Nat
BY SMT DEF End

LEMMA PlacedInTime ==
  ASSUME NEW q, NEW r, NEW e, NEW d \in 0..End, Len(q) \in Nat, QueueInTime(q), Placed(q, r, e, d)
  PROVE  QueueInTime(r)
<1> DEFINE n == Len(q)
<1>1. /\ \A i \in 1..n : q[i].delta \in Nat /\ DueAt(q, i) <= End
      /\ \A i \in 0..n : DueAt(q, i) \in Nat
      /\ DueAt(q, 0) = 0 /\ \A i \in 1..n : DueAt(q, i) = DueAt(q, i - 1) + q[i].delta
  BY DueAtGrows, DueAtAdds DEF QueueInTime
<1>2. Len(r) = n + 1 /\ Len(r) \in Nat /\ End \in Nat
  BY EndIsNat DEF Placed
<1>3. CASE /\ \A i \in 1..n : ~(d < DueAt(q, i))
           /\ \A i \in 1..n : r[i] = q[i]
           /\ r[n + 1].delta = IF d = End THEN 0 ELSE d - DueAt(q, n)
  <2>1. PICK last : last = IF d = End THEN DueAt(q, n) ELSE d
    OBVIOUS
  <2>2. DueAt(q, n) <= d
    <3>1. CASE n = 0
      BY <1>1, <3>1
    <3>2. CASE n # 0
      <4>1. n \in 1..n
        BY <3>2
      <4> QED BY <1>1, <1>3, <4>1
    <3> QED BY <3>1, <3>2
  <2>3. n \in 0..n /\ DueAt(q, n) \in Nat
    BY <1>1
  <2>4. last \in Nat /\ last <= End /\ r[n + 1].delta = last - DueAt(q, n) /\ r[n + 1].delta \in Nat
    BY <1>2, <1>3, <2>1, <2>2, <2>3
  <2> DEFINE f == [j \in 0..(n + 1) |-> IF j <= n THEN DueAt(q, j) ELSE last]
  <2>5. f[0] = 0 /\ f[n + 1] = last /\ \A j \in 0..n : f[j] = DueAt(q, j)
    BY <1>1
  <2> HIDE DEF f
  <2>6. \A j \in 1..n : f[j] = f[j - 1] + r[j].delta
    <3> TAKE j \in 1..n
    <3>1. j \in 0..n /\ j - 1 \in 0..n
      OBVIOUS
    <3> QED BY <1>1, <1>3, <2>5, <3>1
  <2>7. f[n + 1] = f[n] + r[n + 1].delta
    BY <2>3, <2>4, <2>5
  <2>8. \A j \in 1..Len(r) : f[j] = f[j - 1] + r[j].delta
    <3> TAKE j \in 1..Len(r)
    <3>1. j \in 1..n \/ (j = n + 1 /\ j - 1 = n)
      BY <1>2
    <3> QED BY <2>6, <2>7, <3>1
  <2>9. \A j \in 0..Len(r) : DueAt(r, j) = f[j]
    BY <1>2, <2>5, <2>8, DueAtIs
  <2>10. \A j \in 1..Len(r) : DueAt(r, j) <= End /\ r[j].delta \in Nat
    <3> TAKE j \in 1..Len(r)
    <3>1. j \in 0..Len(r) /\ (j \in 1..n \/ j = n + 1)
      BY <1>2
    <3> QED BY <1>1, <1>3, <2>4, <2>5, <2>9, <3>1
  <2> QED BY <2>10 DEF QueueInTime
<1>4. ASSUME NEW k \in 1..n,
             d < DueAt(q, k), \A i \in 1..(k - 1) : ~(d < DueAt(q, i)),
             \A i \in 1..(k - 1) : r[i] = q[i],
             r[k].delta = d - DueAt(q, k - 1),
             r[k + 1].delta = q[k].delta - (d - DueAt(q, k - 1)),
             \A i \in (k + 1)..n : r[i + 1] = q[i]
      PROVE  QueueInTime(r)
  <2>1. k - 1 \in 0..n /\ k \in 0..n /\ DueAt(q, k - 1) \in Nat /\ DueAt(q, k) \in Nat
    <3>1. k - 1 \in 0..n /\ k \in 0..n
      OBVIOUS
    <3> QED BY <1>1, <3>1
  <2>2. DueAt(q, k) = DueAt(q, k - 1) + q[k].delta /\ q[k].delta \in Nat
    BY <1>1
  <2>3. DueAt(q, k - 1) <= d
    <3>1. CASE k = 1
      BY <1>1, <3>1
    <3>2. CASE k # 1
      <4>1. k - 1 \in 1..(k - 1)
        BY <3>2
      <4> QED BY <1>4, <2>1, <4>1
    <3> QED BY <3>1, <3>2
  <2>4. r[k].delta \in Nat /\ r[k + 1].delta \in Nat /\ d \in Nat /\ d <= End
    BY <1>2, <1>4, <2>1, <2>2, <2>3
  <2> DEFINE f == [j \in 0..(n + 1) |-> IF j < k THEN DueAt(q, j) ELSE IF j = k THEN d ELSE DueAt(q, j - 1)]
  <2>5. /\ f[0] = 0 /\ f[k] = d
        /\ \A j \in 0..(k - 1) : f[j] = DueAt(q, j)
        /\ \A j \in (k + 1)..(n + 1) : f[j] = DueAt(q, j - 1)
    BY <1>1
  <2> HIDE DEF f
  <2>6. ASSUME NEW j \in 1..Len(r) PROVE f[j] = f[j - 1] + r[j].delta /\ r[j].delta \in Nat /\ f[j] <= End
    <3>1. CASE j < k
      <4>1. j \in 1..(k - 1) /\ j \in 1..n /\ j \in 0..(k - 1) /\ j - 1 \in 0..(k - 1)
        BY <3>1
      <4> QED BY <1>1, <1>4, <2>5, <4>1
    <3>2. CASE j = k
      <4>1. k - 1 \in 0..(k - 1)
        OBVIOUS
      <4>2. f[k - 1] = DueAt(q, k - 1)
        BY <2>5, <4>1
      <4>3. r[k].delta = d - DueAt(q, k - 1)
        BY <1>4
      <4> QED BY <2>1, <2>4, <2>5, <3>2, <4>2, <4>3
    <3>3. CASE j = k + 1
      <4>1. k + 1 \in (k + 1)..(n + 1) /\ (k + 1) - 1 = k
        OBVIOUS
      <4>2. f[k + 1] = DueAt(q, k) /\ f[k] = d
        BY <2>5, <4>1
      <4>3. r[k + 1].delta = q[k].delta - (d - DueAt(q, k - 1))
        BY <1>4
      <4>4. DueAt(q, k) <= End
        BY <1>1
      <4> QED BY <2>1, <2>2, <2>4, <3>3, <4>1, <4>2, <4>3, <4>4
    <3>4. CASE j > k + 1
      <4>1. /\ j - 1 \in (k + 1)..n /\ (j - 1) + 1 = j /\ j \in (k + 1)..(n + 1)
            /\ j - 1 \in (k + 1)..(n + 1) /\ j - 1 \in 1..n /\ (j - 1) - 1 \in 0..n
        BY <1>2, <3>4
      <4>2. r[j] = q[j - 1]
        BY <1>4, <4>1
      <4>3. f[j] = DueAt(q, j - 1) /\ f[j - 1] = DueAt(q, (j - 1) - 1)
        BY <2>5, <4>1
      <4> QED BY <1>1, <4>1, <4>2, <4>3
    <3> QED BY <3>1, <3>2, <3>3, <3>4
  <2>7. \A j \in 0..Len(r) : DueAt(r, j) = f[j]
    BY <1>2, <2>5, <2>6, DueAtIs
  <2>8. \A j \in 1..Len(r) : j \in 0..Len(r)
    BY <1>2
  <2> QED BY <2>6, <2>7, <2>8 DEF QueueInTime
<1> QED BY <1>3, <1>4 DEF Placed

LEMMA ThinnedInTime ==
  ASSUME NEW q, NEW r, NEW gone, Len(q) \in Nat, Len(r) \in Nat, QueueInTime(q), Thinned(q, r, gone)
  PROVE  QueueInTime(r)
<1>1. PICK f \in [1..Len(r) -> (1..Len(q)) \ gone] :
        /\ \A i \in 1..Len(r) :
             r[i].delta = DueAt(q, f[i]) - (IF i = 1 THEN 0 ELSE DueAt(q, f[i - 1]))
        /\ \A i, j \in 1..Len(r) : i < j => f[i] < f[j]
  BY DEF Thinned
<1>2. \A i \in 1..Len(r) : f[i] \in 1..Len(q)
  BY <1>1
<1>3. /\ \A i \in 1..Len(q) : DueAt(q, i) <= End
      /\ \A i \in 0..Len(q) : DueAt(q, i) \in Nat
      /\ \A i, j \in 0..Len(q) : i <= j => DueAt(q, i) <= DueAt(q, j)
  BY DueAtGrows DEF QueueInTime
<1> DEFINE g == [j \in 0..Len(r) |-> IF j = 0 THEN 0 ELSE DueAt(q, f[j])]
<1>4. g[0] = 0 /\ \A j \in 1..Len(r) : g[j] = DueAt(q, f[j])
  OBVIOUS
<1> HIDE DEF g
<1>5. ASSUME NEW j \in 1..Len(r) PROVE g[j] = g[j - 1] + r[j].delta /\ r[j].delta \in Nat /\ g[j] <= End
  <2>1. f[j] \in 0..Len(q) /\ DueAt(q, f[j]) \in Nat /\ g[j] = DueAt(q, f[j]) /\ g[j] <= End
    BY <1>2, <1>3, <1>4
  <2>2. CASE j = 1
    BY <1>1, <1>4, <2>1, <2>2
  <2>3. CASE j # 1
    <3>1. j - 1 \in 1..Len(r) /\ j - 1 < j
      BY <2>3
    <3>2. f[j - 1] \in 0..Len(q) /\ f[j - 1] <= f[j] /\ g[j - 1] = DueAt(q, f[j - 1])
      BY <1>1, <1>2, <1>4, <3>1
    <3>3. DueAt(q, f[j - 1]) \in Nat /\ DueAt(q, f[j - 1]) <= DueAt(q, f[j])
      BY <1>3, <2>1, <3>2
    <3>4. r[j].delta = DueAt(q, f[j]) - DueAt(q, f[j - 1])
      BY <1>1, <2>3
    <3> QED BY <2>1, <3>2, <3>3, <3>4
  <2> QED BY <2>2, <2>3
<1>6. \A j \in 0..Len(r) : DueAt(r, j) = g[j]
  BY <1>4, <1>5, DueAtIs
<1>7. \A j \in 1..Len(r) : j \in 0..Len(r)
  OBVIOUS
<1> QED BY <1>5, <1>6, <1>7 DEF QueueInTime

LEMMA TailInTime ==
  ASSUME NEW q, NEW t, Len(q) \in Nat \ {0}, QueueInTime(q),
         Len(t) = Len(q) - 1, \A i \in 1..Len(t) : t[i] = q[i + 1]
  PROVE  QueueInTime(t)
<1>1. /\ \A i \in 1..Len(q) : DueAt(q, i) <= End /\ q[i].delta \in Nat
      /\ \A i \in 0..Len(q) : DueAt(q, i) \in Nat
      /\ \A i, j \in 0..Len(q) : i <= j => DueAt(q, i) <= DueAt(q, j)
      /\ \A i \in 1..Len(q) : DueAt(q, i) = DueAt(q, i - 1) + q[i].delta
  BY DueAtGrows, DueAtAdds DEF QueueInTime
<1>2. Len(t) \in Nat /\ 1 \in 1..Len(q) /\ 1 \in 0..Len(q) /\ DueAt(q, 1) \in Nat
  BY <1>1
<1> DEFINE f == [j \in 0..Len(t) |-> DueAt(q, j + 1) - DueAt(q, 1)]
<1>3. f[0] = 0
  BY <1>2
<1>4. \A j \in 0..Len(t) : f[j] = DueAt(q, j + 1) - DueAt(q, 1)
  OBVIOUS
<1> HIDE DEF f
<1>5. ASSUME NEW j \in 1..Len(t) PROVE f[j] = f[j - 1] + t[j].delta /\ t[j].delta \in Nat /\ f[j] <= End
  <2>1. /\ j \in 0..Len(t) /\ j - 1 \in 0..Len(t) /\ j + 1 \in 1..Len(q) /\ (j - 1) + 1 = j
        /\ j \in 0..Len(q) /\ (j + 1) - 1 = j /\ j + 1 \in 0..Len(q)
    BY <1>2
  <2>2. f[j] = DueAt(q, j + 1) - DueAt(q, 1) /\ f[j - 1] = DueAt(q, j) - DueAt(q, 1)
    BY <1>4, <2>1
  <2>3. DueAt(q, j + 1) = DueAt(q, j) + q[j + 1].delta /\ q[j + 1].delta \in Nat /\ t[j] = q[j + 1]
    BY <1>1, <2>1
  <2>4. DueAt(q, j + 1) \in Nat /\ DueAt(q, j) \in Nat /\ DueAt(q, j + 1) <= End /\ End \in Nat
    BY <1>1, <2>1, EndIsNat
  <2> QED BY <1>2, <2>2, <2>3, <2>4
<1>6. \A j \in 0..Len(t) : DueAt(t, j) = f[j]
  BY <1>2, <1>3, <1>5, DueAtIs
<1>7. \A j \in 1..Len(t) : j \in 0..Len(t)
  BY <1>2
<1> QED BY <1>5, <1>6, <1>7 DEF QueueInTime

LEMMA WithoutShortens ==
  ASSUME NEW Evts, NEW q, IsQueue(q, Evts), NEW gone
  PROVE  Len(Without(q, gone)) \in Nat /\ Len(Without(q, gone)) <= Len(q)
<1> DEFINE S == (1..Len(q)) \ gone
           f == Ascending(S)
<1>1. Len(q) \in Nat /\ S \subseteq 1..Len(q)
  BY QueueFacts
<1>2. IsFiniteSet(1..Len(q)) /\ Cardinality(1..Len(q)) = Len(q)
  <2>1. PICK n \in Nat : n = Len(q)
    BY <1>1
  <2>2. IsFiniteSet(1..n) /\ Cardinality(1..n) = n
    BY FS_Interval
  <2> QED BY <2>1, <2>2
<1>3. Cardinality(S) \in Nat /\ Cardinality(S) <= Len(q)
  BY <1>1, <1>2, FS_Subset, FS_CardinalityType
<1> HIDE DEF S
<1>4. PICK c \in Nat : c = Cardinality(S)
  BY <1>3
<1>5. Len(f) = c
  BY <1>4 DEF Ascending
<1> HIDE DEF f
<1>6. Len(Without(q, gone)) = c
  BY <1>4, <1>5 DEF Without, f, S
<1> QED BY <1>3, <1>4, <1>6

------------------------------------------------------------------------------
(* The sequence player: its events *)

PlayEvt == [type |-> "play"]
AskEvt == [type |-> "stopping"]

\* Programs send no message that releases a note.
PlayerEvents ==
  {Api, Ref, StopEvt, PlayEvt, AskEvt} \cup {NoteOffOf(k) : k \in Keys}
    \cup {NoteEndOf(v) : v \in Voices} \cup {EnvOf(v) : v \in Voices} \cup {OscOf(v) : v \in Voices}
    \cup {Midi(m) : m \in {m \in MidiMsgs : ~Releases(m)}}

LEMMA EventTypes ==
  /\ NoEvent.type = "none" /\ Api.type = "api" /\ Ref.type = "ref" /\ StopEvt.type = "stop"
  /\ PlayEvt.type = "play" /\ AskEvt.type = "stopping"
  /\ \A k : NoteOffOf(k).type = "noteOff" /\ NoteOffOf(k).key = k
  /\ \A v : NoteEndOf(v).type = "noteEnd" /\ NoteEndOf(v).voice = v
  /\ \A v : EnvOf(v).type = "env" /\ EnvOf(v).voice = v
  /\ \A v : OscOf(v).type = "osc" /\ OscOf(v).voice = v
  /\ \A m : Midi(m).type = "midi" /\ Midi(m).msg = m
BY DEF NoEvent, Api, Ref, StopEvt, PlayEvt, AskEvt, NoteOffOf, NoteEndOf, EnvOf, OscOf, Midi

LEMMA EventsOfPlayer ==
  /\ Api \in PlayerEvents /\ Ref \in PlayerEvents /\ StopEvt \in PlayerEvents
  /\ PlayEvt \in PlayerEvents /\ AskEvt \in PlayerEvents
  /\ \A k \in Keys : NoteOffOf(k) \in PlayerEvents
  /\ \A v \in Voices : NoteEndOf(v) \in PlayerEvents /\ EnvOf(v) \in PlayerEvents /\ OscOf(v) \in PlayerEvents
  /\ \A m \in MidiMsgs : ~Releases(m) => Midi(m) \in PlayerEvents
BY DEF PlayerEvents

LEMMA EventOfType ==
  ASSUME NEW e \in PlayerEvents
  PROVE  /\ e.type = "api" => e = Api
         /\ e.type = "ref" => e = Ref
         /\ e.type = "stop" => e = StopEvt
         /\ e.type = "play" => e = PlayEvt
         /\ e.type = "stopping" => e = AskEvt
         /\ e.type = "noteOff" => e.key \in Keys /\ e = NoteOffOf(e.key)
         /\ e.type = "noteEnd" => e.voice \in Voices /\ e = NoteEndOf(e.voice)
         /\ e.type = "env" => e.voice \in Voices /\ e = EnvOf(e.voice)
         /\ e.type = "osc" => e.voice \in Voices /\ e = OscOf(e.voice)
         /\ e.type = "midi" => e.msg \in MidiMsgs /\ ~Releases(e.msg) /\ e = Midi(e.msg)
         /\ e # NoEvent
<1>1. CASE e \in {Api, Ref, StopEvt, PlayEvt, AskEvt}
  BY <1>1, EventTypes
<1>2. CASE e \in {NoteOffOf(k) : k \in Keys}
  <2>1. PICK k \in Keys : e = NoteOffOf(k)
    BY <1>2
  <2>2. e.type = "noteOff" /\ e.key = k
    BY <2>1, EventTypes
  <2> QED BY <2>1, <2>2, EventTypes
<1>3. CASE e \in {NoteEndOf(v) : v \in Voices}
  <2>1. PICK v \in Voices : e = NoteEndOf(v)
    BY <1>3
  <2>2. e.type = "noteEnd" /\ e.voice = v
    BY <2>1, EventTypes
  <2> QED BY <2>1, <2>2, EventTypes
<1>4. CASE e \in {EnvOf(v) : v \in Voices}
  <2>1. PICK v \in Voices : e = EnvOf(v)
    BY <1>4
  <2>2. e.type = "env" /\ e.voice = v
    BY <2>1, EventTypes
  <2> QED BY <2>1, <2>2, EventTypes
<1>5. CASE e \in {OscOf(v) : v \in Voices}
  <2>1. PICK v \in Voices : e = OscOf(v)
    BY <1>5
  <2>2. e.type = "osc" /\ e.voice = v
    BY <2>1, EventTypes
  <2> QED BY <2>1, <2>2, EventTypes
<1>6. CASE e \in {Midi(m) : m \in {m \in MidiMsgs : ~Releases(m)}}
  <2>1. PICK m \in {m \in MidiMsgs : ~Releases(m)} : e = Midi(m)
    BY <1>6
  <2>2. e.type = "midi" /\ e.msg = m
    BY <2>1, EventTypes
  <2> QED BY <2>1, <2>2, EventTypes
<1> QED BY <1>1, <1>2, <1>3, <1>4, <1>5, <1>6 DEF PlayerEvents

\* Where the event e stands in q and r
Same(q, r, e) == (Absent(q, e) <=> Absent(r, e)) /\ (Single(q, e) => Single(r, e))

\* No end of a note or of its attack stands behind the stop.
EndsNote(e) == e.type \in {"noteEnd", "env"}
NotesFirst(q) == \A i, j \in 1..Len(q) : q[i].evt = StopEvt /\ EndsNote(q[j].evt) => j < i

\* r is q with the event e, or without the events of gone.
Gains(q, r, e) ==
  /\ IsQueue(r, PlayerEvents) /\ QueueInTime(r) /\ Len(r) = Len(q) + 1
  /\ Absent(q, e) => Single(r, e)
  /\ \A x : x # e => Same(q, r, x)
  /\ NotesFirst(q) /\ e # StopEvt /\ ~EndsNote(e) => NotesFirst(r)
Loses(q, r, gone) ==
  /\ IsQueue(r, PlayerEvents) /\ QueueInTime(r) /\ Len(r) \in Nat /\ Len(r) <= Len(q)
  /\ \A x : IF x \in gone THEN Absent(r, x) ELSE Same(q, r, x)
  /\ NotesFirst(q) => NotesFirst(r)

LEMMA InsertedOrder ==
  ASSUME NEW q, NEW r, NEW e, Len(q) \in Nat, Inserted(q, r, e), NotesFirst(q),
         e # StopEvt, ~EndsNote(e)
  PROVE  NotesFirst(r)
<1>1. PICK p \in 1..Len(r) :
        /\ r[p].evt = e
        /\ \A i \in 1..Len(q) : i < p => r[i].evt = q[i].evt
        /\ \A i \in 1..Len(q) : p <= i => r[i + 1].evt = q[i].evt
  BY DEF Inserted
<1>2. Len(r) = Len(q) + 1
  BY DEF Inserted
<1>3. \A i \in 1..Len(r) : i # p =>
        \E k \in 1..Len(q) : r[i].evt = q[k].evt /\ ((k = i /\ i < p) \/ (k = i - 1 /\ p < i))
  <2> SUFFICES ASSUME NEW i \in 1..Len(r), i # p
               PROVE  \E k \in 1..Len(q) : r[i].evt = q[k].evt /\ ((k = i /\ i < p) \/ (k = i - 1 /\ p < i))
    OBVIOUS
  <2>1. CASE i < p
    <3>1. i \in 1..Len(q)
      BY <1>2, <2>1
    <3> QED BY <1>1, <2>1, <3>1
  <2>2. CASE p < i
    <3>1. i - 1 \in 1..Len(q) /\ p <= i - 1 /\ (i - 1) + 1 = i
      BY <1>2, <2>2
    <3>2. r[i].evt = q[i - 1].evt
      BY <1>1, <3>1
    <3> QED BY <2>2, <3>1, <3>2
  <2>3. i < p \/ p < i
    BY <1>2
  <2> QED BY <2>1, <2>2, <2>3
<1>4. SUFFICES ASSUME NEW i \in 1..Len(r), NEW j \in 1..Len(r), r[i].evt = StopEvt, EndsNote(r[j].evt)
               PROVE  j < i
  BY DEF NotesFirst
<1>5. i # p /\ j # p
  BY <1>1, <1>4
<1>6. PICK k \in 1..Len(q) : r[i].evt = q[k].evt /\ ((k = i /\ i < p) \/ (k = i - 1 /\ p < i))
  BY <1>3, <1>5
<1>7. PICK l \in 1..Len(q) : r[j].evt = q[l].evt /\ ((l = j /\ j < p) \/ (l = j - 1 /\ p < j))
  BY <1>3, <1>5
<1>8. l < k
  BY <1>4, <1>6, <1>7 DEF NotesFirst
<1> QED BY <1>2, <1>6, <1>7, <1>8

LEMMA ThinnedOrder ==
  ASSUME NEW q, NEW r, NEW gone, Len(q) \in Nat, Len(r) \in Nat, Thinned(q, r, gone), NotesFirst(q)
  PROVE  NotesFirst(r)
<1>1. PICK f \in [1..Len(r) -> (1..Len(q)) \ gone] :
        /\ \A i \in 1..Len(r) : r[i].evt = q[f[i]].evt
        /\ \A i, j \in 1..Len(r) : i < j => f[i] < f[j]
  BY DEF Thinned
<1>2. SUFFICES ASSUME NEW i \in 1..Len(r), NEW j \in 1..Len(r), r[i].evt = StopEvt, EndsNote(r[j].evt)
               PROVE  j < i
  BY DEF NotesFirst
<1>3. f[i] \in 1..Len(q) /\ f[j] \in 1..Len(q)
  BY <1>1
<1>4. f[j] < f[i]
  BY <1>1, <1>2, <1>3 DEF NotesFirst
<1>5. ~(i < j) /\ i # j
  <2>1. i < j => f[i] < f[j]
    BY <1>1
  <2> QED BY <1>3, <1>4, <2>1
<1> QED BY <1>5

LEMMA EventPosted ==
  ASSUME NEW q, IsQueue(q, PlayerEvents), QueueInTime(q), Len(q) < MaxEvents,
         NEW e \in PlayerEvents, NEW d \in 0..End, NEW r, r = PostEvent(q, e, d)
  PROVE  Gains(q, r, e)
<1>1. IsQueue(r, PlayerEvents) /\ Inserted(q, r, e) /\ Placed(q, r, e, d) /\ Len(q) \in Nat
  BY PostInserts, QueueFacts
<1>2. QueueInTime(r)
  BY <1>1, PlacedInTime
<1>3. Len(r) = Len(q) + 1
  BY <1>1 DEF Inserted
<1>4. (Absent(q, e) => Single(r, e)) /\ \A x : x # e => Same(q, r, x)
  BY <1>1, InsertedCounts DEF Same
<1>5. NotesFirst(q) /\ e # StopEvt /\ ~EndsNote(e) => NotesFirst(r)
  BY <1>1, InsertedOrder
<1> QED BY <1>1, <1>2, <1>3, <1>4, <1>5 DEF Gains

\* A stop that is posted goes behind everything.
LEMMA StopGoesLast ==
  ASSUME NEW q, IsQueue(q, PlayerEvents), QueueInTime(q), Len(q) < MaxEvents, Absent(q, StopEvt),
         NEW r, r = PostEvent(q, StopEvt, End)
  PROVE  NotesFirst(r)
<1>1. Inserted(q, r, StopEvt) /\ Placed(q, r, StopEvt, End) /\ Len(q) \in Nat
  BY PostInserts, QueueFacts, EventsOfPlayer
<1>2. \A i \in 1..Len(q) : DueAt(q, i) <= End /\ DueAt(q, i) \in Nat
  BY <1>1, DueAtGrows DEF QueueInTime
<1>3. \A i \in 1..Len(q) : ~(End < DueAt(q, i))
  BY <1>2, EndIsNat
<1>4. Len(r) = Len(q) + 1 /\ \A i \in 1..Len(q) : r[i] = q[i]
  BY <1>1, <1>3 DEF Placed
<1>5. \A i \in 1..Len(r) : r[i].evt = StopEvt => i = Len(q) + 1
  <2> SUFFICES ASSUME NEW i \in 1..Len(r), r[i].evt = StopEvt, i # Len(q) + 1 PROVE FALSE
    OBVIOUS
  <2>1. i \in 1..Len(q)
    BY <1>1, <1>4
  <2> QED BY <1>4, <2>1 DEF Absent
<1>6. r[Len(q) + 1].evt = StopEvt
  BY <1>1, <1>5 DEF Inserted
<1>7. ~EndsNote(StopEvt)
  BY EventTypes DEF EndsNote
<1>8. \A j \in 1..Len(r) : EndsNote(r[j].evt) => j < Len(q) + 1
  BY <1>1, <1>4, <1>6, <1>7
<1> QED BY <1>5, <1>8 DEF NotesFirst

LEMMA EventsTaken ==
  ASSUME NEW q, IsQueue(q, PlayerEvents), QueueInTime(q), NEW gone, NEW items,
         \A i \in 1..Len(q) : i \in items <=> q[i].evt \in gone,
         NEW r, r = Without(q, items)
  PROVE  Loses(q, r, gone)
<1>1. IsQueue(r, PlayerEvents) /\ Thinned(q, r, items) /\ Len(q) \in Nat
  BY WithoutThins, QueueFacts
<1>2. Len(r) \in Nat /\ Len(r) <= Len(q)
  BY WithoutShortens
<1>3. QueueInTime(r) /\ (NotesFirst(q) => NotesFirst(r))
  BY <1>1, <1>2, ThinnedInTime, ThinnedOrder
<1>4. ASSUME NEW x PROVE IF x \in gone THEN Absent(r, x) ELSE Same(q, r, x)
  <2>1. CASE x \in gone
    <3>1. \A i \in 1..Len(q) : q[i].evt = x => i \in items
      BY <2>1
    <3> QED BY <1>1, <2>1, <3>1, ThinnedCounts
  <2>2. CASE x \notin gone
    <3>1. \A i \in 1..Len(q) : q[i].evt = x => i \notin items
      BY <2>2
    <3> QED BY <1>1, <2>2, <3>1, ThinnedCounts DEF Same
  <2> QED BY <2>1, <2>2
<1> QED BY <1>1, <1>2, <1>3, <1>4 DEF Loses

LEMMA EventTaken ==
  ASSUME NEW q, IsQueue(q, PlayerEvents), QueueInTime(q), NEW e, NEW r, r = Without(q, ItemsOf(q, e))
  PROVE  Loses(q, r, {e})
<1>1. \A i \in 1..Len(q) : i \in ItemsOf(q, e) <=> q[i].evt \in {e}
  BY DEF ItemsOf
<1> QED BY <1>1, EventsTaken

\* The next event is taken off.
LEMMA TurnOrder ==
  ASSUME NEW q, IsQueue(q, PlayerEvents), QueueInTime(q)
  PROVE  /\ QueueInTime(AfterNext(q))
         /\ NotesFirst(q) => NotesFirst(AfterNext(q))
         /\ NotesFirst(q) /\ NextEvent(q).evt = StopEvt =>
              \A j \in 1..Len(AfterNext(q)) : ~EndsNote(AfterNext(q)[j].evt)
<1>1. PICK S : q \in Seq(S)
  BY DEF IsQueue
<1>2. CASE q = << >>
  BY <1>2 DEF AfterNext
<1>3. CASE q # << >>
  <2>1. PICK t : t = Tail(q)
    OBVIOUS
  <2>2. /\ Len(q) \in Nat \ {0} /\ Len(t) = Len(q) - 1
        /\ \A i \in 1..Len(t) : t[i] = q[i + 1]
    BY <1>1, <1>3, <2>1, HeadTailProperties, EmptySeq
  <2>3. AfterNext(q) = t /\ NextEvent(q).evt = q[1].evt
    BY <1>1, <1>3, <2>1 DEF AfterNext, NextEvent
  <2>4. QueueInTime(t)
    BY <2>2, TailInTime
  <2>5. \A i \in 1..Len(t) : i + 1 \in 1..Len(q) /\ 1 \in 1..Len(q) /\ ~(i + 1 < 1)
    BY <2>2
  <2>6. NotesFirst(q) => NotesFirst(t)
    <3> SUFFICES ASSUME NotesFirst(q), NEW i \in 1..Len(t), NEW j \in 1..Len(t),
                        t[i].evt = StopEvt, EndsNote(t[j].evt)
                 PROVE  j < i
      BY DEF NotesFirst
    <3>1. j + 1 < i + 1
      BY <2>2, <2>5 DEF NotesFirst
    <3> QED BY <2>2, <3>1
  <2>7. NotesFirst(q) /\ q[1].evt = StopEvt => \A j \in 1..Len(t) : ~EndsNote(t[j].evt)
    BY <2>2, <2>5 DEF NotesFirst
  <2> QED BY <2>3, <2>4, <2>6, <2>7
<1> QED BY <1>2, <1>3

------------------------------------------------------------------------------
(* The sequence player: its voices and what is to come for them *)

\* What voice v, whose record is r, will do is to come once.
VoiceFitsIn(nxt, q, v, r, mapped) ==
  /\ DOMAIN r = {"key", "phase", "env", "osc"}
  /\ v \in mapped => r.key \in Keys
  /\ IF v \in mapped /\ r.env = "release" THEN Once(nxt, q, NoteEndOf(v)) ELSE Never(nxt, q, NoteEndOf(v))
  /\ IF v \in mapped /\ r.env = "attack" THEN Once(nxt, q, EnvOf(v)) ELSE Never(nxt, q, EnvOf(v))
  /\ IF v \in mapped /\ r.osc THEN Once(nxt, q, OscOf(v)) ELSE Never(nxt, q, OscOf(v))

\* A handler has the queue and the voices w, and none of their events in its hand.
World(w, mapped) ==
  /\ DOMAIN w = {"q", "vs"} /\ IsQueue(w.q, PlayerEvents) /\ QueueInTime(w.q)
  /\ DOMAIN w.vs = Voices
  /\ \A v \in Voices : VoiceFitsIn(NoEvent, w.q, v, w.vs[v], mapped)

\* The events that are not of voices are as before.
OfVoice(e) == e.type \in {"noteEnd", "env", "osc"}
RestSame(q, r) == \A e \in PlayerEvents : ~OfVoice(e) => Same(q, r, e)

\* The events of a voice are three, and none of another's.
VoiceEvents(v) == {NoteEndOf(v), EnvOf(v), OscOf(v)}

LEMMA VoiceEventsDiffer ==
  ASSUME NEW v
  PROVE  /\ NoteEndOf(v) # EnvOf(v) /\ NoteEndOf(v) # OscOf(v) /\ EnvOf(v) # OscOf(v)
         /\ \A e \in VoiceEvents(v) : e # NoEvent /\ OfVoice(e) /\ e.voice = v
         /\ \A u : u # v => \A e \in VoiceEvents(v) : e \notin VoiceEvents(u)
         /\ NoteEndOf(v) \in VoiceEvents(v) /\ EnvOf(v) \in VoiceEvents(v) /\ OscOf(v) \in VoiceEvents(v)
         /\ EndsNote(NoteEndOf(v)) /\ EndsNote(EnvOf(v)) /\ ~EndsNote(OscOf(v)) /\ OscOf(v) # StopEvt
<1>1. NoteEndOf(v) # EnvOf(v) /\ NoteEndOf(v) # OscOf(v) /\ EnvOf(v) # OscOf(v)
  <2>1. NoteEndOf(v).type = "noteEnd" /\ EnvOf(v).type = "env" /\ OscOf(v).type = "osc"
    BY EventTypes
  <2> QED BY <2>1
<1>2. ASSUME NEW u PROVE \A e \in VoiceEvents(u) : e # NoEvent /\ OfVoice(e) /\ e.voice = u
  <2>1. NoEvent.type = "none"
    BY EventTypes
  <2>2. NoteEndOf(u).type = "noteEnd" /\ NoteEndOf(u).voice = u
    BY EventTypes
  <2>3. EnvOf(u).type = "env" /\ EnvOf(u).voice = u
    BY EventTypes
  <2>4. OscOf(u).type = "osc" /\ OscOf(u).voice = u
    BY EventTypes
  <2> QED BY <2>1, <2>2, <2>3, <2>4 DEF VoiceEvents, OfVoice
<1>3. EndsNote(NoteEndOf(v)) /\ EndsNote(EnvOf(v)) /\ ~EndsNote(OscOf(v)) /\ OscOf(v) # StopEvt
  BY EventTypes DEF EndsNote
<1>4. NoteEndOf(v) \in VoiceEvents(v) /\ EnvOf(v) \in VoiceEvents(v) /\ OscOf(v) \in VoiceEvents(v)
  BY DEF VoiceEvents
<1> QED BY <1>1, <1>2, <1>3, <1>4

LEMMA SameCounts ==
  ASSUME NEW q, NEW r, NEW e, Same(q, r, e), NEW nxt
  PROVE  (Never(nxt, q, e) => Never(nxt, r, e)) /\ (Once(nxt, q, e) => Once(nxt, r, e))
BY DEF Same, Never, Once

\* Queues in which the events of a voice stand alike fit it alike.
LEMMA FitsStays ==
  ASSUME NEW nxt, NEW q, NEW v, NEW r, NEW mapped, VoiceFitsIn(nxt, q, v, r, mapped),
         NEW p, \A e \in VoiceEvents(v) : Same(q, p, e)
  PROVE  VoiceFitsIn(nxt, p, v, r, mapped)
<1>1. \A e \in VoiceEvents(v) : (Never(nxt, q, e) => Never(nxt, p, e)) /\ (Once(nxt, q, e) => Once(nxt, p, e))
  BY SameCounts
<1> QED BY <1>1, VoiceEventsDiffer DEF VoiceFitsIn

LEMMA FitsIdle ==
  ASSUME NEW nxt, NEW q, NEW v, NEW r, NEW mapped, VoiceFitsIn(nxt, q, v, r, mapped),
         nxt \notin VoiceEvents(v)
  PROVE  VoiceFitsIn(NoEvent, q, v, r, mapped)
<1>1. \A e \in VoiceEvents(v) :
        (Never(nxt, q, e) => Never(NoEvent, q, e)) /\ (Once(nxt, q, e) => Once(NoEvent, q, e))
  BY VoiceEventsDiffer DEF Never, Once
<1> QED BY <1>1, VoiceEventsDiffer DEF VoiceFitsIn

LEMMA FitsTurn ==
  ASSUME NEW q, IsQueue(q, PlayerEvents), NEW v \in Voices, NEW r, NEW mapped,
         VoiceFitsIn(NoEvent, q, v, r, mapped)
  PROVE  VoiceFitsIn(NextEvent(q).evt, AfterNext(q), v, r, mapped)
<1>1. NoEvent \notin PlayerEvents
  BY EventOfType
<1>2. \A e \in PlayerEvents :
        /\ Absent(q, e) => Never(NextEvent(q).evt, AfterNext(q), e)
        /\ Single(q, e) => Once(NextEvent(q).evt, AfterNext(q), e)
  BY <1>1, TurnCounts
<1>3. \A e \in VoiceEvents(v) : e \in PlayerEvents
  BY EventsOfPlayer DEF VoiceEvents
<1>4. \A e \in VoiceEvents(v) :
        /\ Never(NoEvent, q, e) => Never(NextEvent(q).evt, AfterNext(q), e)
        /\ Once(NoEvent, q, e) => Once(NextEvent(q).evt, AfterNext(q), e)
  BY <1>2, <1>3, VoiceEventsDiffer DEF Never, Once
<1> QED BY <1>4, VoiceEventsDiffer DEF VoiceFitsIn

\* Only the key, the envelope and the oscillator matter.
LEMMA FitsAlike ==
  ASSUME NEW nxt, NEW q, NEW v, NEW r, NEW mapped, VoiceFitsIn(nxt, q, v, r, mapped),
         NEW s, DOMAIN s = DOMAIN r, s.key = r.key, s.env = r.env, s.osc = r.osc
  PROVE  VoiceFitsIn(nxt, q, v, s, mapped)
BY DEF VoiceFitsIn

LEMMA FitsMapped ==
  ASSUME NEW nxt, NEW q, NEW v, NEW r, NEW mapped, VoiceFitsIn(nxt, q, v, r, mapped),
         NEW others, v \in others <=> v \in mapped
  PROVE  VoiceFitsIn(nxt, q, v, r, others)
BY DEF VoiceFitsIn

------------------------------------------------------------------------------
(* What is done to a voice *)

\* x is w with nothing changed but voice v and its events, and at most one event more.
OneVoice(w, x, v) ==
  /\ RestSame(w.q, x.q) /\ Len(x.q) \in Nat /\ Len(x.q) <= Len(w.q) + 1
  /\ \A u \in Voices : u # v => x.vs[u] = w.vs[u]

\* No end is to come for v.
CanEnd(w, mapped, v) ==
  /\ DOMAIN w = {"q", "vs"} /\ IsQueue(w.q, PlayerEvents) /\ QueueInTime(w.q)
  /\ DOMAIN w.vs = Voices
  /\ \A u \in Voices : u # v => VoiceFitsIn(NoEvent, w.q, u, w.vs[u], mapped)
  /\ v \in mapped /\ w.vs[v].key \in Keys /\ DOMAIN w.vs[v] = {"key", "phase", "env", "osc"}
  /\ Absent(w.q, NoteEndOf(v)) /\ Absent(w.q, EnvOf(v))
  /\ IF w.vs[v].osc THEN Once(NoEvent, w.q, OscOf(v)) ELSE Never(NoEvent, w.q, OscOf(v))

\* x is w when v ends at d.
EndsAt(w, x, v, d) ==
  x = [q |-> PostEvent(w.q, NoteEndOf(v), d), vs |-> [w.vs EXCEPT ![v].env = "release"]]

\* The items of the event e
AreItems(items, q, e) == \A i \in 1..Len(q) : i \in items <=> q[i].evt = e

LEMMA EndPosted ==
  ASSUME NEW mapped, NEW v \in Voices, NEW w, CanEnd(w, mapped, v), Len(w.q) < MaxEvents,
         NEW d \in 0..End, NEW x, EndsAt(w, x, v, d)
  PROVE  /\ World(x, mapped) /\ OneVoice(w, x, v)
         /\ x.vs[v].env = "release" /\ x.vs[v].phase = w.vs[v].phase
<1>1. PICK p : p = PostEvent(w.q, NoteEndOf(v), d)
  OBVIOUS
<1>2. Gains(w.q, p, NoteEndOf(v)) /\ Len(w.q) \in Nat
  BY <1>1, EventPosted, EventsOfPlayer, QueueFacts DEF CanEnd
<1>3. PICK s : s = [w.vs[v] EXCEPT !.env = "release"]
  OBVIOUS
<1>4. PICK vv : vv = [w.vs EXCEPT ![v] = s]
  OBVIOUS
<1>5. x.q = p /\ x.vs = vv /\ DOMAIN x = {"q", "vs"}
  BY <1>1, <1>3, <1>4 DEF EndsAt
<1>6. DOMAIN vv = Voices /\ vv[v] = s /\ \A u \in Voices : u # v => vv[u] = w.vs[u]
  BY <1>4 DEF CanEnd
<1>7. /\ DOMAIN s = {"key", "phase", "env", "osc"} /\ s.key = w.vs[v].key /\ s.env = "release"
      /\ s.phase = w.vs[v].phase /\ s.osc = w.vs[v].osc
  BY <1>3 DEF CanEnd
<1>8. \A e : e # NoteEndOf(v) => Same(w.q, p, e)
  BY <1>2 DEF Gains
<1>9. VoiceFitsIn(NoEvent, p, v, s, mapped)
  <2>1. Single(p, NoteEndOf(v)) /\ Same(w.q, p, EnvOf(v)) /\ Same(w.q, p, OscOf(v))
    BY <1>2, <1>8, VoiceEventsDiffer DEF Gains, CanEnd
  <2>2. Once(NoEvent, p, NoteEndOf(v)) /\ Never(NoEvent, p, EnvOf(v))
    BY <2>1, VoiceEventsDiffer DEF Once, Never, Same, CanEnd
  <2>3. IF s.osc THEN Once(NoEvent, p, OscOf(v)) ELSE Never(NoEvent, p, OscOf(v))
    BY <1>7, <2>1, SameCounts DEF CanEnd
  <2>4. v \in mapped /\ s.key \in Keys /\ s.env = "release" /\ s.env # "attack"
    BY <1>7 DEF CanEnd
  <2> QED BY <1>7, <2>2, <2>3, <2>4 DEF VoiceFitsIn
<1>10. \A u \in Voices : u # v => VoiceFitsIn(NoEvent, p, u, vv[u], mapped)
  <2> SUFFICES ASSUME NEW u \in Voices, u # v PROVE VoiceFitsIn(NoEvent, p, u, vv[u], mapped)
    OBVIOUS
  <2>1. \A e \in VoiceEvents(u) : Same(w.q, p, e)
    BY <1>8, VoiceEventsDiffer
  <2>2. VoiceFitsIn(NoEvent, w.q, u, w.vs[u], mapped)
    BY DEF CanEnd
  <2>3. VoiceFitsIn(NoEvent, p, u, w.vs[u], mapped)
    BY <2>1, <2>2, FitsStays
  <2> QED BY <1>6, <2>3
<1>11. World(x, mapped)
  <2>1. \A u \in Voices : VoiceFitsIn(NoEvent, p, u, vv[u], mapped)
    BY <1>6, <1>9, <1>10
  <2> QED BY <1>2, <1>5, <1>6, <2>1 DEF World, Gains
<1>12. OneVoice(w, x, v)
  <2>1. RestSame(w.q, p)
    BY <1>8, VoiceEventsDiffer DEF RestSame
  <2>2. Len(p) = Len(w.q) + 1
    BY <1>2 DEF Gains
  <2> QED BY <1>2, <1>5, <1>6, <2>1, <2>2 DEF OneVoice
<1> QED BY <1>5, <1>6, <1>7, <1>11, <1>12

\* p is the queue of w without the event e of voice v.
LeavesVoice(w, p, v, e, mapped) ==
  /\ IsQueue(p, PlayerEvents) /\ QueueInTime(p) /\ RestSame(w.q, p)
  /\ Len(p) \in Nat /\ Len(p) <= Len(w.q) /\ Absent(p, e)
  /\ \A f : f # e => Same(w.q, p, f)
  /\ \A u \in Voices : u # v => VoiceFitsIn(NoEvent, p, u, w.vs[u], mapped)

LEMMA VoiceEventTaken ==
  ASSUME NEW mapped, NEW v \in Voices, NEW w, World(w, mapped), NEW e \in VoiceEvents(v),
         NEW items, AreItems(items, w.q, e), NEW p, p = Without(w.q, items)
  PROVE  LeavesVoice(w, p, v, e, mapped)
<1>1. \A i \in 1..Len(w.q) : i \in items <=> w.q[i].evt \in {e}
  BY DEF AreItems
<1>2. Loses(w.q, p, {e})
  BY <1>1, EventsTaken DEF World
<1>3. Absent(p, e) /\ \A f : f # e => Same(w.q, p, f)
  BY <1>2 DEF Loses
<1>4. RestSame(w.q, p)
  BY <1>3, VoiceEventsDiffer DEF RestSame
<1>5. ASSUME NEW u \in Voices, u # v PROVE VoiceFitsIn(NoEvent, p, u, w.vs[u], mapped)
  <2>1. \A f \in VoiceEvents(u) : Same(w.q, p, f)
    BY <1>3, <1>5, VoiceEventsDiffer
  <2> QED BY <2>1, FitsStays DEF World
<1> QED BY <1>2, <1>3, <1>4, <1>5 DEF Loses, LeavesVoice

LEMMA ReleaseWorks ==
  ASSUME NEW mapped, NEW v \in Voices, NEW w, World(w, mapped), v \in mapped,
         w.vs[v].env # "release", Len(w.q) < MaxEvents, NEW d \in 0..End,
         NEW x, x = ReleaseVoice(w, v, d)
  PROVE  /\ World(x, mapped) /\ OneVoice(w, x, v)
         /\ x.vs[v].env = "release" /\ x.vs[v].phase = w.vs[v].phase
<1>1. PICK p : p = IF w.vs[v].env = "attack" THEN Without(w.q, ItemsOf(w.q, EnvOf(v))) ELSE w.q
  OBVIOUS
<1>2. PICK y : y = [q |-> p, vs |-> w.vs]
  OBVIOUS
<1>3. EndsAt(y, x, v, d)
  BY <1>1, <1>2 DEF ReleaseVoice, EndsAt
<1>4. VoiceFitsIn(NoEvent, w.q, v, w.vs[v], mapped) /\ Len(w.q) \in Nat
  BY QueueFacts DEF World
<1>5. /\ IsQueue(p, PlayerEvents) /\ QueueInTime(p) /\ RestSame(w.q, p)
      /\ Len(p) \in Nat /\ Len(p) <= Len(w.q) /\ Absent(p, EnvOf(v))
      /\ Same(w.q, p, NoteEndOf(v)) /\ Same(w.q, p, OscOf(v))
      /\ \A u \in Voices : u # v => VoiceFitsIn(NoEvent, p, u, w.vs[u], mapped)
  <2>1. CASE w.vs[v].env = "attack"
    <3>1. AreItems(ItemsOf(w.q, EnvOf(v)), w.q, EnvOf(v))
      BY DEF ItemsOf, AreItems
    <3>2. p = Without(w.q, ItemsOf(w.q, EnvOf(v)))
      BY <1>1, <2>1
    <3>3. EnvOf(v) \in VoiceEvents(v)
      BY VoiceEventsDiffer
    <3>4. LeavesVoice(w, p, v, EnvOf(v), mapped)
      BY <3>1, <3>2, <3>3, VoiceEventTaken
    <3> QED BY <3>4, VoiceEventsDiffer DEF LeavesVoice
  <2>2. CASE w.vs[v].env # "attack"
    <3>1. p = w.q
      BY <1>1, <2>2
    <3>2. Absent(w.q, EnvOf(v))
      BY <1>4, <2>2 DEF VoiceFitsIn, Never
    <3>3. \A e : Same(w.q, w.q, e)
      BY DEF Same
    <3> QED BY <1>4, <3>1, <3>2, <3>3 DEF World, RestSame
  <2> QED BY <2>1, <2>2
<1>6. CanEnd(y, mapped, v)
  <2>1. y.q = p /\ y.vs = w.vs /\ DOMAIN y = {"q", "vs"} /\ DOMAIN w.vs = Voices
    BY <1>2 DEF World
  <2>2. w.vs[v].key \in Keys /\ DOMAIN w.vs[v] = {"key", "phase", "env", "osc"}
    BY <1>4 DEF VoiceFitsIn
  <2>3. Absent(p, NoteEndOf(v))
    BY <1>4, <1>5 DEF VoiceFitsIn, Never, Same
  <2>4. IF w.vs[v].osc THEN Once(NoEvent, p, OscOf(v)) ELSE Never(NoEvent, p, OscOf(v))
    BY <1>4, <1>5, SameCounts DEF VoiceFitsIn
  <2> QED BY <1>5, <2>1, <2>2, <2>3, <2>4 DEF CanEnd
<1>7. Len(y.q) < MaxEvents
  BY <1>2, <1>4, <1>5, EventQueueAssumption
<1>8. /\ World(x, mapped) /\ OneVoice(y, x, v)
      /\ x.vs[v].env = "release" /\ x.vs[v].phase = y.vs[v].phase
  BY <1>3, <1>6, <1>7, EndPosted
<1>9. OneVoice(w, x, v)
  <2>1. RestSame(p, x.q) /\ Len(x.q) \in Nat /\ Len(x.q) <= Len(p) + 1 /\ \A u \in Voices : u # v => x.vs[u] = w.vs[u]
    BY <1>2, <1>8 DEF OneVoice
  <2>2. RestSame(w.q, x.q)
    BY <1>5, <2>1 DEF RestSame, Same
  <2> QED BY <1>4, <1>5, <2>1, <2>2 DEF OneVoice
<1> QED BY <1>2, <1>8, <1>9

LEMMA NothingDone ==
  ASSUME NEW mapped, NEW w, World(w, mapped), NEW v
  PROVE  OneVoice(w, w, v)
<1>1. Len(w.q) \in Nat
  BY QueueFacts DEF World
<1> QED BY <1>1 DEF OneVoice, RestSame, Same

LEMMA KillWorks ==
  ASSUME NEW mapped, NEW v \in Voices, NEW w, World(w, mapped), v \in mapped,
         Len(w.q) < MaxEvents, NEW x, x = KillVoice(w, v)
  PROVE  World(x, mapped) /\ OneVoice(w, x, v)
<1> DEFINE ends == ItemsOf(w.q, NoteEndOf(v))
           i == CHOOSE i \in ends : \A j \in ends : i <= j
<1>1. VoiceFitsIn(NoEvent, w.q, v, w.vs[v], mapped) /\ Len(w.q) \in Nat
  BY QueueFacts DEF World
<1>2. KillTime \in 0..End
  <2>1. KillTime \in 1..(End - 1)
    BY SeqPlayerAssumption
  <2> QED BY <2>1, EndIsNat
<1>3. ends = {} <=> Absent(w.q, NoteEndOf(v))
  BY DEF ItemsOf, Absent
<1>4. CASE ends = {}
  <2>1. x = ReleaseVoice(w, v, KillTime)
    BY <1>4 DEF KillVoice
  <2>2. w.vs[v].env # "release"
    <3>1. ASSUME w.vs[v].env = "release" PROVE FALSE
      <4>1. Once(NoEvent, w.q, NoteEndOf(v))
        BY <1>1, <3>1 DEF VoiceFitsIn
      <4>2. Single(w.q, NoteEndOf(v))
        BY <4>1, VoiceEventsDiffer DEF Once
      <4> QED BY <1>3, <1>4, <4>2 DEF Single, Absent
    <3> QED BY <3>1
  <2> QED BY <1>2, <2>1, <2>2, ReleaseWorks
<1>5. CASE ends # {} /\ DueAt(w.q, i) > KillTime
  <2>1. w.vs[v].env = "release" /\ Single(w.q, NoteEndOf(v))
    <3>1. w.vs[v].env = "release"
      BY <1>1, <1>3, <1>5 DEF VoiceFitsIn, Never
    <3>2. Once(NoEvent, w.q, NoteEndOf(v))
      BY <1>1, <3>1 DEF VoiceFitsIn
    <3> QED BY <3>1, <3>2, VoiceEventsDiffer DEF Once
  <2>2. PICK k \in 1..Len(w.q) :
          w.q[k].evt = NoteEndOf(v) /\ \A j \in 1..Len(w.q) : w.q[j].evt = NoteEndOf(v) => j = k
    BY <2>1 DEF Single
  <2>3. i = k
    <3>1. k \in ends /\ \A j \in ends : j = k /\ k <= j
      BY <1>1, <2>2 DEF ItemsOf
    <3>2. i \in ends
      BY <3>1
    <3> QED BY <3>1, <3>2
  <2>4. AreItems({i}, w.q, NoteEndOf(v))
    BY <2>2, <2>3 DEF AreItems
  <2>5. PICK p : p = Without(w.q, {i})
    OBVIOUS
  <2>6. PICK y : y = [w EXCEPT !.q = p]
    OBVIOUS
  <2>7. y.q = p /\ y.vs = w.vs /\ DOMAIN y = {"q", "vs"} /\ DOMAIN w.vs = Voices
    BY <2>6 DEF World
  <2>8. x = ReleaseVoice(y, v, KillTime)
    BY <1>5, <2>5, <2>6 DEF KillVoice
  <2>9. EndsAt(y, x, v, KillTime)
    BY <2>1, <2>7, <2>8 DEF ReleaseVoice, EndsAt
  <2>10. /\ IsQueue(p, PlayerEvents) /\ QueueInTime(p) /\ RestSame(w.q, p)
         /\ Len(p) \in Nat /\ Len(p) <= Len(w.q) /\ Absent(p, NoteEndOf(v))
         /\ \A f : f # NoteEndOf(v) => Same(w.q, p, f)
         /\ \A u \in Voices : u # v => VoiceFitsIn(NoEvent, p, u, w.vs[u], mapped)
    <3>1. NoteEndOf(v) \in VoiceEvents(v)
      BY VoiceEventsDiffer
    <3>2. PICK items : items = {i}
      OBVIOUS
    <3>3. AreItems(items, w.q, NoteEndOf(v)) /\ p = Without(w.q, items)
      BY <2>4, <2>5, <3>2
    <3> HIDE DEF i
    <3>4. LeavesVoice(w, p, v, NoteEndOf(v), mapped)
      BY <3>1, <3>3, VoiceEventTaken
    <3> QED BY <3>4 DEF LeavesVoice
  <2>11. Same(w.q, p, EnvOf(v)) /\ Same(w.q, p, OscOf(v))
    BY <2>10, VoiceEventsDiffer
  <2>12. CanEnd(y, mapped, v)
    <3>1. w.vs[v].key \in Keys /\ DOMAIN w.vs[v] = {"key", "phase", "env", "osc"}
      BY <1>1 DEF VoiceFitsIn
    <3>2. w.vs[v].env # "attack"
      BY <2>1
    <3>3. Absent(p, EnvOf(v))
      BY <1>1, <2>11, <3>2 DEF VoiceFitsIn, Never, Same
    <3>4. IF w.vs[v].osc THEN Once(NoEvent, p, OscOf(v)) ELSE Never(NoEvent, p, OscOf(v))
      BY <1>1, <2>11, SameCounts DEF VoiceFitsIn
    <3> QED BY <2>7, <2>10, <3>1, <3>3, <3>4 DEF CanEnd
  <2>13. Len(y.q) < MaxEvents
    BY <1>1, <2>7, <2>10, EventQueueAssumption
  <2>14. World(x, mapped) /\ OneVoice(y, x, v)
    BY <1>2, <2>9, <2>12, <2>13, EndPosted
  <2>15. OneVoice(w, x, v)
    <3>1. /\ RestSame(p, x.q) /\ Len(x.q) \in Nat /\ Len(x.q) <= Len(p) + 1
          /\ \A u \in Voices : u # v => x.vs[u] = w.vs[u]
      BY <2>7, <2>14 DEF OneVoice
    <3>2. RestSame(w.q, x.q)
      BY <2>10, <3>1 DEF RestSame, Same
    <3> QED BY <1>1, <2>10, <3>1, <3>2 DEF OneVoice
  <2> QED BY <2>14, <2>15
<1>6. CASE ends # {} /\ ~(DueAt(w.q, i) > KillTime)
  <2>1. x = w
    BY <1>6 DEF KillVoice
  <2> QED BY <2>1, NothingDone
<1> QED BY <1>4, <1>5, <1>6

\* The oscillator of v has stopped.
Quietens(w, x, v, mapped) ==
  /\ World(x, mapped) /\ OneVoice(w, x, v) /\ ~x.vs[v].osc
  /\ \A u \in Voices : x.vs[u].env = w.vs[u].env /\ (~w.vs[u].osc => ~x.vs[u].osc)
  /\ \A u : Same(w.q, x.q, NoteEndOf(u)) /\ Same(w.q, x.q, EnvOf(u))
  /\ (NotesFirst(w.q) => NotesFirst(x.q))

LEMMA OscStops ==
  ASSUME NEW mapped, NEW v \in Voices, NEW w, World(w, mapped), NEW x, x = StopOsc(w, v)
  PROVE  Quietens(w, x, v, mapped)
<1>1. VoiceFitsIn(NoEvent, w.q, v, w.vs[v], mapped) /\ Len(w.q) \in Nat
  BY QueueFacts DEF World
<1>2. PICK p : p = IF w.vs[v].osc THEN Without(w.q, ItemsOf(w.q, OscOf(v))) ELSE w.q
  OBVIOUS
<1>3. PICK s : s = [w.vs[v] EXCEPT !.osc = FALSE]
  OBVIOUS
<1>4. PICK vv : vv = [w.vs EXCEPT ![v] = s]
  OBVIOUS
<1>5. x = [q |-> p, vs |-> vv]
  BY <1>2, <1>3, <1>4 DEF StopOsc
<1>6. x.q = p /\ x.vs = vv /\ DOMAIN x = {"q", "vs"}
  BY <1>5
<1>7. DOMAIN vv = Voices /\ vv[v] = s /\ \A u \in Voices : u # v => vv[u] = w.vs[u]
  BY <1>4 DEF World
<1>8. /\ DOMAIN s = {"key", "phase", "env", "osc"} /\ s.key = w.vs[v].key /\ s.env = w.vs[v].env
      /\ ~s.osc
  BY <1>1, <1>3 DEF VoiceFitsIn
<1>9. /\ IsQueue(p, PlayerEvents) /\ QueueInTime(p) /\ RestSame(w.q, p)
      /\ Len(p) \in Nat /\ Len(p) <= Len(w.q) /\ Absent(p, OscOf(v))
      /\ \A f : f # OscOf(v) => Same(w.q, p, f)
      /\ \A u \in Voices : u # v => VoiceFitsIn(NoEvent, p, u, w.vs[u], mapped)
      /\ NotesFirst(w.q) => NotesFirst(p)
  <2>1. CASE w.vs[v].osc
    <3>1. AreItems(ItemsOf(w.q, OscOf(v)), w.q, OscOf(v))
      BY DEF ItemsOf, AreItems
    <3>2. p = Without(w.q, ItemsOf(w.q, OscOf(v)))
      BY <1>2, <2>1
    <3>3. OscOf(v) \in VoiceEvents(v)
      BY VoiceEventsDiffer
    <3>4. LeavesVoice(w, p, v, OscOf(v), mapped)
      BY <3>1, <3>2, <3>3, VoiceEventTaken
    <3>5. Loses(w.q, p, {OscOf(v)})
      BY <3>2, EventTaken DEF World
    <3> QED BY <3>4, <3>5 DEF Loses, LeavesVoice
  <2>2. CASE ~w.vs[v].osc
    <3>1. p = w.q
      BY <1>2, <2>2
    <3>2. Absent(w.q, OscOf(v))
      BY <1>1, <2>2 DEF VoiceFitsIn, Never
    <3>3. \A e : Same(w.q, w.q, e)
      BY DEF Same
    <3> QED BY <1>1, <3>1, <3>2, <3>3 DEF World, RestSame
  <2> QED BY <2>1, <2>2
<1>10. VoiceFitsIn(NoEvent, p, v, s, mapped)
  <2>1. Same(w.q, p, NoteEndOf(v)) /\ Same(w.q, p, EnvOf(v))
    BY <1>9, VoiceEventsDiffer
  <2>2. /\ Never(NoEvent, w.q, NoteEndOf(v)) => Never(NoEvent, p, NoteEndOf(v))
        /\ Once(NoEvent, w.q, NoteEndOf(v)) => Once(NoEvent, p, NoteEndOf(v))
        /\ Never(NoEvent, w.q, EnvOf(v)) => Never(NoEvent, p, EnvOf(v))
        /\ Once(NoEvent, w.q, EnvOf(v)) => Once(NoEvent, p, EnvOf(v))
    BY <2>1, SameCounts
  <2>3. Never(NoEvent, p, OscOf(v))
    BY <1>9, VoiceEventsDiffer DEF Never
  <2> QED BY <1>1, <1>8, <2>2, <2>3 DEF VoiceFitsIn
<1>11. World(x, mapped)
  <2>1. \A u \in Voices : VoiceFitsIn(NoEvent, p, u, vv[u], mapped)
    BY <1>7, <1>9, <1>10
  <2> QED BY <1>6, <1>7, <1>9, <2>1 DEF World
<1>12. OneVoice(w, x, v)
  BY <1>1, <1>6, <1>7, <1>9 DEF OneVoice
<1>13. \A u \in Voices : vv[u].env = w.vs[u].env /\ (~w.vs[u].osc => ~vv[u].osc)
  BY <1>7, <1>8
<1>14. ASSUME NEW u PROVE NoteEndOf(u) # OscOf(v) /\ EnvOf(u) # OscOf(v)
  <2>1. NoteEndOf(u).type = "noteEnd" /\ EnvOf(u).type = "env" /\ OscOf(v).type = "osc"
    BY EventTypes
  <2> QED BY <2>1
<1>15. \A u : Same(w.q, p, NoteEndOf(u)) /\ Same(w.q, p, EnvOf(u))
  BY <1>9, <1>14
<1> QED BY <1>6, <1>7, <1>8, <1>9, <1>11, <1>12, <1>13, <1>15 DEF Quietens

MappedVoices == {v \in Voices : Contains(vAlloc, v)}

\* While the player plays, a voice that ends has had its note off.
PhasesFit(vv, mapped) == \A v \in mapped : vv[v].env = "release" => vv[v].phase = "release"

\* x is w but for the phase of v.
PhaseSet(w, x, v, ph) == x = [w EXCEPT !.vs[v].phase = ph]
OnlyPhase(w, x, v, ph, mapped) ==
  /\ World(x, mapped) /\ x.q = w.q /\ OneVoice(w, x, v)
  /\ x.vs[v].env = w.vs[v].env /\ x.vs[v].key = w.vs[v].key /\ x.vs[v].phase = ph

LEMMA PhaseChanges ==
  ASSUME NEW mapped, NEW v \in Voices, NEW w, World(w, mapped), NEW ph, NEW x,
         PhaseSet(w, x, v, ph)
  PROVE  OnlyPhase(w, x, v, ph, mapped)
<1>1. VoiceFitsIn(NoEvent, w.q, v, w.vs[v], mapped) /\ Len(w.q) \in Nat
  BY QueueFacts DEF World
<1>2. PICK s : s = [w.vs[v] EXCEPT !.phase = ph]
  OBVIOUS
<1>3. PICK vv : vv = [w.vs EXCEPT ![v] = s]
  OBVIOUS
<1>4. x = [w EXCEPT !.vs = vv]
  BY <1>2, <1>3 DEF PhaseSet
<1>5. x.q = w.q /\ x.vs = vv /\ DOMAIN x = {"q", "vs"}
  BY <1>4 DEF World
<1>6. DOMAIN vv = Voices /\ vv[v] = s /\ \A u \in Voices : u # v => vv[u] = w.vs[u]
  BY <1>3 DEF World
<1>7. /\ DOMAIN s = DOMAIN w.vs[v] /\ s.key = w.vs[v].key /\ s.env = w.vs[v].env
      /\ s.osc = w.vs[v].osc /\ s.phase = ph
  BY <1>1, <1>2 DEF VoiceFitsIn
<1>8. VoiceFitsIn(NoEvent, w.q, v, s, mapped)
  BY <1>1, <1>7, FitsAlike
<1>9. \A u \in Voices : VoiceFitsIn(NoEvent, w.q, u, vv[u], mapped)
  BY <1>6, <1>8 DEF World
<1>10. World(x, mapped)
  BY <1>5, <1>6, <1>9 DEF World
<1>11. OneVoice(w, x, v)
  BY <1>1, <1>5, <1>6 DEF OneVoice, RestSame, Same
<1> QED BY <1>5, <1>6, <1>7, <1>10, <1>11 DEF OnlyPhase

LEMMA ReleaseTimes == \A k \in Keys : Rel[k] \in 0..End /\ Attack[k] \in 0..End
BY SeqPlayerAssumption

\* What the lemmas on what is done to a voice say, each in one name
ComesToEnd(w, x, v, mapped) ==
  /\ World(x, mapped) /\ OneVoice(w, x, v)
  /\ x.vs[v].env = "release" /\ x.vs[v].phase = w.vs[v].phase

LEMMA ReleaseEnds ==
  ASSUME NEW mapped, NEW v \in Voices, NEW w, World(w, mapped), v \in mapped,
         w.vs[v].env # "release", Len(w.q) < MaxEvents, NEW d \in 0..End,
         NEW x, x = ReleaseVoice(w, v, d)
  PROVE  ComesToEnd(w, x, v, mapped)
BY ReleaseWorks DEF ComesToEnd

Sustains(w, x, v, mapped) ==
  /\ World(x, mapped) /\ OneVoice(w, x, v) /\ x.q = w.q
  /\ (PhasesFit(w.vs, mapped) => PhasesFit(x.vs, mapped))

LEMMA PedalDownWorks ==
  ASSUME NEW mapped \in SUBSET Voices, NEW v \in mapped, NEW w, World(w, mapped),
         NEW x, x = PedalDown(w, v)
  PROVE  Sustains(w, x, v, mapped)
<1>1. CASE w.vs[v].phase = "on"
  <2>1. PICK y : y = [w EXCEPT !.vs[v].phase = "sustain"]
    OBVIOUS
  <2>2. x = y
    BY <1>1, <2>1 DEF PedalDown
  <2>3. /\ World(y, mapped) /\ y.q = w.q /\ OneVoice(w, y, v)
        /\ y.vs[v].env = w.vs[v].env
    <3>1. v \in Voices /\ PhaseSet(w, y, v, "sustain")
      BY <2>1 DEF PhaseSet
    <3>2. OnlyPhase(w, y, v, "sustain", mapped)
      BY <3>1, PhaseChanges
    <3> QED BY <3>2 DEF OnlyPhase
  <2>4. ASSUME PhasesFit(w.vs, mapped) PROVE PhasesFit(y.vs, mapped)
    <3>1. w.vs[v].env # "release"
      BY <1>1, <2>4 DEF PhasesFit
    <3>2. \A u \in mapped : u # v => y.vs[u] = w.vs[u]
      BY <2>3 DEF OneVoice
    <3> QED BY <2>3, <2>4, <3>1, <3>2 DEF PhasesFit
  <2> QED BY <2>2, <2>3, <2>4 DEF Sustains
<1>2. CASE w.vs[v].phase # "on"
  <2>1. x = w
    BY <1>2 DEF PedalDown
  <2> QED BY <2>1, NothingDone DEF Sustains
<1> QED BY <1>1, <1>2

\* A note off, or the pedal, releases a voice.
LEMMA VoiceReleased ==
  ASSUME NEW mapped \in SUBSET Voices, NEW v \in mapped, NEW w, World(w, mapped),
         PhasesFit(w.vs, mapped), w.vs[v].phase # "release", Len(w.q) < MaxEvents,
         NEW y, y = [w EXCEPT !.vs[v].phase = "release"],
         NEW x, x = ReleaseVoice(y, v, Rel[w.vs[v].key])
  PROVE  World(x, mapped) /\ OneVoice(w, x, v) /\ PhasesFit(x.vs, mapped)
<1>1. v \in Voices /\ w.vs[v].key \in Keys /\ w.vs[v].env # "release"
  <2>1. v \in Voices /\ VoiceFitsIn(NoEvent, w.q, v, w.vs[v], mapped)
    BY DEF World
  <2> QED BY <2>1 DEF VoiceFitsIn, PhasesFit
<1>2. PICK d \in 0..End : d = Rel[w.vs[v].key]
  BY <1>1, ReleaseTimes
<1>3. /\ World(y, mapped) /\ y.q = w.q /\ OneVoice(w, y, v)
      /\ y.vs[v].env = w.vs[v].env /\ y.vs[v].phase = "release"
  <2>1. PhaseSet(w, y, v, "release")
    BY DEF PhaseSet
  <2>2. OnlyPhase(w, y, v, "release", mapped)
    BY <1>1, <2>1, PhaseChanges
  <2> QED BY <2>2 DEF OnlyPhase
<1>4. /\ World(x, mapped) /\ OneVoice(y, x, v)
      /\ x.vs[v].env = "release" /\ x.vs[v].phase = y.vs[v].phase
  <2>1. x = ReleaseVoice(y, v, d) /\ y.vs[v].env # "release" /\ Len(y.q) < MaxEvents
    BY <1>1, <1>2, <1>3
  <2>2. ComesToEnd(y, x, v, mapped)
    BY <1>1, <1>3, <2>1, ReleaseEnds
  <2> QED BY <2>2 DEF ComesToEnd
<1>5. OneVoice(w, x, v)
  BY <1>3, <1>4 DEF OneVoice
<1>6. \A u \in mapped : u # v => x.vs[u] = w.vs[u]
  BY <1>5 DEF OneVoice
<1>7. PhasesFit(x.vs, mapped)
  BY <1>3, <1>4, <1>6 DEF PhasesFit
<1> QED BY <1>4, <1>5, <1>7

LEMMA PedalUpWorks ==
  ASSUME NEW mapped \in SUBSET Voices, NEW v \in mapped, NEW w, World(w, mapped),
         PhasesFit(w.vs, mapped), Len(w.q) < MaxEvents, NEW x, x = PedalUp(w, v)
  PROVE  World(x, mapped) /\ OneVoice(w, x, v) /\ PhasesFit(x.vs, mapped)
<1>1. CASE w.vs[v].phase = "sustain"
  <2>1. PICK y : y = [w EXCEPT !.vs[v].phase = "on"]
    OBVIOUS
  <2>2. x = y
    BY <1>1, <2>1 DEF PedalUp
  <2>3. World(y, mapped) /\ OneVoice(w, y, v) /\ y.vs[v].env = w.vs[v].env
    <3>1. v \in Voices /\ PhaseSet(w, y, v, "on")
      BY <2>1 DEF PhaseSet
    <3>2. OnlyPhase(w, y, v, "on", mapped)
      BY <3>1, PhaseChanges
    <3> QED BY <3>2 DEF OnlyPhase
  <2>4. w.vs[v].env # "release"
    BY <1>1 DEF PhasesFit
  <2>5. \A u \in mapped : u # v => y.vs[u] = w.vs[u]
    BY <2>3 DEF OneVoice
  <2>6. PhasesFit(y.vs, mapped)
    BY <2>3, <2>4, <2>5 DEF PhasesFit
  <2> QED BY <2>2, <2>3, <2>6
<1>2. CASE w.vs[v].phase = "sustrel"
  <2>1. PICK y : y = [w EXCEPT !.vs[v].phase = "release"]
    OBVIOUS
  <2>2. x = ReleaseVoice(y, v, Rel[w.vs[v].key])
    BY <1>2, <2>1 DEF PedalUp
  <2>3. w.vs[v].phase # "release"
    BY <1>2
  <2> QED BY <2>1, <2>2, <2>3, VoiceReleased
<1>3. CASE w.vs[v].phase # "sustain" /\ w.vs[v].phase # "sustrel"
  <2>1. x = w
    BY <1>3 DEF PedalUp
  <2> QED BY <2>1, NothingDone
<1> QED BY <1>1, <1>2, <1>3

------------------------------------------------------------------------------
(* What is done to each of the mapped voices *)

\* What comes of the first n voices, for each n
Results(f, what, w, n) == f = [i \in 0..n |-> IF i = 0 THEN w ELSE ToVoice(what, f[i - 1], vAlloc[i])]

LEMMA ResultsExist ==
  ASSUME NEW what, NEW w
  PROVE  \A n \in Nat : \E f : Results(f, what, w, n)
<1> DEFINE S == {n \in Nat : \E f : Results(f, what, w, n)}
           step(f, i) == ToVoice(what, f[i - 1], vAlloc[i])
<1>1. 0 \in S
  <2>1. Results([i \in 0..0 |-> w], what, w, 0)
    BY DEF Results
  <2> QED BY <2>1
<1>2. ASSUME NEW n \in Nat, n \in S PROVE n + 1 \in S
  <2>1. PICK f : Results(f, what, w, n)
    BY <1>2
  <2> DEFINE g == [i \in 0..(n + 1) |-> IF i = n + 1 THEN step(f, n + 1) ELSE f[i]]
  <2>2. \A i \in 0..n : f[i] = IF i = 0 THEN w ELSE step(f, i)
    BY <2>1 DEF Results
  <2>3. ASSUME NEW i \in 0..(n + 1)
        PROVE  g[i] = IF i = 0 THEN w ELSE step(g, i)
    <3>1. CASE i = n + 1
      <4>1. i # 0 /\ i - 1 = n /\ n \in 0..(n + 1) /\ n # n + 1
        BY <3>1
      <4>2. g[i - 1] = f[n] /\ g[i] = step(f, n + 1) /\ (n + 1) - 1 = n
        BY <3>1, <4>1
      <4> HIDE DEF g
      <4> QED BY <3>1, <4>1, <4>2
    <3>2. CASE i # n + 1 /\ i # 0
      <4>1. i \in 0..n /\ i - 1 \in 0..(n + 1) /\ i - 1 # n + 1
        BY <3>2
      <4>2. g[i - 1] = f[i - 1] /\ g[i] = f[i]
        BY <3>2, <4>1
      <4> HIDE DEF g
      <4> QED BY <2>2, <3>2, <4>1, <4>2
    <3>3. CASE i = 0
      BY <2>2, <3>3
    <3> QED BY <3>1, <3>2, <3>3
  <2>4. Results(g, what, w, n + 1)
    <3>1. g = [i \in 0..(n + 1) |-> g[i]]
      OBVIOUS
    <3> HIDE DEF g
    <3> QED BY <2>3, <3>1 DEF Results
  <2> QED BY <2>4
<1> HIDE DEF S
<1>3. \A n \in Nat : n \in S
  BY <1>1, <1>2, AllNumbers
<1> QED BY <1>3 DEF S

\* x is what becomes of w when the first n voices have had it.
Done(what, w, x, n) ==
  /\ World(x, MappedVoices) /\ RestSame(w.q, x.q) /\ Len(x.q) \in Nat /\ Len(x.q) <= Len(w.q) + n
  /\ what \in {"pedalDown", "pedalUp"} /\ PhasesFit(w.vs, MappedVoices) => PhasesFit(x.vs, MappedVoices)
  /\ what = "pedalDown" => x.q = w.q
  /\ what = "stopOsc" =>
       /\ \A i \in 1..n : ~x.vs[vAlloc[i]].osc
       /\ \A u \in Voices : x.vs[u].env = w.vs[u].env
       /\ \A u : Same(w.q, x.q, NoteEndOf(u)) /\ Same(w.q, x.q, EnvOf(u))

DoneSoFar(f, what, w, n) == n <= Len(vAlloc) => Done(what, w, f[n], n)

LEMMA OneMoreDone ==
  ASSUME NEW what \in {"kill", "stopOsc", "pedalDown", "pedalUp"},
         NEW w, Len(w.q) \in Nat, what = "pedalUp" => PhasesFit(w.vs, MappedVoices),
         NEW n \in Nat, NEW x, Done(what, w, x, n), Len(x.q) < MaxEvents,
         NEW v, v = vAlloc[n + 1], v \in MappedVoices, \A i \in 1..n : vAlloc[i] \in Voices,
         NEW y, y = ToVoice(what, x, v)
  PROVE  Done(what, w, y, n + 1)
<1>1. /\ World(x, MappedVoices) /\ RestSame(w.q, x.q) /\ Len(x.q) \in Nat /\ Len(x.q) <= Len(w.q) + n
      /\ v \in Voices /\ MappedVoices \in SUBSET Voices
  BY DEF Done, MappedVoices
<1>2. ASSUME World(y, MappedVoices), OneVoice(x, y, v)
      PROVE  /\ World(y, MappedVoices) /\ RestSame(w.q, y.q) /\ Len(y.q) \in Nat
             /\ Len(y.q) <= Len(w.q) + (n + 1)
  <2>1. RestSame(x.q, y.q) /\ Len(y.q) \in Nat /\ Len(y.q) <= Len(x.q) + 1
    BY <1>2 DEF OneVoice
  <2>2. RestSame(w.q, y.q)
    BY <1>1, <2>1 DEF RestSame, Same
  <2> QED BY <1>1, <1>2, <2>1, <2>2
<1>3. CASE what = "kill"
  <2>1. y = KillVoice(x, v)
    BY <1>3 DEF ToVoice
  <2>2. World(y, MappedVoices) /\ OneVoice(x, y, v)
    BY <1>1, <2>1, KillWorks
  <2> QED BY <1>2, <1>3, <2>2 DEF Done
<1>4. CASE what = "stopOsc"
  <2>1. y = StopOsc(x, v)
    BY <1>4 DEF ToVoice
  <2>2. /\ World(y, MappedVoices) /\ OneVoice(x, y, v) /\ ~y.vs[v].osc
        /\ \A u \in Voices : y.vs[u].env = x.vs[u].env /\ (~x.vs[u].osc => ~y.vs[u].osc)
        /\ \A u : Same(x.q, y.q, NoteEndOf(u)) /\ Same(x.q, y.q, EnvOf(u))
    <3>1. Quietens(x, y, v, MappedVoices)
      BY <1>1, <2>1, OscStops
    <3> QED BY <3>1 DEF Quietens
  <2>3. \A i \in 1..(n + 1) : ~y.vs[vAlloc[i]].osc
    <3> SUFFICES ASSUME NEW i \in 1..(n + 1) PROVE ~y.vs[vAlloc[i]].osc
      OBVIOUS
    <3>1. CASE i = n + 1
      BY <2>2, <3>1
    <3>2. CASE i # n + 1
      <4>1. i \in 1..n
        BY <3>2
      <4> QED BY <1>4, <2>2, <4>1 DEF Done
    <3> QED BY <3>1, <3>2
  <2>4. \A u \in Voices : y.vs[u].env = w.vs[u].env
    BY <1>4, <2>2 DEF Done
  <2>5. \A u : Same(w.q, y.q, NoteEndOf(u)) /\ Same(w.q, y.q, EnvOf(u))
    BY <1>4, <2>2 DEF Done, Same
  <2> QED BY <1>2, <1>4, <2>2, <2>3, <2>4, <2>5 DEF Done
<1>5. CASE what = "pedalDown"
  <2>1. y = PedalDown(x, v)
    BY <1>5 DEF ToVoice
  <2>2. /\ World(y, MappedVoices) /\ OneVoice(x, y, v) /\ y.q = x.q
        /\ (PhasesFit(x.vs, MappedVoices) => PhasesFit(y.vs, MappedVoices))
    <3>1. Sustains(x, y, v, MappedVoices)
      BY <1>1, <2>1, PedalDownWorks
    <3> QED BY <3>1 DEF Sustains
  <2> QED BY <1>2, <1>5, <2>2 DEF Done
<1>6. CASE what = "pedalUp"
  <2>1. y = PedalUp(x, v)
    BY <1>6 DEF ToVoice
  <2>2. PhasesFit(x.vs, MappedVoices)
    BY <1>6 DEF Done
  <2>3. World(y, MappedVoices) /\ OneVoice(x, y, v) /\ PhasesFit(y.vs, MappedVoices)
    BY <1>1, <2>1, <2>2, PedalUpWorks
  <2> QED BY <1>2, <1>6, <2>3 DEF Done
<1> QED BY <1>3, <1>4, <1>5, <1>6

LEMMA AllDone ==
  ASSUME NEW what \in {"kill", "stopOsc", "pedalDown", "pedalUp"}, IsList(vAlloc, Voices),
         NEW w, World(w, MappedVoices), what = "pedalUp" => PhasesFit(w.vs, MappedVoices),
         Len(w.q) + Len(vAlloc) <= MaxEvents
  PROVE  Done(what, w, ToVoices(what, w), Len(vAlloc))
<1>1. /\ Len(vAlloc) \in Nat /\ Len(w.q) \in Nat /\ MaxEvents \in Nat
      /\ \A i \in 1..Len(vAlloc) : vAlloc[i] \in MappedVoices /\ vAlloc[i] \in Voices
  <2>1. vAlloc \in Seq(Voices)
    BY DEF IsList
  <2>2. \A i \in 1..Len(vAlloc) : vAlloc[i] \in Voices
    BY <2>1, ElementOfSeq
  <2>3. \A i \in 1..Len(vAlloc) : vAlloc[i] \in MappedVoices
    BY <2>1, <2>2 DEF MappedVoices, Contains
  <2>4. IsQueue(w.q, PlayerEvents)
    BY DEF World
  <2>5. Len(w.q) \in Nat
    BY <2>4, QueueFacts
  <2> QED BY <2>1, <2>2, <2>3, <2>5, EventQueueAssumption
<1>2. PICK f : f = CHOOSE g : Results(g, what, w, Len(vAlloc))
  OBVIOUS
<1>3. Results(f, what, w, Len(vAlloc))
  BY <1>1, <1>2, ResultsExist
<1>4. ToVoices(what, w) = f[Len(vAlloc)]
  BY <1>2 DEF ToVoices, Results
<1>5. \A i \in 0..Len(vAlloc) : f[i] = IF i = 0 THEN w ELSE ToVoice(what, f[i - 1], vAlloc[i])
  BY <1>3 DEF Results
<1> DEFINE S == {n \in Nat : DoneSoFar(f, what, w, n)}
<1>6. 0 \in S
  <2>1. f[0] = w
    BY <1>1, <1>5
  <2>2. Done(what, w, w, 0)
    <3>1. Len(w.q) \in Nat /\ Len(w.q) <= Len(w.q) + 0
      BY <1>1
    <3>2. \A e : Same(w.q, w.q, e)
      BY DEF Same
    <3> QED BY <3>1, <3>2 DEF Done, RestSame
  <2> QED BY <2>1, <2>2 DEF DoneSoFar
<1>7. ASSUME NEW n \in Nat, n \in S PROVE n + 1 \in S
  <2>1. SUFFICES ASSUME n + 1 <= Len(vAlloc) PROVE Done(what, w, f[n + 1], n + 1)
    BY DEF DoneSoFar
  <2>2. n + 1 \in 1..Len(vAlloc) /\ n + 1 \in 0..Len(vAlloc) /\ (n + 1) - 1 = n /\ n + 1 # 0 /\ n <= Len(vAlloc)
    BY <1>1, <2>1
  <2>3. PICK x : x = f[n]
    OBVIOUS
  <2>4. PICK v : v = vAlloc[n + 1]
    OBVIOUS
  <2>5. PICK y : y = f[n + 1]
    OBVIOUS
  <2>6. y = ToVoice(what, x, v)
    BY <1>5, <2>2, <2>3, <2>4, <2>5
  <2>7. Done(what, w, x, n)
    BY <1>7, <2>2, <2>3 DEF DoneSoFar
  <2>8. Len(x.q) < MaxEvents
    <3>1. Len(x.q) \in Nat /\ Len(x.q) <= Len(w.q) + n
      BY <2>7 DEF Done
    <3> QED BY <1>1, <2>1, <3>1
  <2>9. v \in MappedVoices /\ \A i \in 1..n : vAlloc[i] \in Voices
    <3>1. \A i \in 1..n : i \in 1..Len(vAlloc)
      BY <1>1, <2>1
    <3> QED BY <1>1, <2>2, <2>4, <3>1
  <2>10. Done(what, w, y, n + 1)
    BY <2>4, <2>6, <2>7, <2>8, <2>9, OneMoreDone
  <2> QED BY <2>5, <2>10
<1> HIDE DEF S
<1>8. \A n \in Nat : n \in S
  BY <1>6, <1>7, AllNumbers
<1>9. Done(what, w, f[Len(vAlloc)], Len(vAlloc))
  BY <1>1, <1>8 DEF S, DoneSoFar
<1> QED BY <1>4, <1>9

------------------------------------------------------------------------------
(* The lists of the voices *)

\* An item is taken out of a list.
LEMMA ItemRemoved ==
  ASSUME NEW E, NEW l, IsList(l, E), NEW i \in 1..Len(l), NEW k, k = RemoveAt(l, i)
  PROVE  IsList(k, E) /\ \A x : Contains(k, x) <=> Contains(l, x) /\ x # l[i]
<1>1. /\ l \in Seq(E) /\ \A a, b \in 1..Len(l) : l[a] = l[b] => a = b
      /\ \A a \in 1..Len(l) : l[a] \in E
  BY ElementOfSeq DEF IsList
<1>2. PICK n \in Nat : n = Len(l)
  BY <1>1
<1>3. i \in 1..n /\ i - 1 \in 0..n /\ i - 1 \in Nat /\ n - i \in Nat
  BY <1>2
<1>4. PICK a : a = SubSeq(l, 1, i - 1)
  OBVIOUS
<1>5. PICK b : b = SubSeq(l, i + 1, n)
  OBVIOUS
<1>6. a \in Seq(E) /\ Len(a) = i - 1 /\ \A j \in 1..(i - 1) : a[j] = l[j]
  BY <1>1, <1>2, <1>3, <1>4
<1>7. b \in Seq(E) /\ Len(b) = n - i /\ \A j \in 1..(n - i) : b[j] = l[j + i]
  BY <1>1, <1>2, <1>3, <1>5
<1>8. \A j \in 1..(i - 1) : j \in 1..n /\ j # i
  BY <1>3
<1>9. \A j \in 1..(n - i) : j + i \in 1..n /\ j + i # i
  BY <1>3
<1>10. \A x : Contains(a, x) <=> \E j \in 1..(i - 1) : l[j] = x
  BY <1>6 DEF Contains
<1>11. \A x : Contains(b, x) <=> \E j \in 1..(n - i) : l[j + i] = x
  BY <1>7 DEF Contains
<1>12. IsList(a, E)
  BY <1>1, <1>2, <1>6, <1>8 DEF IsList
<1>13. IsList(b, E)
  <2>1. \A c, d \in 1..(n - i) : b[c] = b[d] => c = d
    <3> SUFFICES ASSUME NEW c \in 1..(n - i), NEW d \in 1..(n - i), b[c] = b[d] PROVE c = d
      OBVIOUS
    <3>1. c + i = d + i
      BY <1>1, <1>2, <1>7, <1>9
    <3> QED BY <1>3, <3>1
  <2> QED BY <1>7, <2>1 DEF IsList
<1>14. \A x : ~(Contains(a, x) /\ Contains(b, x))
  <2> SUFFICES ASSUME NEW x, Contains(a, x), Contains(b, x) PROVE FALSE
    OBVIOUS
  <2>1. PICK c \in 1..(i - 1) : l[c] = x
    BY <1>10
  <2>2. PICK d \in 1..(n - i) : l[d + i] = x
    BY <1>11
  <2>3. c = d + i
    BY <1>1, <1>2, <1>8, <1>9, <2>1, <2>2
  <2> QED BY <1>3, <2>3
<1>15. k = a \o b
  BY <1>2, <1>4, <1>5 DEF RemoveAt
<1>16. IsList(k, E) /\ \A x : Contains(k, x) <=> Contains(a, x) \/ Contains(b, x)
  BY <1>12, <1>13, <1>14, <1>15, ListsJoined
<1>17. \A j \in 1..n : j # i => j \in 1..(i - 1) \/ (j - i \in 1..(n - i) /\ (j - i) + i = j)
  BY <1>3
<1>18. \A x : Contains(a, x) \/ Contains(b, x) <=> Contains(l, x) /\ x # l[i]
  <2>1. ASSUME NEW x, Contains(a, x) PROVE Contains(l, x) /\ x # l[i]
    <3>1. PICK j \in 1..(i - 1) : l[j] = x
      BY <1>10, <2>1
    <3> QED BY <1>1, <1>2, <1>3, <1>8, <3>1 DEF Contains
  <2>2. ASSUME NEW x, Contains(b, x) PROVE Contains(l, x) /\ x # l[i]
    <3>1. PICK j \in 1..(n - i) : l[j + i] = x
      BY <1>11, <2>2
    <3> QED BY <1>1, <1>2, <1>3, <1>9, <3>1 DEF Contains
  <2>3. ASSUME NEW x, Contains(l, x), x # l[i] PROVE Contains(a, x) \/ Contains(b, x)
    <3>1. PICK j \in 1..n : l[j] = x
      BY <1>2, <2>3 DEF Contains
    <3>2. j # i
      BY <2>3, <3>1
    <3>3. CASE j \in 1..(i - 1)
      BY <1>10, <3>1, <3>3
    <3>4. CASE j - i \in 1..(n - i) /\ (j - i) + i = j
      BY <1>11, <3>1, <3>4
    <3> QED BY <1>17, <3>2, <3>3, <3>4
  <2> QED BY <2>1, <2>2, <2>3
<1> QED BY <1>16, <1>18

\* The mapped voices and the free ones
VoicesListed(a, f) ==
  /\ IsList(a, Voices) /\ IsList(f, Voices)
  /\ \A v : ~(Contains(a, v) /\ Contains(f, v))

LEMMA VoiceMapped ==
  ASSUME VoicesListed(vAlloc, vFree), vFree # << >>, NEW a, a = Append(vAlloc, Head(vFree)),
         NEW f, f = Tail(vFree)
  PROVE  /\ VoicesListed(a, f) /\ Head(vFree) \in Voices /\ Head(vFree) \notin MappedVoices
         /\ \A x : Contains(a, x) <=> Contains(vAlloc, x) \/ x = Head(vFree)
<1>1. IsList(vAlloc, Voices) /\ IsList(vFree, Voices) /\ \A v : ~(Contains(vAlloc, v) /\ Contains(vFree, v))
  BY DEF VoicesListed
<1>2. PICK v : v = Head(vFree)
  OBVIOUS
<1>3. v \in Voices /\ Contains(vFree, v) /\ IsList(f, Voices) /\ \A x : Contains(f, x) <=> Contains(vFree, x) /\ x # v
  BY <1>1, <1>2, TailList
<1>4. PICK one : one = << v >>
  OBVIOUS
<1>5. IsList(one, Voices) /\ \A y : Contains(one, y) <=> y = v
  BY <1>3, <1>4, OneList
<1>6. a = vAlloc \o one
  <2>1. vAlloc \in Seq(Voices)
    BY <1>1 DEF IsList
  <2> QED BY <1>2, <1>3, <1>4, <2>1
<1>7. IsList(a, Voices) /\ \A x : Contains(a, x) <=> Contains(vAlloc, x) \/ Contains(one, x)
  <2>1. \A x : ~(Contains(vAlloc, x) /\ Contains(one, x))
    BY <1>1, <1>3, <1>5
  <2> QED BY <1>1, <1>5, <1>6, <2>1, ListsJoined
<1>8. VoicesListed(a, f)
  BY <1>1, <1>3, <1>5, <1>7 DEF VoicesListed
<1>9. v \notin MappedVoices
  BY <1>1, <1>3 DEF MappedVoices
<1> QED BY <1>2, <1>3, <1>5, <1>7, <1>8, <1>9

LEMMA VoiceUnmapped ==
  ASSUME VoicesListed(vAlloc, vFree), NEW v, Contains(vAlloc, v), UnmapVoice(v)
  PROVE  VoicesListed(vAlloc', vFree') /\ \A x : Contains(vAlloc', x) <=> Contains(vAlloc, x) /\ x # v
<1>1. IsList(vAlloc, Voices) /\ IsList(vFree, Voices) /\ \A x : ~(Contains(vAlloc, x) /\ Contains(vFree, x))
  BY DEF VoicesListed
<1>2. PICK i : i = CHOOSE j \in 1..Len(vAlloc) : vAlloc[j] = v
  OBVIOUS
<1>3. i \in 1..Len(vAlloc) /\ vAlloc[i] = v
  BY <1>2 DEF Contains
<1>4. vAlloc' = RemoveAt(vAlloc, i) /\ vFree' = << v >> \o vFree
  BY <1>2 DEF UnmapVoice
<1>5. IsList(vAlloc', Voices) /\ \A x : Contains(vAlloc', x) <=> Contains(vAlloc, x) /\ x # v
  BY <1>1, <1>3, <1>4, ItemRemoved
<1>6. v \in Voices
  <2>1. vAlloc \in Seq(Voices)
    BY <1>1 DEF IsList
  <2> QED BY <1>3, <2>1, ElementOfSeq
<1>7. PICK one : one = << v >>
  OBVIOUS
<1>8. IsList(one, Voices) /\ \A y : Contains(one, y) <=> y = v
  BY <1>6, <1>7, OneList
<1>9. IsList(vFree', Voices) /\ \A x : Contains(vFree', x) <=> Contains(one, x) \/ Contains(vFree, x)
  <2>1. \A x : ~(Contains(one, x) /\ Contains(vFree, x))
    BY <1>1, <1>8
  <2>2. vFree' = one \o vFree
    BY <1>4, <1>7
  <2> QED BY <1>1, <1>8, <2>1, <2>2, ListsJoined
<1> QED BY <1>1, <1>5, <1>8, <1>9 DEF VoicesListed

LEMMA VoicesUnmapped ==
  ASSUME VoicesListed(vAlloc, vFree), NEW f, f = Reverse(vAlloc) \o vFree
  PROVE  VoicesListed(<< >>, f)
<1>1. IsList(vAlloc, Voices) /\ IsList(vFree, Voices) /\ \A x : ~(Contains(vAlloc, x) /\ Contains(vFree, x))
  BY DEF VoicesListed
<1>2. PICK r : r = Reverse(vAlloc)
  OBVIOUS
<1>3. IsList(r, Voices) /\ \A x : Contains(r, x) <=> Contains(vAlloc, x)
  BY <1>1, <1>2, ReverseList
<1>4. IsList(f, Voices)
  <2>1. \A x : ~(Contains(r, x) /\ Contains(vFree, x))
    BY <1>1, <1>3
  <2>2. f = r \o vFree
    BY <1>2
  <2> QED BY <1>1, <1>3, <2>1, <2>2, ListsJoined
<1>5. IsList(<< >>, Voices) /\ \A x : ~Contains(<< >>, x)
  <2>1. << >> \in Seq(Voices) /\ Len(<< >>) = 0 /\ 1..0 = {}
    OBVIOUS
  <2> QED BY <2>1 DEF IsList, Contains
<1> QED BY <1>4, <1>5 DEF VoicesListed

------------------------------------------------------------------------------
(* The other events *)

\* The events of which there is one at most
SoleEvents == {Api, Ref, StopEvt, PlayEvt}

\* Those of ones are to come, once, and note offs only of the keys in keys.
RestIn(nxt, q, ones, keys) ==
  /\ \A e \in SoleEvents : IF e \in ones THEN Once(nxt, q, e) ELSE Never(nxt, q, e)
  /\ \A k \in Keys : Coming(nxt, q, NoteOffOf(k)) => k \in keys

LEMMA SolesDiffer ==
  /\ Api # Ref /\ Api # StopEvt /\ Api # PlayEvt /\ Ref # StopEvt /\ Ref # PlayEvt /\ StopEvt # PlayEvt
  /\ \A e \in SoleEvents : e \in PlayerEvents /\ ~OfVoice(e) /\ e # NoEvent /\ ~EndsNote(e)
       /\ e.type # "noteOff"
  /\ \A k : NoteOffOf(k) \notin SoleEvents /\ NoteOffOf(k) # NoEvent /\ ~OfVoice(NoteOffOf(k))
       /\ ~EndsNote(NoteOffOf(k))
  /\ \A e : OfVoice(e) => e \notin SoleEvents /\ e.type # "noteOff"
<1>1. \A k : NoteOffOf(k).type = "noteOff"
  BY EventTypes
<1>2. /\ Api.type = "api" /\ Ref.type = "ref" /\ StopEvt.type = "stop" /\ PlayEvt.type = "play"
      /\ NoEvent.type = "none"
  BY EventTypes
<1>3. Api # Ref /\ Api # StopEvt /\ Api # PlayEvt /\ Ref # StopEvt /\ Ref # PlayEvt /\ StopEvt # PlayEvt
  BY <1>2
<1>4. \A e \in SoleEvents : e.type \in {"api", "ref", "stop", "play"} /\ e \in PlayerEvents
  BY <1>2, EventsOfPlayer DEF SoleEvents
<1>5. \A e \in SoleEvents : ~OfVoice(e) /\ e # NoEvent /\ ~EndsNote(e) /\ e.type # "noteOff"
  BY <1>2, <1>4 DEF OfVoice, EndsNote
<1>6. \A k : NoteOffOf(k) \notin SoleEvents /\ NoteOffOf(k) # NoEvent /\ ~OfVoice(NoteOffOf(k))
       /\ ~EndsNote(NoteOffOf(k))
  BY <1>1, <1>2, <1>5 DEF OfVoice, EndsNote
<1>7. \A e : OfVoice(e) => e \notin SoleEvents /\ e.type # "noteOff"
  BY <1>5 DEF OfVoice
<1> QED BY <1>3, <1>4, <1>5, <1>6, <1>7

\* The next event is handled.
LEMMA RestLets ==
  ASSUME NEW nxt, NEW q, NEW ones, NEW keys, RestIn(nxt, q, ones, keys), NEW left, left = ones \ {nxt}
  PROVE  RestIn(NoEvent, q, left, keys)
<1>1. \A e \in SoleEvents : IF e \in left THEN Once(NoEvent, q, e) ELSE Never(NoEvent, q, e)
  BY SolesDiffer DEF RestIn, Once, Never
<1>2. \A k \in Keys : Coming(NoEvent, q, NoteOffOf(k)) => k \in keys
  BY SolesDiffer DEF RestIn, Coming
<1> QED BY <1>1, <1>2 DEF RestIn

LEMMA RestKept ==
  ASSUME NEW nxt, NEW q, NEW ones, NEW keys, RestIn(nxt, q, ones, keys), NEW r,
         \A e \in SoleEvents : Same(q, r, e),
         \A k \in Keys : Same(q, r, NoteOffOf(k)) \/ k \in keys
  PROVE  RestIn(nxt, r, ones, keys)
<1>1. \A e \in SoleEvents : IF e \in ones THEN Once(nxt, r, e) ELSE Never(nxt, r, e)
  BY SameCounts DEF RestIn
<1>2. \A k \in Keys : Coming(nxt, r, NoteOffOf(k)) => k \in keys
  BY DEF RestIn, Coming, Same
<1> QED BY <1>1, <1>2 DEF RestIn

LEMMA RestAlike ==
  ASSUME NEW nxt, NEW q, NEW ones, NEW keys, RestIn(nxt, q, ones, keys), NEW r, RestSame(q, r)
  PROVE  RestIn(nxt, r, ones, keys)
<1>1. \A e \in SoleEvents : Same(q, r, e)
  BY SolesDiffer DEF RestSame
<1>2. \A k \in Keys : Same(q, r, NoteOffOf(k))
  BY SolesDiffer, EventsOfPlayer DEF RestSame
<1> QED BY <1>1, <1>2, RestKept

\* An event is posted.
LEMMA RestGains ==
  ASSUME NEW nxt, NEW q, NEW ones, NEW keys, RestIn(nxt, q, ones, keys), NEW e,
         e \in SoleEvents => e \notin ones, e.type # "noteOff", NEW r, Gains(q, r, e), NEW more, more = ones \cup {e}
  PROVE  RestIn(nxt, r, more, keys)
<1>1. \A x : x # e => Same(q, r, x)
  BY DEF Gains
<1>2. ASSUME NEW x \in SoleEvents PROVE IF x \in more THEN Once(nxt, r, x) ELSE Never(nxt, r, x)
  <2>1. CASE x = e
    <3>1. Never(nxt, q, x)
      BY <2>1 DEF RestIn
    <3> QED BY <2>1, <3>1 DEF Gains, Never, Once
  <2>2. CASE x # e
    BY <1>1, <2>2, SameCounts DEF RestIn
  <2> QED BY <2>1, <2>2
<1>3. \A k \in Keys : Coming(nxt, r, NoteOffOf(k)) => k \in keys
  <2> SUFFICES ASSUME NEW k \in Keys, Coming(nxt, r, NoteOffOf(k)) PROVE k \in keys
    OBVIOUS
  <2>1. NoteOffOf(k) # e
    BY EventTypes
  <2> QED BY <1>1, <2>1 DEF RestIn, Coming, Same
<1> QED BY <1>2, <1>3 DEF RestIn

LEMMA RestTurn ==
  ASSUME NEW q, IsQueue(q, PlayerEvents), NEW ones, NEW keys, RestIn(NoEvent, q, ones, keys)
  PROVE  RestIn(NextEvent(q).evt, AfterNext(q), ones, keys)
<1>1. NoEvent \notin PlayerEvents
  BY EventOfType
<1>2. \A e \in PlayerEvents :
        /\ Absent(q, e) => Never(NextEvent(q).evt, AfterNext(q), e)
        /\ Single(q, e) => Once(NextEvent(q).evt, AfterNext(q), e)
  BY <1>1, TurnCounts
<1>3. \A e \in SoleEvents :
        IF e \in ones THEN Once(NextEvent(q).evt, AfterNext(q), e)
                      ELSE Never(NextEvent(q).evt, AfterNext(q), e)
  BY <1>2, SolesDiffer DEF RestIn, Once, Never
<1>4. \A k \in Keys : Coming(NextEvent(q).evt, AfterNext(q), NoteOffOf(k)) => k \in keys
  <2> SUFFICES ASSUME NEW k \in Keys, k \notin keys
               PROVE  ~Coming(NextEvent(q).evt, AfterNext(q), NoteOffOf(k))
    OBVIOUS
  <2>1. Absent(q, NoteOffOf(k))
    BY DEF RestIn, Coming
  <2>2. Never(NextEvent(q).evt, AfterNext(q), NoteOffOf(k))
    BY <1>2, <2>1, EventsOfPlayer
  <2> QED BY <2>2 DEF Never, Coming
<1> QED BY <1>3, <1>4 DEF RestIn

------------------------------------------------------------------------------
(* The invariant, and the turns of the handler *)

OnesFit(ones, st) ==
  /\ Api \in ones /\ (Ref \in ones <=> st = "playing") /\ (StopEvt \in ones <=> st = "stopping")
  /\ (PlayEvt \in ones => st = "stopped")
KeysFit(keys, st) == keys = IF compact /\ st = "playing" THEN Keys ELSE {}

\* The sequence is read and the player stops once, and the stop is behind every note.
NoEnds(q) == \A j \in 1..Len(q) : ~EndsNote(q[j].evt)
SequenceFits(nxt, q, st) ==
  /\ st \in {"stopped", "playing", "stopping"}
  /\ \E ones, keys : RestIn(nxt, q, ones, keys) /\ OnesFit(ones, st) /\ KeysFit(keys, st)
  /\ st = "stopping" => NotesFirst(q) /\ (nxt = StopEvt => NoEnds(q))

\* What the voices vv do when those of mapped are mapped
VoicesReady(nxt, q, vv, mapped) ==
  DOMAIN vv = Voices /\ \A v \in Voices : VoiceFitsIn(nxt, q, v, vv[v], mapped)

\* A player that plays releases with the note off, one that has stopped has no voices.
StateFits(st, vv, mapped) ==
  /\ st = "playing" => PhasesFit(vv, mapped)
  /\ st = "stopped" => mapped = {}

PlayerInv ==
  /\ compact \in BOOLEAN
  /\ IsQueue(evtq, PlayerEvents) /\ QueueInTime(evtq) /\ nextEvent \in PlayerEvents \cup {NoEvent}
  /\ VoicesListed(vAlloc, vFree)
  /\ VoicesReady(nextEvent, evtq, vs, MappedVoices)
  /\ StateFits(state, vs, MappedVoices)
  /\ SequenceFits(nextEvent, evtq, state)

LEMMA NowFields == DOMAIN Now = {"q", "vs"} /\ Now.q = evtq /\ Now.vs = vs
BY DEF Now

LEMMA OthersDiffer ==
  ASSUME NEW e, ~OfVoice(e), NEW v
  PROVE  e \notin VoiceEvents(v)
BY VoiceEventsDiffer

\* The handler starts on an event that is not of a voice.
LEMMA HandlerStarts ==
  ASSUME PlayerInv, ~OfVoice(nextEvent)
  PROVE  World(Now, MappedVoices)
<1>1. \A v \in Voices : VoiceFitsIn(NoEvent, evtq, v, vs[v], MappedVoices)
  BY OthersDiffer, FitsIdle DEF PlayerInv, VoicesReady
<1> QED BY <1>1, NowFields DEF World, PlayerInv, VoicesReady

\* A handler has the queue q, with the events of ones, and ends in the state st.
RestReady(q, ones, st) ==
  /\ st \in {"stopped", "playing", "stopping"} /\ OnesFit(ones, st)
  /\ \E keys : RestIn(NoEvent, q, ones, keys) /\ KeysFit(keys, st)
  /\ st = "stopping" => NotesFirst(q)

LEMMA TurnKeeps ==
  ASSUME compact \in BOOLEAN, compact' = compact, NEW w, TurnEnds(w), World(w, MappedVoices'),
         NEW ones, RestReady(w.q, ones, state'), VoicesListed(vAlloc', vFree'),
         StateFits(state', w.vs, MappedVoices')
  PROVE  PlayerInv'
<1>1. nextEvent' = NextEvent(w.q).evt /\ evtq' = AfterNext(w.q) /\ vs' = w.vs
  BY DEF TurnEnds
<1>2. PICK q : q = w.q
  OBVIOUS
<1>3. IsQueue(q, PlayerEvents) /\ QueueInTime(q)
  BY <1>2 DEF World
<1>4. IsQueue(AfterNext(q), PlayerEvents) /\ NextEvent(q).evt \in PlayerEvents \cup {NoEvent}
  <2>1. NoEvent \notin PlayerEvents /\ Api \in PlayerEvents
    BY EventOfType, EventsOfPlayer
  <2> QED BY <1>3, <2>1, TurnCounts
<1>5. QueueInTime(AfterNext(q))
  BY <1>3, TurnOrder
<1>6. VoicesReady(NextEvent(q).evt, AfterNext(q), w.vs, MappedVoices')
  <2>1. \A v \in Voices : VoiceFitsIn(NextEvent(q).evt, AfterNext(q), v, w.vs[v], MappedVoices')
    BY <1>2, <1>3, FitsTurn DEF World
  <2> QED BY <2>1 DEF World, VoicesReady
<1>7. PICK keys : RestIn(NoEvent, q, ones, keys) /\ KeysFit(keys, state')
  BY <1>2 DEF RestReady
<1>8. RestIn(NextEvent(q).evt, AfterNext(q), ones, keys)
  BY <1>3, <1>7, RestTurn
<1>9. OnesFit(ones, state') /\ state' \in {"stopped", "playing", "stopping"}
  BY DEF RestReady
<1>10. state' = "stopping" =>
         NotesFirst(AfterNext(q)) /\ (NextEvent(q).evt = StopEvt => NoEnds(AfterNext(q)))
  <2>1. state' = "stopping" => NotesFirst(q)
    BY <1>2 DEF RestReady
  <2> QED BY <1>3, <2>1, TurnOrder DEF NoEnds
<1>11. SequenceFits(nextEvent, evtq, state)'
  <2>1. keys = IF compact' /\ state' = "playing" THEN Keys ELSE {}
    BY <1>7 DEF KeysFit
  <2>2. RestIn(nextEvent', evtq', ones, keys)
    BY <1>1, <1>2, <1>8
  <2>3. state' = "stopping" => NotesFirst(evtq') /\ (nextEvent' = StopEvt => NoEnds(evtq'))
    BY <1>1, <1>2, <1>10
  <2> QED BY <1>9, <2>1, <2>2, <2>3 DEF SequenceFits, KeysFit
<1> QED BY <1>1, <1>2, <1>4, <1>5, <1>6, <1>11 DEF PlayerInv

\* x is w with one event more.
PostsIn(w, x, e, mapped) ==
  World(x, mapped) /\ Gains(w.q, x.q, e) /\ x.vs = w.vs

LEMMA EventPostedIn ==
  ASSUME NEW mapped, NEW w, World(w, mapped), Len(w.q) < MaxEvents, NEW e \in PlayerEvents,
         ~OfVoice(e), NEW d \in 0..End, NEW x, x = [w EXCEPT !.q = PostEvent(w.q, e, d)]
  PROVE  PostsIn(w, x, e, mapped)
<1>1. PICK p : p = PostEvent(w.q, e, d)
  OBVIOUS
<1>2. x.q = p /\ x.vs = w.vs /\ DOMAIN x = {"q", "vs"}
  BY <1>1 DEF World
<1>3. Gains(w.q, p, e)
  BY <1>1, EventPosted DEF World
<1>4. ASSUME NEW v \in Voices PROVE VoiceFitsIn(NoEvent, p, v, w.vs[v], mapped)
  <2>1. \A f \in VoiceEvents(v) : Same(w.q, p, f)
    BY <1>3, OthersDiffer DEF Gains
  <2> QED BY <2>1, FitsStays DEF World
<1>5. World(x, mapped)
  BY <1>2, <1>3, <1>4 DEF World, Gains
<1> QED BY <1>2, <1>3, <1>5 DEF PostsIn

LEMMA WaitTimes == \A wait \in Waits : wait \in 0..End /\ wait # End
<1>1. Waits \subseteq 0..(End - 1)
  BY SeqPlayerAssumption
<1> QED BY <1>1, EndIsNat

LEMMA PlayerTimes == FrameTime \in 0..End /\ KillTime \in 0..End /\ OscTime \in 0..End /\ End \in 0..End
<1>1. FrameTime \in 1..(End - 1) /\ KillTime \in 1..(End - 1) /\ OscTime \in 1..(End - 1)
  BY SeqPlayerAssumption
<1> QED BY <1>1, EndIsNat

LEMMA RefPosted ==
  ASSUME NEW mapped, NEW w, World(w, mapped), Len(w.q) < MaxEvents, NEW wait \in Waits,
         NEW x, x = PostRef(w, wait)
  PROVE  PostsIn(w, x, Ref, mapped)
<1>1. PICK d \in 0..End : d = wait
  BY WaitTimes
<1>2. x = [w EXCEPT !.q = PostEvent(w.q, Ref, d)]
  BY <1>1 DEF PostRef
<1>3. Ref \in PlayerEvents /\ ~OfVoice(Ref)
  BY SolesDiffer DEF SoleEvents
<1> QED BY <1>2, <1>3, EventPostedIn

------------------------------------------------------------------------------
(* Messages *)

\* What a message that maps no voice does to the voices and the queue of w
Changes(w, x, mapped) ==
  /\ World(x, mapped) /\ RestSame(w.q, x.q) /\ Len(x.q) \in Nat
  /\ PhasesFit(x.vs, mapped)

LEMMA NoteReleased ==
  ASSUME VoicesListed(vAlloc, vFree), NEW w, w.q = evtq, w.vs = vs, World(w, MappedVoices),
         PhasesFit(vs, MappedVoices), Len(evtq) < MaxEvents, NEW k \in Keys, NEW x, x = Offed(w, k)
  PROVE  Changes(w, x, MappedVoices) /\ Len(x.q) <= Len(evtq) + 1
<1>1. Len(evtq) \in Nat /\ vAlloc \in Seq(Voices)
  BY QueueFacts DEF World, VoicesListed, IsList
<1>2. CASE Sounding(k) = {}
  <2>1. x = w
    BY <1>2 DEF Offed
  <2>2. OneVoice(w, w, k)
    BY NothingDone
  <2> QED BY <1>1, <2>1, <2>2 DEF Changes, OneVoice
<1>3. CASE Sounding(k) # {}
  <2>1. PICK v : v = Lookup(k)
    OBVIOUS
  <2>2. /\ v \in MappedVoices /\ vs[v].key = k /\ vs[v].phase \in {"on", "sustain"}
    <3>1. Sounding(k) \in SUBSET Nat
      BY DEF Sounding
    <3>2. \E i \in Sounding(k) : \A j \in Sounding(k) : i <= j
      BY <1>3, <3>1, LeastOfNumbers
    <3>3. PICK i \in Sounding(k) : v = vAlloc[i]
      BY <2>1, <3>2 DEF Lookup
    <3>4. i \in 1..Len(vAlloc) /\ vs[v].key = k /\ vs[v].phase \in {"on", "sustain"}
      BY <3>3 DEF Sounding
    <3>5. v \in Voices
      BY <1>1, <3>3, <3>4, ElementOfSeq
    <3> QED BY <3>3, <3>4, <3>5 DEF MappedVoices, Contains
  <2>3. MappedVoices \in SUBSET Voices /\ v \in Voices
    BY <2>2 DEF MappedVoices
  <2>4. CASE vs[v].phase = "sustain"
    <3>1. x = [w EXCEPT !.vs[v].phase = "sustrel"]
      BY <1>3, <2>1, <2>4 DEF Offed
    <3>2. PhaseSet(w, x, v, "sustrel")
      BY <3>1 DEF PhaseSet
    <3>3. OnlyPhase(w, x, v, "sustrel", MappedVoices)
      BY <2>3, <3>2, PhaseChanges
    <3>4. /\ World(x, MappedVoices) /\ x.q = evtq /\ OneVoice(w, x, v)
          /\ x.vs[v].env = vs[v].env
      BY <3>3 DEF OnlyPhase
    <3>5. vs[v].env # "release"
      BY <2>2, <2>4 DEF PhasesFit
    <3>6. PhasesFit(x.vs, MappedVoices)
      <4>1. \A u \in MappedVoices : u # v => x.vs[u] = vs[u]
        BY <2>3, <3>4 DEF OneVoice
      <4> QED BY <3>4, <3>5, <4>1 DEF PhasesFit
    <3> QED BY <1>1, <3>4, <3>6 DEF Changes, OneVoice
  <2>5. CASE vs[v].phase = "on"
    <3>1. PICK y : y = [w EXCEPT !.vs[v].phase = "release"]
      OBVIOUS
    <3>2. x = ReleaseVoice(y, v, Rel[k])
      BY <1>3, <2>1, <2>5, <3>1 DEF Offed
    <3>3. x = ReleaseVoice(y, v, Rel[w.vs[v].key])
      BY <2>2, <3>2
    <3>4. w.vs[v].phase # "release" /\ PhasesFit(w.vs, MappedVoices) /\ Len(w.q) < MaxEvents
      BY <2>5
    <3>5. World(x, MappedVoices) /\ OneVoice(w, x, v) /\ PhasesFit(x.vs, MappedVoices)
      BY <2>2, <2>3, <3>1, <3>3, <3>4, VoiceReleased
    <3> QED BY <1>1, <3>5 DEF Changes, OneVoice
  <2> QED BY <2>2, <2>4, <2>5
<1> QED BY <1>2, <1>3

\* The note x begins, of voice v.
Begun(w, x, v, mapped) ==
  /\ World(x, mapped) /\ Len(x.q) \in Nat /\ Len(x.q) <= Len(w.q) + 3
  /\ x.vs[v].env = "attack" /\ \A u \in Voices : u # v => x.vs[u] = w.vs[u]

\* p is q, with the event e if it is posted.
MayGain(q, p, e, posted) == IF posted THEN Gains(q, p, e) ELSE p = q

LEMMA Gained ==
  ASSUME NEW q, IsQueue(q, PlayerEvents), QueueInTime(q), Len(q) < MaxEvents,
         NEW e \in PlayerEvents, NEW d, NEW posted \in BOOLEAN, posted => d \in 0..End,
         NEW p, p = IF posted THEN PostEvent(q, e, d) ELSE q
  PROVE  /\ MayGain(q, p, e, posted) /\ IsQueue(p, PlayerEvents) /\ QueueInTime(p)
         /\ Len(q) \in Nat /\ Len(p) \in Nat /\ Len(p) <= Len(q) + 1
         /\ \A x : x # e => Same(q, p, x)
<1>1. Len(q) \in Nat
  BY QueueFacts
<1>2. CASE posted
  <2>1. Gains(q, p, e)
    BY <1>2, EventPosted
  <2>2. IsQueue(p, PlayerEvents) /\ QueueInTime(p) /\ Len(p) = Len(q) + 1 /\ \A x : x # e => Same(q, p, x)
    BY <2>1 DEF Gains
  <2> QED BY <1>1, <1>2, <2>1, <2>2 DEF MayGain
<1>3. CASE ~posted
  <2>1. p = q
    BY <1>3
  <2> QED BY <1>1, <1>3, <2>1 DEF MayGain, Same
<1> QED BY <1>2, <1>3

LEMMA NoteBegins ==
  ASSUME NEW mapped \in SUBSET Voices, NEW w, World(w, mapped), NEW v \in Voices, v \notin mapped,
         NEW k \in Keys, NEW osc \in BOOLEAN, NEW d \in 0..End, Len(w.q) + 3 <= MaxEvents,
         NEW ones, NEW keys, RestIn(NoEvent, w.q, ones, keys), d > 0 => k \in keys
  PROVE  /\ Begun(w, Started(w, v, k, osc, d), v, mapped \cup {v})
         /\ RestIn(NoEvent, Started(w, v, k, osc, d).q, ones, keys)
<1>a. PICK x : x = Started(w, v, k, osc, d)
  OBVIOUS
<1>b. PICK more : more = mapped \cup {v}
  OBVIOUS
<1>1. PICK q0 : q0 = w.q
  OBVIOUS
<1>2. PICK q1 : q1 = IF osc THEN PostEvent(q0, OscOf(v), OscTime) ELSE q0
  OBVIOUS
<1>3. PICK q2 : q2 = PostEvent(q1, EnvOf(v), Attack[k])
  OBVIOUS
<1>4. PICK q3 : q3 = IF d > 0 THEN PostEvent(q2, NoteOffOf(k), d) ELSE q2
  OBVIOUS
<1>5. PICK s : s = [key |-> k, phase |-> IF pedal THEN "sustain" ELSE "on", env |-> "attack", osc |-> osc]
  OBVIOUS
<1>6. PICK vv : vv = [w.vs EXCEPT ![v] = s]
  OBVIOUS
<1>7. x = [q |-> q3, vs |-> vv]
  BY <1>a, <1>1, <1>2, <1>3, <1>4, <1>5, <1>6 DEF Started
<1>8. x.q = q3 /\ x.vs = vv /\ DOMAIN x = {"q", "vs"}
  BY <1>7
<1>9. DOMAIN vv = Voices /\ vv[v] = s /\ \A u \in Voices : u # v => vv[u] = w.vs[u]
  BY <1>6 DEF World
<1>10. DOMAIN s = {"key", "phase", "env", "osc"} /\ s.key = k /\ s.env = "attack"
  BY <1>5
<1>11. s.osc <=> osc
  BY <1>5
<1>12. IsQueue(q0, PlayerEvents) /\ QueueInTime(q0) /\ Len(q0) \in Nat /\ Len(q0) + 3 <= MaxEvents
  BY <1>1, QueueFacts DEF World
<1>13. OscOf(v) \in PlayerEvents /\ EnvOf(v) \in PlayerEvents /\ NoteOffOf(k) \in PlayerEvents
  BY EventsOfPlayer
<1>14. /\ MayGain(q0, q1, OscOf(v), osc) /\ IsQueue(q1, PlayerEvents) /\ QueueInTime(q1)
       /\ Len(q1) \in Nat /\ Len(q1) <= Len(q0) + 1
       /\ \A e : e # OscOf(v) => Same(q0, q1, e)
  <2>1. Len(q0) < MaxEvents
    BY <1>12, EventQueueAssumption
  <2>2. OscTime \in 0..End
    BY PlayerTimes
  <2> QED BY <1>2, <1>12, <1>13, <2>1, <2>2, Gained
<1>15. /\ Gains(q1, q2, EnvOf(v)) /\ IsQueue(q2, PlayerEvents) /\ QueueInTime(q2)
       /\ Len(q2) \in Nat /\ Len(q2) <= Len(q0) + 2
  <2>1. Len(q1) < MaxEvents
    BY <1>12, <1>14, EventQueueAssumption
  <2>2. PICK a \in 0..End : a = Attack[k]
    BY ReleaseTimes
  <2>3. q2 = PostEvent(q1, EnvOf(v), a)
    BY <1>3, <2>2
  <2>4. Gains(q1, q2, EnvOf(v))
    BY <1>13, <1>14, <2>1, <2>3, EventPosted
  <2> QED BY <1>12, <1>14, <2>4 DEF Gains
<1>16. \A e : e # EnvOf(v) => Same(q1, q2, e)
  BY <1>15 DEF Gains
<1>17. /\ IsQueue(q3, PlayerEvents) /\ QueueInTime(q3) /\ Len(q3) \in Nat /\ Len(q3) <= Len(q0) + 3
       /\ \A e : e # NoteOffOf(k) => Same(q2, q3, e)
       /\ ~(d > 0) => q3 = q2
  <2>1. CASE d > 0
    <3>1. q3 = PostEvent(q2, NoteOffOf(k), d)
      BY <1>4, <2>1
    <3>2. Len(q2) < MaxEvents
      BY <1>12, <1>15, EventQueueAssumption
    <3>3. Gains(q2, q3, NoteOffOf(k))
      BY <1>13, <1>15, <3>1, <3>2, EventPosted
    <3> QED BY <1>12, <1>15, <2>1, <3>3 DEF Gains
  <2>2. CASE ~(d > 0)
    <3>1. q3 = q2
      BY <1>4, <2>2
    <3> QED BY <1>12, <1>15, <2>2, <3>1 DEF Same
  <2> QED BY <2>1, <2>2
<1>18. ASSUME NEW e, e # OscOf(v), e # EnvOf(v), e # NoteOffOf(k) PROVE Same(q0, q3, e)
  BY <1>14, <1>16, <1>17, <1>18 DEF Same
<1>19. ASSUME NEW u, NEW e \in VoiceEvents(u) PROVE e # NoteOffOf(k)
  BY VoiceEventsDiffer, SolesDiffer
<1>20. VoiceFitsIn(NoEvent, q3, v, s, more)
  <2>1. VoiceFitsIn(NoEvent, q0, v, w.vs[v], mapped)
    BY <1>1 DEF World
  <2>2. Never(NoEvent, q0, NoteEndOf(v)) /\ Never(NoEvent, q0, EnvOf(v)) /\ Never(NoEvent, q0, OscOf(v))
    BY <2>1 DEF VoiceFitsIn
  <2>3. Absent(q3, NoteEndOf(v))
    <3>1. Same(q0, q3, NoteEndOf(v))
      BY <1>18, <1>19, VoiceEventsDiffer
    <3> QED BY <2>2, <3>1 DEF Never, Same
  <2>4. Single(q3, EnvOf(v))
    <3>1. Absent(q1, EnvOf(v))
      BY <1>14, <2>2, VoiceEventsDiffer DEF Same, Never
    <3>2. Single(q2, EnvOf(v))
      BY <1>15, <3>1 DEF Gains
    <3>3. Same(q2, q3, EnvOf(v))
      BY <1>17, <1>19, VoiceEventsDiffer
    <3> QED BY <3>2, <3>3 DEF Same
  <2>5. IF osc THEN Single(q3, OscOf(v)) ELSE Absent(q3, OscOf(v))
    <3>1. Same(q1, q2, OscOf(v)) /\ Same(q2, q3, OscOf(v))
      BY <1>16, <1>17, <1>19, VoiceEventsDiffer
    <3>2. IF osc THEN Single(q1, OscOf(v)) ELSE Absent(q1, OscOf(v))
      BY <1>14, <2>2 DEF MayGain, Gains, Never
    <3> QED BY <3>1, <3>2 DEF Same
  <2>6. NoteEndOf(v) # NoEvent /\ EnvOf(v) # NoEvent /\ OscOf(v) # NoEvent
    BY VoiceEventsDiffer
  <2>7. v \in more /\ s.env = "attack" /\ s.env # "release"
    BY <1>b, <1>10
  <2> QED BY <1>10, <1>11, <2>3, <2>4, <2>5, <2>6, <2>7 DEF VoiceFitsIn, Never, Once
<1>21. ASSUME NEW u \in Voices, u # v PROVE VoiceFitsIn(NoEvent, q3, u, vv[u], more)
  <2>1. VoiceFitsIn(NoEvent, q0, u, w.vs[u], mapped)
    BY <1>1 DEF World
  <2>2. \A e \in VoiceEvents(u) : Same(q0, q3, e)
    BY <1>18, <1>19, <1>21, VoiceEventsDiffer
  <2>3. VoiceFitsIn(NoEvent, q3, u, w.vs[u], mapped)
    BY <2>1, <2>2, FitsStays
  <2>4. u \in more <=> u \in mapped
    BY <1>b, <1>21
  <2>5. VoiceFitsIn(NoEvent, q3, u, w.vs[u], more)
    BY <2>3, <2>4, FitsMapped
  <2> QED BY <1>9, <1>21, <2>5
<1>22. World(x, more)
  <2>1. \A u \in Voices : VoiceFitsIn(NoEvent, q3, u, vv[u], more)
    BY <1>9, <1>20, <1>21
  <2> QED BY <1>8, <1>9, <1>17, <2>1 DEF World
<1>23. RestIn(NoEvent, q3, ones, keys)
  <2>1. \A e \in SoleEvents : Same(q0, q3, e)
    BY <1>18, SolesDiffer, VoiceEventsDiffer
  <2>2. \A j \in Keys : Same(q0, q3, NoteOffOf(j)) \/ j \in keys
    <3> SUFFICES ASSUME NEW j \in Keys PROVE Same(q0, q3, NoteOffOf(j)) \/ j \in keys
      OBVIOUS
    <3>1. NoteOffOf(j) # OscOf(v) /\ NoteOffOf(j) # EnvOf(v)
      BY SolesDiffer, VoiceEventsDiffer
    <3>2. CASE d > 0 /\ j = k
      BY <3>2
    <3>3. CASE j # k
      <4>1. NoteOffOf(j) # NoteOffOf(k)
        <5>1. NoteOffOf(j).key = j /\ NoteOffOf(k).key = k
          BY EventTypes
        <5> QED BY <3>3, <5>1
      <4> QED BY <1>18, <3>1, <4>1
    <3>4. CASE ~(d > 0)
      <4>1. q3 = q2
        BY <1>17, <3>4
      <4> QED BY <1>14, <1>16, <3>1, <4>1 DEF Same
    <3> QED BY <3>2, <3>3, <3>4
  <2>3. RestIn(NoEvent, q0, ones, keys)
    BY <1>1
  <2> QED BY <2>1, <2>2, <2>3, RestKept
<1>24. Begun(w, x, v, more)
  BY <1>1, <1>8, <1>9, <1>10, <1>17, <1>22 DEF Begun
<1> QED BY <1>a, <1>b, <1>8, <1>23, <1>24

LEMMA MsgKinds ==
  ASSUME NEW m \in MidiMsgs
  PROVE  /\ m.kind \in {"on", "off", "sustain"}
         /\ m.kind \in {"on", "off"} => m.key \in Keys
         /\ m.kind = "sustain" => m.down \in BOOLEAN
         /\ m.kind = "off" => Releases(m)
         /\ m.kind = "sustain" /\ ~m.down => Releases(m)
BY DEF MidiMsgs, Releases

\* What a message leaves, the queue and the voices w, with the events of ones and the
\* note offs of keys
MessageDone(w, ones, keys) ==
  /\ World(w, MappedVoices') /\ VoicesListed(vAlloc', vFree')
  /\ RestIn(NoEvent, w.q, ones, keys) /\ Len(w.q) \in Nat /\ Len(w.q) < MaxEvents
  /\ StateFits(state, w.vs, MappedVoices')
  /\ state # "playing" => w.q = evtq

\* The turn of a message ends, with the next event of the sequence if it is from one.
TurnOf(w, wait) == TurnEnds(IF wait = End THEN w ELSE PostRef(w, wait))

LEMMA MessageChanges ==
  ASSUME VoicesListed(vAlloc, vFree), UNCHANGED << vAlloc, vFree >>,
         NEW ones, NEW keys, RestIn(NoEvent, evtq, ones, keys), Len(evtq) \in Nat,
         NEW x, World(x, MappedVoices), RestSame(evtq, x.q), Len(x.q) \in Nat, Len(x.q) < MaxEvents,
         StateFits(state, x.vs, MappedVoices), state # "playing" => x.q = evtq
  PROVE  MessageDone(x, ones, keys)
<1>1. MappedVoices' = MappedVoices /\ VoicesListed(vAlloc', vFree')
  BY DEF MappedVoices
<1>2. RestIn(NoEvent, x.q, ones, keys)
  BY RestAlike
<1> QED BY <1>1, <1>2 DEF MessageDone

LEMMA MessageWorks ==
  ASSUME PlayerInv, ~OfVoice(nextEvent), PlayerHasRoom, NEW m \in MidiMsgs, Releases(m) => state = "playing",
         NEW wait, wait \in Waits \/ wait = End, Message(m, wait),
         NEW ones, NEW keys, RestIn(NoEvent, evtq, ones, keys), KeysFit(keys, state)
  PROVE  \E w : MessageDone(w, ones, keys) /\ TurnOf(w, wait)
<1>1. World(Now, MappedVoices)
  BY HandlerStarts
<1>2. PICK now : now = Now
  OBVIOUS
<1>3. now.q = evtq /\ now.vs = vs /\ World(now, MappedVoices)
  BY <1>1, <1>2, NowFields
<1>4. /\ VoicesListed(vAlloc, vFree) /\ Len(evtq) \in Nat /\ Len(vAlloc) \in Nat /\ vAlloc \in Seq(Voices)
      /\ StateFits(state, vs, MappedVoices) /\ IsList(vAlloc, Voices)
  BY QueueFacts DEF PlayerInv, VoicesListed, IsList
<1>5. Len(evtq) + Len(vAlloc) + 4 <= MaxEvents /\ MaxEvents \in Nat
  BY EventQueueAssumption DEF PlayerHasRoom
<1>6. CASE m.kind = "off"
  <2>1. PICK x : x = Offed(Now, m.key)
    OBVIOUS
  <2>2. TurnOf(x, wait) /\ UNCHANGED << vAlloc, vFree >>
    BY <1>6, <2>1 DEF Message, TurnOf
  <2>3. state = "playing" /\ PhasesFit(vs, MappedVoices)
    <3>1. state = "playing"
      BY <1>6, MsgKinds
    <3> QED BY <1>4, <3>1 DEF StateFits
  <2>4. m.key \in Keys /\ x = Offed(now, m.key)
    BY <1>2, <1>6, <2>1, MsgKinds
  <2>5. Changes(now, x, MappedVoices) /\ Len(x.q) <= Len(evtq) + 1
    <3>1. Len(evtq) < MaxEvents
      BY <1>4, <1>5
    <3> QED BY <1>3, <1>4, <2>3, <2>4, <3>1, NoteReleased
  <2>6. /\ World(x, MappedVoices) /\ RestSame(evtq, x.q) /\ Len(x.q) \in Nat /\ Len(x.q) < MaxEvents
        /\ StateFits(state, x.vs, MappedVoices)
    BY <1>3, <1>4, <1>5, <2>3, <2>5 DEF Changes, StateFits
  <2>7. MessageDone(x, ones, keys)
    BY <1>4, <2>2, <2>3, <2>6, MessageChanges
  <2> QED BY <2>2, <2>7
<1>7. CASE m.kind = "sustain"
  <2>1. PICK what \in {"pedalDown", "pedalUp"} : what = IF m.down THEN "pedalDown" ELSE "pedalUp"
    <3>1. (IF m.down THEN "pedalDown" ELSE "pedalUp") \in {"pedalDown", "pedalUp"}
      OBVIOUS
    <3> QED BY <3>1
  <2>2. PICK x : x = ToVoices(what, now)
    OBVIOUS
  <2>3. TurnOf(x, wait) /\ UNCHANGED << vAlloc, vFree >>
    <3>1. x = ToVoices(IF m.down THEN "pedalDown" ELSE "pedalUp", Now)
      BY <1>2, <2>1, <2>2
    <3> QED BY <1>7, <3>1 DEF Message, TurnOf
  <2>4. what = "pedalUp" => state = "playing"
    BY <1>7, <2>1, MsgKinds
  <2>5. what = "pedalUp" => PhasesFit(now.vs, MappedVoices)
    BY <1>3, <1>4, <2>4 DEF StateFits
  <2>6. Done(what, now, x, Len(vAlloc))
    <3>1. Len(now.q) + Len(vAlloc) <= MaxEvents
      BY <1>3, <1>4, <1>5
    <3>2. what \in {"kill", "stopOsc", "pedalDown", "pedalUp"}
      OBVIOUS
    <3> QED BY <1>3, <1>4, <2>2, <2>5, <3>1, <3>2, AllDone
  <2>7. /\ World(x, MappedVoices) /\ RestSame(evtq, x.q) /\ Len(x.q) \in Nat
        /\ Len(x.q) <= Len(evtq) + Len(vAlloc)
        /\ PhasesFit(vs, MappedVoices) => PhasesFit(x.vs, MappedVoices)
    BY <1>3, <2>6 DEF Done
  <2>8. StateFits(state, x.vs, MappedVoices)
    BY <1>4, <2>7 DEF StateFits
  <2>9. state # "playing" => x.q = evtq
    <3>1. state # "playing" => what = "pedalDown"
      BY <2>4
    <3> QED BY <1>3, <2>6, <3>1 DEF Done
  <2>10. Len(x.q) < MaxEvents
    BY <1>4, <1>5, <2>7
  <2>11. MessageDone(x, ones, keys)
    BY <1>4, <2>3, <2>7, <2>8, <2>9, <2>10, MessageChanges
  <2> QED BY <2>3, <2>11
<1>8. CASE m.kind = "on" /\ (state # "playing" \/ vFree = << >>)
  <2>1. TurnOf(now, wait) /\ UNCHANGED << vAlloc, vFree >>
    BY <1>2, <1>8 DEF Message, TurnOf
  <2>2. RestSame(evtq, evtq)
    BY DEF RestSame, Same
  <2>3. Len(evtq) < MaxEvents
    BY <1>4, <1>5
  <2>4. MessageDone(now, ones, keys)
    BY <1>3, <1>4, <2>1, <2>2, <2>3, MessageChanges
  <2> QED BY <2>1, <2>4
<1>9. CASE m.kind = "on" /\ state = "playing" /\ vFree # << >>
  <2>1. PICK v : v = Head(vFree)
    OBVIOUS
  <2>2. PICK k \in Keys : k = m.key
    BY <1>9, MsgKinds
  <2>3. PICK osc \in BOOLEAN, d \in (IF compact /\ wait # End THEN Waits ELSE {0}) :
          TurnOf(Started(Now, v, k, osc, d), wait)
    BY <1>9, <2>1, <2>2 DEF Message, TurnOf
  <2>4. vAlloc' = Append(vAlloc, v) /\ vFree' = Tail(vFree)
    BY <1>9, <2>1 DEF Message, MapVoice
  <2>5. PICK x : x = Started(now, v, k, osc, d)
    OBVIOUS
  <2>6. TurnOf(x, wait)
    BY <1>2, <2>3, <2>5
  <2>7. d \in 0..End /\ (d > 0 => k \in keys)
    <3>1. CASE compact /\ wait # End
      BY <1>9, <2>3, <3>1, WaitTimes DEF KeysFit
    <3>2. CASE ~(compact /\ wait # End)
      <4>1. d = 0
        BY <2>3, <3>2
      <4> QED BY <4>1, EndIsNat
    <3> QED BY <3>1, <3>2
  <2>8. /\ VoicesListed(vAlloc', vFree') /\ v \in Voices /\ v \notin MappedVoices
        /\ \A u : Contains(vAlloc', u) <=> Contains(vAlloc, u) \/ u = v
    BY <1>4, <1>9, <2>1, <2>4, VoiceMapped
  <2>9. MappedVoices' = MappedVoices \cup {v} /\ MappedVoices \in SUBSET Voices
    BY <2>8 DEF MappedVoices
  <2>10. Begun(now, x, v, MappedVoices') /\ RestIn(NoEvent, x.q, ones, keys)
    <3>1. Len(now.q) + 3 <= MaxEvents
      BY <1>3, <1>4, <1>5
    <3>2. RestIn(NoEvent, now.q, ones, keys)
      BY <1>3
    <3>3. /\ Begun(now, Started(now, v, k, osc, d), v, MappedVoices \cup {v})
          /\ RestIn(NoEvent, Started(now, v, k, osc, d).q, ones, keys)
      BY <1>3, <2>7, <2>8, <2>9, <3>1, <3>2, NoteBegins
    <3> QED BY <2>5, <2>9, <3>3
  <2>11. Len(x.q) \in Nat /\ Len(x.q) < MaxEvents
    BY <1>3, <1>4, <1>5, <2>10 DEF Begun
  <2>12. StateFits(state, x.vs, MappedVoices')
    <3>1. PhasesFit(vs, MappedVoices)
      BY <1>4, <1>9 DEF StateFits
    <3>2. \A u \in MappedVoices' : u = v \/ (u \in MappedVoices /\ x.vs[u] = vs[u])
      BY <1>3, <2>9, <2>10 DEF Begun
    <3>3. x.vs[v].env # "release"
      BY <2>10 DEF Begun
    <3> QED BY <1>9, <3>1, <3>2, <3>3 DEF StateFits, PhasesFit
  <2>13. MessageDone(x, ones, keys)
    BY <1>9, <2>8, <2>10, <2>11, <2>12 DEF MessageDone, Begun
  <2> QED BY <2>6, <2>13
<1>10. m.kind \in {"on", "off", "sustain"}
  BY MsgKinds
<1> QED BY <1>6, <1>7, <1>8, <1>9, <1>10

------------------------------------------------------------------------------
(* The steps of the player *)

\* What a handler finds that takes an event of which there is one
LEMMA SoleTaken ==
  ASSUME PlayerInv, nextEvent \in SoleEvents
  PROVE  \E ones, keys : /\ nextEvent \in ones /\ RestIn(NoEvent, evtq, ones \ {nextEvent}, keys)
                         /\ OnesFit(ones, state) /\ KeysFit(keys, state)
<1>1. PICK ones, keys : RestIn(nextEvent, evtq, ones, keys) /\ OnesFit(ones, state) /\ KeysFit(keys, state)
  BY DEF PlayerInv, SequenceFits
<1>2. nextEvent \in ones
  BY <1>1 DEF RestIn, Never
<1>3. RestIn(NoEvent, evtq, ones \ {nextEvent}, keys)
  BY <1>1, RestLets
<1> QED BY <1>1, <1>2, <1>3

\* and one that takes another
LEMMA OtherTaken ==
  ASSUME PlayerInv, nextEvent \notin SoleEvents
  PROVE  \E ones, keys : /\ RestIn(NoEvent, evtq, ones, keys)
                         /\ OnesFit(ones, state) /\ KeysFit(keys, state)
<1>1. PICK ones, keys : RestIn(nextEvent, evtq, ones, keys) /\ OnesFit(ones, state) /\ KeysFit(keys, state)
  BY DEF PlayerInv, SequenceFits
<1>2. RestIn(NoEvent, evtq, ones, keys)
  <2>1. \A e \in SoleEvents : IF e \in ones THEN Once(NoEvent, evtq, e) ELSE Never(NoEvent, evtq, e)
    BY <1>1, SolesDiffer DEF RestIn, Once, Never
  <2>2. \A k \in Keys : Coming(NoEvent, evtq, NoteOffOf(k)) => k \in keys
    BY <1>1, SolesDiffer DEF RestIn, Coming
  <2> QED BY <2>1, <2>2 DEF RestIn
<1> QED BY <1>1, <1>2

LEMMA QueueNumbers ==
  ASSUME PlayerInv, PlayerHasRoom
  PROVE  /\ Len(evtq) \in Nat /\ Len(vAlloc) \in Nat /\ MaxEvents \in Nat
         /\ Len(evtq) < MaxEvents /\ Len(evtq) + Len(vAlloc) + 4 <= MaxEvents
<1>1. Len(evtq) \in Nat /\ Len(vAlloc) \in Nat
  BY QueueFacts DEF PlayerInv, VoicesListed, IsList
<1> QED BY <1>1, EventQueueAssumption DEF PlayerHasRoom

\* The sequence's next event, while the player plays
LEMMA SequenceMessage ==
  ASSUME PlayerInv, PlayerHasRoom, compact' = compact, nextEvent = Ref, state' = state,
         NEW m \in MidiMsgs, NEW wait \in Waits, Message(m, wait)
  PROVE  PlayerInv'
<1>1. nextEvent \in SoleEvents /\ ~OfVoice(nextEvent)
  BY SolesDiffer DEF SoleEvents
<1>2. PICK ones, keys : /\ Ref \in ones /\ RestIn(NoEvent, evtq, ones \ {Ref}, keys)
                        /\ OnesFit(ones, state) /\ KeysFit(keys, state)
  BY <1>1, SoleTaken
<1>3. state = "playing"
  BY <1>2 DEF OnesFit
<1>4. PICK left : left = ones \ {Ref}
  OBVIOUS
<1>5. RestIn(NoEvent, evtq, left, keys)
  BY <1>2, <1>4
<1>6. PICK w : MessageDone(w, left, keys) /\ TurnOf(w, wait)
  BY <1>1, <1>2, <1>3, <1>5, MessageWorks
<1>7. PICK x : x = PostRef(w, wait)
  OBVIOUS
<1>8. TurnEnds(x)
  BY <1>6, <1>7, WaitTimes DEF TurnOf
<1>9. PICK mapped : mapped = MappedVoices'
  OBVIOUS
<1>10. PostsIn(w, x, Ref, mapped)
  BY <1>6, <1>7, <1>9, RefPosted DEF MessageDone
<1>11. RestIn(NoEvent, x.q, ones, keys)
  <2>1. ones = left \cup {Ref} /\ Ref \notin left
    BY <1>2, <1>4
  <2>2. Ref.type # "noteOff"
    BY <1>1, SolesDiffer
  <2>3. RestIn(NoEvent, w.q, left, keys) /\ Gains(w.q, x.q, Ref)
    BY <1>6, <1>10 DEF MessageDone, PostsIn
  <2> QED BY <2>1, <2>2, <2>3, RestGains
<1>12. RestReady(x.q, ones, state')
  BY <1>2, <1>3, <1>11 DEF RestReady, KeysFit
<1>13. StateFits(state', x.vs, mapped) /\ World(x, mapped) /\ VoicesListed(vAlloc', vFree')
  BY <1>6, <1>9, <1>10 DEF MessageDone, PostsIn
<1>14. compact \in BOOLEAN
  BY DEF PlayerInv
<1> QED BY <1>8, <1>9, <1>12, <1>13, <1>14, TurnKeeps

\* A message that is not from the sequence
LEMMA SentMessage ==
  ASSUME PlayerInv, PlayerHasRoom, compact' = compact, nextEvent \notin SoleEvents, ~OfVoice(nextEvent),
         state' = state, NEW m \in MidiMsgs, Releases(m) => state = "playing", Message(m, End)
  PROVE  PlayerInv'
<1>1. PICK ones, keys : RestIn(NoEvent, evtq, ones, keys) /\ OnesFit(ones, state) /\ KeysFit(keys, state)
  BY OtherTaken
<1>2. PICK w : MessageDone(w, ones, keys) /\ TurnOf(w, End)
  BY <1>1, MessageWorks
<1>3. TurnEnds(w)
  BY <1>2 DEF TurnOf
<1>4. PICK mapped : mapped = MappedVoices'
  OBVIOUS
<1>5. /\ World(w, mapped) /\ VoicesListed(vAlloc', vFree') /\ StateFits(state', w.vs, mapped)
      /\ RestIn(NoEvent, w.q, ones, keys) /\ (state # "playing" => w.q = evtq)
  BY <1>2, <1>4 DEF MessageDone
<1>6. /\ state \in {"stopped", "playing", "stopping"} /\ (state = "stopping" => NotesFirst(evtq))
      /\ compact \in BOOLEAN
  BY DEF PlayerInv, SequenceFits
<1>7. RestReady(w.q, ones, state')
  <2>1. state' = "stopping" => NotesFirst(w.q)
    BY <1>5, <1>6
  <2> QED BY <1>1, <1>5, <1>6, <2>1 DEF RestReady
<1> QED BY <1>3, <1>4, <1>5, <1>6, <1>7, TurnKeeps

LEMMA MidiStep ==
  ASSUME PlayerInv, PlayerHasRoom, compact' = compact, MidiEvent
  PROVE  PlayerInv'
<1>1. nextEvent.type = "midi" /\ Message(nextEvent.msg, End) /\ state' = state
  BY DEF MidiEvent
<1>2. nextEvent \in PlayerEvents
  <2>1. nextEvent # NoEvent
    BY <1>1, EventTypes
  <2> QED BY <2>1 DEF PlayerInv
<1>3. nextEvent.msg \in MidiMsgs /\ ~Releases(nextEvent.msg)
  BY <1>1, <1>2, EventOfType
<1>4. nextEvent \notin SoleEvents /\ ~OfVoice(nextEvent)
  <2>1. ~OfVoice(nextEvent)
    BY <1>1 DEF OfVoice
  <2>2. nextEvent # Api /\ nextEvent # Ref /\ nextEvent # StopEvt /\ nextEvent # PlayEvt
    BY <1>1, EventTypes
  <2> QED BY <2>1, <2>2 DEF SoleEvents
<1> QED BY <1>1, <1>3, <1>4, SentMessage

LEMMA NoteOffStep ==
  ASSUME PlayerInv, PlayerHasRoom, compact' = compact, NoteOff
  PROVE  PlayerInv'
<1>1. nextEvent.type = "noteOff" /\ state' = state
  BY DEF NoteOff
<1>2. PICK m : m = [kind |-> "off", key |-> nextEvent.key]
  OBVIOUS
<1>3. Message(m, End)
  BY <1>2 DEF NoteOff
<1>4. nextEvent \in PlayerEvents
  <2>1. nextEvent # NoEvent
    BY <1>1, EventTypes
  <2> QED BY <2>1 DEF PlayerInv
<1>5. PICK k \in Keys : nextEvent = NoteOffOf(k) /\ nextEvent.key = k
  BY <1>1, <1>4, EventOfType
<1>6. m \in MidiMsgs
  BY <1>2, <1>5 DEF MidiMsgs
<1>7. nextEvent \notin SoleEvents /\ ~OfVoice(nextEvent)
  BY <1>5, SolesDiffer
<1>8. state = "playing"
  <2>1. PICK ones, keys : RestIn(nextEvent, evtq, ones, keys) /\ KeysFit(keys, state)
    BY DEF PlayerInv, SequenceFits
  <2>2. k \in keys
    BY <1>5, <2>1 DEF RestIn, Coming
  <2> QED BY <2>1, <2>2 DEF KeysFit
<1> QED BY <1>1, <1>3, <1>6, <1>7, <1>8, SentMessage

\* The sequence ends.
LEMMA SequenceEnds ==
  ASSUME PlayerInv, PlayerHasRoom, compact' = compact, nextEvent = Ref, state' = "stopping",
         compact => ~\E i \in 1..Len(evtq) : evtq[i].evt.type = "noteOff",
         TurnEnds([Now EXCEPT !.q = PostEvent(evtq, StopEvt, End)]), UNCHANGED << vAlloc, vFree >>
  PROVE  PlayerInv'
<1>1. nextEvent \in SoleEvents /\ ~OfVoice(nextEvent)
  BY SolesDiffer DEF SoleEvents
<1>2. PICK ones, keys : /\ Ref \in ones /\ RestIn(NoEvent, evtq, ones \ {Ref}, keys)
                        /\ OnesFit(ones, state) /\ KeysFit(keys, state)
  BY <1>1, SoleTaken
<1>3. state = "playing" /\ Api \in ones /\ StopEvt \notin ones /\ PlayEvt \notin ones
  BY <1>2 DEF OnesFit
<1>4. PICK left : left = ones \ {Ref}
  OBVIOUS
<1>5. PICK now : now = Now
  OBVIOUS
<1>6. World(now, MappedVoices) /\ now.q = evtq /\ now.vs = vs
  BY <1>1, <1>5, HandlerStarts, NowFields
<1>7. PICK none : none = {}
  OBVIOUS
<1>8. RestIn(NoEvent, evtq, left, none)
  <2>1. ASSUME NEW k \in Keys PROVE ~Coming(NoEvent, evtq, NoteOffOf(k))
    <3>1. CASE compact
      <4>1. \A i \in 1..Len(evtq) : evtq[i].evt # NoteOffOf(k)
        BY <3>1, EventTypes
      <4> QED BY <4>1, SolesDiffer DEF Coming, Absent
    <3>2. CASE ~compact
      <4>1. keys = {}
        BY <1>2, <3>2 DEF KeysFit
      <4> QED BY <1>2, <4>1 DEF RestIn
    <3> QED BY <3>1, <3>2
  <2> QED BY <1>2, <1>4, <2>1 DEF RestIn
<1>9. PICK w : w = [now EXCEPT !.q = PostEvent(now.q, StopEvt, End)]
  OBVIOUS
<1>10. TurnEnds(w)
  BY <1>5, <1>6, <1>9
<1>11. StopEvt \in SoleEvents /\ StopEvt \in PlayerEvents /\ ~OfVoice(StopEvt) /\ StopEvt.type # "noteOff"
  BY SolesDiffer DEF SoleEvents
<1>12. PostsIn(now, w, StopEvt, MappedVoices)
  <2>1. Len(now.q) < MaxEvents
    BY <1>6, QueueNumbers
  <2>2. PICK d \in 0..End : d = End
    BY PlayerTimes
  <2>3. w = [now EXCEPT !.q = PostEvent(now.q, StopEvt, d)]
    BY <1>9, <2>2
  <2> QED BY <1>6, <1>11, <2>1, <2>3, EventPostedIn
<1>13. PICK more : more = left \cup {StopEvt}
  OBVIOUS
<1>14. RestIn(NoEvent, w.q, more, none)
  <2>1. StopEvt \notin left
    BY <1>3, <1>4
  <2>2. Gains(evtq, w.q, StopEvt)
    BY <1>6, <1>12 DEF PostsIn
  <2> QED BY <1>8, <1>11, <1>13, <2>1, <2>2, RestGains
<1>15. NotesFirst(w.q)
  <2>1. Absent(evtq, StopEvt)
    BY <1>3, <1>4, <1>8, <1>11 DEF RestIn, Never
  <2>2. w.q = PostEvent(evtq, StopEvt, End)
    BY <1>6, <1>9 DEF World
  <2>3. IsQueue(evtq, PlayerEvents) /\ QueueInTime(evtq) /\ Len(evtq) < MaxEvents
    BY QueueNumbers DEF PlayerInv
  <2> QED BY <2>1, <2>2, <2>3, StopGoesLast
<1>16. RestReady(w.q, more, state')
  <2>1. OnesFit(more, "stopping")
    BY <1>3, <1>4, <1>13, SolesDiffer DEF OnesFit
  <2>2. KeysFit(none, "stopping")
    BY <1>7 DEF KeysFit
  <2> QED BY <1>14, <1>15, <2>1, <2>2 DEF RestReady
<1>17. MappedVoices' = MappedVoices /\ VoicesListed(vAlloc', vFree') /\ compact \in BOOLEAN
  BY DEF MappedVoices, PlayerInv
<1>18. World(w, MappedVoices) /\ StateFits(state', w.vs, MappedVoices)
  BY <1>12 DEF PostsIn, StateFits
<1> QED BY <1>10, <1>16, <1>17, <1>18, TurnKeeps

LEMMA RefStep ==
  ASSUME PlayerInv, PlayerHasRoom, compact' = compact, SeqRef, ~EndsEarly
  PROVE  PlayerInv'
<1>1. nextEvent = Ref
  BY DEF SeqRef
<1>2. CASE \E m \in {m \in MidiMsgs : compact => m.kind # "off"}, wait \in Waits :
             Message(m, wait) /\ UNCHANGED state
  <2>1. PICK m \in MidiMsgs, wait \in Waits : Message(m, wait) /\ state' = state
    BY <1>2
  <2> QED BY <1>1, <2>1, SequenceMessage
<1>3. CASE /\ compact => EndsEarly \/ ~\E i \in 1..Len(evtq) : evtq[i].evt.type = "noteOff"
           /\ state' = "stopping"
           /\ TurnEnds([Now EXCEPT !.q = PostEvent(evtq, StopEvt, End)])
           /\ UNCHANGED << vAlloc, vFree, pedal >>
  BY <1>1, <1>3, SequenceEnds
<1> QED BY <1>2, <1>3 DEF SeqRef

\* A handler that posts an event that is not of a voice, and changes nothing else
LEMMA PostStep ==
  ASSUME PlayerInv, PlayerHasRoom, compact' = compact, ~OfVoice(nextEvent), UNCHANGED << vAlloc, vFree >>,
         NEW e \in PlayerEvents, ~OfVoice(e), e # StopEvt, e.type # "noteOff",
         NEW d \in 0..End, TurnEnds([Now EXCEPT !.q = PostEvent(evtq, e, d)]),
         NEW ones, NEW keys, RestIn(NoEvent, evtq, ones, keys), e \in SoleEvents => e \notin ones,
         NEW more, more = ones \cup {e}, OnesFit(more, state'), KeysFit(keys, state'),
         state' \in {"stopped", "playing", "stopping"}, state' = "stopping" => NotesFirst(evtq),
         StateFits(state', vs, MappedVoices)
  PROVE  PlayerInv'
<1>1. PICK now : now = Now
  OBVIOUS
<1>2. World(now, MappedVoices) /\ now.q = evtq /\ now.vs = vs
  BY <1>1, HandlerStarts, NowFields
<1>3. PICK w : w = [now EXCEPT !.q = PostEvent(now.q, e, d)]
  OBVIOUS
<1>4. TurnEnds(w)
  BY <1>1, <1>2, <1>3
<1>5. PostsIn(now, w, e, MappedVoices)
  <2>1. Len(now.q) < MaxEvents
    BY <1>2, QueueNumbers
  <2> QED BY <1>2, <1>3, <2>1, EventPostedIn
<1>6. Gains(evtq, w.q, e)
  BY <1>2, <1>5 DEF PostsIn
<1>7. RestIn(NoEvent, w.q, more, keys)
  BY <1>6, RestGains
<1>8. NotesFirst(evtq) => NotesFirst(w.q)
  <2>1. ~OfVoice(e) => ~EndsNote(e)
    BY DEF OfVoice, EndsNote
  <2> QED BY <1>6, <2>1 DEF Gains
<1>9. RestReady(w.q, more, state')
  BY <1>7, <1>8 DEF RestReady
<1>10. MappedVoices' = MappedVoices /\ VoicesListed(vAlloc', vFree') /\ compact \in BOOLEAN
  BY DEF MappedVoices, PlayerInv
<1>11. World(w, MappedVoices) /\ StateFits(state', w.vs, MappedVoices)
  BY <1>2, <1>5 DEF PostsIn
<1> QED BY <1>4, <1>9, <1>10, <1>11, TurnKeeps

LEMMA SeqApiStep ==
  ASSUME PlayerInv, PlayerHasRoom, compact' = compact, ApiEvent
  PROVE  PlayerInv'
<1>1. /\ nextEvent = Api /\ TurnEnds([Now EXCEPT !.q = PostEvent(evtq, Api, FrameTime)])
      /\ state' = state /\ UNCHANGED << vAlloc, vFree >>
  BY DEF ApiEvent
<1>2. Api \in SoleEvents /\ Api \in PlayerEvents /\ ~OfVoice(Api) /\ Api # StopEvt /\ Api.type # "noteOff"
  BY SolesDiffer DEF SoleEvents
<1>3. PICK ones, keys : /\ Api \in ones /\ RestIn(NoEvent, evtq, ones \ {Api}, keys)
                        /\ OnesFit(ones, state) /\ KeysFit(keys, state)
  BY <1>1, <1>2, SoleTaken
<1>4. PICK left : left = ones \ {Api}
  OBVIOUS
<1>5. RestIn(NoEvent, evtq, left, keys) /\ ones = left \cup {Api} /\ Api \notin left
  BY <1>3, <1>4
<1>6. PICK d \in 0..End : d = FrameTime
  BY PlayerTimes
<1>7. TurnEnds([Now EXCEPT !.q = PostEvent(evtq, Api, d)])
  BY <1>1, <1>6
<1>8. /\ state' \in {"stopped", "playing", "stopping"} /\ (state' = "stopping" => NotesFirst(evtq))
      /\ StateFits(state', vs, MappedVoices)
  BY <1>1 DEF PlayerInv, SequenceFits
<1>9. OnesFit(ones, state') /\ KeysFit(keys, state')
  BY <1>1, <1>3
<1>10. ~OfVoice(nextEvent)
  BY <1>1, <1>2
<1> QED BY <1>1, <1>2, <1>5, <1>7, <1>8, <1>9, <1>10, PostStep

LEMMA SeqPlayStep ==
  ASSUME PlayerInv, PlayerHasRoom, compact' = compact, PlayEvent
  PROVE  PlayerInv'
<1>1. nextEvent.type = "play" /\ state' = "playing" /\ UNCHANGED << vAlloc, vFree >>
  BY DEF PlayEvent
<1>2. nextEvent = PlayEvt
  <2>1. nextEvent # NoEvent
    BY <1>1, EventTypes
  <2> QED BY <1>1, <2>1, EventOfType DEF PlayerInv
<1>3. /\ PlayEvt \in SoleEvents /\ ~OfVoice(PlayEvt) /\ Ref \in SoleEvents /\ Ref \in PlayerEvents
      /\ ~OfVoice(Ref) /\ Ref # StopEvt /\ Ref.type # "noteOff"
  BY SolesDiffer DEF SoleEvents
<1>4. PICK ones, keys : /\ PlayEvt \in ones /\ RestIn(NoEvent, evtq, ones \ {PlayEvt}, keys)
                        /\ OnesFit(ones, state) /\ KeysFit(keys, state)
  BY <1>2, <1>3, SoleTaken
<1>5. state = "stopped" /\ Ref \notin ones /\ StopEvt \notin ones /\ Api \in ones
  BY <1>4 DEF OnesFit
<1>6. PICK wait \in Waits : TurnEnds(PostRef(Now, wait))
  BY <1>5 DEF PlayEvent
<1>7. PICK d \in 0..End : d = wait
  BY WaitTimes
<1>8. TurnEnds([Now EXCEPT !.q = PostEvent(evtq, Ref, d)])
  BY <1>6, <1>7, NowFields DEF PostRef
<1>9. PICK left : left = ones \ {PlayEvt}
  OBVIOUS
<1>10. PICK offs : offs = IF compact THEN Keys ELSE {}
  OBVIOUS
<1>11. RestIn(NoEvent, evtq, left, offs) /\ Ref \notin left
  <2>1. keys = {}
    BY <1>4, <1>5 DEF KeysFit
  <2> QED BY <1>4, <1>5, <1>9, <2>1 DEF RestIn
<1>12. PICK more : more = left \cup {Ref}
  OBVIOUS
<1>13. OnesFit(more, state') /\ KeysFit(offs, state')
  <2>1. OnesFit(more, "playing")
    BY <1>5, <1>9, <1>12, SolesDiffer DEF OnesFit
  <2>2. KeysFit(offs, "playing")
    BY <1>10 DEF KeysFit
  <2> QED BY <1>1, <2>1, <2>2
<1>14. StateFits(state', vs, MappedVoices)
  <2>1. MappedVoices = {}
    BY <1>5 DEF PlayerInv, StateFits
  <2> QED BY <1>1, <2>1 DEF StateFits, PhasesFit
<1>15. state' \in {"stopped", "playing", "stopping"} /\ (state' = "stopping" => NotesFirst(evtq))
  BY <1>1
<1> QED BY <1>1, <1>2, <1>3, <1>8, <1>11, <1>12, <1>13, <1>14, <1>15, PostStep

\* An event of voice v is taken: the voice is mapped, and the others are as they are.
LEMMA VoiceTaken ==
  ASSUME PlayerInv, NEW v \in Voices, nextEvent \in VoiceEvents(v)
  PROVE  /\ VoiceFitsIn(nextEvent, evtq, v, vs[v], MappedVoices)
         /\ v \in MappedVoices /\ Absent(evtq, nextEvent)
         /\ nextEvent = NoteEndOf(v) => vs[v].env = "release"
         /\ nextEvent = EnvOf(v) => vs[v].env = "attack"
         /\ nextEvent = OscOf(v) => vs[v].osc
         /\ \A u \in Voices : u # v => VoiceFitsIn(NoEvent, evtq, u, vs[u], MappedVoices)
<1>1. \A u \in Voices : VoiceFitsIn(nextEvent, evtq, u, vs[u], MappedVoices)
  BY DEF PlayerInv, VoicesReady
<1>2. ASSUME NEW u \in Voices, u # v PROVE VoiceFitsIn(NoEvent, evtq, u, vs[u], MappedVoices)
  <2>1. nextEvent \notin VoiceEvents(u)
    BY <1>2, VoiceEventsDiffer
  <2> QED BY <1>1, <2>1, FitsIdle
<1>3. VoiceFitsIn(nextEvent, evtq, v, vs[v], MappedVoices)
  BY <1>1
<1>4. ~Never(nextEvent, evtq, nextEvent)
  BY DEF Never
<1>5. Once(nextEvent, evtq, nextEvent) => Absent(evtq, nextEvent)
  BY DEF Once
<1>6. CASE nextEvent = NoteEndOf(v)
  BY <1>2, <1>3, <1>4, <1>5, <1>6, VoiceEventsDiffer DEF VoiceFitsIn
<1>7. CASE nextEvent = EnvOf(v)
  BY <1>2, <1>3, <1>4, <1>5, <1>7, VoiceEventsDiffer DEF VoiceFitsIn
<1>8. CASE nextEvent = OscOf(v)
  BY <1>2, <1>3, <1>4, <1>5, <1>8, VoiceEventsDiffer DEF VoiceFitsIn
<1> QED BY <1>6, <1>7, <1>8 DEF VoiceEvents

\* Another event of v than the next is to come as it was.
LEMMA OtherOfVoice ==
  ASSUME NEW nxt, NEW q, NEW e, e # nxt, e # NoEvent
  PROVE  /\ Never(nxt, q, e) => Never(NoEvent, q, e)
         /\ Once(nxt, q, e) => Once(NoEvent, q, e)
BY DEF Never, Once

\* The rest is as it was when a voice's event has been handled.
LEMMA VoiceTurn ==
  ASSUME PlayerInv, compact' = compact, state' = state, NEW v \in Voices, nextEvent \in VoiceEvents(v),
         NEW w, TurnEnds(w), World(w, MappedVoices'), RestSame(evtq, w.q), NotesFirst(evtq) => NotesFirst(w.q),
         VoicesListed(vAlloc', vFree'), StateFits(state, w.vs, MappedVoices')
  PROVE  PlayerInv'
<1>1. nextEvent \notin SoleEvents
  BY VoiceEventsDiffer, SolesDiffer
<1>2. PICK ones, keys : RestIn(NoEvent, evtq, ones, keys) /\ OnesFit(ones, state) /\ KeysFit(keys, state)
  BY <1>1, OtherTaken
<1>3. RestIn(NoEvent, w.q, ones, keys)
  BY <1>2, RestAlike
<1>4. RestReady(w.q, ones, state')
  <2>1. state \in {"stopped", "playing", "stopping"} /\ (state = "stopping" => NotesFirst(evtq))
    BY DEF PlayerInv, SequenceFits
  <2> QED BY <1>2, <1>3, <2>1 DEF RestReady
<1>5. StateFits(state', w.vs, MappedVoices') /\ compact \in BOOLEAN
  BY DEF PlayerInv
<1> QED BY <1>4, <1>5, TurnKeeps

LEMMA MappedStay ==
  ASSUME PlayerInv, UNCHANGED << vAlloc, vFree >>
  PROVE  MappedVoices' = MappedVoices /\ VoicesListed(vAlloc', vFree') /\ MappedVoices \in SUBSET Voices
BY DEF MappedVoices, PlayerInv

LEMMA EnvStep ==
  ASSUME PlayerInv, PlayerHasRoom, compact' = compact, EnvEvent
  PROVE  PlayerInv'
<1>1. nextEvent.type = "env" /\ state' = state /\ UNCHANGED << vAlloc, vFree >>
  BY DEF EnvEvent
<1>2. PICK v \in Voices : nextEvent = EnvOf(v) /\ nextEvent.voice = v
  <2>1. nextEvent # NoEvent
    BY <1>1, EventTypes
  <2> QED BY <1>1, <2>1, EventOfType DEF PlayerInv
<1>3. nextEvent \in VoiceEvents(v)
  BY <1>2 DEF VoiceEvents
<1>4. /\ VoiceFitsIn(nextEvent, evtq, v, vs[v], MappedVoices) /\ v \in MappedVoices
      /\ Absent(evtq, EnvOf(v)) /\ vs[v].env = "attack"
      /\ \A u \in Voices : u # v => VoiceFitsIn(NoEvent, evtq, u, vs[u], MappedVoices)
  BY <1>2, <1>3, VoiceTaken
<1>5. PICK s : s = [vs[v] EXCEPT !.env = "decay"]
  OBVIOUS
<1>6. PICK vv : vv = [vs EXCEPT ![v] = s]
  OBVIOUS
<1>7. PICK w : w = [q |-> evtq, vs |-> vv]
  OBVIOUS
<1>8. TurnEnds(w)
  <2>1. TurnEnds([Now EXCEPT !.vs[v].env = IF @ = "attack" THEN "decay" ELSE @])
    BY <1>2 DEF EnvEvent
  <2>2. [Now EXCEPT !.vs[v].env = IF @ = "attack" THEN "decay" ELSE @] = w
    BY <1>4, <1>5, <1>6, <1>7 DEF Now
  <2> QED BY <2>1, <2>2
<1>9. w.q = evtq /\ w.vs = vv /\ DOMAIN w = {"q", "vs"}
  BY <1>7
<1>10. DOMAIN vs = Voices /\ DOMAIN vs[v] = {"key", "phase", "env", "osc"} /\ vs[v].key \in Keys
  BY <1>4 DEF PlayerInv, VoicesReady, VoiceFitsIn
<1>11. DOMAIN vv = Voices /\ vv[v] = s /\ \A u \in Voices : u # v => vv[u] = vs[u]
  BY <1>6, <1>10
<1>12. /\ DOMAIN s = {"key", "phase", "env", "osc"} /\ s.key = vs[v].key /\ s.env = "decay"
       /\ s.osc = vs[v].osc
  BY <1>5, <1>10
<1>13. VoiceFitsIn(NoEvent, evtq, v, s, MappedVoices)
  <2>1. Never(NoEvent, evtq, NoteEndOf(v))
    <3>1. Never(nextEvent, evtq, NoteEndOf(v))
      BY <1>4 DEF VoiceFitsIn
    <3> QED BY <1>2, <3>1, OtherOfVoice, VoiceEventsDiffer
  <2>2. Never(NoEvent, evtq, EnvOf(v))
    BY <1>4, VoiceEventsDiffer DEF Never
  <2>3. IF s.osc THEN Once(NoEvent, evtq, OscOf(v)) ELSE Never(NoEvent, evtq, OscOf(v))
    <3>1. IF s.osc THEN Once(nextEvent, evtq, OscOf(v)) ELSE Never(nextEvent, evtq, OscOf(v))
      BY <1>4, <1>12 DEF VoiceFitsIn
    <3>2. OscOf(v) # nextEvent /\ OscOf(v) # NoEvent
      BY <1>2, VoiceEventsDiffer
    <3> QED BY <3>1, <3>2, OtherOfVoice
  <2>4. s.env # "release" /\ s.env # "attack"
    BY <1>12
  <2> QED BY <1>4, <1>10, <1>12, <2>1, <2>2, <2>3, <2>4 DEF VoiceFitsIn
<1>14. MappedVoices' = MappedVoices /\ VoicesListed(vAlloc', vFree') /\ MappedVoices \in SUBSET Voices
  BY <1>1, MappedStay
<1>15. World(w, MappedVoices)
  <2>1. \A u \in Voices : VoiceFitsIn(NoEvent, evtq, u, vv[u], MappedVoices)
    BY <1>4, <1>11, <1>13
  <2>2. IsQueue(evtq, PlayerEvents) /\ QueueInTime(evtq)
    BY DEF PlayerInv
  <2> QED BY <1>9, <1>11, <2>1, <2>2 DEF World
<1>16. StateFits(state, w.vs, MappedVoices)
  <2>1. StateFits(state, vs, MappedVoices)
    BY DEF PlayerInv
  <2>2. PhasesFit(vs, MappedVoices) => PhasesFit(vv, MappedVoices)
    <3>1. s.env # "release"
      BY <1>12
    <3> QED BY <1>11, <1>14, <3>1 DEF PhasesFit
  <2> QED BY <1>9, <2>1, <2>2 DEF StateFits
<1>17. RestSame(evtq, w.q)
  BY <1>9 DEF RestSame, Same
<1> QED BY <1>1, <1>3, <1>8, <1>9, <1>14, <1>15, <1>16, <1>17, VoiceTurn

LEMMA OscStep ==
  ASSUME PlayerInv, PlayerHasRoom, compact' = compact, OscEvent
  PROVE  PlayerInv'
<1>1. nextEvent.type = "osc" /\ state' = state /\ UNCHANGED << vAlloc, vFree >>
  BY DEF OscEvent
<1>2. PICK v \in Voices : nextEvent = OscOf(v)
  <2>1. nextEvent # NoEvent
    BY <1>1, EventTypes
  <2> QED BY <1>1, <2>1, EventOfType DEF PlayerInv
<1>3. nextEvent \in VoiceEvents(v)
  BY <1>2 DEF VoiceEvents
<1>4. /\ VoiceFitsIn(nextEvent, evtq, v, vs[v], MappedVoices) /\ v \in MappedVoices
      /\ Absent(evtq, OscOf(v)) /\ vs[v].osc
      /\ \A u \in Voices : u # v => VoiceFitsIn(NoEvent, evtq, u, vs[u], MappedVoices)
  BY <1>2, <1>3, VoiceTaken
<1>5. PICK p : p = PostEvent(evtq, OscOf(v), OscTime)
  OBVIOUS
<1>6. PICK w : w = [q |-> p, vs |-> vs]
  OBVIOUS
<1>7. TurnEnds(w)
  <2>1. [Now EXCEPT !.q = PostEvent(evtq, nextEvent, OscTime)] = w
    BY <1>2, <1>5, <1>6 DEF Now
  <2> QED BY <2>1 DEF OscEvent
<1>8. w.q = p /\ w.vs = vs /\ DOMAIN w = {"q", "vs"}
  BY <1>6
<1>9. Gains(evtq, p, OscOf(v))
  <2>1. OscOf(v) \in PlayerEvents /\ OscTime \in 0..End
    BY EventsOfPlayer, PlayerTimes
  <2>2. IsQueue(evtq, PlayerEvents) /\ QueueInTime(evtq) /\ Len(evtq) < MaxEvents
    BY QueueNumbers DEF PlayerInv
  <2> QED BY <1>5, <2>1, <2>2, EventPosted
<1>10. \A e : e # OscOf(v) => Same(evtq, p, e)
  BY <1>9 DEF Gains
<1>11. VoiceFitsIn(NoEvent, p, v, vs[v], MappedVoices)
  <2>1. Once(NoEvent, p, OscOf(v))
    BY <1>4, <1>9, VoiceEventsDiffer DEF Gains, Once
  <2>2. ASSUME NEW e, e \in {NoteEndOf(v), EnvOf(v)}
        PROVE  /\ Never(nextEvent, evtq, e) => Never(NoEvent, p, e)
               /\ Once(nextEvent, evtq, e) => Once(NoEvent, p, e)
    <3>1. e # nextEvent /\ e # NoEvent /\ Same(evtq, p, e)
      BY <1>2, <1>10, <2>2, VoiceEventsDiffer
    <3> QED BY <3>1, OtherOfVoice, SameCounts
  <2> QED BY <1>4, <2>1, <2>2 DEF VoiceFitsIn
<1>12. ASSUME NEW u \in Voices, u # v PROVE VoiceFitsIn(NoEvent, p, u, vs[u], MappedVoices)
  <2>1. \A e \in VoiceEvents(u) : Same(evtq, p, e)
    BY <1>10, <1>12, VoiceEventsDiffer
  <2> QED BY <1>4, <1>12, <2>1, FitsStays
<1>13. MappedVoices' = MappedVoices /\ VoicesListed(vAlloc', vFree')
  BY <1>1, MappedStay
<1>14. World(w, MappedVoices)
  <2>1. DOMAIN vs = Voices
    BY DEF PlayerInv, VoicesReady
  <2>2. \A u \in Voices : VoiceFitsIn(NoEvent, p, u, vs[u], MappedVoices)
    BY <1>11, <1>12
  <2> QED BY <1>8, <1>9, <2>1, <2>2 DEF World, Gains
<1>15. RestSame(evtq, w.q)
  BY <1>8, <1>10, VoiceEventsDiffer DEF RestSame
<1>16. NotesFirst(evtq) => NotesFirst(w.q)
  BY <1>8, <1>9, VoiceEventsDiffer DEF Gains
<1>17. StateFits(state, w.vs, MappedVoices)
  BY <1>8 DEF PlayerInv
<1> QED BY <1>1, <1>3, <1>7, <1>13, <1>14, <1>15, <1>16, <1>17, VoiceTurn

LEMMA NoteEndStep ==
  ASSUME PlayerInv, PlayerHasRoom, compact' = compact, NoteEnd
  PROVE  PlayerInv'
<1>1. nextEvent.type = "noteEnd" /\ state' = state
  BY DEF NoteEnd
<1>2. PICK v \in Voices : nextEvent = NoteEndOf(v) /\ nextEvent.voice = v
  <2>1. nextEvent # NoEvent
    BY <1>1, EventTypes
  <2> QED BY <1>1, <2>1, EventOfType DEF PlayerInv
<1>3. nextEvent \in VoiceEvents(v)
  BY <1>2 DEF VoiceEvents
<1>4. /\ VoiceFitsIn(nextEvent, evtq, v, vs[v], MappedVoices) /\ v \in MappedVoices
      /\ Absent(evtq, NoteEndOf(v)) /\ vs[v].env = "release"
      /\ \A u \in Voices : u # v => VoiceFitsIn(NoEvent, evtq, u, vs[u], MappedVoices)
  BY <1>2, <1>3, VoiceTaken
<1>5. PICK now : now = Now
  OBVIOUS
<1>6. PICK w : w = StopOsc(now, v)
  OBVIOUS
<1>7. TurnEnds(w) /\ UnmapVoice(v)
  BY <1>2, <1>5, <1>6 DEF NoteEnd
<1>8. DOMAIN vs = Voices /\ DOMAIN vs[v] = {"key", "phase", "env", "osc"} /\ vs[v].key \in Keys
  BY <1>4 DEF PlayerInv, VoicesReady, VoiceFitsIn
<1>9. now.q = evtq /\ now.vs = vs
  BY <1>5, NowFields
\* As if the voice were still in its decay
<1>10. PICK s : s = [vs[v] EXCEPT !.env = "decay"]
  OBVIOUS
<1>11. PICK vv : vv = [vs EXCEPT ![v] = s]
  OBVIOUS
<1>12. PICK y : y = [q |-> evtq, vs |-> vv]
  OBVIOUS
<1>13. y.q = evtq /\ y.vs = vv /\ DOMAIN y = {"q", "vs"}
  BY <1>12
<1>14. DOMAIN vv = Voices /\ vv[v] = s /\ \A u \in Voices : u # v => vv[u] = vs[u]
  BY <1>8, <1>11
<1>15. /\ DOMAIN s = {"key", "phase", "env", "osc"} /\ s.key = vs[v].key /\ s.env = "decay"
       /\ s.osc = vs[v].osc
  BY <1>8, <1>10
<1>16. VoiceFitsIn(NoEvent, evtq, v, s, MappedVoices)
  <2>1. Never(NoEvent, evtq, EnvOf(v))
    <3>1. Never(nextEvent, evtq, EnvOf(v))
      BY <1>4 DEF VoiceFitsIn
    <3> QED BY <1>2, <3>1, OtherOfVoice, VoiceEventsDiffer
  <2>2. Never(NoEvent, evtq, NoteEndOf(v))
    BY <1>4, VoiceEventsDiffer DEF Never
  <2>3. IF s.osc THEN Once(NoEvent, evtq, OscOf(v)) ELSE Never(NoEvent, evtq, OscOf(v))
    <3>1. IF s.osc THEN Once(nextEvent, evtq, OscOf(v)) ELSE Never(nextEvent, evtq, OscOf(v))
      BY <1>4, <1>15 DEF VoiceFitsIn
    <3>2. OscOf(v) # nextEvent /\ OscOf(v) # NoEvent
      BY <1>2, VoiceEventsDiffer
    <3> QED BY <3>1, <3>2, OtherOfVoice
  <2>4. s.env # "release" /\ s.env # "attack"
    BY <1>15
  <2> QED BY <1>4, <1>8, <1>15, <2>1, <2>2, <2>3, <2>4 DEF VoiceFitsIn
<1>17. World(y, MappedVoices)
  <2>1. \A u \in Voices : VoiceFitsIn(NoEvent, evtq, u, vv[u], MappedVoices)
    BY <1>4, <1>14, <1>16
  <2>2. IsQueue(evtq, PlayerEvents) /\ QueueInTime(evtq)
    BY DEF PlayerInv
  <2> QED BY <1>13, <1>14, <2>1, <2>2 DEF World
<1>18. PICK x : x = StopOsc(y, v)
  OBVIOUS
<1>19. Quietens(y, x, v, MappedVoices)
  BY <1>17, <1>18, OscStops
<1>20. w.q = x.q
  <2>1. w.q = IF vs[v].osc THEN Without(evtq, ItemsOf(evtq, OscOf(v))) ELSE evtq
    BY <1>6, <1>9 DEF StopOsc
  <2>2. x.q = IF vs[v].osc THEN Without(evtq, ItemsOf(evtq, OscOf(v))) ELSE evtq
    BY <1>13, <1>14, <1>15, <1>18 DEF StopOsc
  <2> QED BY <2>1, <2>2
<1>21. /\ DOMAIN w = {"q", "vs"} /\ DOMAIN w.vs = Voices
       /\ \A u \in Voices : u # v => w.vs[u] = vs[u] /\ x.vs[u] = vs[u]
       /\ DOMAIN w.vs[v] = {"key", "phase", "env", "osc"}
  <2>1. PICK r : r = [vs[v] EXCEPT !.osc = FALSE]
    OBVIOUS
  <2>2. PICK rr : rr = [vs EXCEPT ![v] = r]
    OBVIOUS
  <2>3. w.vs = rr /\ DOMAIN w = {"q", "vs"}
    BY <1>6, <1>9, <2>1, <2>2 DEF StopOsc
  <2>4. DOMAIN r = {"key", "phase", "env", "osc"}
    BY <1>8, <2>1
  <2>5. DOMAIN rr = Voices /\ rr[v] = r /\ \A u \in Voices : u # v => rr[u] = vs[u]
    BY <1>8, <2>2
  <2>6. \A u \in Voices : u # v => x.vs[u] = vs[u]
    BY <1>13, <1>14, <1>19 DEF Quietens, OneVoice
  <2> QED BY <2>3, <2>4, <2>5, <2>6
<1>22. /\ VoicesListed(vAlloc', vFree')
       /\ \A u : Contains(vAlloc', u) <=> Contains(vAlloc, u) /\ u # v
  <2>1. Contains(vAlloc, v) /\ VoicesListed(vAlloc, vFree)
    BY <1>4 DEF MappedVoices, PlayerInv
  <2> QED BY <1>7, <2>1, VoiceUnmapped
<1>23. MappedVoices' = MappedVoices \ {v}
  BY <1>22 DEF MappedVoices
<1>24. PICK left : left = MappedVoices \ {v}
  OBVIOUS
<1>25. World(w, left)
  <2>1. World(x, MappedVoices) /\ ~x.vs[v].osc
    BY <1>19 DEF Quietens
  <2>2. \A u \in Voices : VoiceFitsIn(NoEvent, x.q, u, x.vs[u], MappedVoices)
    BY <2>1 DEF World
  <2>3. ASSUME NEW u \in Voices, u # v PROVE VoiceFitsIn(NoEvent, x.q, u, w.vs[u], left)
    <3>1. VoiceFitsIn(NoEvent, x.q, u, w.vs[u], MappedVoices)
      BY <1>21, <2>2, <2>3
    <3>2. u \in left <=> u \in MappedVoices
      BY <1>24, <2>3
    <3> QED BY <3>1, <3>2, FitsMapped
  <2>4. VoiceFitsIn(NoEvent, x.q, v, w.vs[v], left)
    <3>1. x.vs[v].env = "decay"
      BY <1>13, <1>14, <1>15, <1>19 DEF Quietens
    <3>2. Never(NoEvent, x.q, NoteEndOf(v)) /\ Never(NoEvent, x.q, EnvOf(v)) /\ Never(NoEvent, x.q, OscOf(v))
      <4>1. VoiceFitsIn(NoEvent, x.q, v, x.vs[v], MappedVoices)
        BY <2>2
      <4>2. x.vs[v].env # "release" /\ x.vs[v].env # "attack"
        BY <3>1
      <4> QED BY <2>1, <4>1, <4>2 DEF VoiceFitsIn
    <3>3. v \notin left
      BY <1>24
    <3> QED BY <1>21, <3>2, <3>3 DEF VoiceFitsIn
  <2>5. \A u \in Voices : VoiceFitsIn(NoEvent, w.q, u, w.vs[u], left)
    BY <1>20, <2>3, <2>4
  <2>6. IsQueue(w.q, PlayerEvents) /\ QueueInTime(w.q)
    BY <1>20, <2>1 DEF World
  <2> QED BY <1>21, <2>5, <2>6 DEF World
<1>26. RestSame(evtq, w.q) /\ (NotesFirst(evtq) => NotesFirst(w.q))
  BY <1>13, <1>19, <1>20 DEF Quietens, OneVoice
<1>27. StateFits(state, w.vs, left)
  <2>1. StateFits(state, vs, MappedVoices)
    BY DEF PlayerInv
  <2>2. \A u \in left : u \in MappedVoices /\ u \in Voices /\ w.vs[u] = vs[u]
    <3>1. \A u \in left : u \in MappedVoices /\ u \in Voices /\ u # v
      BY <1>24 DEF MappedVoices
    <3> QED BY <1>21, <3>1
  <2>3. MappedVoices = {} => left = {}
    BY <1>24
  <2> QED BY <2>1, <2>2, <2>3 DEF StateFits, PhasesFit
<1>28. World(w, MappedVoices') /\ StateFits(state, w.vs, MappedVoices')
  BY <1>23, <1>24, <1>25, <1>27
<1> QED BY <1>1, <1>3, <1>7, <1>22, <1>26, <1>28, VoiceTurn

\* The events of the type t are taken out of the queue.
LEMMA TypeFlushed ==
  ASSUME NEW q, IsQueue(q, PlayerEvents), QueueInTime(q), NEW t, NEW r, r = FlushType(q, t)
  PROVE  /\ IsQueue(r, PlayerEvents) /\ QueueInTime(r) /\ Len(r) \in Nat /\ Len(r) <= Len(q)
         /\ \A e \in PlayerEvents : IF e.type = t THEN Absent(r, e) ELSE Same(q, r, e)
<1> DEFINE gone == {e \in PlayerEvents : e.type = t}
           items == {i \in 1..Len(q) : q[i].evt.type = t}
<1>1. \A i \in 1..Len(q) : q[i].evt \in PlayerEvents
  BY QueueFacts DEF IsItem
<1>2. \A i \in 1..Len(q) : i \in items <=> q[i].evt \in gone
  BY <1>1
<1>3. r = Without(q, items)
  BY DEF FlushType
<1>4. \A e \in PlayerEvents : e \in gone <=> e.type = t
  OBVIOUS
<1> HIDE DEF gone, items
<1>5. Loses(q, r, gone)
  BY <1>2, <1>3, EventsTaken
<1> QED BY <1>4, <1>5 DEF Loses

\* What is taken out when the player is asked to stop
LEMMA SequenceFlushed ==
  ASSUME NEW q, IsQueue(q, PlayerEvents), QueueInTime(q), NEW r, r = Flushed(q)
  PROVE  /\ IsQueue(r, PlayerEvents) /\ QueueInTime(r) /\ Len(r) \in Nat /\ Len(r) <= Len(q)
         /\ Absent(r, Ref) /\ (compact => \A k \in Keys : Absent(r, NoteOffOf(k)))
         /\ ~compact => \A k \in Keys : Same(q, r, NoteOffOf(k))
         /\ \A e \in PlayerEvents : e.type \notin {"ref", "noteOff", "midi"} => Same(q, r, e)
<1>1. PICK q1 : q1 = FlushType(q, "ref")
  OBVIOUS
<1>2. PICK q2 : q2 = IF compact THEN FlushType(q1, "noteOff") ELSE q1
  OBVIOUS
<1>3. r = FlushType(q2, "midi")
  BY <1>1, <1>2 DEF Flushed
<1>4. /\ IsQueue(q1, PlayerEvents) /\ QueueInTime(q1) /\ Len(q1) \in Nat /\ Len(q1) <= Len(q)
      /\ \A e \in PlayerEvents : IF e.type = "ref" THEN Absent(q1, e) ELSE Same(q, q1, e)
  BY <1>1, TypeFlushed
<1>5. /\ IsQueue(q2, PlayerEvents) /\ QueueInTime(q2) /\ Len(q2) \in Nat /\ Len(q2) <= Len(q1)
      /\ \A e \in PlayerEvents : e.type # "noteOff" => Same(q1, q2, e)
      /\ \A e \in PlayerEvents : e.type = "noteOff" => IF compact THEN Absent(q2, e) ELSE Same(q1, q2, e)
  <2>1. CASE compact
    <3>1. q2 = FlushType(q1, "noteOff")
      BY <1>2, <2>1
    <3>2. /\ IsQueue(q2, PlayerEvents) /\ QueueInTime(q2) /\ Len(q2) \in Nat /\ Len(q2) <= Len(q1)
          /\ \A e \in PlayerEvents : IF e.type = "noteOff" THEN Absent(q2, e) ELSE Same(q1, q2, e)
      BY <1>4, <3>1, TypeFlushed
    <3> QED BY <2>1, <3>2
  <2>2. CASE ~compact
    <3>1. q2 = q1
      BY <1>2, <2>2
    <3>2. \A e : Same(q1, q1, e)
      BY DEF Same
    <3> QED BY <1>4, <2>2, <3>1, <3>2
  <2> QED BY <2>1, <2>2
<1>6. /\ IsQueue(r, PlayerEvents) /\ QueueInTime(r) /\ Len(r) \in Nat /\ Len(r) <= Len(q2)
      /\ \A e \in PlayerEvents : IF e.type = "midi" THEN Absent(r, e) ELSE Same(q2, r, e)
  BY <1>3, <1>5, TypeFlushed
<1>7. Len(q) \in Nat /\ Len(r) <= Len(q)
  BY <1>4, <1>5, <1>6, QueueFacts
<1>8. Absent(r, Ref)
  <2>1. Ref \in PlayerEvents /\ Ref.type = "ref" /\ "ref" # "midi" /\ "ref" # "noteOff"
    BY EventsOfPlayer, EventTypes
  <2> QED BY <1>4, <1>5, <1>6, <2>1 DEF Same
<1>9. ASSUME NEW k \in Keys
      PROVE  IF compact THEN Absent(r, NoteOffOf(k)) ELSE Same(q, r, NoteOffOf(k))
  <2>1. /\ NoteOffOf(k) \in PlayerEvents /\ NoteOffOf(k).type = "noteOff" /\ "noteOff" # "midi"
        /\ "noteOff" # "ref"
    BY EventsOfPlayer, EventTypes
  <2>2. Same(q, q1, NoteOffOf(k)) /\ Same(q2, r, NoteOffOf(k))
    BY <1>4, <1>6, <2>1
  <2>3. IF compact THEN Absent(q2, NoteOffOf(k)) ELSE Same(q1, q2, NoteOffOf(k))
    BY <1>5, <2>1
  <2> QED BY <2>2, <2>3 DEF Same
<1>10. ASSUME NEW e \in PlayerEvents, e.type \notin {"ref", "noteOff", "midi"} PROVE Same(q, r, e)
  BY <1>4, <1>5, <1>6, <1>10 DEF Same
<1> QED BY <1>6, <1>7, <1>8, <1>9, <1>10

LEMMA StoppingStep ==
  ASSUME PlayerInv, PlayerHasRoom, compact' = compact, Stopping
  PROVE  PlayerInv'
<1>1. nextEvent.type = "stopping" /\ UNCHANGED << vAlloc, vFree >>
  BY DEF Stopping
<1>2. nextEvent \notin SoleEvents /\ ~OfVoice(nextEvent)
  <2>1. ~OfVoice(nextEvent)
    BY <1>1 DEF OfVoice
  <2>2. nextEvent # Api /\ nextEvent # Ref /\ nextEvent # StopEvt /\ nextEvent # PlayEvt
    BY <1>1, EventTypes
  <2> QED BY <2>1, <2>2 DEF SoleEvents
<1>3. PICK ones, keys : RestIn(NoEvent, evtq, ones, keys) /\ OnesFit(ones, state) /\ KeysFit(keys, state)
  BY <1>2, OtherTaken
<1>4. PICK now : now = Now
  OBVIOUS
<1>5. World(now, MappedVoices) /\ now.q = evtq /\ now.vs = vs
  BY <1>2, <1>4, HandlerStarts, NowFields
<1>6. MappedVoices' = MappedVoices /\ VoicesListed(vAlloc', vFree') /\ compact \in BOOLEAN
  BY <1>1, MappedStay DEF PlayerInv
<1>7. CASE state # "playing"
  <2>1. TurnEnds(now) /\ state' = state
    BY <1>4, <1>7 DEF Stopping
  <2>2. RestReady(now.q, ones, state') /\ StateFits(state', now.vs, MappedVoices)
    <3>1. /\ state \in {"stopped", "playing", "stopping"} /\ (state = "stopping" => NotesFirst(evtq))
          /\ StateFits(state, vs, MappedVoices)
      BY DEF PlayerInv, SequenceFits
    <3> QED BY <1>3, <1>5, <2>1, <3>1 DEF RestReady
  <2> QED BY <1>5, <1>6, <2>1, <2>2, TurnKeeps
<1>8. CASE state = "playing"
  <2>1. PICK q : q = Flushed(evtq)
    OBVIOUS
  <2>2. PICK y : y = [now EXCEPT !.q = q]
    OBVIOUS
  <2>3. PICK x : x = ToVoices("kill", y)
    OBVIOUS
  <2>4. PICK w : w = [x EXCEPT !.q = PostEvent(x.q, StopEvt, End)]
    OBVIOUS
  <2>5. TurnEnds(w) /\ state' = "stopping"
    BY <1>4, <1>8, <2>1, <2>2, <2>3, <2>4 DEF Stopping
  <2>6. /\ IsQueue(q, PlayerEvents) /\ QueueInTime(q) /\ Len(q) \in Nat /\ Len(q) <= Len(evtq)
        /\ Absent(q, Ref) /\ (compact => \A k \in Keys : Absent(q, NoteOffOf(k)))
        /\ (~compact => \A k \in Keys : Same(evtq, q, NoteOffOf(k)))
        /\ \A e \in PlayerEvents : e.type \notin {"ref", "noteOff", "midi"} => Same(evtq, q, e)
    <3>1. IsQueue(evtq, PlayerEvents) /\ QueueInTime(evtq)
      BY DEF PlayerInv
    <3> QED BY <2>1, <3>1, SequenceFlushed
  <2>7. y.q = q /\ y.vs = vs /\ DOMAIN y = {"q", "vs"} /\ DOMAIN vs = Voices
    BY <1>5, <2>2 DEF World
  <2>8. World(y, MappedVoices)
    <3>1. ASSUME NEW v \in Voices PROVE VoiceFitsIn(NoEvent, q, v, vs[v], MappedVoices)
      <4>1. \A e \in VoiceEvents(v) : e \in PlayerEvents /\ e.type \notin {"ref", "noteOff", "midi"}
        <5>1. \A e \in VoiceEvents(v) : e \in PlayerEvents
          BY EventsOfPlayer DEF VoiceEvents
        <5>2. \A e \in VoiceEvents(v) : OfVoice(e)
          BY VoiceEventsDiffer
        <5> QED BY <5>1, <5>2 DEF OfVoice
      <4>2. \A e \in VoiceEvents(v) : Same(evtq, q, e)
        BY <2>6, <4>1
      <4>3. VoiceFitsIn(NoEvent, evtq, v, vs[v], MappedVoices)
        BY <1>5 DEF World
      <4> QED BY <4>2, <4>3, FitsStays
    <3> QED BY <2>6, <2>7, <3>1 DEF World
  <2>9. PICK left : left = ones \ {Ref}
    OBVIOUS
  <2>10. PICK none : none = {}
    OBVIOUS
  <2>11. Api \in left /\ StopEvt \notin left /\ PlayEvt \notin left /\ Ref \notin left
    BY <1>3, <1>8, <2>9, SolesDiffer DEF OnesFit
  <2>12. RestIn(NoEvent, q, left, none)
    <3>1. \A e \in SoleEvents : e # Ref => Same(evtq, q, e)
      <4>1. \A e \in SoleEvents : e # Ref => e \in PlayerEvents /\ e.type \notin {"ref", "noteOff", "midi"}
        BY EventTypes, EventsOfPlayer DEF SoleEvents
      <4> QED BY <2>6, <4>1
    <3>2. \A e \in SoleEvents : IF e \in left THEN Once(NoEvent, q, e) ELSE Never(NoEvent, q, e)
      <4> SUFFICES ASSUME NEW e \in SoleEvents
                   PROVE  IF e \in left THEN Once(NoEvent, q, e) ELSE Never(NoEvent, q, e)
        OBVIOUS
      <4>1. CASE e = Ref
        BY <2>6, <2>11, <4>1, SolesDiffer DEF Never
      <4>2. CASE e # Ref
        <5>1. e \in left <=> e \in ones
          BY <2>9, <4>2
        <5>2. Same(evtq, q, e)
          BY <3>1, <4>2
        <5> QED BY <1>3, <5>1, <5>2, SameCounts DEF RestIn
      <4> QED BY <4>1, <4>2
    <3>3. ASSUME NEW k \in Keys PROVE ~Coming(NoEvent, q, NoteOffOf(k))
      <4>1. CASE compact
        BY <2>6, <4>1, SolesDiffer DEF Coming
      <4>2. CASE ~compact
        <5>1. keys = {}
          BY <1>3, <4>2 DEF KeysFit
        <5>2. Same(evtq, q, NoteOffOf(k))
          BY <2>6, <4>2
        <5> QED BY <1>3, <5>1, <5>2 DEF RestIn, Coming, Same
      <4> QED BY <4>1, <4>2
    <3> QED BY <3>2, <3>3 DEF RestIn
  <2>13. Done("kill", y, x, Len(vAlloc))
    <3>1. IsList(vAlloc, Voices)
      BY DEF PlayerInv, VoicesListed
    <3>2. Len(y.q) + Len(vAlloc) <= MaxEvents
      BY <2>6, <2>7, QueueNumbers
    <3>3. PICK what \in {"kill", "stopOsc", "pedalDown", "pedalUp"} : what = "kill"
      OBVIOUS
    <3>4. what # "pedalUp" /\ x = ToVoices(what, y)
      BY <2>3, <3>3
    <3>5. Done(what, y, x, Len(vAlloc))
      BY <2>8, <3>1, <3>2, <3>4, AllDone
    <3> QED BY <3>3, <3>5
  <2>14. World(x, MappedVoices) /\ RestSame(q, x.q) /\ Len(x.q) \in Nat /\ Len(x.q) <= Len(q) + Len(vAlloc)
    BY <2>7, <2>13 DEF Done
  <2>15. RestIn(NoEvent, x.q, left, none)
    BY <2>12, <2>14, RestAlike
  <2>16. Len(x.q) < MaxEvents
    BY <2>6, <2>14, QueueNumbers
  <2>17. StopEvt \in SoleEvents /\ StopEvt \in PlayerEvents /\ ~OfVoice(StopEvt) /\ StopEvt.type # "noteOff"
    BY SolesDiffer DEF SoleEvents
  <2>18. PostsIn(x, w, StopEvt, MappedVoices)
    <3>1. PICK d \in 0..End : d = End
      BY PlayerTimes
    <3>2. w = [x EXCEPT !.q = PostEvent(x.q, StopEvt, d)]
      BY <2>4, <3>1
    <3> QED BY <2>14, <2>16, <2>17, <3>2, EventPostedIn
  <2>19. PICK more : more = left \cup {StopEvt}
    OBVIOUS
  <2>20. RestIn(NoEvent, w.q, more, none)
    <3>1. Gains(x.q, w.q, StopEvt)
      BY <2>18 DEF PostsIn
    <3> QED BY <2>11, <2>15, <2>17, <2>19, <3>1, RestGains
  <2>21. NotesFirst(w.q)
    <3>1. Absent(x.q, StopEvt)
      BY <2>11, <2>15, <2>17 DEF RestIn, Never
    <3>2. w.q = PostEvent(x.q, StopEvt, End)
      BY <2>4, <2>14 DEF World
    <3>3. IsQueue(x.q, PlayerEvents) /\ QueueInTime(x.q)
      BY <2>14 DEF World
    <3> QED BY <2>16, <3>1, <3>2, <3>3, StopGoesLast
  <2>22. RestReady(w.q, more, state')
    <3>1. OnesFit(more, "stopping")
      BY <2>11, <2>19, SolesDiffer DEF OnesFit
    <3>2. KeysFit(none, "stopping")
      BY <2>10 DEF KeysFit
    <3> QED BY <2>5, <2>20, <2>21, <3>1, <3>2 DEF RestReady
  <2>23. World(w, MappedVoices) /\ StateFits(state', w.vs, MappedVoices)
    BY <2>5, <2>18 DEF PostsIn, StateFits
  <2> QED BY <1>6, <2>5, <2>22, <2>23, TurnKeeps
<1> QED BY <1>7, <1>8

LEMMA SeqStopStep ==
  ASSUME PlayerInv, PlayerHasRoom, compact' = compact, Stop
  PROVE  PlayerInv'
<1>1. nextEvent = StopEvt
  BY DEF Stop
<1>2. StopEvt \in SoleEvents /\ ~OfVoice(StopEvt)
  BY SolesDiffer DEF SoleEvents
<1>3. PICK ones, keys : /\ StopEvt \in ones /\ RestIn(NoEvent, evtq, ones \ {StopEvt}, keys)
                        /\ OnesFit(ones, state) /\ KeysFit(keys, state)
  BY <1>1, <1>2, SoleTaken
<1>4. state = "stopping" /\ Api \in ones /\ Ref \notin ones /\ PlayEvt \notin ones
  BY <1>3 DEF OnesFit
<1>5. PICK left : left = ones \ {StopEvt}
  OBVIOUS
<1>6. PICK now : now = Now
  OBVIOUS
<1>7. World(now, MappedVoices) /\ now.q = evtq /\ now.vs = vs
  BY <1>1, <1>2, <1>6, HandlerStarts, NowFields
<1>8. PICK x : x = ToVoices("stopOsc", now)
  OBVIOUS
<1>9. /\ TurnEnds(x) /\ state' = "stopped" /\ vAlloc' = << >> /\ vFree' = Reverse(vAlloc) \o vFree
  BY <1>4, <1>6, <1>8 DEF Stop
<1>10. IsList(vAlloc, Voices) /\ VoicesListed(vAlloc, vFree) /\ vAlloc \in Seq(Voices)
  BY DEF PlayerInv, VoicesListed, IsList
<1>11. Done("stopOsc", now, x, Len(vAlloc))
  <2>1. Len(now.q) + Len(vAlloc) <= MaxEvents
    BY <1>7, QueueNumbers
  <2>2. PICK what \in {"kill", "stopOsc", "pedalDown", "pedalUp"} : what = "stopOsc"
    OBVIOUS
  <2>3. what # "pedalUp" /\ x = ToVoices(what, now)
    BY <1>8, <2>2
  <2>4. Done(what, now, x, Len(vAlloc))
    BY <1>7, <1>10, <2>1, <2>3, AllDone
  <2> QED BY <2>2, <2>4
<1>12. /\ World(x, MappedVoices) /\ RestSame(evtq, x.q)
       /\ \A i \in 1..Len(vAlloc) : ~x.vs[vAlloc[i]].osc
       /\ \A u : Same(evtq, x.q, NoteEndOf(u)) /\ Same(evtq, x.q, EnvOf(u))
  BY <1>7, <1>11 DEF Done
<1>13. PICK none : none = {}
  OBVIOUS
<1>14. NoEnds(evtq)
  BY <1>1, <1>4 DEF PlayerInv, SequenceFits
<1>15. ASSUME NEW v \in Voices PROVE VoiceFitsIn(NoEvent, x.q, v, x.vs[v], none)
  <2>1. VoiceFitsIn(NoEvent, x.q, v, x.vs[v], MappedVoices)
    BY <1>12 DEF World
  <2>2. Absent(evtq, NoteEndOf(v)) /\ Absent(evtq, EnvOf(v))
    BY <1>14, VoiceEventsDiffer DEF NoEnds, Absent
  <2>3. Never(NoEvent, x.q, NoteEndOf(v)) /\ Never(NoEvent, x.q, EnvOf(v))
    BY <1>12, <2>2, VoiceEventsDiffer DEF Same, Never
  <2>4. Never(NoEvent, x.q, OscOf(v))
    <3>1. CASE v \in MappedVoices
      <4>1. ~x.vs[v].osc
        BY <1>12, <3>1 DEF MappedVoices, Contains
      <4> QED BY <2>1, <4>1 DEF VoiceFitsIn
    <3>2. CASE v \notin MappedVoices
      BY <2>1, <3>2 DEF VoiceFitsIn
    <3> QED BY <3>1, <3>2
  <2>5. DOMAIN x.vs[v] = {"key", "phase", "env", "osc"} /\ v \notin none
    BY <1>13, <2>1 DEF VoiceFitsIn
  <2> QED BY <2>3, <2>4, <2>5 DEF VoiceFitsIn
<1>16. World(x, none)
  BY <1>12, <1>15 DEF World
<1>17. MappedVoices' = none
  <2>1. Len(<< >>) = 0 /\ 1..0 = {}
    OBVIOUS
  <2> QED BY <1>9, <1>13, <2>1 DEF MappedVoices, Contains
<1>18. VoicesListed(vAlloc', vFree') /\ compact \in BOOLEAN
  BY <1>9, <1>10, VoicesUnmapped DEF PlayerInv
<1>19. RestIn(NoEvent, x.q, left, keys)
  BY <1>3, <1>5, <1>12, RestAlike
<1>20. RestReady(x.q, left, state')
  <2>1. OnesFit(left, "stopped")
    BY <1>4, <1>5, SolesDiffer DEF OnesFit
  <2>2. KeysFit(keys, "stopped")
    BY <1>3, <1>4 DEF KeysFit
  <2> QED BY <1>9, <1>19, <2>1, <2>2 DEF RestReady
<1>21. StateFits(state', x.vs, none)
  BY <1>9, <1>13 DEF StateFits
<1> QED BY <1>9, <1>16, <1>17, <1>18, <1>20, <1>21, TurnKeeps

------------------------------------------------------------------------------
(* The calls of the program *)

\* A call posts an event that is not of a voice, and changes nothing else.
LEMMA CallPosts ==
  ASSUME PlayerInv, PlayerHasRoom, compact' = compact,
         NEW e \in PlayerEvents, ~OfVoice(e), e # StopEvt, e.type # "noteOff", Posts(e),
         e \in SoleEvents => e = PlayEvt /\ state = "stopped" /\ Never(nextEvent, evtq, PlayEvt)
  PROVE  PlayerInv'
<1>1. /\ UNCHANGED << nextEvent, state, vAlloc, vFree, vs >>
      /\ evtq' = PostEvent(evtq, e, 0)
  BY DEF Posts
<1>2. PICK q : q = evtq'
  OBVIOUS
<1>3. Gains(evtq, q, e)
  <2>1. 0 \in 0..End
    BY EndIsNat
  <2>2. Len(evtq) < MaxEvents /\ IsQueue(evtq, PlayerEvents) /\ QueueInTime(evtq)
    BY QueueNumbers DEF PlayerInv
  <2> QED BY <1>1, <1>2, <2>1, <2>2, EventPosted
<1>4. \A x : x # e => Same(evtq, q, x)
  BY <1>3 DEF Gains
<1>5. ~EndsNote(e)
  BY DEF OfVoice, EndsNote
<1>6. VoicesReady(nextEvent, q, vs, MappedVoices)
  <2>1. ASSUME NEW v \in Voices PROVE VoiceFitsIn(nextEvent, q, v, vs[v], MappedVoices)
    <3>1. \A x \in VoiceEvents(v) : Same(evtq, q, x)
      BY <1>4, VoiceEventsDiffer
    <3>2. VoiceFitsIn(nextEvent, evtq, v, vs[v], MappedVoices)
      BY DEF PlayerInv, VoicesReady
    <3> QED BY <3>1, <3>2, FitsStays
  <2> QED BY <2>1 DEF PlayerInv, VoicesReady
<1>7. SequenceFits(nextEvent, q, state)
  <2>1. PICK ones, keys : RestIn(nextEvent, evtq, ones, keys) /\ OnesFit(ones, state) /\ KeysFit(keys, state)
    BY DEF PlayerInv, SequenceFits
  <2>2. e \in SoleEvents => e \notin ones
    <3> SUFFICES ASSUME e \in SoleEvents, e \in ones PROVE FALSE
      OBVIOUS
    <3>1. Once(nextEvent, evtq, PlayEvt) /\ Never(nextEvent, evtq, PlayEvt)
      BY <2>1 DEF RestIn
    <3> QED BY <3>1, SolesDiffer DEF Once, Never, Single, Absent
  <2>3. PICK more : more = ones \cup {e}
    OBVIOUS
  <2>4. RestIn(nextEvent, q, more, keys)
    BY <1>3, <2>1, <2>2, <2>3, RestGains
  <2>5. OnesFit(more, state)
    <3>1. CASE e \in SoleEvents
      <4>1. e = PlayEvt /\ state = "stopped"
        BY <3>1
      <4> QED BY <2>1, <2>3, <4>1, SolesDiffer DEF OnesFit
    <3>2. CASE e \notin SoleEvents
      <4>1. \A x \in SoleEvents : x \in more <=> x \in ones
        BY <2>3, <3>2
      <4>2. Api \in SoleEvents /\ Ref \in SoleEvents /\ StopEvt \in SoleEvents /\ PlayEvt \in SoleEvents
        BY DEF SoleEvents
      <4> QED BY <2>1, <4>1, <4>2 DEF OnesFit
    <3> QED BY <3>1, <3>2
  <2>6. NotesFirst(evtq) => NotesFirst(q)
    BY <1>3, <1>5 DEF Gains
  <2>7. NoEnds(evtq) => NoEnds(q)
    <3> SUFFICES ASSUME NoEnds(evtq), NEW j \in 1..Len(q), EndsNote(q[j].evt) PROVE FALSE
      BY DEF NoEnds
    <3>1. PICK x : x = q[j].evt
      OBVIOUS
    <3>2. Same(evtq, q, x) /\ ~Absent(q, x)
      BY <1>4, <1>5, <3>1 DEF Absent
    <3>3. PICK i \in 1..Len(evtq) : evtq[i].evt = x
      BY <3>2 DEF Same, Absent
    <3> QED BY <3>1, <3>3 DEF NoEnds
  <2> QED BY <2>1, <2>4, <2>5, <2>6, <2>7 DEF PlayerInv, SequenceFits
<1>8. IsQueue(q, PlayerEvents) /\ QueueInTime(q)
  BY <1>3 DEF Gains
<1>9. PICK mapped : mapped = MappedVoices
  OBVIOUS
<1>10. MappedVoices' = mapped
  BY <1>1, <1>9 DEF MappedVoices
<1>11. VoicesReady(nextEvent, evtq, vs, MappedVoices)'
  BY <1>1, <1>2, <1>6, <1>9, <1>10
<1>12. SequenceFits(nextEvent, evtq, state)'
  <2>1. SequenceFits(nextEvent', evtq', state') <=> SequenceFits(nextEvent, q, state)
    BY <1>1, <1>2 DEF SequenceFits, KeysFit
  <2> QED BY <1>7, <2>1 DEF SequenceFits, KeysFit
<1>13. StateFits(state, vs, MappedVoices)'
  BY <1>1, <1>9, <1>10 DEF PlayerInv
<1> QED BY <1>1, <1>2, <1>8, <1>11, <1>12, <1>13 DEF PlayerInv

LEMMA SeqCallPlay ==
  ASSUME PlayerInv, PlayerHasRoom, compact' = compact, ~Hasty, Play
  PROVE  PlayerInv'
<1>1. state = "stopped" /\ ~Pending("play") /\ Posts(PlayEvt)
  BY DEF Play, PlayEvt
<1>2. Never(nextEvent, evtq, PlayEvt)
  BY <1>1, EventTypes DEF Pending, Never, Absent
<1>3. PlayEvt \in PlayerEvents /\ ~OfVoice(PlayEvt) /\ PlayEvt # StopEvt /\ PlayEvt.type # "noteOff"
  BY SolesDiffer DEF SoleEvents
<1> QED BY <1>1, <1>2, <1>3, CallPosts

LEMMA SeqCallStop ==
  ASSUME PlayerInv, PlayerHasRoom, compact' = compact, AskStop
  PROVE  PlayerInv'
<1>1. Posts(AskEvt)
  BY DEF AskStop, AskEvt
<1>2. AskEvt.type = "stopping" /\ AskEvt \in PlayerEvents
  BY EventTypes, EventsOfPlayer
<1>3. ~OfVoice(AskEvt) /\ AskEvt # StopEvt /\ AskEvt.type # "noteOff" /\ AskEvt \notin SoleEvents
  BY <1>2, EventTypes DEF OfVoice, SoleEvents
<1> QED BY <1>1, <1>2, <1>3, CallPosts

LEMMA SeqCallMidi ==
  ASSUME PlayerInv, PlayerHasRoom, compact' = compact, ~LiveMidi, SendMidi
  PROVE  PlayerInv'
<1>1. PICK m \in MidiMsgs : (Releases(m) => LiveMidi) /\ Posts(Midi(m))
  BY DEF SendMidi
<1>2. PICK e : e = Midi(m)
  OBVIOUS
<1>3. e.type = "midi" /\ e \in PlayerEvents
  BY <1>1, <1>2, EventTypes, EventsOfPlayer
<1>4. ~OfVoice(e) /\ e # StopEvt /\ e.type # "noteOff" /\ e \notin SoleEvents
  BY <1>3, EventTypes DEF OfVoice, SoleEvents
<1> QED BY <1>1, <1>2, <1>3, <1>4, CallPosts

------------------------------------------------------------------------------
(* Every step *)

LEMMA PlayerKeeps ==
  ASSUME ~Hasty, ~LiveMidi, ~EndsEarly, PlayerInv, PlayerHasRoom, [PlayerNext]_playerVars
  PROVE  PlayerInv'
<1>1. CASE UNCHANGED playerVars
  <2>1. /\ compact' = compact /\ evtq' = evtq /\ nextEvent' = nextEvent /\ state' = state
        /\ vAlloc' = vAlloc /\ vFree' = vFree /\ vs' = vs
    BY <1>1 DEF playerVars
  <2>2. PICK mapped : mapped = MappedVoices
    OBVIOUS
  <2>3. MappedVoices' = mapped
    BY <2>1, <2>2 DEF MappedVoices
  <2>4. VoicesReady(nextEvent, evtq, vs, MappedVoices)' /\ StateFits(state, vs, MappedVoices)'
    BY <2>1, <2>2, <2>3 DEF PlayerInv
  <2>5. SequenceFits(nextEvent, evtq, state)'
    BY <2>1 DEF PlayerInv, SequenceFits, KeysFit
  <2> QED BY <2>1, <2>4, <2>5 DEF PlayerInv
<1>2. CASE PlayerNext
  <2>1. compact' = compact
    BY <1>2 DEF PlayerNext
  <2>2. CASE SeqRef
    BY <2>1, <2>2, RefStep
  <2>3. CASE MidiEvent
    BY <2>1, <2>3, MidiStep
  <2>4. CASE NoteOff
    BY <2>1, <2>4, NoteOffStep
  <2>5. CASE ApiEvent
    BY <2>1, <2>5, SeqApiStep
  <2>6. CASE EnvEvent
    BY <2>1, <2>6, EnvStep
  <2>7. CASE OscEvent
    BY <2>1, <2>7, OscStep
  <2>8. CASE NoteEnd
    BY <2>1, <2>8, NoteEndStep
  <2>9. CASE PlayEvent
    BY <2>1, <2>9, SeqPlayStep
  <2>10. CASE Stopping
    BY <2>1, <2>10, StoppingStep
  <2>11. CASE Stop
    BY <2>1, <2>11, SeqStopStep
  <2>12. CASE Play
    BY <2>1, <2>12, SeqCallPlay
  <2>13. CASE AskStop
    BY <2>1, <2>13, SeqCallStop
  <2>14. CASE SendMidi
    BY <2>1, <2>14, SeqCallMidi
  <2> QED BY <1>2, <2>2, <2>3, <2>4, <2>5, <2>6, <2>7, <2>8, <2>9, <2>10, <2>11, <2>12, <2>13, <2>14
          DEF PlayerNext, Handler
<1> QED BY <1>1, <1>2

LEMMA PlayerStarts == PlayerInit => PlayerInv
<1> SUFFICES ASSUME PlayerInit PROVE PlayerInv
  OBVIOUS
<1>1. /\ compact \in BOOLEAN /\ evtq = << >> /\ nextEvent = Api /\ state = "stopped" /\ vAlloc = << >>
      /\ vFree = SetToSeq(Voices) /\ vs = [v \in Voices |-> NoVoice]
  BY DEF PlayerInit, NewQueue
<1>2. Len(evtq) = 0 /\ 1..0 = {}
  BY <1>1
<1>3. IsQueue(evtq, PlayerEvents) /\ QueueInTime(evtq)
  <2>1. PICK S : S = {}
    OBVIOUS
  <2>2. evtq \in Seq(S) /\ \A r \in S : IsItem(r, PlayerEvents)
    BY <1>1, <2>1
  <2> QED BY <1>2, <2>2 DEF IsQueue, QueueInTime
<1>4. MappedVoices = {} /\ IsList(vAlloc, Voices) /\ \A v : ~Contains(vAlloc, v)
  <2>1. << >> \in Seq(Voices) /\ Len(vAlloc) = 0
    BY <1>1
  <2> QED BY <1>1, <1>2, <2>1 DEF MappedVoices, IsList, Contains
<1>5. VoicesListed(vAlloc, vFree)
  <2>1. IsList(vFree, Voices)
    BY <1>1, SetListed, SeqPlayerAssumption
  <2> QED BY <1>4, <2>1 DEF VoicesListed
<1>6. \A e : Absent(evtq, e)
  BY <1>2 DEF Absent
<1>7. VoicesReady(nextEvent, evtq, vs, MappedVoices)
  <2>1. ASSUME NEW v \in Voices PROVE VoiceFitsIn(nextEvent, evtq, v, vs[v], MappedVoices)
    <3>1. \A e \in VoiceEvents(v) : Never(nextEvent, evtq, e)
      BY <1>1, <1>6, VoiceEventsDiffer, SolesDiffer DEF Never, SoleEvents
    <3>2. DOMAIN vs[v] = {"key", "phase", "env", "osc"}
      BY <1>1 DEF NoVoice
    <3> QED BY <1>4, <3>1, <3>2, VoiceEventsDiffer DEF VoiceFitsIn
  <2> QED BY <1>1, <2>1 DEF VoicesReady
<1>8. SequenceFits(nextEvent, evtq, state)
  <2>1. PICK ones : ones = {Api}
    OBVIOUS
  <2>2. PICK keys : keys = {}
    OBVIOUS
  <2>3. OnesFit(ones, "stopped")
    BY <2>1, SolesDiffer DEF OnesFit
  <2>4. KeysFit(keys, "stopped")
    BY <2>2 DEF KeysFit
  <2>5. RestIn(nextEvent, evtq, ones, keys)
    <3>1. \A e \in SoleEvents : IF e \in ones THEN Once(nextEvent, evtq, e) ELSE Never(nextEvent, evtq, e)
      BY <1>1, <1>6, <2>1, SolesDiffer DEF Once, Never
    <3>2. \A k \in Keys : ~Coming(nextEvent, evtq, NoteOffOf(k))
      <4>1. \A k : NoteOffOf(k) # Api
        BY SolesDiffer DEF SoleEvents
      <4> QED BY <1>1, <1>6, <4>1 DEF Coming
    <3> QED BY <3>1, <3>2 DEF RestIn
  <2> QED BY <1>1, <2>3, <2>4, <2>5 DEF SequenceFits
<1>9. StateFits(state, vs, MappedVoices)
  BY <1>1, <1>4 DEF StateFits
<1>10. nextEvent \in PlayerEvents \cup {NoEvent}
  BY <1>1, EventsOfPlayer
<1> QED BY <1>1, <1>3, <1>5, <1>7, <1>8, <1>9, <1>10 DEF PlayerInv

------------------------------------------------------------------------------
(* What the invariant says *)

LEMMA CountIs ==
  ASSUME NEW e, Len(evtq) \in Nat
  PROVE  /\ Never(nextEvent, evtq, e) => Count(e) = 0
         /\ Once(nextEvent, evtq, e) => Count(e) = 1
<1>1. PICK at : at = ItemsOf(evtq, e)
  OBVIOUS
<1>2. Count(e) = Cardinality(at) + (IF nextEvent = e THEN 1 ELSE 0)
  BY <1>1 DEF Count
<1>3. Absent(evtq, e) => Cardinality(at) = 0
  <2>1. Absent(evtq, e) => at = {}
    BY <1>1 DEF Absent, ItemsOf
  <2> QED BY <2>1, FS_EmptySet
<1>4. Single(evtq, e) => Cardinality(at) = 1
  <2> SUFFICES ASSUME Single(evtq, e) PROVE Cardinality(at) = 1
    OBVIOUS
  <2>1. PICK i \in 1..Len(evtq) : evtq[i].evt = e /\ \A j \in 1..Len(evtq) : evtq[j].evt = e => j = i
    BY DEF Single
  <2>2. at = {i}
    BY <1>1, <2>1 DEF ItemsOf
  <2> QED BY <2>2, FS_Singleton
<1> QED BY <1>2, <1>3, <1>4 DEF Never, Once

LEMMA InvMatches == PlayerInv => QueueMatchesPlayer
<1> SUFFICES ASSUME PlayerInv PROVE QueueMatchesPlayer
  OBVIOUS
<1>1. Len(evtq) \in Nat
  BY QueueFacts DEF PlayerInv
<1>2. EventsMatchVoices
  <2> SUFFICES ASSUME NEW v \in Voices
               PROVE  LET mapped == Contains(vAlloc, v)
                      IN /\ Count(NoteEndOf(v)) = (IF mapped /\ vs[v].env = "release" THEN 1 ELSE 0)
                         /\ Count(EnvOf(v)) = (IF mapped /\ vs[v].env = "attack" THEN 1 ELSE 0)
                         /\ Count(OscOf(v)) = (IF mapped /\ vs[v].osc THEN 1 ELSE 0)
    BY DEF EventsMatchVoices
  <2>1. VoiceFitsIn(nextEvent, evtq, v, vs[v], MappedVoices)
    BY DEF PlayerInv, VoicesReady
  <2>2. v \in MappedVoices <=> Contains(vAlloc, v)
    BY DEF MappedVoices
  <2>3. Count(NoteEndOf(v)) = (IF Contains(vAlloc, v) /\ vs[v].env = "release" THEN 1 ELSE 0)
    BY <1>1, <2>1, <2>2, CountIs DEF VoiceFitsIn
  <2>4. Count(EnvOf(v)) = (IF Contains(vAlloc, v) /\ vs[v].env = "attack" THEN 1 ELSE 0)
    BY <1>1, <2>1, <2>2, CountIs DEF VoiceFitsIn
  <2>5. Count(OscOf(v)) = (IF Contains(vAlloc, v) /\ vs[v].osc THEN 1 ELSE 0)
    BY <1>1, <2>1, <2>2, CountIs DEF VoiceFitsIn
  <2> QED BY <2>3, <2>4, <2>5
<1>3. state = "stopped" => vAlloc = << >>
  <2> SUFFICES ASSUME state = "stopped" PROVE vAlloc = << >>
    OBVIOUS
  <2>1. vAlloc \in Seq(Voices) /\ MappedVoices = {}
    BY DEF PlayerInv, VoicesListed, IsList, StateFits
  <2>2. Len(vAlloc) # 0 => 1 \in 1..Len(vAlloc) /\ vAlloc[1] \in Voices
    BY <2>1
  <2>3. 1 \in 1..Len(vAlloc) => Contains(vAlloc, vAlloc[1])
    BY DEF Contains
  <2>4. Len(vAlloc) = 0
    BY <2>1, <2>2, <2>3 DEF MappedVoices
  <2> QED BY <2>1, <2>4, EmptySeq
<1>4. Count(Ref) = (IF state = "playing" THEN 1 ELSE 0) /\ Count(Api) = 1
  <2>1. PICK ones, keys : RestIn(nextEvent, evtq, ones, keys) /\ OnesFit(ones, state)
    BY DEF PlayerInv, SequenceFits
  <2>2. Api \in ones /\ (Ref \in ones <=> state = "playing") /\ Api \in SoleEvents /\ Ref \in SoleEvents
    BY <2>1 DEF OnesFit, SoleEvents
  <2>3. Once(nextEvent, evtq, Api)
    BY <2>1, <2>2 DEF RestIn
  <2>4. IF state = "playing" THEN Once(nextEvent, evtq, Ref) ELSE Never(nextEvent, evtq, Ref)
    BY <2>1, <2>2 DEF RestIn
  <2> QED BY <1>1, <2>3, <2>4, CountIs
<1> QED BY <1>2, <1>3, <1>4 DEF QueueMatchesPlayer, SequenceReadOnce

\* The queue of a sequence player holds what its voices and its sequence will do, once, and
\* nothing else: an event never meets a voice that plays another note.  The program waits
\* for the end of what it stopped before it plays again, its own messages release no note,
\* a compact sequence ends after the last of its notes, and the queue has room for what the
\* release of every voice posts.
THEOREM QueuesMatchPlayers ==
  ASSUME ~Hasty, ~LiveMidi, ~EndsEarly
  PROVE  PlayerSpec /\ []PlayerHasRoom => []QueueMatchesPlayer
<1>1. PlayerInit => PlayerInv
  BY PlayerStarts
<1>2. PlayerInv /\ PlayerHasRoom /\ [PlayerNext]_playerVars => PlayerInv'
  BY PlayerKeeps
<1>3. PlayerInv => QueueMatchesPlayer
  BY InvMatches
<1> QED BY <1>1, <1>2, <1>3, PTL DEF PlayerSpec
================================================================================
