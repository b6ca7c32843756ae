----------------------------- MODULE OSSchedProofs -----------------------------
(***************************************************************************)
(* Theorems about OSSched, for any tasks, clients and queue lengths: the   *)
(* scheduler's books are right, its assertions hold, and nothing is drawn  *)
(* over a frame that was not shown.  And about ViMgr, that shows the       *)
(* frames: for any frames, modes, settings and widths of its counters.     *)
(***************************************************************************)
EXTENDS OSSched, ViMgr, FiniteSetTheorems, SequenceTheorems, TLAPS

------------------------------------------------------------------------------
(* What the theorems assume of a program's use of the scheduler. *)

(* interruptQ has room for the retraces that wait, the end of a task on each
   processor, and the reset button. *)
Roomy == QueueLen >= MaxVideo + 3

(* A task whose processors communicate through memory is not used next to audio. *)
NoDramNextToAudio ==
  \A mix \in Mixes : \A t, u \in mix : IsAudio(t) => Kind[u] # "DRAM"

(* Graphics tasks need both processors: one that needs only the RSP stays on the list
   after its reply, and one that needs only the RDP is never chosen. *)
NeedsBoth == \A t \in Tasks : IsGfx(t) => Kind[t] \in {"XBUS", "DRAM"}

(* Where there are DRAM tasks the assertions are compiled in. *)
ListsAreSent == Ndebug => \A t \in Tasks : Kind[t] # "DRAM"

------------------------------------------------------------------------------
(* The inductive invariant *)

Bits == {"SP", "DP", "YIELD", "YIELDED"}

SchedTypeOK ==
  /\ interruptQ \in Seq(Interrupts)
  /\ cmdQ \in Seq(Tasks) /\ audioList \in Seq(Tasks) /\ gfxList \in Seq(Tasks)
  /\ doAudio \in BOOLEAN /\ state \in [Tasks -> SUBSET Bits]
  /\ curRSPTask \in Tasks \cup {NoTask} /\ curRDPTask \in Tasks \cup {NoTask}
  /\ pc \in {"wait", "fetch", "send", "swap", "schedule"}
  /\ ending \in Tasks \cup {NoTask} /\ (pc \in {"send", "swap"} => ending \in Tasks)
  /\ rsp \in Tasks \cup {NoTask} /\ rdp \in Tasks \cup {NoTask}
  /\ yieldReq \in BOOLEAN /\ yielded \in BOOLEAN
  /\ swapPending \in BOOLEAN /\ preNMI \in BOOLEAN
  /\ clientQ \in [Clients -> Seq(Tasks \cup {"RETRACE", "PRENMI"})]
  /\ busy \subseteq Tasks /\ clientList \subseteq Clients

(* The tasks that the scheduler has accepted and not ended. *)
Working == ToSet(audioList) \cup ToSet(gfxList) \cup ({curRSPTask, curRDPTask} \ {NoTask})
Sending == IF pc = "send" THEN {ending} ELSE {}

(* No task is in the clients' queues twice. *)
RepliedOnce ==
  \A c, d \in Clients : \A i \in DOMAIN clientQ[c], j \in DOMAIN clientQ[d] :
    clientQ[c][i] = clientQ[d][j] /\ clientQ[c][i] \in Tasks => c = d /\ i = j

(* A busy task is at one stage of its way, once. *)
Placed ==
  /\ IsInjective(cmdQ) /\ IsInjective(audioList) /\ IsInjective(gfxList)
  /\ RepliedOnce
  /\ busy = ToSet(cmdQ) \cup Working \cup Sending \cup Returned
  /\ ToSet(cmdQ) \cap (Working \cup Sending \cup Returned) = {}
  /\ Working \cap (Sending \cup Returned) = {}
  /\ Sending \cap Returned = {}

AudioFits ==
  /\ \A t \in ToSet(audioList) : IsAudio(t) /\ t # curRSPTask
  /\ \A t \in ToSet(gfxList) \cup {curRDPTask} : t # NoTask => IsGfx(t)
  /\ \A t \in Working : IsAudio(t) => state[t] = {"SP"}
  /\ doAudio => audioList # <<>>
  /\ (yielded => yieldReq) /\ (yieldReq => doAudio)
  /\ \A t, u \in busy : IsAudio(t) => Kind[u] # "DRAM"

(* A task that was made to yield is the next to run, and nobody else draws. *)
HasYieldedAt(t) ==
  /\ t = Head(gfxList)
  /\ curRDPTask \in {t, NoTask} /\ ~swapPending
  /\ curRSPTask # NoTask => IsAudio(curRSPTask)

XbusFits ==
  \A t \in Working : Kind[t] = "XBUS" =>
    LET listed == t \in ToSet(gfxList)
        fresh  == listed /\ "YIELDED" \notin state[t]
    IN /\ curRSPTask = t => ~listed /\ curRDPTask \in {t, NoTask} /\ ~swapPending
       /\ "SP" \in state[t] <=> listed \/ curRSPTask = t
       /\ "DP" \in state[t] <=> fresh \/ curRDPTask = t
       /\ fresh => curRDPTask # t
       /\ listed /\ ~fresh => HasYieldedAt(t)

DramFits ==
  \A t \in Working : Kind[t] = "DRAM" =>
    LET listed == t \in ToSet(gfxList)
    IN /\ "DP" \in state[t] /\ (listed <=> curRDPTask # t)
       /\ curRDPTask = t => "SP" \notin state[t]
       /\ curRSPTask = t => t = Head(gfxList) /\ "SP" \in state[t]
       /\ listed /\ "SP" \notin state[t] => t = Head(gfxList) /\ curRSPTask = NoTask

(* No frame waits to be shown while one is drawn, and nothing draws when one ends. *)
FramesFit ==
  /\ curRDPTask # NoTask => ~swapPending
  /\ pc \in {"send", "swap"} /\ IsGfx(ending) =>
       /\ curRDPTask = NoTask /\ ~swapPending
       /\ curRSPTask # NoTask => Kind[curRSPTask] # "XBUS"
       /\ \A t \in ToSet(gfxList) : Kind[t] = "XBUS" => "YIELDED" \notin state[t]

(* What waits in interruptQ next to the ends of tasks. *)
QueueFits ==
  /\ Occurrences("VIDEO") <= MaxVideo
  /\ Occurrences("PRENMI") <= (IF preNMI THEN 1 ELSE 0)

SchedInv ==
  /\ SchedTypeOK /\ ~halted
  /\ Tracks /\ QueueFits
  /\ Placed /\ AudioFits /\ XbusFits /\ DramFits /\ FramesFit
  /\ NeedsBoth

LEMMA Kinds ==
  ASSUME SchedInv
  PROVE  \A t \in Tasks : Kind[t] \in {"AUDIO", "XBUS", "DRAM"}
BY DEF SchedInv, NeedsBoth, IsGfx

------------------------------------------------------------------------------
(* Lists *)

LEMMA TailLoses ==
  ASSUME NEW S, NEW s \in Seq(S), s # <<>>
  PROVE  /\ Tail(s) \in Seq(S) /\ Head(s) \in S
         /\ ToSet(s) = {Head(s)} \cup ToSet(Tail(s))
         /\ IsInjective(s) => IsInjective(Tail(s)) /\ Head(s) \notin ToSet(Tail(s))
<1>1. /\ Tail(s) \in Seq(S) /\ Head(s) \in S /\ Head(s) = s[1] /\ Len(s) \in Nat \ {0}
      /\ Len(Tail(s)) = Len(s) - 1
      /\ \A i \in 1..(Len(s) - 1) : Tail(s)[i] = s[i + 1]
  OBVIOUS
<1>2. DOMAIN s = 1..Len(s) /\ DOMAIN Tail(s) = 1..(Len(s) - 1)
  BY <1>1
<1>3. \A i \in 1..Len(s) : i = 1 \/ (i - 1 \in 1..(Len(s) - 1) /\ Tail(s)[i - 1] = s[i])
  BY <1>1
<1>4. ToSet(s) = {Head(s)} \cup ToSet(Tail(s))
  <2>1. \A i \in 1..Len(s) : s[i] = Head(s) \/ \E j \in 1..(Len(s) - 1) : Tail(s)[j] = s[i]
    BY <1>1, <1>3
  <2>4. \A x \in ToSet(s) : x \in {Head(s)} \cup ToSet(Tail(s))
    BY <1>2, <2>1 DEF ToSet
  <2>2. Head(s) \in ToSet(s)
    BY <1>1, <1>2 DEF ToSet
  <2>3. \A x \in ToSet(Tail(s)) : x \in ToSet(s)
    BY <1>1, <1>2 DEF ToSet
  <2> QED BY <2>2, <2>3, <2>4
<1>5. ASSUME IsInjective(s)
      PROVE  IsInjective(Tail(s)) /\ Head(s) \notin ToSet(Tail(s))
  <2>1. \A i, j \in 1..Len(s) : s[i] = s[j] => i = j
    BY <1>2, <1>5 DEF IsInjective
  <2>2. IsInjective(Tail(s))
    BY <1>1, <1>2, <2>1 DEF IsInjective
  <2>3. Head(s) \notin ToSet(Tail(s))
    BY <1>1, <1>2, <2>1 DEF ToSet
  <2> QED BY <2>2, <2>3
<1> QED BY <1>1, <1>4, <1>5

LEMMA HeadListed ==
  ASSUME NEW S, NEW s \in Seq(S), s # <<>>
  PROVE  Head(s) \in ToSet(s)
BY TailLoses

LEMMA AppendGains ==
  ASSUME NEW S, NEW s \in Seq(S), NEW x \in S
  PROVE  /\ Append(s, x) \in Seq(S) /\ Append(s, x) # <<>>
         /\ ToSet(Append(s, x)) = ToSet(s) \cup {x}
         /\ Head(Append(s, x)) = IF s = <<>> THEN x ELSE Head(s)
         /\ IsInjective(s) /\ x \notin ToSet(s) => IsInjective(Append(s, x))
<1> DEFINE a == Append(s, x)
<1>1. /\ a \in Seq(S) /\ a # <<>> /\ Len(s) \in Nat /\ Len(a) = Len(s) + 1
      /\ \A i \in 1..Len(s) : a[i] = s[i]
      /\ a[Len(s) + 1] = x /\ Head(a) = IF s = <<>> THEN x ELSE Head(s)
  BY HeadTailAppend
<1>2. DOMAIN s = 1..Len(s) /\ DOMAIN a = 1..(Len(s) + 1)
  BY <1>1
<1> HIDE DEF a
<1>3. ToSet(a) = ToSet(s) \cup {x}
  <2>1. \A y \in ToSet(a) : y \in ToSet(s) \cup {x}
    BY <1>1, <1>2 DEF ToSet
  <2>2. \A y \in ToSet(s) \cup {x} : y \in ToSet(a)
    BY <1>1, <1>2 DEF ToSet
  <2> QED BY <2>1, <2>2
<1>4. ASSUME IsInjective(s), x \notin ToSet(s)
      PROVE  IsInjective(a)
  <2>1. \A i \in 1..Len(s) : s[i] # x
    BY <1>2, <1>4 DEF ToSet
  <2>2. \A i, j \in 1..Len(s) : s[i] = s[j] => i = j
    BY <1>2, <1>4 DEF IsInjective
  <2> QED BY <1>1, <1>2, <2>1, <2>2 DEF IsInjective
<1> QED BY <1>1, <1>3, <1>4 DEF a

LEMMA PushGains ==
  ASSUME NEW S, NEW s \in Seq(S), NEW x \in S
  PROVE  /\ <<x>> \o s \in Seq(S) /\ <<x>> \o s # <<>>
         /\ ToSet(<<x>> \o s) = ToSet(s) \cup {x}
         /\ Head(<<x>> \o s) = x
         /\ IsInjective(s) /\ x \notin ToSet(s) => IsInjective(<<x>> \o s)
<1> DEFINE a == <<x>> \o s
<1>1. /\ a \in Seq(S) /\ Len(s) \in Nat /\ Len(a) = Len(s) + 1
      /\ \A i \in 1..Len(s) : a[i + 1] = s[i]
      /\ a[1] = x
  OBVIOUS
<1>2. DOMAIN s = 1..Len(s) /\ DOMAIN a = 1..(Len(s) + 1)
  BY <1>1
<1> HIDE DEF a
<1>3. Head(a) = x /\ a # <<>>
  BY <1>1
<1>4. \A i \in 1..(Len(s) + 1) : i = 1 \/ (i - 1 \in 1..Len(s) /\ a[i] = s[i - 1])
  <2> SUFFICES ASSUME NEW i \in 2..(Len(s) + 1) PROVE i - 1 \in 1..Len(s) /\ a[i] = s[i - 1]
    BY <1>1
  <2>1. i - 1 \in 1..Len(s) /\ a[(i - 1) + 1] = s[i - 1] /\ (i - 1) + 1 = i
    BY <1>1
  <2> QED BY <2>1
<1>5. ToSet(a) = ToSet(s) \cup {x}
  <2>1. \A y \in ToSet(a) : y \in ToSet(s) \cup {x}
    BY <1>1, <1>2, <1>4 DEF ToSet
  <2>2. \A y \in ToSet(s) \cup {x} : y \in ToSet(a)
    BY <1>1, <1>2 DEF ToSet
  <2> QED BY <2>1, <2>2
<1>6. ASSUME IsInjective(s), x \notin ToSet(s)
      PROVE  IsInjective(a)
  <2>1. \A i \in 1..Len(s) : s[i] # x
    BY <1>2, <1>6 DEF ToSet
  <2>2. \A i, j \in 1..Len(s) : s[i] = s[j] => i = j
    BY <1>2, <1>6 DEF IsInjective
  <2>3. \A i, j \in 1..(Len(s) + 1) : a[i] = a[j] => i = j
    <3> SUFFICES ASSUME NEW i \in 1..(Len(s) + 1), NEW j \in 1..(Len(s) + 1), a[i] = a[j]
                 PROVE  i = j
      OBVIOUS
    <3>1. i \in Int /\ j \in Int
      BY <1>1
    <3>2. i = 1 \/ (i - 1 \in 1..Len(s) /\ a[i] = s[i - 1])
      BY <1>4
    <3>3. j = 1 \/ (j - 1 \in 1..Len(s) /\ a[j] = s[j - 1])
      BY <1>4
    <3>4. ASSUME i # 1, j # 1 PROVE i - 1 = j - 1
      BY <2>2, <3>2, <3>3, <3>4
    <3> QED BY <1>1, <2>1, <3>1, <3>2, <3>3, <3>4
  <2> QED BY <1>2, <2>3 DEF IsInjective
<1> QED BY <1>1, <1>3, <1>5, <1>6 DEF a

------------------------------------------------------------------------------
(* How often a message is in a queue *)

Places(q, m) == {i \in DOMAIN q : q[i] = m}

LEMMA PlacesFinite ==
  ASSUME NEW q \in Seq(Interrupts), NEW m
  PROVE  IsFiniteSet(Places(q, m)) /\ Cardinality(Places(q, m)) \in Nat
<1>1. Places(q, m) \in SUBSET (1..Len(q)) /\ Len(q) \in Nat
  BY DEF Places
<1>2. IsFiniteSet(1..Len(q))
  BY <1>1, FS_Interval
<1> QED BY <1>1, <1>2, FS_Subset, FS_CardinalityType

LEMMA PlacesOfAppend ==
  ASSUME NEW q \in Seq(Interrupts), NEW x \in Interrupts, NEW m
  PROVE  Cardinality(Places(Append(q, x), m)) =
           IF x = m THEN Cardinality(Places(q, m)) + 1 ELSE Cardinality(Places(q, m))
<1> DEFINE a == Append(q, x)
<1>1. /\ Len(q) \in Nat /\ DOMAIN q = 1..Len(q) /\ DOMAIN a = 1..(Len(q) + 1)
      /\ \A i \in 1..Len(q) : a[i] = q[i]
      /\ a[Len(q) + 1] = x
  OBVIOUS
<1> HIDE DEF a
<1>2. IsFiniteSet(Places(q, m)) /\ Len(q) + 1 \notin Places(q, m)
  <2>1. IsFiniteSet(Places(q, m))
    BY PlacesFinite
  <2> QED BY <1>1, <2>1 DEF Places
<1>3. CASE x = m
  <2>1. Places(a, m) = Places(q, m) \cup {Len(q) + 1}
    BY <1>1, <1>3 DEF Places
  <2> QED BY <1>2, <1>3, <2>1, FS_AddElement DEF a
<1>4. CASE x # m
  <2>1. Places(a, m) = Places(q, m)
    BY <1>1, <1>4 DEF Places
  <2> QED BY <1>4, <2>1 DEF a
<1> QED BY <1>3, <1>4

LEMMA PlacesOfTail ==
  ASSUME NEW q \in Seq(Interrupts), q # <<>>, NEW m
  PROVE  Cardinality(Places(Tail(q), m)) =
           IF Head(q) = m THEN Cardinality(Places(q, m)) - 1 ELSE Cardinality(Places(q, m))
<1> DEFINE r == Tail(q)
           f == [i \in Places(r, m) |-> i + 1]
<1>1. /\ Len(q) \in Nat \ {0} /\ DOMAIN q = 1..Len(q) /\ DOMAIN r = 1..(Len(q) - 1)
      /\ \A i \in 1..(Len(q) - 1) : r[i] = q[i + 1]
      /\ Head(q) = q[1] /\ r \in Seq(Interrupts)
  OBVIOUS
<1> HIDE DEF r
<1>2. \A i \in Places(r, m) : i \in Int /\ i + 1 \in Places(q, m) \ {1}
  BY <1>1 DEF Places
<1>3. \A j \in Places(q, m) \ {1} : j \in Int /\ j - 1 \in Places(r, m) /\ (j - 1) + 1 = j
  <2> SUFFICES ASSUME NEW j \in Places(q, m) \ {1}
               PROVE  j \in Int /\ j - 1 \in Places(r, m) /\ (j - 1) + 1 = j
    OBVIOUS
  <2>1. j \in 2..Len(q) /\ q[j] = m
    BY <1>1 DEF Places
  <2>2. j - 1 \in 1..(Len(q) - 1) /\ (j - 1) + 1 = j
    BY <1>1, <2>1
  <2>3. r[j - 1] = m
    BY <1>1, <2>1, <2>2
  <2> QED BY <1>1, <2>1, <2>2, <2>3 DEF Places
<1>4. f \in Bijection(Places(r, m), Places(q, m) \ {1})
  <2>1. f \in [Places(r, m) -> Places(q, m) \ {1}]
    BY <1>2
  <2>2. \A a, b \in Places(r, m) : f[a] = f[b] => a = b
    BY <1>2
  <2>3. \A j \in Places(q, m) \ {1} : \E i \in Places(r, m) : f[i] = j
    BY <1>3
  <2> QED BY <2>1, <2>2, <2>3 DEF Bijection, Injection, Surjection, IsInjective
<1>5. IsFiniteSet(Places(r, m)) /\ IsFiniteSet(Places(q, m))
  BY <1>1, PlacesFinite
<1>6. Cardinality(Places(q, m) \ {1}) = Cardinality(Places(r, m))
  <2>1. ExistsBijection(Places(r, m), Places(q, m) \ {1})
    BY <1>4 DEF ExistsBijection
  <2> QED BY <1>5, <2>1, FS_Bijection
<1>7. 1 \in Places(q, m) <=> Head(q) = m
  BY <1>1 DEF Places
<1>8. Cardinality(Places(q, m) \ {1}) =
        IF 1 \in Places(q, m) THEN Cardinality(Places(q, m)) - 1 ELSE Cardinality(Places(q, m))
  BY <1>5, FS_RemoveElement
<1> QED BY <1>6, <1>7, <1>8 DEF r

LEMMA LengthIsSum ==
  ASSUME NEW q \in Seq(Interrupts)
  PROVE  Len(q) <= Cardinality(Places(q, "VIDEO")) + Cardinality(Places(q, "RSP"))
                     + Cardinality(Places(q, "RDP")) + Cardinality(Places(q, "PRENMI"))
<1> DEFINE V == Places(q, "VIDEO")  S == Places(q, "RSP")
           D == Places(q, "RDP")    N == Places(q, "PRENMI")
<1>1. Len(q) \in Nat /\ 1..Len(q) = (V \cup S) \cup (D \cup N)
  BY DEF Places, Interrupts
<1>2. /\ IsFiniteSet(V) /\ IsFiniteSet(S) /\ IsFiniteSet(D) /\ IsFiniteSet(N)
      /\ Cardinality(V) \in Nat /\ Cardinality(S) \in Nat
      /\ Cardinality(D) \in Nat /\ Cardinality(N) \in Nat
  BY PlacesFinite
<1> HIDE DEF V, S, D, N
<1>3. \A A, B : IsFiniteSet(A) /\ IsFiniteSet(B)
        => /\ IsFiniteSet(A \cup B) /\ Cardinality(A \cup B) \in Nat
           /\ Cardinality(A \cup B) <= Cardinality(A) + Cardinality(B)
  <2> SUFFICES ASSUME NEW A, NEW B, IsFiniteSet(A), IsFiniteSet(B)
               PROVE  /\ IsFiniteSet(A \cup B) /\ Cardinality(A \cup B) \in Nat
                      /\ Cardinality(A \cup B) <= Cardinality(A) + Cardinality(B)
    OBVIOUS
  <2>1. IsFiniteSet(A \cup B) /\ IsFiniteSet(A \cap B)
        /\ Cardinality(A \cup B) = Cardinality(A) + Cardinality(B) - Cardinality(A \cap B)
    BY FS_Union, FS_Intersection
  <2>2. Cardinality(A \cap B) \in Nat /\ Cardinality(A) \in Nat /\ Cardinality(B) \in Nat
        /\ Cardinality(A \cup B) \in Nat
    BY <2>1, FS_CardinalityType
  <2> QED BY <2>1, <2>2
<1>4. /\ IsFiniteSet(V \cup S) /\ Cardinality(V \cup S) \in Nat
      /\ Cardinality(V \cup S) <= Cardinality(V) + Cardinality(S)
  BY <1>2, <1>3
<1>5. /\ IsFiniteSet(D \cup N) /\ Cardinality(D \cup N) \in Nat
      /\ Cardinality(D \cup N) <= Cardinality(D) + Cardinality(N)
  BY <1>2, <1>3
<1>6. Cardinality(1..Len(q)) <= Cardinality(V \cup S) + Cardinality(D \cup N)
  BY <1>1, <1>3, <1>4, <1>5
<1>7. Cardinality(1..Len(q)) = Len(q)
  <2>1. Cardinality(1..Len(q)) = IF 1 > Len(q) THEN 0 ELSE Len(q) - 1 + 1
    BY <1>1, FS_Interval
  <2> QED BY <1>1, <2>1
<1> QED BY <1>2, <1>4, <1>5, <1>6, <1>7 DEF V, S, D, N


------------------------------------------------------------------------------
(* What a dispatch may start *)

RunsRSP(t) ==
  /\ state' = [state EXCEPT ![t] = @ \ {"YIELD", "YIELDED"}]
  /\ curRSPTask' = t /\ rsp' = t /\ yieldReq' = FALSE /\ yielded' = FALSE

KeepsRSP   == UNCHANGED << state, curRSPTask, rsp, yieldReq, yielded >>
RunsRDP(t) == curRDPTask' = t /\ rdp' = t
KeepsRDP   == UNCHANGED << curRDPTask, rdp >>
KeepsAudio == UNCHANGED << audioList, doAudio >>

Next2 == Head(Tail(gfxList))

StartsNothing == KeepsRSP /\ KeepsRDP /\ KeepsAudio /\ UNCHANGED gfxList

StartsAudio ==
  /\ doAudio /\ curRSPTask = NoTask
  /\ RunsRSP(Head(audioList)) /\ KeepsRDP
  /\ audioList' = Tail(audioList) /\ doAudio' = FALSE /\ UNCHANGED gfxList

StartsXbus ==
  /\ gfxList # <<>> /\ ~swapPending
  /\ Kind[Head(gfxList)] = "XBUS" /\ "YIELDED" \notin state[Head(gfxList)]
  /\ curRSPTask = NoTask /\ curRDPTask = NoTask
  /\ RunsRSP(Head(gfxList)) /\ RunsRDP(Head(gfxList)) /\ KeepsAudio
  /\ gfxList' = Tail(gfxList)

ResumesXbus ==
  /\ gfxList # <<>>
  /\ Kind[Head(gfxList)] = "XBUS" /\ "YIELDED" \in state[Head(gfxList)]
  /\ curRSPTask = NoTask
  /\ RunsRSP(Head(gfxList)) /\ KeepsRDP /\ KeepsAudio
  /\ gfxList' = Tail(gfxList)

StartsDram ==
  /\ gfxList # <<>>
  /\ Kind[Head(gfxList)] = "DRAM" /\ "SP" \in state[Head(gfxList)]
  /\ curRSPTask = NoTask
  /\ RunsRSP(Head(gfxList)) /\ KeepsRDP /\ KeepsAudio
  /\ UNCHANGED gfxList

DrawsDram ==
  /\ gfxList # <<>> /\ ~swapPending
  /\ Kind[Head(gfxList)] = "DRAM" /\ "SP" \notin state[Head(gfxList)]
  /\ curRSPTask = NoTask /\ curRDPTask = NoTask
  /\ RunsRDP(Head(gfxList)) /\ KeepsAudio
  /\ gfxList' = Tail(gfxList)
  /\ \/ KeepsRSP
     \/ /\ Tail(gfxList) # <<>> /\ Kind[Next2] = "DRAM" /\ "SP" \in state[Next2]
        /\ RunsRSP(Next2)

Starts ==
  \/ StartsNothing \/ StartsAudio \/ StartsXbus \/ ResumesXbus
  \/ StartsDram \/ DrawsDram

LEMMA IdleStartsNothing == Exec(NoPlan) => StartsNothing /\ halted' = FALSE
<1> SUFFICES ASSUME Exec(NoPlan) PROVE StartsNothing /\ halted' = FALSE
  OBVIOUS
<1>1. AssertionsHold(NoPlan)
  BY DEF AssertionsHold, NoPlan
<1>2. StartRSP(NoPlan) /\ StartRDP(NoPlan) /\ halted' = FALSE
  BY <1>1 DEF Exec
<1>3. /\ NoPlan.sp = NoTask /\ NoPlan.dp = NoTask /\ NoPlan.gfx = gfxList
      /\ NoPlan.audio = audioList /\ NoPlan.doAudio = doAudio
  BY DEF NoPlan
<1> QED BY <1>2, <1>3 DEF StartsNothing, KeepsRSP, KeepsRDP, KeepsAudio, Exec, StartRSP, StartRDP

LEMMA WorkingTasks ==
  ASSUME SchedInv
  PROVE  \A t \in Working : t \in Tasks /\ t # NoTask /\ t \in busy
BY SchedAssumption DEF SchedInv, Placed, SchedTypeOK

LEMMA NoDramNow ==
  ASSUME SchedInv, doAudio
  PROVE  \A t \in busy : Kind[t] # "DRAM"
<1>1. AudioFits /\ audioList # <<>> /\ audioList \in Seq(Tasks)
  BY DEF SchedInv, AudioFits, SchedTypeOK
<1>2. Head(audioList) \in ToSet(audioList)
  BY <1>1, HeadListed
<1>3. Head(audioList) \in busy /\ IsAudio(Head(audioList))
  BY <1>1, <1>2, WorkingTasks DEF Working, AudioFits
<1> QED BY <1>1, <1>3 DEF AudioFits

(* The head of the list of graphics tasks. *)
LEMMA HeadFits ==
  ASSUME SchedInv, gfxList # <<>>
  PROVE  LET g == Head(gfxList)
         IN /\ g \in Tasks /\ g \in ToSet(gfxList) /\ g \in Working /\ g \in busy
            /\ Kind[g] \in {"XBUS", "DRAM"}
            /\ Kind[g] = "DRAM" => ~doAudio
            /\ \A t \in ToSet(Tail(gfxList)) :
                 t # g /\ t \in Tasks /\ t \in ToSet(gfxList) /\ t \in Working
<1> DEFINE g == Head(gfxList)
<1>1. gfxList \in Seq(Tasks) /\ audioList \in Seq(Tasks) /\ IsInjective(gfxList)
  BY DEF SchedInv, SchedTypeOK, Placed
<1>2. g \in Tasks /\ g \in ToSet(gfxList)
      /\ \A t \in ToSet(Tail(gfxList)) : t # g /\ t \in ToSet(gfxList)
  BY <1>1, TailLoses
<1>3. \A t \in ToSet(gfxList) : t \in Working /\ t \in busy /\ t \in Tasks
  BY WorkingTasks DEF Working
<1>4. Kind[g] \in {"XBUS", "DRAM"}
  <2>1. g # NoTask /\ IsGfx(g)
    BY <1>2, SchedAssumption DEF SchedInv, AudioFits
  <2> QED BY <1>2, <2>1, Kinds DEF IsGfx
<1>5. ASSUME Kind[g] = "DRAM" PROVE ~doAudio
  BY <1>2, <1>3, <1>5, NoDramNow
<1> QED BY <1>2, <1>3, <1>4, <1>5

(* The plan of __scSchedule, whose assertions hold. *)
LEMMA PlanFits ==
  ASSUME SchedInv, ListsAreSent, Dispatch
  PROVE  Starts /\ halted' = FALSE
<1> DEFINE g == Head(gfxList)
           q == Pick(NoPlan)
           p == Pick(q)
<1>1. p = Schedule
  BY DEF Schedule
<1>2. /\ curRSPTask \in Tasks \cup {NoTask} /\ curRDPTask \in Tasks \cup {NoTask}
      /\ gfxList \in Seq(Tasks) /\ audioList \in Seq(Tasks) /\ doAudio \in BOOLEAN
      /\ NoTask \notin Tasks /\ swapPending \in BOOLEAN
  BY SchedAssumption DEF SchedInv, SchedTypeOK
<1> DEFINE spf == curRSPTask = NoTask
           dpf == curRDPTask = NoTask
<1>3. NoPlan = [ sp |-> NoTask, dp |-> NoTask, spFree |-> spf, dpFree |-> dpf,
                 gfx |-> gfxList, audio |-> audioList, doAudio |-> doAudio, asserted |-> TRUE ]
  BY DEF NoPlan
<1>4. Exec(p)
  BY <1>1 DEF Dispatch
<1>5. CASE doAudio /\ curRSPTask = NoTask
  <2>1. q = [ sp |-> Head(audioList), dp |-> NoTask, spFree |-> FALSE, dpFree |-> dpf,
              gfx |-> gfxList, audio |-> Tail(audioList), doAudio |-> FALSE, asserted |-> TRUE ]
    BY <1>3, <1>5 DEF Pick
  <2>2. p = q
    <3> HIDE DEF q
    <3>1. CASE gfxList = <<>> \/ swapPending
      BY <2>1, <3>1 DEF Pick, TaskReady
    <3>2. CASE gfxList # <<>> /\ ~swapPending
      <4>1. Kind[g] = "XBUS"
        BY <1>5, <3>2, HeadFits
      <4>2. p = PickXbus(q, g)
        BY <2>1, <3>2, <4>1 DEF Pick, TaskReady
      <4> QED BY <2>1, <4>2 DEF PickXbus
    <3> QED BY <1>2, <3>1, <3>2
  <2>3. Head(audioList) \in Tasks
    <3>1. audioList # <<>>
      BY <1>5 DEF SchedInv, AudioFits
    <3> QED BY <1>2, <3>1
  <2> HIDE DEF p, q
  <2>4. AssertionsHold(p)
    BY <1>5, <2>1, <2>2 DEF AssertionsHold
  <2>5. StartRSP(p) /\ StartRDP(p) /\ halted' = FALSE
    BY <1>4, <2>4 DEF Exec
  <2>6. StartsAudio
    BY <1>2, <1>4, <1>5, <2>1, <2>2, <2>3, <2>5
       DEF StartsAudio, RunsRSP, KeepsRDP, Exec, StartRSP, StartRDP
  <2> QED BY <2>5, <2>6 DEF Starts
<1>6. CASE ~(doAudio /\ curRSPTask = NoTask) /\ (gfxList = <<>> \/ swapPending)
  <2>1. q = NoPlan /\ p = NoPlan
    BY <1>3, <1>6 DEF Pick, TaskReady
  <2> HIDE DEF p, q
  <2> QED BY <1>4, <2>1, IdleStartsNothing DEF Starts
<1>7. CASE ~(doAudio /\ curRSPTask = NoTask) /\ gfxList # <<>> /\ ~swapPending
  <2>1. /\ g \in Tasks /\ g \in ToSet(gfxList) /\ g \in Working
        /\ Kind[g] \in {"XBUS", "DRAM"} /\ (Kind[g] = "DRAM" => ~doAudio)
        /\ Tail(gfxList) # <<>> =>
             /\ Next2 \in Tasks /\ Next2 # g /\ Next2 \in ToSet(gfxList) /\ Next2 \in Working
    <3>1. ASSUME Tail(gfxList) # <<>>
          PROVE  Next2 \in ToSet(Tail(gfxList))
      <4>1. Tail(gfxList) \in Seq(Tasks)
        BY <1>2, <1>7
      <4> QED BY <3>1, <4>1, HeadListed DEF Next2
    <3> QED BY <1>7, <3>1, HeadFits
  <2>2. g # NoTask /\ (Tail(gfxList) # <<>> => Next2 # NoTask)
    BY <1>2, <2>1
  <2>3. /\ Tail(gfxList) # <<>> /\ Kind[Next2] = "XBUS" => "YIELDED" \notin state[Next2]
        /\ Tail(gfxList) # <<>> /\ Kind[Next2] = "DRAM" => "SP" \in state[Next2]
        /\ Tail(gfxList) # <<>> => Kind[Next2] \in {"XBUS", "DRAM"}
    <3> SUFFICES ASSUME Tail(gfxList) # <<>>
                 PROVE  /\ Kind[Next2] = "XBUS" => "YIELDED" \notin state[Next2]
                        /\ Kind[Next2] = "DRAM" => "SP" \in state[Next2]
                        /\ Kind[Next2] \in {"XBUS", "DRAM"}
      OBVIOUS
    <3>1. XbusFits /\ DramFits /\ AudioFits
      BY DEF SchedInv
    <3>2. IsGfx(Next2)
      BY <2>1, <2>2, <3>1 DEF AudioFits
    <3> QED BY <2>1, <3>1, <3>2, Kinds DEF XbusFits, DramFits, HasYieldedAt, IsGfx
  <2>4. CASE Kind[g] = "XBUS" /\ "YIELDED" \notin state[g]
    <3>1. q = PickXbus(NoPlan, g)
      BY <1>3, <1>7, <2>4 DEF Pick, TaskReady
    <3>2. CASE spf /\ dpf
      <4>1. q = [ sp |-> g, dp |-> g, spFree |-> FALSE, dpFree |-> FALSE,
                  gfx |-> Tail(gfxList), audio |-> audioList, doAudio |-> doAudio,
                  asserted |-> TRUE ]
        BY <1>3, <2>4, <3>1, <3>2 DEF PickXbus, Both
      <4> HIDE DEF q
      <4>2. p = q
        BY <2>3, <4>1 DEF Pick, PickXbus, PickDram, TaskReady, Next2
      <4> HIDE DEF p
      <4>3. AssertionsHold(p)
        BY <3>2, <4>1, <4>2 DEF AssertionsHold
      <4>4. StartRSP(p) /\ StartRDP(p) /\ halted' = FALSE
        BY <1>4, <4>3 DEF Exec
      <4>5. StartsXbus
        BY <1>4, <1>7, <2>2, <2>4, <3>2, <4>1, <4>2, <4>4
           DEF StartsXbus, RunsRSP, RunsRDP, KeepsAudio, Exec, StartRSP, StartRDP
      <4> QED BY <4>4, <4>5 DEF Starts
    <3>3. CASE ~(spf /\ dpf)
      <4>1. q = NoPlan
        BY <1>3, <2>4, <3>1, <3>3 DEF PickXbus
      <4>2. p = NoPlan
        BY <4>1
      <4> HIDE DEF p, q
      <4> QED BY <1>4, <4>2, IdleStartsNothing DEF Starts
    <3> QED BY <3>2, <3>3
  <2>5. CASE Kind[g] = "XBUS" /\ "YIELDED" \in state[g]
    <3>1. q = PickXbus(NoPlan, g)
      BY <1>3, <1>7, <2>5 DEF Pick, TaskReady
    <3>2. curRDPTask \in {g, NoTask} /\ ("DP" \in state[g] <=> curRDPTask = g)
      <4>1. XbusFits
        BY DEF SchedInv
      <4> QED BY <2>1, <2>5, <4>1 DEF XbusFits, HasYieldedAt
    <3>3. CASE spf
      <4> DEFINE gd == IF "DP" \in state[g] THEN g ELSE NoTask
      <4>1. q = [ sp |-> g, dp |-> gd, spFree |-> FALSE,
                  dpFree |-> (IF "DP" \in state[g] THEN FALSE ELSE dpf),
                  gfx |-> Tail(gfxList), audio |-> audioList, doAudio |-> doAudio,
                  asserted |-> TRUE ]
        BY <1>3, <2>5, <3>1, <3>2, <3>3 DEF PickXbus, Both
      <4> HIDE DEF q
      <4>2. p = q
        BY <2>3, <4>1 DEF Pick, PickXbus, PickDram, TaskReady, Next2
      <4> HIDE DEF p
      <4>3. AssertionsHold(p)
        BY <3>3, <4>1, <4>2 DEF AssertionsHold
      <4>4. StartRSP(p) /\ StartRDP(p) /\ halted' = FALSE
        BY <1>4, <4>3 DEF Exec
      <4>5. RunsRSP(g) /\ KeepsRDP
        BY <2>2, <3>2, <4>1, <4>2, <4>4 DEF RunsRSP, KeepsRDP, StartRSP, StartRDP
      <4>6. ResumesXbus
        BY <1>4, <1>7, <2>5, <3>3, <4>1, <4>2, <4>5 DEF ResumesXbus, KeepsAudio, Exec
      <4> QED BY <4>4, <4>6 DEF Starts
    <3>4. CASE ~spf
      <4>1. q = NoPlan
        BY <1>3, <2>5, <3>1, <3>4 DEF PickXbus
      <4>2. p = NoPlan
        BY <4>1
      <4> HIDE DEF p, q
      <4> QED BY <1>4, <4>2, IdleStartsNothing DEF Starts
    <3> QED BY <3>3, <3>4
  <2>6. CASE Kind[g] = "DRAM"
    <3>1. q = PickDram(NoPlan, g) /\ ~doAudio
      BY <1>3, <1>7, <2>1, <2>6 DEF Pick, TaskReady
    <3>2. "DP" \in state[g] /\ ("SP" \notin state[g] => curRSPTask = NoTask)
      <4>1. DramFits
        BY DEF SchedInv
      <4> QED BY <2>1, <2>6, <4>1 DEF DramFits
    <3>3. CASE "SP" \in state[g] /\ spf
      <4>1. q = [ sp |-> g, dp |-> NoTask, spFree |-> FALSE, dpFree |-> dpf,
                  gfx |-> gfxList, audio |-> audioList, doAudio |-> doAudio,
                  asserted |-> TRUE ]
        BY <1>3, <3>1, <3>3 DEF PickDram
      <4> HIDE DEF q
      <4>2. p = q
        BY <1>7, <2>6, <3>3, <4>1 DEF Pick, PickDram, TaskReady
      <4> HIDE DEF p
      <4>3. AssertionsHold(p)
        BY <3>3, <4>1, <4>2 DEF AssertionsHold
      <4>4. StartRSP(p) /\ StartRDP(p) /\ halted' = FALSE
        BY <1>4, <4>3 DEF Exec
      <4>5. StartsDram
        BY <1>4, <1>7, <2>2, <2>6, <3>3, <4>1, <4>2, <4>4
           DEF StartsDram, RunsRSP, KeepsRDP, KeepsAudio, Exec, StartRSP, StartRDP
      <4> QED BY <4>4, <4>5 DEF Starts
    <3>4. CASE "SP" \notin state[g] /\ dpf
      <4>1. q = [ sp |-> NoTask, dp |-> g, spFree |-> TRUE, dpFree |-> FALSE,
                  gfx |-> Tail(gfxList), audio |-> audioList, doAudio |-> doAudio,
                  asserted |-> TRUE ]
        BY <1>3, <3>1, <3>2, <3>4 DEF PickDram
      <4> HIDE DEF q
      <4> DEFINE both == Tail(gfxList) # <<>> /\ Kind[Next2] = "DRAM"
                 h == IF both THEN Next2 ELSE NoTask
      <4>2. p = [ sp |-> h, dp |-> g, spFree |-> (IF both THEN FALSE ELSE TRUE), dpFree |-> FALSE,
                  gfx |-> Tail(gfxList), audio |-> audioList, doAudio |-> doAudio,
                  asserted |-> TRUE ]
        <5>1. CASE Tail(gfxList) = <<>>
          <6>1. ~q.doAudio /\ q.gfx = <<>>
            <7>1. q.doAudio = doAudio /\ q.gfx = Tail(gfxList)
              BY <4>1
            <7> QED BY <3>1, <5>1, <7>1
          <6>2. p = q
            BY <6>1 DEF Pick
          <6> QED BY <4>1, <5>1, <6>2
        <5>2. CASE Tail(gfxList) # <<>> /\ Kind[Next2] = "DRAM"
          <6>1. p = PickDram(q, Next2)
            BY <1>7, <3>1, <4>1, <5>2 DEF Pick, TaskReady, Next2
          <6> QED BY <2>3, <4>1, <5>2, <6>1 DEF PickDram
        <5>3. CASE Tail(gfxList) # <<>> /\ Kind[Next2] = "XBUS"
          <6>1. p = PickXbus(q, Next2)
            BY <1>7, <3>1, <4>1, <5>3 DEF Pick, TaskReady, Next2
          <6> QED BY <2>3, <4>1, <5>3, <6>1 DEF PickXbus
        <5> QED BY <2>3, <5>1, <5>2, <5>3
      <4> HIDE DEF p, h, both
      <4>3. AssertionsHold(p)
        BY <3>2, <3>4, <4>2 DEF AssertionsHold
      <4>4. StartRSP(p) /\ StartRDP(p) /\ halted' = FALSE
        BY <1>4, <4>3 DEF Exec
      <4>5. ~Ndebug
        BY <2>1, <2>6, SchedAssumption DEF ListsAreSent
      <4>6. RunsRDP(g)
        BY <2>2, <3>4, <4>2, <4>4, <4>5 DEF RunsRDP, StartRDP
      <4>7. KeepsRSP \/ (Tail(gfxList) # <<>> /\ Kind[Next2] = "DRAM" /\ RunsRSP(Next2))
        BY <2>2, <4>2, <4>4 DEF KeepsRSP, RunsRSP, StartRSP, h, both
      <4>8. DrawsDram
        BY <1>4, <1>7, <2>3, <2>6, <3>2, <3>4, <4>2, <4>6, <4>7 DEF DrawsDram, KeepsAudio, Exec
      <4> QED BY <4>4, <4>8 DEF Starts
    <3>5. CASE IF "SP" \in state[g] THEN ~spf ELSE ~dpf
      <4>1. q = NoPlan
        BY <1>3, <3>1, <3>5 DEF PickDram
      <4>2. p = NoPlan
        BY <4>1
      <4> HIDE DEF p, q
      <4> QED BY <1>4, <4>2, IdleStartsNothing DEF Starts
    <3> QED BY <3>3, <3>4, <3>5
  <2> QED BY <2>1, <2>4, <2>5, <2>6
<1> QED BY <1>2, <1>5, <1>6, <1>7


------------------------------------------------------------------------------
(* The books through a dispatch *)

Fits == AudioFits /\ XbusFits /\ DramFits /\ FramesFit

(* The bits of a task that is given the RSP. *)
LEMMA RunsBits ==
  ASSUME state \in [Tasks -> SUBSET Bits], NEW x \in Tasks, RunsRSP(x)
  PROVE  \A t \in Tasks :
           /\ "SP" \in state'[t] <=> "SP" \in state[t]
           /\ "DP" \in state'[t] <=> "DP" \in state[t]
           /\ "YIELDED" \in state'[t] <=> "YIELDED" \in state[t] /\ t # x
           /\ state[t] = {"SP"} => state'[t] = {"SP"}
BY DEF RunsRSP

LEMMA NothingFits ==
  ASSUME SchedInv, StartsNothing, pc' = "wait", UNCHANGED << swapPending, busy >>
  PROVE  Working' = Working /\ Fits'
BY DEF SchedInv, StartsNothing, KeepsRSP, KeepsRDP, KeepsAudio, Working, Fits, AudioFits,
       XbusFits, DramFits, FramesFit, HasYieldedAt

LEMMA AudioStarts ==
  ASSUME SchedInv, StartsAudio, pc' = "wait", UNCHANGED << swapPending, busy >>
  PROVE  Working' = Working /\ Fits'
<1> DEFINE a == Head(audioList)
           A == ToSet(audioList)
           A2 == ToSet(audioList')
           L == ToSet(gfxList)
<1>1. /\ audioList \in Seq(Tasks) /\ IsInjective(audioList) /\ audioList # <<>>
      /\ state \in [Tasks -> SUBSET Bits]
      /\ curRSPTask = NoTask /\ curRSPTask' = a /\ yielded' = FALSE /\ yieldReq' = FALSE
      /\ doAudio' = FALSE /\ audioList' = Tail(audioList)
      /\ UNCHANGED << gfxList, curRDPTask, swapPending, busy >>
  BY DEF SchedInv, SchedTypeOK, Placed, StartsAudio, RunsRSP, KeepsRDP, AudioFits
<1>2. a \in Tasks /\ A = {a} \cup A2 /\ a \notin A2
  BY <1>1, TailLoses
<1>3. \A t \in Tasks :
           /\ "SP" \in state'[t] <=> "SP" \in state[t]
           /\ "DP" \in state'[t] <=> "DP" \in state[t]
           /\ "YIELDED" \in state'[t] <=> "YIELDED" \in state[t] /\ t # a
           /\ state[t] = {"SP"} => state'[t] = {"SP"}
  <2>1. RunsRSP(a)
    BY DEF StartsAudio
  <2> QED BY <1>1, <1>2, <2>1, RunsBits
<1>4. a # NoTask /\ IsAudio(a) /\ a \in Working
  BY <1>2, SchedAssumption DEF SchedInv, AudioFits, Working
<1>5. L' = L /\ Working = A \cup L \cup ({NoTask, curRDPTask} \ {NoTask})
      /\ Working' = A2 \cup L \cup ({a, curRDPTask} \ {NoTask})
  BY <1>1 DEF Working
<1> HIDE DEF a, A, A2, L
<1>6. Working' = Working
  BY <1>2, <1>4, <1>5
<1>7. \A t \in Working : t \in Tasks
  BY DEF SchedInv, Placed, SchedTypeOK
<1>8. Kind[a] = "AUDIO"
  BY <1>4 DEF IsAudio
<1>9. AudioFits'
  <2>1. AudioFits
    BY DEF SchedInv
  <2>2. \A t \in A2 : IsAudio(t) /\ t # a
    BY <1>2, <2>1 DEF AudioFits, A
  <2>3. \A t \in Working : IsAudio(t) => state'[t] = {"SP"}
    BY <1>3, <1>7, <2>1 DEF AudioFits
  <2>4. A2 = ToSet(audioList)'
    BY DEF A2
  <2>5. \A t \in ToSet(gfxList') \cup {curRDPTask'} : t # NoTask => IsGfx(t)
    BY <1>1, <2>1 DEF AudioFits
  <2>6. \A t, u \in busy' : IsAudio(t) => Kind[u] # "DRAM"
    BY <1>1, <2>1 DEF AudioFits
  <2> QED BY <1>1, <1>6, <2>2, <2>3, <2>4, <2>5, <2>6 DEF AudioFits
<1>10. XbusFits'
  <2>1. XbusFits
    BY DEF SchedInv
  <2> SUFFICES ASSUME NEW t \in Working, Kind[t] = "XBUS"
               PROVE  LET listed == t \in L
                          fresh  == listed /\ "YIELDED" \notin state'[t]
                      IN /\ "SP" \in state'[t] <=> listed
                         /\ "DP" \in state'[t] <=> fresh \/ curRDPTask = t
                         /\ fresh => curRDPTask # t
                         /\ listed /\ ~fresh => /\ t = Head(gfxList) /\ ~swapPending
                                                /\ curRDPTask \in {t, NoTask}
    BY <1>1, <1>4, <1>6, <1>8 DEF XbusFits, HasYieldedAt, L
  <2>2. t \in Tasks /\ t # NoTask /\ t # a
    BY <1>7, <1>8, SchedAssumption
  <2>3. /\ "SP" \in state'[t] <=> "SP" \in state[t]
        /\ "DP" \in state'[t] <=> "DP" \in state[t]
        /\ "YIELDED" \in state'[t] <=> "YIELDED" \in state[t]
    BY <1>3, <2>2
  <2>4. /\ "SP" \in state[t] <=> t \in L
        /\ "DP" \in state[t] <=> (t \in L /\ "YIELDED" \notin state[t]) \/ curRDPTask = t
        /\ t \in L /\ "YIELDED" \notin state[t] => curRDPTask # t
        /\ t \in L /\ "YIELDED" \in state[t] =>
             t = Head(gfxList) /\ ~swapPending /\ curRDPTask \in {t, NoTask}
    BY <1>1, <2>1, <2>2 DEF XbusFits, HasYieldedAt, L
  <2> QED BY <2>3, <2>4
<1>11. DramFits'
  <2>1. DramFits
    BY DEF SchedInv
  <2>2. \A t \in Working : Kind[t] # "DRAM"
    BY <1>1, <1>4 DEF SchedInv, AudioFits, Placed
  <2> QED BY <1>6, <2>2 DEF DramFits
<1>12. FramesFit'
  BY <1>1 DEF SchedInv, FramesFit
<1> QED BY <1>6, <1>9, <1>10, <1>11, <1>12 DEF Fits

LEMMA XbusStarts ==
  ASSUME SchedInv, StartsXbus \/ ResumesXbus, pc' = "wait", UNCHANGED << swapPending, busy >>
  PROVE  Working' = Working /\ Fits'
<1> DEFINE g == Head(gfxList)
           L == ToSet(gfxList)
           L2 == ToSet(gfxList')
<1>1. /\ gfxList \in Seq(Tasks) /\ IsInjective(gfxList) /\ gfxList # <<>>
      /\ state \in [Tasks -> SUBSET Bits]
      /\ curRSPTask = NoTask /\ curRSPTask' = g /\ yielded' = FALSE /\ yieldReq' = FALSE
      /\ gfxList' = Tail(gfxList) /\ Kind[g] = "XBUS"
      /\ UNCHANGED << audioList, doAudio, swapPending, busy >>
  BY DEF SchedInv, SchedTypeOK, Placed, StartsXbus, ResumesXbus, RunsRSP, KeepsAudio
<1>2. g \in Tasks /\ L = {g} \cup L2 /\ g \notin L2
  BY <1>1, TailLoses
<1>3. \A t \in Tasks :
           /\ "SP" \in state'[t] <=> "SP" \in state[t]
           /\ "DP" \in state'[t] <=> "DP" \in state[t]
           /\ "YIELDED" \in state'[t] <=> "YIELDED" \in state[t] /\ t # g
           /\ state[t] = {"SP"} => state'[t] = {"SP"}
  <2>1. RunsRSP(g)
    BY DEF StartsXbus, ResumesXbus
  <2> QED BY <1>1, <1>2, <2>1, RunsBits
<1>4. g # NoTask /\ IsGfx(g) /\ g \in Working
  BY <1>1, <1>2, SchedAssumption DEF IsGfx, Working
<1>5. XbusFits /\ DramFits /\ AudioFits /\ FramesFit
  BY DEF SchedInv
<1>6. /\ ~swapPending
      /\ IF "YIELDED" \in state[g]
         THEN curRDPTask \in {g, NoTask} /\ curRDPTask' = curRDPTask
         ELSE curRDPTask = NoTask /\ curRDPTask' = g
  <2>1. CASE StartsXbus
    BY <2>1 DEF StartsXbus, RunsRDP
  <2>2. CASE ResumesXbus
    BY <1>1, <1>2, <1>4, <1>5, <2>2 DEF ResumesXbus, KeepsRDP, XbusFits, HasYieldedAt
  <2> QED BY <2>1, <2>2
<1>7. /\ Working = ToSet(audioList) \cup L \cup ({NoTask, curRDPTask} \ {NoTask})
      /\ Working' = ToSet(audioList) \cup L2 \cup ({g, curRDPTask'} \ {NoTask})
  BY <1>1 DEF Working
<1> HIDE DEF g, L, L2
<1>8. Working' = Working
  BY <1>2, <1>4, <1>6, <1>7
<1>9. \A t \in Working : t \in Tasks
  BY DEF SchedInv, Placed, SchedTypeOK
<1>10. AudioFits'
  <2>1. \A t \in ToSet(audioList) : IsAudio(t) /\ t # g
    BY <1>4, <1>5 DEF AudioFits, IsAudio, IsGfx
  <2>2. \A t \in Working : IsAudio(t) => state'[t] = {"SP"}
    BY <1>3, <1>5, <1>9 DEF AudioFits
  <2>3. \A t \in L2 \cup {curRDPTask'} : t # NoTask => IsGfx(t)
    BY <1>2, <1>4, <1>5, <1>6 DEF AudioFits, L
  <2> QED BY <1>1, <1>5, <1>8, <2>1, <2>2, <2>3 DEF AudioFits, L2, IsAudio, IsGfx
<1>11. XbusFits'
  <2> SUFFICES ASSUME NEW t \in Working, Kind[t] = "XBUS"
               PROVE  LET listed == t \in L2
                          fresh  == listed /\ "YIELDED" \notin state'[t]
                      IN /\ g = t => ~listed /\ curRDPTask' \in {t, NoTask} /\ ~swapPending
                         /\ "SP" \in state'[t] <=> listed \/ g = t
                         /\ "DP" \in state'[t] <=> fresh \/ curRDPTask' = t
                         /\ fresh => curRDPTask' # t
                         /\ ~(listed /\ ~fresh)
    BY <1>1, <1>8 DEF XbusFits, L2
  <2>1. /\ "SP" \in state[t] <=> t \in L \/ curRSPTask = t
        /\ "DP" \in state[t] <=> (t \in L /\ "YIELDED" \notin state[t]) \/ curRDPTask = t
        /\ t \in L /\ "YIELDED" \notin state[t] => curRDPTask # t
        /\ t \in L /\ "YIELDED" \in state[t] => t = g
    BY <1>5 DEF XbusFits, HasYieldedAt, L, g
  <2>2. t \in Tasks /\ t # NoTask
    BY <1>9, SchedAssumption
  <2>3. /\ "SP" \in state'[t] <=> "SP" \in state[t]
        /\ "DP" \in state'[t] <=> "DP" \in state[t]
        /\ "YIELDED" \in state'[t] <=> "YIELDED" \in state[t] /\ t # g
    BY <1>3, <2>2
  <2>4. CASE t = g
    BY <1>1, <1>2, <1>4, <1>6, <2>1, <2>3, <2>4
  <2>5. CASE t # g
    BY <1>1, <1>2, <1>6, <2>1, <2>2, <2>3, <2>5
  <2> QED BY <2>4, <2>5
<1>12. DramFits'
  <2> SUFFICES ASSUME NEW t \in Working, Kind[t] = "DRAM"
               PROVE  /\ "DP" \in state'[t] /\ (t \in L2 <=> curRDPTask' # t)
                      /\ curRDPTask' = t => "SP" \notin state'[t]
                      /\ g # t
                      /\ t \in L2 => "SP" \in state'[t]
    BY <1>1, <1>8 DEF DramFits, L2
  <2>1. /\ "DP" \in state[t] /\ (t \in L <=> curRDPTask # t)
        /\ curRDPTask = t => "SP" \notin state[t]
        /\ t \in L /\ "SP" \notin state[t] => t = g
    BY <1>5 DEF DramFits, L, g
  <2>2. t \in Tasks /\ t # NoTask /\ t # g
    BY <1>1, <1>9, SchedAssumption
  <2>3. /\ "SP" \in state'[t] <=> "SP" \in state[t]
        /\ "DP" \in state'[t] <=> "DP" \in state[t]
    BY <1>3, <2>2
  <2> QED BY <1>2, <1>6, <2>1, <2>2, <2>3
<1>13. FramesFit'
  BY <1>1, <1>6 DEF FramesFit
<1> QED BY <1>8, <1>10, <1>11, <1>12, <1>13 DEF Fits

LEMMA DramStarts ==
  ASSUME SchedInv, StartsDram, pc' = "wait", UNCHANGED << swapPending, busy >>
  PROVE  Working' = Working /\ Fits'
<1> DEFINE g == Head(gfxList)
           L == ToSet(gfxList)
<1>1. /\ gfxList \in Seq(Tasks) /\ gfxList # <<>>
      /\ state \in [Tasks -> SUBSET Bits]
      /\ curRSPTask = NoTask /\ curRSPTask' = g /\ yielded' = FALSE /\ yieldReq' = FALSE
      /\ Kind[g] = "DRAM" /\ "SP" \in state[g]
      /\ UNCHANGED << audioList, doAudio, gfxList, curRDPTask, swapPending, busy >>
  BY DEF SchedInv, SchedTypeOK, Placed, StartsDram, RunsRSP, KeepsAudio, KeepsRDP
<1>2. g \in Tasks /\ g \in L
  BY <1>1, HeadListed
<1>3. \A t \in Tasks :
           /\ "SP" \in state'[t] <=> "SP" \in state[t]
           /\ "DP" \in state'[t] <=> "DP" \in state[t]
           /\ "YIELDED" \in state'[t] <=> "YIELDED" \in state[t] /\ t # g
           /\ state[t] = {"SP"} => state'[t] = {"SP"}
  <2>1. RunsRSP(g)
    BY DEF StartsDram
  <2> QED BY <1>1, <1>2, <2>1, RunsBits
<1>4. g # NoTask /\ IsGfx(g) /\ g \in Working
  BY <1>1, <1>2, SchedAssumption DEF IsGfx, Working
<1>5. XbusFits /\ DramFits /\ AudioFits /\ FramesFit
  BY DEF SchedInv
<1>6. Working' = Working
  BY <1>1, <1>2, <1>4 DEF Working
<1>7. \A t \in Working : t \in Tasks
  BY DEF SchedInv, Placed, SchedTypeOK
<1> HIDE DEF g, L
<1>8. AudioFits'
  BY <1>1, <1>2, <1>3, <1>4, <1>5, <1>6, <1>7 DEF AudioFits, L, IsGfx, IsAudio
<1>9. XbusFits'
  <2> SUFFICES ASSUME NEW t \in Working, Kind[t] = "XBUS"
               PROVE  LET listed == t \in L
                          fresh  == listed /\ "YIELDED" \notin state'[t]
                      IN /\ g # t
                         /\ "SP" \in state'[t] <=> listed
                         /\ "DP" \in state'[t] <=> fresh \/ curRDPTask = t
                         /\ fresh => curRDPTask # t
                         /\ ~(listed /\ ~fresh)
    BY <1>1, <1>6 DEF XbusFits, L
  <2>1. /\ "SP" \in state[t] <=> t \in L \/ curRSPTask = t
        /\ "DP" \in state[t] <=> (t \in L /\ "YIELDED" \notin state[t]) \/ curRDPTask = t
        /\ t \in L /\ "YIELDED" \notin state[t] => curRDPTask # t
        /\ t \in L /\ "YIELDED" \in state[t] => t = g
    BY <1>5 DEF XbusFits, HasYieldedAt, L, g
  <2>2. t \in Tasks /\ t # NoTask /\ t # g
    BY <1>1, <1>7, SchedAssumption
  <2>3. /\ "SP" \in state'[t] <=> "SP" \in state[t]
        /\ "DP" \in state'[t] <=> "DP" \in state[t]
        /\ "YIELDED" \in state'[t] <=> "YIELDED" \in state[t]
    BY <1>3, <2>2
  <2> QED BY <1>1, <2>1, <2>2, <2>3
<1>10. DramFits'
  <2> SUFFICES ASSUME NEW t \in Working, Kind[t] = "DRAM"
               PROVE  /\ "DP" \in state'[t] /\ (t \in L <=> curRDPTask # t)
                      /\ curRDPTask = t => "SP" \notin state'[t]
                      /\ g = t => "SP" \in state'[t]
                      /\ t \in L => "SP" \in state'[t]
    BY <1>1, <1>6 DEF DramFits, L, g
  <2>1. /\ "DP" \in state[t] /\ (t \in L <=> curRDPTask # t)
        /\ curRDPTask = t => "SP" \notin state[t]
        /\ t \in L /\ "SP" \notin state[t] => t = g
    BY <1>5 DEF DramFits, L, g
  <2> QED BY <1>1, <1>2, <1>3, <1>4, <1>7, <2>1
<1>11. FramesFit'
  BY <1>1, <1>5 DEF FramesFit
<1> QED BY <1>6, <1>8, <1>9, <1>10, <1>11 DEF Fits


LEMMA DramDraws ==
  ASSUME SchedInv, DrawsDram, pc' = "wait", UNCHANGED << swapPending, busy >>
  PROVE  Working' = Working /\ Fits'
<1> DEFINE g == Head(gfxList)
           L == ToSet(gfxList)
           L2 == ToSet(gfxList')
<1>1. /\ gfxList \in Seq(Tasks) /\ IsInjective(gfxList) /\ gfxList # <<>>
      /\ state \in [Tasks -> SUBSET Bits]
      /\ curRSPTask = NoTask /\ curRDPTask = NoTask /\ curRDPTask' = g
      /\ gfxList' = Tail(gfxList) /\ Kind[g] = "DRAM" /\ "SP" \notin state[g] /\ ~swapPending
      /\ UNCHANGED << audioList, doAudio, swapPending, busy >>
  BY DEF SchedInv, SchedTypeOK, Placed, DrawsDram, RunsRDP, KeepsAudio
<1>2. g \in Tasks /\ L = {g} \cup L2 /\ g \notin L2 /\ Tail(gfxList) \in Seq(Tasks)
  BY <1>1, TailLoses
<1>3. g # NoTask /\ IsGfx(g) /\ g \in Working /\ ~doAudio
  BY <1>1, <1>2, HeadFits, SchedAssumption DEF IsGfx
<1>4. XbusFits /\ DramFits /\ AudioFits /\ FramesFit
  BY DEF SchedInv
<1>5. ~yieldReq /\ ~yielded
  BY <1>3, <1>4 DEF AudioFits
<1>6. /\ ~yieldReq' /\ ~yielded'
      /\ \/ state' = state /\ curRSPTask' = NoTask
         \/ /\ gfxList' # <<>> /\ RunsRSP(Next2)
            /\ curRSPTask' = Next2 /\ Kind[Next2] = "DRAM" /\ "SP" \in state[Next2]
  BY <1>1, <1>5 DEF DrawsDram, KeepsRSP, RunsRSP
<1>7. /\ \A t \in Tasks :
           /\ "SP" \in state'[t] <=> "SP" \in state[t]
           /\ "DP" \in state'[t] <=> "DP" \in state[t]
           /\ "YIELDED" \in state'[t] => "YIELDED" \in state[t]
           /\ state[t] = {"SP"} => state'[t] = {"SP"}
      /\ curRSPTask' # NoTask =>
           /\ gfxList' # <<>> /\ curRSPTask' \in L2 /\ curRSPTask' = Head(gfxList')
           /\ Kind[curRSPTask'] = "DRAM" /\ "SP" \in state[curRSPTask']
  <2>1. CASE state' = state /\ curRSPTask' = NoTask
    BY <2>1
  <2>2. CASE /\ gfxList' # <<>> /\ RunsRSP(Next2)
             /\ curRSPTask' = Next2 /\ Kind[Next2] = "DRAM" /\ "SP" \in state[Next2]
    <3>1. Next2 = Head(gfxList') /\ Next2 \in L2
      BY <1>1, <1>2, <2>2, HeadListed DEF Next2
    <3>2. Next2 \in Tasks
      BY <1>1, <1>2, <2>2 DEF Next2
    <3> QED BY <1>1, <2>2, <3>1, <3>2, RunsBits
  <2> QED BY <1>6, <2>1, <2>2
<1>8. /\ Working = ToSet(audioList) \cup L
      /\ Working' = ToSet(audioList) \cup L2 \cup ({curRSPTask', g} \ {NoTask})
  BY <1>1 DEF Working
<1> HIDE DEF g, L, L2
<1>9. Working' = Working
  BY <1>2, <1>3, <1>7, <1>8
<1>10. \A t \in Working : t \in Tasks
  BY DEF SchedInv, Placed, SchedTypeOK
<1>11. AudioFits'
  <2>1. \A t \in ToSet(audioList) : IsAudio(t) /\ t # curRSPTask'
    BY <1>4, <1>7, SchedAssumption, <1>10, <1>8 DEF AudioFits, IsAudio
  <2>2. \A t \in Working : IsAudio(t) => state'[t] = {"SP"}
    BY <1>4, <1>7, <1>10 DEF AudioFits
  <2>3. \A t \in L2 \cup {curRDPTask'} : t # NoTask => IsGfx(t)
    BY <1>1, <1>2, <1>3, <1>4 DEF AudioFits, L
  <2> QED BY <1>1, <1>4, <1>6, <1>9, <2>1, <2>2, <2>3 DEF AudioFits, L2, IsAudio, IsGfx
<1>12. XbusFits'
  <2> SUFFICES ASSUME NEW t \in Working, Kind[t] = "XBUS"
               PROVE  /\ curRSPTask' # t
                      /\ "SP" \in state'[t] <=> t \in L2
                      /\ "DP" \in state'[t] <=> t \in L2
                      /\ t \in L2 => "YIELDED" \notin state'[t]
                      /\ g # t
    BY <1>1, <1>9 DEF XbusFits, L2
  <2>1. t \in Tasks /\ t # NoTask /\ t # g
    BY <1>1, <1>10, SchedAssumption
  <2>2. /\ "SP" \in state[t] <=> t \in L
        /\ "DP" \in state[t] <=> t \in L /\ "YIELDED" \notin state[t]
        /\ t \in L /\ "YIELDED" \in state[t] => t = g
    BY <1>1, <1>4, <2>1 DEF XbusFits, HasYieldedAt, L, g
  <2> QED BY <1>2, <1>7, <2>1, <2>2
<1>13. DramFits'
  <2> SUFFICES ASSUME NEW t \in Working, Kind[t] = "DRAM"
               PROVE  /\ "DP" \in state'[t] /\ (t \in L2 <=> g # t)
                      /\ g = t => "SP" \notin state'[t]
                      /\ curRSPTask' = t => t = Head(gfxList') /\ "SP" \in state'[t]
                      /\ t \in L2 => "SP" \in state'[t]
    BY <1>1, <1>9 DEF DramFits, L2
  <2>1. t \in Tasks /\ t # NoTask
    BY <1>10, SchedAssumption
  <2>2. /\ "DP" \in state[t] /\ t \in L
        /\ t \in L /\ "SP" \notin state[t] => t = g
    BY <1>1, <1>4, <2>1 DEF DramFits, L, g
  <2> QED BY <1>1, <1>2, <1>7, <2>1, <2>2
<1>14. FramesFit'
  BY <1>1 DEF FramesFit
<1> QED BY <1>9, <1>11, <1>12, <1>13, <1>14 DEF Fits

(* A dispatch keeps the books; it moves no task to another stage of its way. *)
LEMMA DispatchFits ==
  ASSUME SchedInv, ListsAreSent, Dispatch, UNCHANGED << swapPending, busy >>
  PROVE  Working' = Working /\ Fits' /\ halted' = FALSE
<1>1. Starts /\ halted' = FALSE /\ pc' = "wait"
  BY PlanFits DEF Dispatch
<1> QED BY <1>1, NothingFits, AudioStarts, XbusStarts, DramStarts, DramDraws DEF Starts


------------------------------------------------------------------------------
(* The books through the other parts of the handlers *)

LEMMA Counted ==
  ASSUME SchedTypeOK, NEW m, interruptQ # <<>>, Head(interruptQ) = m
  PROVE  Occurrences(m) \in Nat /\ Occurrences(m) # 0
<1>1. interruptQ \in Seq(Interrupts)
  BY DEF SchedTypeOK
<1>2. Occurrences(m) = Cardinality(Places(interruptQ, m))
  BY DEF Occurrences, Places
<1>3. 1 \in Places(interruptQ, m)
  BY <1>1 DEF Places
<1>4. IsFiniteSet(Places(interruptQ, m)) /\ Cardinality(Places(interruptQ, m)) \in Nat
  BY <1>1, PlacesFinite
<1> QED BY <1>2, <1>3, <1>4, FS_EmptySet

(* The end of a task finds the task. *)
LEMMA EndsOfCurrent ==
  ASSUME SchedInv
  PROVE  /\ Takes("RSP") => curRSPTask # NoTask /\ rsp = NoTask
         /\ Takes("RDP") => curRDPTask # NoTask /\ rdp = NoTask
<1>1. SchedTypeOK /\ Tracks
  BY DEF SchedInv
<1>2. ASSUME Takes("RSP") PROVE curRSPTask # NoTask /\ rsp = NoTask
  <2>1. Occurrences("RSP") # 0
    BY <1>1, <1>2, Counted DEF Takes
  <2> QED BY <1>1, <2>1 DEF Tracks
<1>3. ASSUME Takes("RDP") PROVE curRDPTask # NoTask /\ rdp = NoTask
  <2>1. Occurrences("RDP") # 0
    BY <1>1, <1>3, Counted DEF Takes
  <2> QED BY <1>1, <2>1 DEF Tracks
<1> QED BY <1>2, <1>3

LEMMA AppendFits ==
  ASSUME SchedInv, AppendList
  PROVE  /\ Working' = Working \cup {Head(cmdQ)} /\ Head(cmdQ) \notin Working
         /\ Head(cmdQ) \in Tasks /\ Fits'
<1> DEFINE n == Head(cmdQ)
           A == ToSet(audioList)
           L == ToSet(gfxList)
           A2 == ToSet(audioList')
           L2 == ToSet(gfxList')
<1>1. /\ cmdQ \in Seq(Tasks) /\ cmdQ # <<>>
      /\ audioList \in Seq(Tasks) /\ gfxList \in Seq(Tasks)
      /\ state \in [Tasks -> SUBSET Bits] /\ state' = [state EXCEPT ![n] = Needs(n)]
      /\ pc' = "fetch"
      /\ UNCHANGED << curRSPTask, curRDPTask, yieldReq, yielded, swapPending, busy >>
  BY DEF SchedInv, SchedTypeOK, AppendList, clientVars, hwVars
<1>2. n \in Tasks /\ n \in ToSet(cmdQ)
  BY <1>1, HeadListed
<1>3. n \notin Working /\ n \in busy
  BY <1>2 DEF SchedInv, Placed
<1>4. n \notin A /\ n \notin L /\ n # curRSPTask /\ n # curRDPTask /\ n # NoTask
  BY <1>2, <1>3, SchedAssumption DEF Working
<1>5. IF IsAudio(n)
      THEN A2 = A \cup {n} /\ audioList' # <<>> /\ doAudio' = TRUE /\ gfxList' = gfxList
      ELSE /\ L2 = L \cup {n} /\ Head(gfxList') = (IF gfxList = <<>> THEN n ELSE Head(gfxList))
           /\ audioList' = audioList /\ doAudio' = doAudio
  <2>1. CASE IsAudio(n)
    <3>1. audioList' = Append(audioList, n) /\ doAudio' = TRUE /\ gfxList' = gfxList
      BY <1>4, <2>1 DEF AppendList, Linked
    <3> QED BY <1>1, <1>2, <2>1, <3>1, AppendGains
  <2>2. CASE ~IsAudio(n)
    <3>1. gfxList' = Append(gfxList, n) /\ audioList' = audioList /\ doAudio' = doAudio
      BY <1>4, <2>2 DEF AppendList, Linked
    <3> QED BY <1>1, <1>2, <2>2, <3>1, AppendGains
  <2> QED BY <2>1, <2>2
<1>6. \A t \in Tasks : t # n => state'[t] = state[t]
  BY <1>1
<1>7. state'[n] = Needs(n)
  BY <1>1, <1>2
<1>8. XbusFits /\ DramFits /\ AudioFits /\ FramesFit
  BY DEF SchedInv
<1>9. L # {} => gfxList # <<>>
  BY <1>1 DEF ToSet
<1>10. /\ Working = A \cup L \cup ({curRSPTask, curRDPTask} \ {NoTask})
       /\ Working' = A2 \cup L2 \cup ({curRSPTask, curRDPTask} \ {NoTask})
  BY <1>1 DEF Working
<1>11. \A t \in Working : t \in Tasks /\ t # NoTask /\ t # n
  BY <1>3, WorkingTasks
<1>12. audioList' = audioList => A2 = A
  OBVIOUS
<1>13. gfxList' = gfxList => L2 = L
  OBVIOUS
<1> HIDE DEF n, A, L, A2, L2
<1>14. Working' = Working \cup {n}
  BY <1>5, <1>10, <1>12, <1>13
<1>15. AudioFits'
  <2>1. \A t \in A2 : IsAudio(t) /\ t # curRSPTask
    BY <1>4, <1>5, <1>8, <1>12 DEF AudioFits, A
  <2>2. \A t \in Working' : IsAudio(t) => state'[t] = {"SP"}
    <3>1. IsAudio(n) => Needs(n) = {"SP"}
      BY DEF Needs, IsAudio
    <3> QED BY <1>6, <1>7, <1>8, <1>11, <1>14, <3>1 DEF AudioFits
  <2>3. \A t \in L2 \cup {curRDPTask} : t # NoTask => IsGfx(t)
    BY <1>5, <1>8, <1>13 DEF AudioFits, L, IsGfx, IsAudio
  <2>4. doAudio' => audioList' # <<>>
    BY <1>5, <1>8 DEF AudioFits
  <2>5. (yielded' => yieldReq') /\ (yieldReq' => doAudio')
    BY <1>1, <1>5, <1>8 DEF AudioFits
  <2> QED BY <1>1, <1>8, <2>1, <2>2, <2>3, <2>4, <2>5 DEF AudioFits, A2, L2, IsAudio, IsGfx
<1>16. XbusFits'
  <2> SUFFICES ASSUME NEW t \in Working', Kind[t] = "XBUS"
               PROVE  LET listed == t \in L2
                          fresh  == listed /\ "YIELDED" \notin state'[t]
                      IN /\ curRSPTask = t => ~listed /\ curRDPTask \in {t, NoTask} /\ ~swapPending
                         /\ "SP" \in state'[t] <=> listed \/ curRSPTask = t
                         /\ "DP" \in state'[t] <=> fresh \/ curRDPTask = t
                         /\ fresh => curRDPTask # t
                         /\ listed /\ ~fresh => HasYieldedAt(t)'
    BY <1>1 DEF XbusFits, L2
  <2>1. CASE t = n
    <3>1. t \in L2 /\ state'[t] = {"SP", "DP"}
      BY <1>5, <1>7, <2>1 DEF Needs, IsAudio
    <3> QED BY <1>4, <2>1, <3>1
  <2>2. CASE t # n
    <3>1. t \in Working /\ state'[t] = state[t] /\ (t \in L2 <=> t \in L)
      BY <1>5, <1>6, <1>11, <1>13, <1>14, <2>2
    <3>2. /\ curRSPTask = t => t \notin L /\ curRDPTask \in {t, NoTask} /\ ~swapPending
          /\ "SP" \in state[t] <=> t \in L \/ curRSPTask = t
          /\ "DP" \in state[t] <=> (t \in L /\ "YIELDED" \notin state[t]) \/ curRDPTask = t
          /\ t \in L /\ "YIELDED" \notin state[t] => curRDPTask # t
          /\ t \in L /\ "YIELDED" \in state[t] => HasYieldedAt(t)
      BY <1>8, <3>1 DEF XbusFits, L
    <3>3. t \in L => Head(gfxList') = Head(gfxList)
      BY <1>5, <1>9 DEF L
    <3>4. t \in L /\ HasYieldedAt(t) => HasYieldedAt(t)'
      BY <1>1, <3>3 DEF HasYieldedAt, IsAudio
    <3> QED BY <3>1, <3>2, <3>4
  <2> QED BY <2>1, <2>2
<1>17. DramFits'
  <2> SUFFICES ASSUME NEW t \in Working', Kind[t] = "DRAM"
               PROVE  /\ "DP" \in state'[t] /\ (t \in L2 <=> curRDPTask # t)
                      /\ curRDPTask = t => "SP" \notin state'[t]
                      /\ curRSPTask = t => t = Head(gfxList') /\ "SP" \in state'[t]
                      /\ t \in L2 /\ "SP" \notin state'[t]
                           => t = Head(gfxList') /\ curRSPTask = NoTask
    BY <1>1 DEF DramFits, L2
  <2>1. CASE t = n
    <3>1. t \in L2 /\ state'[t] = {"SP", "DP"}
      BY <1>5, <1>7, <2>1 DEF Needs, IsAudio
    <3> QED BY <1>4, <2>1, <3>1
  <2>2. CASE t # n
    <3>1. t \in Working /\ state'[t] = state[t] /\ (t \in L2 <=> t \in L)
      BY <1>5, <1>6, <1>11, <1>13, <1>14, <2>2
    <3>2. /\ "DP" \in state[t] /\ (t \in L <=> curRDPTask # t)
          /\ curRDPTask = t => "SP" \notin state[t]
          /\ curRSPTask = t => t = Head(gfxList) /\ "SP" \in state[t]
          /\ t \in L /\ "SP" \notin state[t] => t = Head(gfxList) /\ curRSPTask = NoTask
      BY <1>8, <3>1 DEF DramFits, L
    <3>3. t \in L => Head(gfxList') = Head(gfxList)
      BY <1>5, <1>9 DEF L
    <3> QED BY <3>1, <3>2, <3>3
  <2> QED BY <2>1, <2>2
<1>18. FramesFit'
  BY <1>1, <1>8 DEF FramesFit
<1> QED BY <1>2, <1>3, <1>14, <1>15, <1>16, <1>17, <1>18 DEF Fits, n

LEMMA YieldFits ==
  ASSUME SchedInv, doAudio, curRSPTask # NoTask, Yield, UNCHANGED << swapPending, busy >>
  PROVE  Working' = Working /\ Fits'
<1> DEFINE r == curRSPTask
<1>1. /\ state \in [Tasks -> SUBSET Bits] /\ r \in Tasks
      /\ UNCHANGED << audioList, gfxList, doAudio, curRSPTask, curRDPTask, yielded, swapPending, busy >>
      /\ pc' = "wait"
  BY DEF SchedInv, SchedTypeOK, Yield
<1>2. Working' = Working
  BY <1>1 DEF Working
<1>3. /\ \A t \in Tasks :
           /\ "SP" \in state'[t] <=> "SP" \in state[t]
           /\ "DP" \in state'[t] <=> "DP" \in state[t]
           /\ "YIELDED" \in state'[t] <=> "YIELDED" \in state[t]
           /\ IsAudio(t) => state'[t] = state[t]
      /\ yieldReq => yieldReq'
  BY <1>1 DEF Yield, IsAudio, IsGfx
<1>4. XbusFits /\ DramFits /\ AudioFits /\ FramesFit
  BY DEF SchedInv
<1>5. \A t \in Working : t \in Tasks
  BY WorkingTasks
<1>6. AudioFits'
  <2>1. \A t \in Working : IsAudio(t) => state'[t] = {"SP"}
    BY <1>3, <1>4, <1>5 DEF AudioFits
  <2>2. (yielded' => yieldReq') /\ (yieldReq' => doAudio')
    BY <1>1, <1>3, <1>4 DEF AudioFits
  <2> QED BY <1>1, <1>2, <1>4, <2>1, <2>2 DEF AudioFits, IsAudio, IsGfx
<1>7. XbusFits'
  <2> SUFFICES ASSUME NEW t \in Working, Kind[t] = "XBUS"
               PROVE  LET listed == t \in ToSet(gfxList)
                          fresh  == listed /\ "YIELDED" \notin state'[t]
                      IN /\ curRSPTask = t => ~listed /\ curRDPTask \in {t, NoTask} /\ ~swapPending
                         /\ "SP" \in state'[t] <=> listed \/ curRSPTask = t
                         /\ "DP" \in state'[t] <=> fresh \/ curRDPTask = t
                         /\ fresh => curRDPTask # t
                         /\ listed /\ ~fresh => HasYieldedAt(t)
    BY <1>1, <1>2 DEF XbusFits, HasYieldedAt, IsAudio
  <2> QED BY <1>3, <1>4, <1>5 DEF XbusFits
<1>8. DramFits'
  BY <1>1, <1>2, NoDramNow, WorkingTasks DEF DramFits
<1>9. FramesFit'
  BY <1>1, <1>4 DEF FramesFit
<1> QED BY <1>2, <1>6, <1>7, <1>8, <1>9 DEF Fits


LEMMA RSPYields ==
  ASSUME SchedInv, curRSPTask # NoTask, HasYielded(curRSPTask), StoppedRSP(curRSPTask),
         UNCHANGED << audioList, doAudio, yieldReq, yielded, swapPending, busy >>
  PROVE  /\ Working' = Working /\ Fits'
         /\ gfxList' = <<curRSPTask>> \o gfxList /\ curRSPTask \notin ToSet(gfxList)
<1> DEFINE r == curRSPTask
           L == ToSet(gfxList)
           L2 == ToSet(gfxList')
<1>1. /\ state \in [Tasks -> SUBSET Bits] /\ r \in Tasks /\ gfxList \in Seq(Tasks)
      /\ state' = [state EXCEPT ![r] = @ \cup {"YIELDED"}]
      /\ gfxList' = PushBack(r) /\ pc' = "schedule"
      /\ curRSPTask' = NoTask /\ curRDPTask' = curRDPTask
      /\ "YIELD" \in state[r] /\ yielded
  BY DEF SchedInv, SchedTypeOK, StoppedRSP, HasYielded
<1>2. XbusFits /\ DramFits /\ AudioFits /\ FramesFit
  BY DEF SchedInv
<1>3. doAudio /\ r \in Working
  BY <1>1, <1>2, SchedAssumption DEF AudioFits, Working
<1>4. \A t \in Working : t \in Tasks /\ t # NoTask /\ Kind[t] # "DRAM"
  BY <1>3, NoDramNow, WorkingTasks
<1>5. Kind[r] = "XBUS"
  <2>1. ~IsAudio(r)
    BY <1>1, <1>2, <1>3 DEF AudioFits
  <2> QED BY <1>1, <1>3, <1>4, <2>1, Kinds DEF IsAudio
<1>6. r \notin L /\ curRDPTask \in {r, NoTask} /\ ~swapPending
      /\ "SP" \in state[r] /\ ("DP" \in state[r] <=> curRDPTask = r)
  BY <1>2, <1>3, <1>5 DEF XbusFits
<1>7. gfxList' = <<r>> \o gfxList /\ L2 = L \cup {r} /\ Head(gfxList') = r
  <2>1. gfxList' = <<r>> \o gfxList
    BY <1>1, <1>5 DEF PushBack
  <2> QED BY <1>1, <2>1, PushGains
<1>8. /\ \A t \in Tasks : t # r => state'[t] = state[t]
      /\ state'[r] = state[r] \cup {"YIELDED"}
  BY <1>1
<1>9. /\ Working = ToSet(audioList) \cup L \cup ({r, curRDPTask} \ {NoTask})
      /\ Working' = ToSet(audioList) \cup L2 \cup ({NoTask, curRDPTask} \ {NoTask})
  BY <1>1 DEF Working
<1> HIDE DEF L, L2
<1>10. Working' = Working
  BY <1>3, <1>4, <1>7, <1>9
<1>11. AudioFits'
  <2>1. \A t \in ToSet(audioList) : IsAudio(t) /\ t # NoTask
    BY <1>2, <1>4 DEF AudioFits, Working
  <2>2. \A t \in Working : IsAudio(t) => state'[t] = {"SP"}
    BY <1>2, <1>4, <1>5, <1>8 DEF AudioFits, IsAudio
  <2>3. \A t \in L2 \cup {curRDPTask} : t # NoTask => IsGfx(t)
    BY <1>2, <1>5, <1>7 DEF AudioFits, L, IsGfx
  <2> QED BY <1>1, <1>2, <1>10, <2>1, <2>2, <2>3 DEF AudioFits, L2, IsAudio, IsGfx
<1>12. XbusFits'
  <2> SUFFICES ASSUME NEW t \in Working, Kind[t] = "XBUS"
               PROVE  LET listed == t \in L2
                          fresh  == listed /\ "YIELDED" \notin state'[t]
                      IN /\ "SP" \in state'[t] <=> listed
                         /\ "DP" \in state'[t] <=> fresh \/ curRDPTask = t
                         /\ fresh => curRDPTask # t
                         /\ listed /\ ~fresh => t = r
    <3>1. \A t \in Working : t # NoTask
      BY <1>4
    <3> QED BY <1>1, <1>6, <1>7, <1>10, <3>1 DEF XbusFits, HasYieldedAt, L2
  <2>1. CASE t = r
    BY <1>6, <1>7, <1>8, <2>1
  <2>2. CASE t # r
    <3>1. /\ "SP" \in state[t] <=> t \in L
          /\ "DP" \in state[t] <=> (t \in L /\ "YIELDED" \notin state[t]) \/ curRDPTask = t
          /\ t \in L /\ "YIELDED" \notin state[t] => curRDPTask # t
          /\ t \in L => "YIELDED" \notin state[t]
      BY <1>1, <1>2, <1>5, <2>2, SchedAssumption DEF XbusFits, HasYieldedAt, L, IsAudio
    <3> QED BY <1>4, <1>7, <1>8, <2>2, <3>1
  <2> QED BY <2>1, <2>2
<1>13. DramFits'
  BY <1>4, <1>10 DEF DramFits
<1>14. FramesFit'
  BY <1>1, <1>2 DEF FramesFit
<1> QED BY <1>6, <1>7, <1>10, <1>11, <1>12, <1>13, <1>14 DEF Fits, L

(* What is true of the task whose part ended: it is done, or somewhere else. *)
LEMMA RSPEnds ==
  ASSUME SchedInv, curRSPTask # NoTask, ~HasYielded(curRSPTask), StoppedRSP(curRSPTask),
         UNCHANGED << audioList, doAudio, yieldReq, yielded, swapPending, busy >>
  PROVE  /\ Fits' /\ gfxList' = gfxList
         /\ \/ pc' = "schedule" /\ ending' = NoTask /\ Working' = Working
            \/ pc' = "send" /\ ending' = curRSPTask /\ Working' = Working \ {curRSPTask}
<1> DEFINE r == curRSPTask
           L == ToSet(gfxList)
           done == "DP" \notin state[r]
<1>1. /\ state \in [Tasks -> SUBSET Bits] /\ r \in Tasks
      /\ state' = [state EXCEPT ![r] = @ \ {"SP"}]
      /\ Completes(r, state[r] \ {"SP"})
      /\ curRSPTask' = NoTask /\ curRDPTask' = curRDPTask /\ gfxList' = gfxList
  BY DEF SchedInv, SchedTypeOK, StoppedRSP
<1>2. XbusFits /\ DramFits /\ AudioFits /\ FramesFit
  BY DEF SchedInv
<1>3. r \in Working
  BY <1>1, SchedAssumption DEF Working
<1>4. \A t \in Working : t \in Tasks /\ t # NoTask
  BY WorkingTasks
<1>5. IF done THEN pc' = "send" /\ ending' = r ELSE pc' = "schedule" /\ ending' = NoTask
  BY <1>1 DEF Completes
<1>6. /\ \A t \in Tasks : t # r => state'[t] = state[t]
      /\ state'[r] = state[r] \ {"SP"}
  BY <1>1
<1>7. /\ Working = ToSet(audioList) \cup L \cup ({r, curRDPTask} \ {NoTask})
      /\ Working' = ToSet(audioList) \cup L \cup ({NoTask, curRDPTask} \ {NoTask})
  BY <1>1 DEF Working
<1>8. Kind[r] \in {"AUDIO", "XBUS", "DRAM"}
  BY <1>1, Kinds
<1>9. /\ done <=> r \notin ToSet(audioList) \cup L /\ curRDPTask # r
      /\ r \notin ToSet(audioList)
  <2>1. CASE Kind[r] = "AUDIO"
    BY <1>2, <1>3, <1>4, <2>1 DEF AudioFits, IsAudio, IsGfx
  <2>2. CASE Kind[r] = "XBUS"
    BY <1>2, <1>3, <2>2 DEF AudioFits, XbusFits, IsAudio
  <2>3. CASE Kind[r] = "DRAM"
    BY <1>2, <1>3, <2>3 DEF AudioFits, DramFits, IsAudio
  <2> QED BY <1>8, <2>1, <2>2, <2>3
<1> HIDE DEF L, done
<1>10. Working' = IF done THEN Working \ {r} ELSE Working
  BY <1>3, <1>4, <1>7, <1>9
<1>11. AudioFits'
  <2>1. \A t \in ToSet(audioList) : IsAudio(t) /\ t # NoTask
    BY <1>2, <1>4, <1>7 DEF AudioFits
  <2>2. \A t \in Working' : IsAudio(t) => state'[t] = {"SP"}
    <3> SUFFICES ASSUME NEW t \in Working', IsAudio(t) PROVE state'[t] = {"SP"}
      OBVIOUS
    <3>1. CASE t # r
      BY <1>2, <1>4, <1>6, <1>10, <3>1 DEF AudioFits
    <3>2. CASE t = r
      BY <1>2, <1>3, <1>10, <3>2 DEF AudioFits, done
    <3> QED BY <3>1, <3>2
  <2> QED BY <1>1, <1>2, <2>1, <2>2 DEF AudioFits, IsAudio, IsGfx
<1>12. XbusFits'
  <2> SUFFICES ASSUME NEW t \in Working', Kind[t] = "XBUS"
               PROVE  LET listed == t \in L
                          fresh  == listed /\ "YIELDED" \notin state'[t]
                      IN /\ "SP" \in state'[t] <=> listed
                         /\ "DP" \in state'[t] <=> fresh \/ curRDPTask = t
                         /\ fresh => curRDPTask # t
                         /\ listed /\ ~fresh => t = Head(gfxList)
                              /\ curRDPTask \in {t, NoTask} /\ ~swapPending
    <3>1. \A t \in Working' : t # NoTask
      BY <1>4, <1>10
    <3> QED BY <1>1, <3>1 DEF XbusFits, HasYieldedAt, L
  <2>1. t \in Working
    BY <1>10
  <2>2. /\ curRSPTask = t => t \notin L
        /\ "SP" \in state[t] <=> t \in L \/ curRSPTask = t
        /\ "DP" \in state[t] <=> (t \in L /\ "YIELDED" \notin state[t]) \/ curRDPTask = t
        /\ t \in L /\ "YIELDED" \notin state[t] => curRDPTask # t
        /\ t \in L /\ "YIELDED" \in state[t] => t = Head(gfxList)
                              /\ curRDPTask \in {t, NoTask} /\ ~swapPending
    BY <1>2, <2>1 DEF XbusFits, HasYieldedAt, L
  <2>3. CASE t = r
    BY <1>6, <2>2, <2>3
  <2>4. CASE t # r
    BY <1>4, <1>6, <2>1, <2>2, <2>4
  <2> QED BY <2>3, <2>4
<1>13. DramFits'
  <2> SUFFICES ASSUME NEW t \in Working', Kind[t] = "DRAM"
               PROVE  /\ "DP" \in state'[t] /\ (t \in L <=> curRDPTask # t)
                      /\ curRDPTask = t => "SP" \notin state'[t]
                      /\ t \in L /\ "SP" \notin state'[t] => t = Head(gfxList)
    <3>1. \A t \in Working' : t # NoTask
      BY <1>4, <1>10
    <3> QED BY <1>1, <3>1 DEF DramFits, L
  <2>1. t \in Working
    BY <1>10
  <2>2. /\ "DP" \in state[t] /\ (t \in L <=> curRDPTask # t)
        /\ curRDPTask = t => "SP" \notin state[t]
        /\ curRSPTask = t => t = Head(gfxList)
        /\ t \in L /\ "SP" \notin state[t] => t = Head(gfxList)
    BY <1>2, <2>1 DEF DramFits, L
  <2>3. CASE t = r
    BY <1>6, <2>2, <2>3
  <2>4. CASE t # r
    BY <1>4, <1>6, <2>1, <2>2, <2>4
  <2> QED BY <2>3, <2>4
<1>14. FramesFit'
  <2>1. CASE ~done
    BY <1>1, <1>2, <1>5, <2>1 DEF FramesFit
  <2>2. CASE done
    <3>1. ASSUME IsGfx(r)
          PROVE  /\ curRDPTask = NoTask /\ ~swapPending
                 /\ \A t \in L : Kind[t] = "XBUS" => "YIELDED" \notin state'[t]
      <4>1. Kind[r] = "XBUS"
        BY <1>2, <1>3, <1>8, <2>2, <3>1 DEF DramFits, IsGfx, done
      <4>2. curRDPTask = NoTask /\ ~swapPending
        BY <1>2, <1>3, <1>9, <2>2, <4>1 DEF XbusFits
      <4>3. ASSUME NEW t \in L, Kind[t] = "XBUS" PROVE "YIELDED" \notin state'[t]
        <5>1. t \in Working /\ t # r
          BY <1>7, <1>9, <2>2
        <5>2. "YIELDED" \notin state[t]
          BY <1>2, <4>1, <4>3, <5>1 DEF XbusFits, HasYieldedAt, L, IsAudio
        <5> QED BY <1>4, <1>6, <5>1, <5>2
      <4> QED BY <4>2, <4>3
    <3> QED BY <1>1, <1>2, <1>5, <2>2, <3>1 DEF FramesFit, L, IsGfx
  <2> QED BY <2>1, <2>2
<1> QED BY <1>1, <1>5, <1>10, <1>11, <1>12, <1>13, <1>14 DEF Fits

LEMMA RDPEnds ==
  ASSUME SchedInv, curRDPTask # NoTask, StoppedRDP(curRDPTask),
         UNCHANGED << audioList, doAudio, yieldReq, yielded, swapPending, busy >>
  PROVE  /\ Fits'
         /\ \/ pc' = "schedule" /\ ending' = NoTask /\ Working' = Working
            \/ pc' = "send" /\ ending' = curRDPTask /\ Working' = Working \ {curRDPTask}
<1> DEFINE r == curRDPTask
           L == ToSet(gfxList)
           done == "SP" \notin state[r]
<1>1. /\ state \in [Tasks -> SUBSET Bits] /\ r \in Tasks
      /\ state' = [state EXCEPT ![r] = @ \ {"DP"}]
      /\ Completes(r, state[r] \ {"DP"})
      /\ curRDPTask' = NoTask /\ curRSPTask' = curRSPTask /\ gfxList' = gfxList
  BY DEF SchedInv, SchedTypeOK, StoppedRDP
<1>2. XbusFits /\ DramFits /\ AudioFits /\ FramesFit
  BY DEF SchedInv
<1>3. r \in Working /\ ~swapPending
  BY <1>1, <1>2, SchedAssumption DEF Working, FramesFit
<1>4. \A t \in Working : t \in Tasks /\ t # NoTask
  BY WorkingTasks
<1>5. IF done THEN pc' = "send" /\ ending' = r ELSE pc' = "schedule" /\ ending' = NoTask
  BY <1>1 DEF Completes
<1>6. /\ \A t \in Tasks : t # r => state'[t] = state[t]
      /\ state'[r] = state[r] \ {"DP"}
  BY <1>1
<1>7. /\ Working = ToSet(audioList) \cup L \cup ({curRSPTask, r} \ {NoTask})
      /\ Working' = ToSet(audioList) \cup L \cup ({curRSPTask, NoTask} \ {NoTask})
  BY <1>1 DEF Working
<1>8. Kind[r] \in {"XBUS", "DRAM"} /\ ~IsAudio(r)
  BY <1>1, <1>2, <1>3, SchedAssumption, Kinds DEF AudioFits, IsGfx, IsAudio
<1>9. /\ done <=> r \notin L /\ curRSPTask # r
      /\ r \notin ToSet(audioList)
      /\ Kind[r] = "DRAM" => done
  <2>1. CASE Kind[r] = "XBUS"
    BY <1>2, <1>3, <2>1 DEF AudioFits, XbusFits, IsAudio
  <2>2. CASE Kind[r] = "DRAM"
    BY <1>2, <1>3, <2>2 DEF AudioFits, DramFits, IsAudio
  <2> QED BY <1>8, <2>1, <2>2
<1> HIDE DEF L, done
<1>10. Working' = IF done THEN Working \ {r} ELSE Working
  BY <1>3, <1>4, <1>7, <1>9
<1>11. AudioFits'
  <2>1. \A t \in Working' : IsAudio(t) => state'[t] = {"SP"}
    BY <1>2, <1>4, <1>6, <1>8, <1>10 DEF AudioFits
  <2> QED BY <1>1, <1>2, <2>1 DEF AudioFits, IsAudio, IsGfx
<1>12. XbusFits'
  <2> SUFFICES ASSUME NEW t \in Working', Kind[t] = "XBUS"
               PROVE  LET listed == t \in L
                          fresh  == listed /\ "YIELDED" \notin state'[t]
                      IN /\ curRSPTask' = t => ~listed /\ curRDPTask' \in {t, NoTask} /\ ~swapPending'
                         /\ "SP" \in state'[t] <=> listed \/ curRSPTask' = t
                         /\ "DP" \in state'[t] <=> fresh \/ curRDPTask' = t
                         /\ fresh => curRDPTask' # t
                         /\ listed /\ ~fresh => HasYieldedAt(t)'
    BY <1>1 DEF XbusFits, L
  <2>1. t \in Working /\ t # NoTask /\ t \in Tasks
    BY <1>4, <1>10
  <2>2. /\ curRSPTask = t => t \notin L
        /\ "SP" \in state[t] <=> t \in L \/ curRSPTask = t
        /\ "DP" \in state[t] <=> (t \in L /\ "YIELDED" \notin state[t]) \/ curRDPTask = t
        /\ t \in L /\ "YIELDED" \notin state[t] => curRDPTask # t
        /\ t \in L /\ "YIELDED" \in state[t] => HasYieldedAt(t)
    BY <1>2, <2>1 DEF XbusFits, L
  <2>3. HasYieldedAt(t) => HasYieldedAt(t)'
    BY <1>1, <1>3 DEF HasYieldedAt, IsAudio
  <2>4. CASE t = r
    BY <1>1, <1>3, <1>6, <2>1, <2>2, <2>3, <2>4
  <2>5. CASE t # r
    BY <1>1, <1>3, <1>6, <2>1, <2>2, <2>3, <2>5
  <2> QED BY <2>4, <2>5
<1>13. DramFits'
  <2> SUFFICES ASSUME NEW t \in Working', Kind[t] = "DRAM"
               PROVE  /\ "DP" \in state'[t] /\ t \in L
                      /\ curRSPTask = t => t = Head(gfxList) /\ "SP" \in state'[t]
                      /\ t \in L /\ "SP" \notin state'[t] => t = Head(gfxList) /\ curRSPTask = NoTask
    <3>1. \A t \in Working' : t # NoTask
      BY <1>4, <1>10
    <3> QED BY <1>1, <3>1 DEF DramFits, L
  <2>1. t \in Working /\ t # r
    BY <1>9, <1>10
  <2>2. /\ "DP" \in state[t] /\ t \in L
        /\ curRSPTask = t => t = Head(gfxList) /\ "SP" \in state[t]
        /\ t \in L /\ "SP" \notin state[t] => t = Head(gfxList) /\ curRSPTask = NoTask
    BY <1>2, <2>1 DEF DramFits, L
  <2> QED BY <1>4, <1>6, <2>1, <2>2
<1>14. FramesFit'
  <2>1. CASE ~done
    BY <1>1, <1>2, <1>5, <2>1 DEF FramesFit
  <2>2. CASE done
    <3>1. curRSPTask # NoTask => Kind[curRSPTask] # "XBUS"
      <4> SUFFICES ASSUME curRSPTask # NoTask, Kind[curRSPTask] = "XBUS" PROVE FALSE
        OBVIOUS
      <4>1. curRSPTask \in Working
        BY <1>7
      <4> QED BY <1>1, <1>2, <1>9, <2>2, <4>1 DEF XbusFits
    <3>2. ASSUME NEW t \in L, Kind[t] = "XBUS" PROVE "YIELDED" \notin state'[t]
      <4>1. t \in Working /\ t # r
        BY <1>7, <1>9, <2>2
      <4>2. "YIELDED" \notin state[t]
        BY <1>1, <1>2, <1>3, <1>4, <3>2, <4>1 DEF XbusFits, HasYieldedAt, L
      <4> QED BY <1>4, <1>6, <4>1, <4>2
    <3> QED BY <1>1, <1>3, <3>1, <3>2 DEF FramesFit, L
  <2> QED BY <2>1, <2>2
<1> QED BY <1>1, <1>5, <1>10, <1>11, <1>12, <1>13, <1>14 DEF Fits


------------------------------------------------------------------------------
(* The clients' queues *)

LEMMA RepliesRead ==
  ASSUME SchedTypeOK
  PROVE  \A t : t \in Returned <=>
           t \in Tasks /\ \E c \in Clients : \E i \in 1..Len(clientQ[c]) : clientQ[c][i] = t
<1>1. \A c \in Clients : DOMAIN clientQ[c] = 1..Len(clientQ[c])
  BY DEF SchedTypeOK
<1> QED BY <1>1 DEF Returned, ToSet

LEMMA NotifyKeeps ==
  ASSUME SchedTypeOK, RepliedOnce, NEW m \in {"RETRACE", "PRENMI"}, Notify(m)
  PROVE  /\ Returned' = Returned /\ RepliedOnce'
         /\ clientQ' \in [Clients -> Seq(Tasks \cup {"RETRACE", "PRENMI"})]
<1>1. /\ clientQ \in [Clients -> Seq(Tasks \cup {"RETRACE", "PRENMI"})] /\ m \notin Tasks
      /\ m \in Tasks \cup {"RETRACE", "PRENMI"}
  BY SchedAssumption DEF SchedTypeOK
<1>2. \A c \in Clients :
        clientQ[c] \in Seq(Tasks \cup {"RETRACE", "PRENMI"})
        /\ clientQ'[c] \in {clientQ[c], Append(clientQ[c], m)}
  BY <1>1 DEF Notify
<1>3. \A c \in Clients :
        /\ Len(clientQ[c]) \in Nat
        /\ clientQ'[c] \in Seq(Tasks \cup {"RETRACE", "PRENMI"})
        /\ \A i \in 1..Len(clientQ[c]) : i \in 1..Len(clientQ'[c]) /\ clientQ'[c][i] = clientQ[c][i]
        /\ \A i \in 1..Len(clientQ'[c]) :
             clientQ'[c][i] \in Tasks => i \in 1..Len(clientQ[c]) /\ clientQ'[c][i] = clientQ[c][i]
  <2> SUFFICES ASSUME NEW c \in Clients
               PROVE  /\ Len(clientQ[c]) \in Nat
                      /\ clientQ'[c] \in Seq(Tasks \cup {"RETRACE", "PRENMI"})
                      /\ \A i \in 1..Len(clientQ[c]) :
                           i \in 1..Len(clientQ'[c]) /\ clientQ'[c][i] = clientQ[c][i]
                      /\ \A i \in 1..Len(clientQ'[c]) : clientQ'[c][i] \in Tasks =>
                           i \in 1..Len(clientQ[c]) /\ clientQ'[c][i] = clientQ[c][i]
    OBVIOUS
  <2>1. CASE clientQ'[c] = clientQ[c]
    BY <1>2, <2>1
  <2>2. CASE clientQ'[c] = Append(clientQ[c], m)
    <3>1. clientQ[c] \in Seq(Tasks \cup {"RETRACE", "PRENMI"})
      BY <1>2
    <3>2. /\ clientQ'[c] \in Seq(Tasks \cup {"RETRACE", "PRENMI"})
          /\ Len(clientQ[c]) \in Nat /\ Len(clientQ'[c]) = Len(clientQ[c]) + 1
          /\ \A i \in 1..Len(clientQ[c]) : clientQ'[c][i] = clientQ[c][i]
          /\ clientQ'[c][Len(clientQ[c]) + 1] = m
      BY <1>1, <2>2, <3>1
    <3> QED BY <1>1, <3>2
  <2> QED BY <1>2, <2>1, <2>2
<1>4. \A c \in Clients : /\ DOMAIN clientQ[c] = 1..Len(clientQ[c])
                         /\ DOMAIN clientQ'[c] = 1..Len(clientQ'[c])
  BY <1>2, <1>3
<1>5. Returned' = Returned
  BY <1>3, <1>4 DEF Returned, ToSet
<1>6. RepliedOnce'
  <2> SUFFICES ASSUME NEW c \in Clients, NEW d \in Clients,
                      NEW i \in 1..Len(clientQ'[c]), NEW j \in 1..Len(clientQ'[d]),
                      clientQ'[c][i] = clientQ'[d][j], clientQ'[c][i] \in Tasks
               PROVE  c = d /\ i = j
    BY <1>4 DEF RepliedOnce
  <2>1. i \in 1..Len(clientQ[c]) /\ clientQ'[c][i] = clientQ[c][i]
    BY <1>3
  <2>2. j \in 1..Len(clientQ[d]) /\ clientQ'[d][j] = clientQ[d][j]
    BY <1>3
  <2>3. /\ i \in DOMAIN clientQ[c] /\ j \in DOMAIN clientQ[d]
        /\ clientQ[c][i] = clientQ[d][j] /\ clientQ[c][i] \in Tasks
    BY <1>4, <2>1, <2>2
  <2> QED BY <2>3 DEF RepliedOnce
<1>7. clientQ' \in [Clients -> Seq(Tasks \cup {"RETRACE", "PRENMI"})]
  BY <1>3 DEF Notify
<1> QED BY <1>5, <1>6, <1>7

LEMMA ReplyGains ==
  ASSUME SchedTypeOK, RepliedOnce, NEW k \in Clients, NEW e \in Tasks, e \notin Returned,
         clientQ' = [clientQ EXCEPT ![k] = Append(@, e)]
  PROVE  /\ Returned' = Returned \cup {e} /\ RepliedOnce'
         /\ clientQ' \in [Clients -> Seq(Tasks \cup {"RETRACE", "PRENMI"})]
<1>1. /\ clientQ \in [Clients -> Seq(Tasks \cup {"RETRACE", "PRENMI"})]
      /\ e \in Tasks \cup {"RETRACE", "PRENMI"}
  BY DEF SchedTypeOK
<1>2. /\ clientQ'[k] = Append(clientQ[k], e)
      /\ \A c \in Clients : c # k => clientQ'[c] = clientQ[c]
      /\ \A c \in Clients : clientQ[c] \in Seq(Tasks \cup {"RETRACE", "PRENMI"})
  BY <1>1
<1>3. /\ clientQ'[k] \in Seq(Tasks \cup {"RETRACE", "PRENMI"})
      /\ Len(clientQ[k]) \in Nat /\ Len(clientQ'[k]) = Len(clientQ[k]) + 1
      /\ \A i \in 1..Len(clientQ[k]) : clientQ'[k][i] = clientQ[k][i]
      /\ clientQ'[k][Len(clientQ[k]) + 1] = e
  BY <1>1, <1>2
<1>4. \A c \in Clients : /\ DOMAIN clientQ[c] = 1..Len(clientQ[c])
                         /\ DOMAIN clientQ'[c] = 1..Len(clientQ'[c])
  BY <1>2, <1>3
<1>5. \A c \in Clients : \A i \in 1..Len(clientQ'[c]) :
        \/ i \in 1..Len(clientQ[c]) /\ clientQ'[c][i] = clientQ[c][i]
        \/ c = k /\ i = Len(clientQ[k]) + 1 /\ clientQ'[c][i] = e
  BY <1>2, <1>3
<1>6. \A c \in Clients : \A i \in 1..Len(clientQ[c]) :
        i \in 1..Len(clientQ'[c]) /\ clientQ'[c][i] = clientQ[c][i]
  BY <1>2, <1>3
<1>7. \A c \in Clients : \A i \in 1..Len(clientQ[c]) : clientQ[c][i] # e
  BY RepliesRead
<1>8. Returned' = Returned \cup {e}
  <2>1. \A t : t \in Returned' <=>
          t \in Tasks /\ \E c \in Clients : \E i \in 1..Len(clientQ'[c]) : clientQ'[c][i] = t
    BY <1>4 DEF Returned, ToSet
  <2>2. Len(clientQ[k]) + 1 \in 1..Len(clientQ'[k])
    BY <1>3
  <2>3. \A t : t \in Returned' => t \in Returned \cup {e}
    BY <1>5, <2>1, RepliesRead
  <2>4. \A t : t \in Returned => t \in Returned'
    BY <1>6, <2>1, RepliesRead
  <2>5. e \in Returned'
    BY <1>3, <2>1, <2>2
  <2> QED BY <2>3, <2>4, <2>5
<1>9. RepliedOnce'
  <2> SUFFICES ASSUME NEW c \in Clients, NEW d \in Clients,
                      NEW i \in 1..Len(clientQ'[c]), NEW j \in 1..Len(clientQ'[d]),
                      clientQ'[c][i] = clientQ'[d][j], clientQ'[c][i] \in Tasks
               PROVE  c = d /\ i = j
    BY <1>4 DEF RepliedOnce
  <2>1. \/ i \in 1..Len(clientQ[c]) /\ clientQ'[c][i] = clientQ[c][i]
        \/ c = k /\ i = Len(clientQ[k]) + 1 /\ clientQ'[c][i] = e
    BY <1>5
  <2>2. \/ j \in 1..Len(clientQ[d]) /\ clientQ'[d][j] = clientQ[d][j]
        \/ d = k /\ j = Len(clientQ[k]) + 1 /\ clientQ'[d][j] = e
    BY <1>5
  <2> QED BY <1>4, <1>7, <2>1, <2>2 DEF RepliedOnce
<1>10. clientQ' \in [Clients -> Seq(Tasks \cup {"RETRACE", "PRENMI"})]
  BY <1>1, <1>3
<1> QED BY <1>8, <1>9, <1>10

LEMMA ReadLoses ==
  ASSUME SchedTypeOK, RepliedOnce, NEW k \in Clients, clientQ[k] # <<>>,
         clientQ' = [clientQ EXCEPT ![k] = Tail(@)]
  PROVE  /\ Returned' = Returned \ {Head(clientQ[k])} /\ RepliedOnce'
         /\ Head(clientQ[k]) \in Returned \/ Head(clientQ[k]) \notin Tasks
         /\ clientQ' \in [Clients -> Seq(Tasks \cup {"RETRACE", "PRENMI"})]
<1> DEFINE e == Head(clientQ[k])
<1>1. clientQ \in [Clients -> Seq(Tasks \cup {"RETRACE", "PRENMI"})]
  BY DEF SchedTypeOK
<1>2. /\ clientQ'[k] = Tail(clientQ[k])
      /\ \A c \in Clients : c # k => clientQ'[c] = clientQ[c]
      /\ \A c \in Clients : clientQ[c] \in Seq(Tasks \cup {"RETRACE", "PRENMI"})
  BY <1>1
<1>3. /\ clientQ'[k] \in Seq(Tasks \cup {"RETRACE", "PRENMI"})
      /\ Len(clientQ[k]) \in Nat \ {0} /\ Len(clientQ'[k]) = Len(clientQ[k]) - 1
      /\ \A i \in 1..(Len(clientQ[k]) - 1) : clientQ'[k][i] = clientQ[k][i + 1]
      /\ e = clientQ[k][1]
  BY <1>1, <1>2
<1>4. \A c \in Clients : /\ DOMAIN clientQ[c] = 1..Len(clientQ[c])
                         /\ DOMAIN clientQ'[c] = 1..Len(clientQ'[c])
                         /\ Len(clientQ[c]) \in Nat
  BY <1>2, <1>3
<1> HIDE DEF e
<1> DEFINE at(c, i) == IF c = k THEN i + 1 ELSE i
<1>5. \A c \in Clients : \A i \in 1..Len(clientQ'[c]) :
        i \in Nat /\ at(c, i) \in 1..Len(clientQ[c]) /\ clientQ'[c][i] = clientQ[c][at(c, i)]
  BY <1>2, <1>3, <1>4
<1>6. \A c \in Clients : \A i \in 1..Len(clientQ[c]) :
        \/ c = k /\ i = 1 /\ clientQ[c][i] = e
        \/ \E j \in 1..Len(clientQ'[c]) : clientQ'[c][j] = clientQ[c][i]
  <2> SUFFICES ASSUME NEW c \in Clients, NEW i \in 1..Len(clientQ[c])
               PROVE  \/ c = k /\ i = 1 /\ clientQ[c][i] = e
                      \/ \E j \in 1..Len(clientQ'[c]) : clientQ'[c][j] = clientQ[c][i]
    OBVIOUS
  <2>1. CASE c # k
    BY <1>2, <2>1
  <2>2. CASE c = k /\ i = 1
    BY <1>3, <2>2
  <2>3. CASE c = k /\ i # 1
    <3>1. i - 1 \in 1..Len(clientQ'[k]) /\ (i - 1) + 1 = i
      BY <1>3, <2>3
    <3>2. clientQ'[k][i - 1] = clientQ[k][i]
      BY <1>3, <3>1
    <3> QED BY <2>3, <3>1, <3>2
  <2> QED BY <2>1, <2>2, <2>3
<1>7. \A c \in Clients : \A i \in 1..Len(clientQ[c]) :
        clientQ[c][i] = e /\ e \in Tasks => c = k /\ i = 1
  <2>1. 1 \in 1..Len(clientQ[k])
    BY <1>3
  <2> QED BY <1>3, <1>4, <2>1 DEF RepliedOnce
<1>8. \A t : t \in Returned' <=>
        t \in Tasks /\ \E c \in Clients : \E i \in 1..Len(clientQ'[c]) : clientQ'[c][i] = t
  BY <1>4 DEF Returned, ToSet
<1>9. e \in Returned \/ e \notin Tasks
  BY <1>3, RepliesRead
<1>10. Returned' = Returned \ {e}
  <2>1. ASSUME NEW t \in Returned, t # e PROVE t \in Returned'
    <3>1. PICK c \in Clients : \E i \in 1..Len(clientQ[c]) : clientQ[c][i] = t
      BY RepliesRead
    <3>2. PICK i \in 1..Len(clientQ[c]) : clientQ[c][i] = t
      BY <3>1
    <3>3. \E j \in 1..Len(clientQ'[c]) : clientQ'[c][j] = t
      BY <1>6, <2>1, <3>2
    <3>4. t \in Tasks
      BY RepliesRead
    <3> QED BY <1>8, <3>3, <3>4
  <2>2. \A t : t \in Returned' => t \in Returned
    BY <1>5, <1>8, RepliesRead
  <2>3. e \notin Returned'
    <3> SUFFICES ASSUME e \in Tasks, NEW c \in Clients, NEW i \in 1..Len(clientQ'[c]),
                        clientQ'[c][i] = e
                 PROVE  FALSE
      BY <1>8
    <3>1. c = k /\ at(c, i) = 1 /\ i \in Nat
      BY <1>5, <1>7
    <3> QED BY <1>3, <3>1
  <2> QED BY <2>1, <2>2, <2>3
<1>11. RepliedOnce'
  <2> SUFFICES ASSUME NEW c \in Clients, NEW d \in Clients,
                      NEW i \in 1..Len(clientQ'[c]), NEW j \in 1..Len(clientQ'[d]),
                      clientQ'[c][i] = clientQ'[d][j], clientQ'[c][i] \in Tasks
               PROVE  c = d /\ i = j
    BY <1>4 DEF RepliedOnce
  <2>1. i \in Nat /\ at(c, i) \in 1..Len(clientQ[c]) /\ clientQ'[c][i] = clientQ[c][at(c, i)]
    BY <1>5
  <2>2. j \in Nat /\ at(d, j) \in 1..Len(clientQ[d]) /\ clientQ'[d][j] = clientQ[d][at(d, j)]
    BY <1>5
  <2>3. c = d /\ at(c, i) = at(d, j)
    <3> HIDE DEF at
    <3> QED BY <1>4, <2>1, <2>2 DEF RepliedOnce
  <2> QED BY <2>1, <2>2, <2>3
<1>12. clientQ' \in [Clients -> Seq(Tasks \cup {"RETRACE", "PRENMI"})]
  BY <1>1, <1>3
<1> QED BY <1>9, <1>10, <1>11, <1>12 DEF e


------------------------------------------------------------------------------
(* The types and the processors through a dispatch *)

(* A processor goes on as it was, or a free one starts a task. *)
RSPGoesOn ==
  \/ curRSPTask' = curRSPTask /\ rsp' = rsp
  \/ curRSPTask = NoTask /\ curRSPTask' # NoTask /\ rsp' = curRSPTask'
RDPGoesOn ==
  \/ curRDPTask' = curRDPTask /\ rdp' = rdp
  \/ curRDPTask = NoTask /\ curRDPTask' # NoTask /\ rdp' = curRDPTask'

SchedulerTypes ==
  /\ audioList \in Seq(Tasks) /\ gfxList \in Seq(Tasks) /\ doAudio \in BOOLEAN
  /\ state \in [Tasks -> SUBSET Bits]
  /\ curRSPTask \in Tasks \cup {NoTask} /\ curRDPTask \in Tasks \cup {NoTask}
  /\ rsp \in Tasks \cup {NoTask} /\ rdp \in Tasks \cup {NoTask}
  /\ yieldReq \in BOOLEAN /\ yielded \in BOOLEAN
  /\ IsInjective(audioList) /\ IsInjective(gfxList)

LEMMA SchedulerTypesNow == SchedInv => SchedulerTypes
BY DEF SchedInv, SchedTypeOK, Placed, SchedulerTypes

LEMMA RunsTask ==
  ASSUME SchedulerTypes, NEW t \in Tasks, RunsRSP(t), curRSPTask = NoTask
  PROVE  /\ state' \in [Tasks -> SUBSET Bits] /\ curRSPTask' \in Tasks /\ rsp' \in Tasks
         /\ yieldReq' \in BOOLEAN /\ yielded' \in BOOLEAN /\ RSPGoesOn
BY SchedAssumption DEF SchedulerTypes, RunsRSP, RSPGoesOn

LEMMA StartsKeeps ==
  ASSUME SchedInv, Starts
  PROVE  SchedulerTypes' /\ RSPGoesOn /\ RDPGoesOn
<1>1. SchedulerTypes /\ NoTask \notin Tasks
  BY SchedulerTypesNow, SchedAssumption
<1>2. /\ gfxList \in Seq(Tasks) /\ IsInjective(gfxList)
      /\ audioList \in Seq(Tasks) /\ IsInjective(audioList)
  BY <1>1 DEF SchedulerTypes
<1>3. ASSUME gfxList # <<>>
      PROVE  /\ Head(gfxList) \in Tasks
             /\ Tail(gfxList) \in Seq(Tasks) /\ IsInjective(Tail(gfxList))
  BY <1>2, <1>3, TailLoses
<1>4. CASE StartsNothing
  BY <1>1, <1>4 DEF StartsNothing, KeepsRSP, KeepsRDP, KeepsAudio, SchedulerTypes,
                    RSPGoesOn, RDPGoesOn
<1>5. CASE StartsAudio
  <2>1. audioList # <<>>
    BY <1>5 DEF SchedInv, AudioFits, StartsAudio
  <2>2. /\ Head(audioList) \in Tasks
        /\ Tail(audioList) \in Seq(Tasks) /\ IsInjective(Tail(audioList))
    BY <1>2, <2>1, TailLoses
  <2> QED BY <1>1, <1>5, <2>2, RunsTask DEF StartsAudio, KeepsRDP, SchedulerTypes, RDPGoesOn
<1>6. CASE StartsXbus
  BY <1>1, <1>3, <1>6, RunsTask DEF StartsXbus, RunsRDP, KeepsAudio, SchedulerTypes, RDPGoesOn
<1>7. CASE ResumesXbus
  BY <1>1, <1>3, <1>7, RunsTask DEF ResumesXbus, KeepsRDP, KeepsAudio, SchedulerTypes, RDPGoesOn
<1>8. CASE StartsDram
  BY <1>1, <1>3, <1>8, RunsTask DEF StartsDram, KeepsRDP, KeepsAudio, SchedulerTypes, RDPGoesOn
<1>9. CASE DrawsDram
  <2>1. RDPGoesOn /\ curRDPTask' \in Tasks /\ rdp' \in Tasks
    BY <1>1, <1>3, <1>9 DEF DrawsDram, RunsRDP, RDPGoesOn
  <2>2. /\ state' \in [Tasks -> SUBSET Bits] /\ curRSPTask' \in Tasks \cup {NoTask}
        /\ rsp' \in Tasks \cup {NoTask}
        /\ yieldReq' \in BOOLEAN /\ yielded' \in BOOLEAN /\ RSPGoesOn
    <3>1. CASE KeepsRSP
      BY <1>1, <3>1 DEF KeepsRSP, SchedulerTypes, RSPGoesOn
    <3>2. CASE Tail(gfxList) # <<>> /\ RunsRSP(Next2)
      <4>1. Next2 \in Tasks
        BY <1>3, <1>9, <3>2, TailLoses DEF Next2, DrawsDram
      <4> QED BY <1>1, <1>9, <3>2, <4>1, RunsTask DEF DrawsDram
    <3> QED BY <1>9, <3>1, <3>2 DEF DrawsDram
  <2> QED BY <1>1, <1>3, <1>9, <2>1, <2>2 DEF DrawsDram, KeepsAudio, SchedulerTypes
<1> QED BY <1>4, <1>5, <1>6, <1>7, <1>8, <1>9 DEF Starts

------------------------------------------------------------------------------
(* The interrupt queue *)

LEMMA OccurrencesArePlaces ==
  \A m : Occurrences(m) = Cardinality(Places(interruptQ, m))
         /\ Occurrences(m)' = Cardinality(Places(interruptQ', m))
BY DEF Occurrences, Places

LEMMA TakesCounts ==
  ASSUME SchedTypeOK, NEW m, Takes(m)
  PROVE  /\ interruptQ' \in Seq(Interrupts)
         /\ \A x : /\ Occurrences(x) \in Nat
                   /\ Occurrences(x)' = IF x = m THEN Occurrences(x) - 1 ELSE Occurrences(x)
<1>1. /\ interruptQ \in Seq(Interrupts) /\ interruptQ # <<>> /\ Head(interruptQ) = m
      /\ interruptQ' = Tail(interruptQ)
  BY DEF SchedTypeOK, Takes
<1>2. interruptQ' \in Seq(Interrupts)
  BY <1>1
<1>3. ASSUME NEW x
      PROVE  /\ Occurrences(x) \in Nat
             /\ Occurrences(x)' = IF x = m THEN Occurrences(x) - 1 ELSE Occurrences(x)
  <2>1. Cardinality(Places(interruptQ, x)) \in Nat
    BY <1>1, PlacesFinite
  <2>2. Cardinality(Places(Tail(interruptQ), x)) =
           IF Head(interruptQ) = x THEN Cardinality(Places(interruptQ, x)) - 1
                                   ELSE Cardinality(Places(interruptQ, x))
    BY <1>1, PlacesOfTail
  <2> QED BY <1>1, <2>1, <2>2, OccurrencesArePlaces
<1> QED BY <1>2, <1>3

LEMMA Waiting ==
  ASSUME SchedInv
  PROVE  /\ interruptQ \in Seq(Interrupts) /\ Len(interruptQ) \in Nat
         /\ \A m : Occurrences(m) \in Nat
         /\ Occurrences("VIDEO") <= MaxVideo
         /\ Occurrences("RSP") <= 1 /\ Occurrences("RDP") <= 1 /\ Occurrences("PRENMI") <= 1
         /\ Len(interruptQ) <= Occurrences("VIDEO") + Occurrences("RSP")
                                 + Occurrences("RDP") + Occurrences("PRENMI")
<1>1. interruptQ \in Seq(Interrupts) /\ Len(interruptQ) \in Nat
  BY DEF SchedInv, SchedTypeOK
<1>2. \A m : Occurrences(m) \in Nat
  BY <1>1, PlacesFinite, OccurrencesArePlaces
<1>3. Len(interruptQ) <= Occurrences("VIDEO") + Occurrences("RSP")
                           + Occurrences("RDP") + Occurrences("PRENMI")
  BY <1>1, LengthIsSum, OccurrencesArePlaces
<1>4. Occurrences("RSP") \in {0, 1} /\ Occurrences("RDP") \in {0, 1}
  BY DEF SchedInv, Tracks
<1>5. Occurrences("VIDEO") <= MaxVideo /\ Occurrences("PRENMI") <= 1
  BY <1>2 DEF SchedInv, QueueFits
<1> QED BY <1>1, <1>2, <1>3, <1>4, <1>5

(* No interrupt is lost. *)
LEMMA PostCounts ==
  ASSUME SchedInv, Roomy, NEW m \in Interrupts, Post(m),
         m = "VIDEO" => Occurrences(m) < MaxVideo,
         m # "VIDEO" => Occurrences(m) = 0
  PROVE  /\ interruptQ' \in Seq(Interrupts)
         /\ \A x : /\ Occurrences(x) \in Nat
                   /\ Occurrences(x)' = IF x = m THEN Occurrences(x) + 1 ELSE Occurrences(x)
<1>1. MaxVideo \in Nat /\ QueueLen \in Nat /\ QueueLen >= MaxVideo + 3
  BY SchedAssumption DEF Roomy
<1>2. m \in {"VIDEO", "RSP", "RDP", "PRENMI"}
  BY DEF Interrupts
<1>3. Len(interruptQ) < QueueLen
  BY <1>1, <1>2, Waiting
<1>4. interruptQ' = Append(interruptQ, m) /\ interruptQ \in Seq(Interrupts)
  BY <1>3, Waiting DEF Post
<1>5. interruptQ' \in Seq(Interrupts)
  BY <1>4
<1>6. ASSUME NEW x
      PROVE  /\ Occurrences(x) \in Nat
             /\ Occurrences(x)' = IF x = m THEN Occurrences(x) + 1 ELSE Occurrences(x)
  <2>1. Cardinality(Places(interruptQ, x)) \in Nat
    BY <1>4, PlacesFinite
  <2>2. Cardinality(Places(Append(interruptQ, m), x)) =
           IF m = x THEN Cardinality(Places(interruptQ, x)) + 1
                    ELSE Cardinality(Places(interruptQ, x))
    BY <1>4, PlacesOfAppend
  <2> QED BY <1>4, <2>1, <2>2, OccurrencesArePlaces
<1> QED BY <1>5, <1>6


------------------------------------------------------------------------------
(* What a step that leaves a part alone keeps of the invariant *)

LEMMA FitsStay ==
  ASSUME SchedInv,
         UNCHANGED << audioList, gfxList, doAudio, state, curRSPTask, curRDPTask, yieldReq, ending >>,
         swapPending' => swapPending, yielded' => yieldReq,
         pc' \in {"send", "swap"} => pc \in {"send", "swap"},
         \A t, u \in busy' : IsAudio(t) => Kind[u] # "DRAM"
  PROVE  Working' = Working /\ Fits'
<1>1. Working' = Working
  BY DEF Working
<1>2. AudioFits'
  BY <1>1 DEF SchedInv, AudioFits
<1>3. XbusFits'
  <2>1. \A t : HasYieldedAt(t) => HasYieldedAt(t)'
    BY DEF HasYieldedAt
  <2> QED BY <1>1, <2>1 DEF SchedInv, XbusFits
<1>4. DramFits'
  BY <1>1 DEF SchedInv, DramFits
<1>5. FramesFit'
  BY DEF SchedInv, FramesFit
<1> QED BY <1>1, <1>2, <1>3, <1>4, <1>5 DEF Fits

LEMMA PlacedStays ==
  ASSUME SchedInv, cmdQ' = cmdQ, busy' = busy,
         Working' = Working, Sending' = Sending, Returned' = Returned,
         RepliedOnce', IsInjective(audioList)', IsInjective(gfxList)'
  PROVE  Placed'
BY DEF SchedInv, Placed

LEMMA RepliesStay ==
  ASSUME SchedInv, UNCHANGED clientQ
  PROVE  Returned' = Returned /\ RepliedOnce'
BY DEF SchedInv, Placed, Returned, RepliedOnce

LEMMA PlacedAsBefore ==
  ASSUME SchedInv, UNCHANGED << cmdQ, busy, audioList, gfxList, pc, ending, clientQ >>,
         Working' = Working
  PROVE  Placed'
<1>1. Returned' = Returned /\ RepliedOnce' /\ Sending' = Sending
  BY RepliesStay DEF Sending
<1>2. IsInjective(audioList)' /\ IsInjective(gfxList)'
  BY SchedulerTypesNow DEF SchedulerTypes
<1> QED BY <1>1, <1>2, PlacedStays

LEMMA TracksStay ==
  ASSUME SchedInv, RSPGoesOn, RDPGoesOn,
         Occurrences("RSP")' = Occurrences("RSP"), Occurrences("RDP")' = Occurrences("RDP")
  PROVE  Tracks'
BY DEF SchedInv, Tracks, RSPGoesOn, RDPGoesOn

LEMMA QueueStays ==
  ASSUME SchedInv, UNCHANGED << interruptQ, preNMI >>
  PROVE  QueueFits' /\ \A m : Occurrences(m)' = Occurrences(m)
BY DEF SchedInv, QueueFits, Occurrences

LEMMA AllKept ==
  ASSUME SchedInv, SchedTypeOK', ~halted', Tracks', QueueFits', Placed', Fits'
  PROVE  SchedInv'
BY DEF SchedInv, Fits, NeedsBoth

------------------------------------------------------------------------------
(* The steps of the interrupts, the processors and the clients *)

LEMMA SpFinishKeeps ==
  ASSUME SchedInv, Roomy, NEW t \in Tasks, SpFinish(t)
  PROVE  SchedInv'
<1>1. /\ rsp = t /\ rsp' = NoTask /\ Post("RSP") /\ t # NoTask
      /\ UNCHANGED << cmdQ, audioList, gfxList, doAudio, state, curRSPTask, curRDPTask, pc,
                      ending, halted, rdp, yieldReq, yielded, swapPending, preNMI,
                      clientList, clientQ, busy >>
  BY SchedAssumption DEF SpFinish, schedVars, clientVars
<1>2. Occurrences("RSP") = 0 /\ curRSPTask = t
  BY <1>1 DEF SchedInv, Tracks
<1>3. /\ interruptQ' \in Seq(Interrupts)
      /\ \A x : /\ Occurrences(x) \in Nat
                /\ Occurrences(x)' = IF x = "RSP" THEN Occurrences(x) + 1 ELSE Occurrences(x)
  <2>1. "RSP" \in Interrupts
    BY DEF Interrupts
  <2> QED BY <1>1, <1>2, <2>1, PostCounts
<1>4. Occurrences("RSP")' = 1 /\ Occurrences("RDP")' = Occurrences("RDP")
  BY <1>2, <1>3
<1>5. Tracks'
  BY <1>1, <1>2, <1>4 DEF SchedInv, Tracks
<1>6. QueueFits'
  BY <1>1, <1>3 DEF SchedInv, QueueFits
<1>7. Working' = Working /\ Fits'
  BY <1>1, FitsStay DEF SchedInv, AudioFits
<1>8. Placed'
  BY <1>1, <1>7, PlacedAsBefore
<1>9. SchedTypeOK' /\ ~halted'
  BY <1>1, <1>3 DEF SchedInv, SchedTypeOK
<1> QED BY <1>5, <1>6, <1>7, <1>8, <1>9, AllKept

LEMMA SpYieldKeeps ==
  ASSUME SchedInv, Roomy, SpYield
  PROVE  SchedInv'
<1>1. /\ rsp # NoTask /\ rsp' = NoTask /\ Post("RSP") /\ yieldReq /\ yielded' = TRUE
      /\ UNCHANGED << cmdQ, audioList, gfxList, doAudio, state, curRSPTask, curRDPTask, pc,
                      ending, halted, rdp, yieldReq, swapPending, preNMI,
                      clientList, clientQ, busy >>
  BY DEF SpYield, schedVars, clientVars
<1>2. Occurrences("RSP") = 0 /\ curRSPTask = rsp
  BY <1>1 DEF SchedInv, Tracks
<1>3. /\ interruptQ' \in Seq(Interrupts)
      /\ \A x : /\ Occurrences(x) \in Nat
                /\ Occurrences(x)' = IF x = "RSP" THEN Occurrences(x) + 1 ELSE Occurrences(x)
  <2>1. "RSP" \in Interrupts
    BY DEF Interrupts
  <2> QED BY <1>1, <1>2, <2>1, PostCounts
<1>4. Occurrences("RSP")' = 1 /\ Occurrences("RDP")' = Occurrences("RDP")
  BY <1>2, <1>3
<1>5. Tracks'
  BY <1>1, <1>2, <1>4 DEF SchedInv, Tracks
<1>6. QueueFits'
  BY <1>1, <1>3 DEF SchedInv, QueueFits
<1>7. Working' = Working /\ Fits'
  BY <1>1, FitsStay DEF SchedInv, AudioFits
<1>8. Placed'
  BY <1>1, <1>7, PlacedAsBefore
<1>9. SchedTypeOK' /\ ~halted'
  BY <1>1, <1>3 DEF SchedInv, SchedTypeOK
<1> QED BY <1>5, <1>6, <1>7, <1>8, <1>9, AllKept

LEMMA DpDoneKeeps ==
  ASSUME SchedInv, Roomy, NEW t \in Tasks, DpDone(t)
  PROVE  SchedInv'
<1>1. /\ rdp = t /\ rdp' = NoTask /\ Post("RDP") /\ t # NoTask
      /\ UNCHANGED << cmdQ, audioList, gfxList, doAudio, state, curRSPTask, curRDPTask, pc,
                      ending, halted, rsp, yieldReq, yielded, swapPending, preNMI,
                      clientList, clientQ, busy >>
  BY SchedAssumption DEF DpDone, schedVars, clientVars
<1>2. Occurrences("RDP") = 0 /\ curRDPTask = t
  BY <1>1 DEF SchedInv, Tracks
<1>3. /\ interruptQ' \in Seq(Interrupts)
      /\ \A x : /\ Occurrences(x) \in Nat
                /\ Occurrences(x)' = IF x = "RDP" THEN Occurrences(x) + 1 ELSE Occurrences(x)
  <2>1. "RDP" \in Interrupts
    BY DEF Interrupts
  <2> QED BY <1>1, <1>2, <2>1, PostCounts
<1>4. Occurrences("RDP")' = 1 /\ Occurrences("RSP")' = Occurrences("RSP")
  BY <1>2, <1>3
<1>5. Tracks'
  BY <1>1, <1>2, <1>4 DEF SchedInv, Tracks
<1>6. QueueFits'
  BY <1>1, <1>3 DEF SchedInv, QueueFits
<1>7. Working' = Working /\ Fits'
  BY <1>1, FitsStay DEF SchedInv, AudioFits
<1>8. Placed'
  BY <1>1, <1>7, PlacedAsBefore
<1>9. SchedTypeOK' /\ ~halted'
  BY <1>1, <1>3 DEF SchedInv, SchedTypeOK
<1> QED BY <1>5, <1>6, <1>7, <1>8, <1>9, AllKept

LEMMA FieldKeeps ==
  ASSUME SchedInv, Roomy, Field
  PROVE  SchedInv'
<1>1. /\ swapPending' = FALSE
      /\ UNCHANGED << cmdQ, audioList, gfxList, doAudio, state, curRSPTask, curRDPTask, pc,
                      ending, halted, rsp, rdp, yieldReq, yielded, preNMI,
                      clientList, clientQ, busy >>
  BY DEF Field, schedVars, hwVars, clientVars
<1>2. /\ interruptQ' \in Seq(Interrupts)
      /\ Occurrences("VIDEO")' <= MaxVideo
      /\ \A x : x # "VIDEO" => Occurrences(x)' = Occurrences(x)
  <2>1. CASE UNCHANGED interruptQ
    BY <1>1, <2>1, Waiting, QueueStays
  <2>2. CASE Occurrences("VIDEO") < MaxVideo /\ Post("VIDEO")
    <3>1. "VIDEO" \in Interrupts
      BY DEF Interrupts
    <3>2. /\ interruptQ' \in Seq(Interrupts)
          /\ \A x : /\ Occurrences(x) \in Nat
                    /\ Occurrences(x)' = IF x = "VIDEO" THEN Occurrences(x) + 1 ELSE Occurrences(x)
      BY <2>2, <3>1, PostCounts
    <3> QED BY <2>2, <3>2, SchedAssumption
  <2> QED BY <2>1, <2>2 DEF Field
<1>3. Tracks'
  BY <1>1, <1>2, TracksStay DEF RSPGoesOn, RDPGoesOn
<1>4. QueueFits'
  BY <1>1, <1>2 DEF SchedInv, QueueFits
<1>5. Working' = Working /\ Fits'
  BY <1>1, FitsStay DEF SchedInv, AudioFits
<1>6. Placed'
  BY <1>1, <1>5, PlacedAsBefore
<1>7. SchedTypeOK' /\ ~halted'
  BY <1>1, <1>2 DEF SchedInv, SchedTypeOK
<1> QED BY <1>3, <1>4, <1>5, <1>6, <1>7, AllKept

LEMMA PreNMIKeeps ==
  ASSUME SchedInv, Roomy, PreNMI
  PROVE  SchedInv'
<1>1. /\ ~preNMI /\ preNMI' = TRUE /\ Post("PRENMI")
      /\ UNCHANGED << cmdQ, audioList, gfxList, doAudio, state, curRSPTask, curRDPTask, pc,
                      ending, halted, rsp, rdp, yieldReq, yielded, swapPending,
                      clientList, clientQ, busy >>
  BY DEF PreNMI, schedVars, hwVars, clientVars
<1>2. Occurrences("PRENMI") = 0
  BY <1>1, Waiting DEF SchedInv, QueueFits
<1>3. /\ interruptQ' \in Seq(Interrupts)
      /\ \A x : /\ Occurrences(x) \in Nat
                /\ Occurrences(x)' = IF x = "PRENMI" THEN Occurrences(x) + 1 ELSE Occurrences(x)
  <2>1. "PRENMI" \in Interrupts
    BY DEF Interrupts
  <2> QED BY <1>1, <1>2, <2>1, PostCounts
<1>4. Tracks'
  BY <1>1, <1>3, TracksStay DEF RSPGoesOn, RDPGoesOn
<1>5. QueueFits'
  BY <1>1, <1>2, <1>3 DEF SchedInv, QueueFits
<1>6. Working' = Working /\ Fits'
  BY <1>1, FitsStay DEF SchedInv, AudioFits
<1>7. Placed'
  BY <1>1, <1>6, PlacedAsBefore
<1>8. SchedTypeOK' /\ ~halted'
  BY <1>1, <1>3 DEF SchedInv, SchedTypeOK
<1> QED BY <1>4, <1>5, <1>6, <1>7, <1>8, AllKept


LEMMA SubmitKeeps ==
  ASSUME SchedInv, NoDramNextToAudio, NEW t \in Tasks, Submit(t)
  PROVE  SchedInv'
<1>1. /\ t \notin busy /\ cmdQ' = Append(cmdQ, t) /\ busy' = busy \cup {t}
      /\ UNCHANGED << interruptQ, audioList, gfxList, doAudio, state, curRSPTask, curRDPTask, pc,
                      ending, halted, rsp, rdp, yieldReq, yielded, swapPending, preNMI,
                      clientList, clientQ >>
  BY DEF Submit, schedVars, hwVars
<1>2. \A u, v \in busy' : IsAudio(u) => Kind[v] # "DRAM"
  BY <1>1 DEF Submit, NoDramNextToAudio
<1>3. cmdQ \in Seq(Tasks) /\ Placed
  BY DEF SchedInv, SchedTypeOK
<1>4. /\ cmdQ' \in Seq(Tasks) /\ ToSet(cmdQ') = ToSet(cmdQ) \cup {t}
      /\ IsInjective(cmdQ) /\ t \notin ToSet(cmdQ) => IsInjective(cmdQ')
  BY <1>1, <1>3, AppendGains
<1>5. Working' = Working /\ Fits'
  BY <1>1, <1>2, FitsStay DEF SchedInv, AudioFits
<1>6. Returned' = Returned /\ RepliedOnce' /\ Sending' = Sending
  BY <1>1, RepliesStay DEF Sending
<1>7. IsInjective(audioList)' /\ IsInjective(gfxList)'
  BY <1>1, SchedulerTypesNow DEF SchedulerTypes
<1>8. Placed'
  <2>1. t \notin ToSet(cmdQ) \cup Working \cup Sending \cup Returned
    BY <1>1, <1>3 DEF Placed
  <2>2. IsInjective(cmdQ)'
    BY <1>3, <1>4, <2>1 DEF Placed
  <2> QED BY <1>1, <1>3, <1>4, <1>5, <1>6, <1>7, <2>1, <2>2 DEF Placed
<1>9. Tracks'
  BY <1>1, QueueStays, TracksStay DEF RSPGoesOn, RDPGoesOn
<1>10. QueueFits'
  BY <1>1, QueueStays
<1>11. SchedTypeOK' /\ ~halted'
  BY <1>1, <1>4 DEF SchedInv, SchedTypeOK
<1> QED BY <1>5, <1>8, <1>9, <1>10, <1>11, AllKept

LEMMA ClientRecvKeeps ==
  ASSUME SchedInv, NEW c \in Clients, ClientRecv(c)
  PROVE  SchedInv'
<1> DEFINE e == Head(clientQ[c])
<1>1. /\ clientQ[c] # <<>> /\ clientQ' = [clientQ EXCEPT ![c] = Tail(@)] /\ busy' = busy \ {e}
      /\ UNCHANGED << interruptQ, cmdQ, audioList, gfxList, doAudio, state, curRSPTask,
                      curRDPTask, pc, ending, halted, rsp, rdp, yieldReq, yielded,
                      swapPending, preNMI, clientList >>
  BY DEF ClientRecv, schedVars, hwVars
<1>2. SchedTypeOK /\ Placed
  BY DEF SchedInv
<1>3. /\ Returned' = Returned \ {e} /\ RepliedOnce' /\ (e \in Returned \/ e \notin Tasks)
      /\ clientQ' \in [Clients -> Seq(Tasks \cup {"RETRACE", "PRENMI"})]
  BY <1>1, <1>2, ReadLoses DEF Placed
<1> HIDE DEF e
<1>4. Working' = Working /\ Fits'
  BY <1>1, FitsStay DEF SchedInv, AudioFits
<1>5. IsInjective(audioList)' /\ IsInjective(gfxList)' /\ IsInjective(cmdQ)' /\ Sending' = Sending
  BY <1>1, <1>2, SchedulerTypesNow DEF SchedulerTypes, Placed, Sending
<1>6. Placed'
  <2>1. busy \subseteq Tasks
    BY <1>2 DEF SchedTypeOK
  <2>2. e \notin ToSet(cmdQ) \cup Working \cup Sending
    BY <1>2, <1>3, <2>1 DEF Placed
  <2> QED BY <1>1, <1>2, <1>3, <1>4, <1>5, <2>2 DEF Placed
<1>7. Tracks'
  BY <1>1, QueueStays, TracksStay DEF RSPGoesOn, RDPGoesOn
<1>8. QueueFits'
  BY <1>1, QueueStays
<1>9. SchedTypeOK' /\ ~halted'
  BY <1>1, <1>3 DEF SchedInv, SchedTypeOK
<1> QED BY <1>4, <1>6, <1>7, <1>8, <1>9, AllKept

LEMMA ClientListKeeps ==
  ASSUME SchedInv, NEW c \in Clients, AddClient(c) \/ RemoveClient(c)
  PROVE  SchedInv'
<1>1. /\ clientList' \subseteq Clients
      /\ UNCHANGED << interruptQ, cmdQ, audioList, gfxList, doAudio, state, curRSPTask,
                      curRDPTask, pc, ending, halted, rsp, rdp, yieldReq, yielded,
                      swapPending, preNMI, clientQ, busy >>
  BY DEF AddClient, RemoveClient, schedVars, hwVars, SchedInv, SchedTypeOK
<1>2. Working' = Working /\ Fits'
  BY <1>1, FitsStay DEF SchedInv, AudioFits
<1>3. Placed'
  BY <1>1, <1>2, PlacedAsBefore
<1>4. Tracks'
  BY <1>1, QueueStays, TracksStay DEF RSPGoesOn, RDPGoesOn
<1>5. QueueFits'
  BY <1>1, QueueStays
<1>6. SchedTypeOK' /\ ~halted'
  BY <1>1 DEF SchedInv, SchedTypeOK
<1> QED BY <1>2, <1>3, <1>4, <1>5, <1>6, AllKept

------------------------------------------------------------------------------
(* The steps of the scheduler *)

LEMMA HandleRetraceKeeps ==
  ASSUME SchedInv, HandleRetrace
  PROVE  SchedInv'
<1>1. /\ Takes("VIDEO") /\ pc = "wait" /\ pc' = "fetch"
      /\ UNCHANGED << cmdQ, audioList, gfxList, doAudio, state, curRSPTask,
                      curRDPTask, ending, halted, rsp, rdp, yieldReq, yielded,
                      swapPending, preNMI, clientList, clientQ, busy >>
  BY DEF HandleRetrace, Takes, hwVars, clientVars
<1>2. /\ interruptQ' \in Seq(Interrupts)
      /\ \A x : /\ Occurrences(x) \in Nat
                /\ Occurrences(x)' = IF x = "VIDEO" THEN Occurrences(x) - 1 ELSE Occurrences(x)
  BY <1>1, TakesCounts DEF SchedInv
<1>3. Tracks'
  BY <1>1, <1>2, TracksStay DEF RSPGoesOn, RDPGoesOn
<1>4. QueueFits'
  BY <1>1, <1>2, SchedAssumption DEF SchedInv, QueueFits
<1>5. Working' = Working /\ Fits'
  BY <1>1, FitsStay DEF SchedInv, AudioFits
<1>6. Placed'
  <2>1. Sending' = Sending /\ IsInjective(audioList)' /\ IsInjective(gfxList)'
    BY <1>1, SchedulerTypesNow DEF Sending, SchedulerTypes
  <2> QED BY <1>1, <1>5, <2>1, PlacedStays, RepliesStay
<1>7. SchedTypeOK' /\ ~halted'
  BY <1>1, <1>2 DEF SchedInv, SchedTypeOK
<1> QED BY <1>3, <1>4, <1>5, <1>6, <1>7, AllKept

LEMMA HandlePreNMIKeeps ==
  ASSUME SchedInv, HandlePreNMI
  PROVE  SchedInv'
<1>1. /\ Takes("PRENMI") /\ Notify("PRENMI")
      /\ UNCHANGED << cmdQ, audioList, gfxList, doAudio, state, curRSPTask,
                      curRDPTask, pc, ending, halted, rsp, rdp, yieldReq, yielded,
                      swapPending, preNMI, clientList, busy >>
  BY DEF HandlePreNMI, hwVars, schedVars
<1>2. /\ interruptQ' \in Seq(Interrupts)
      /\ \A x : /\ Occurrences(x) \in Nat
                /\ Occurrences(x)' = IF x = "PRENMI" THEN Occurrences(x) - 1 ELSE Occurrences(x)
  BY <1>1, TakesCounts DEF SchedInv
<1>3. Tracks'
  BY <1>1, <1>2, TracksStay DEF RSPGoesOn, RDPGoesOn
<1>4. QueueFits'
  BY <1>1, <1>2 DEF SchedInv, QueueFits
<1>5. Working' = Working /\ Fits'
  BY <1>1, FitsStay DEF SchedInv, AudioFits
<1>6. /\ Returned' = Returned /\ RepliedOnce'
      /\ clientQ' \in [Clients -> Seq(Tasks \cup {"RETRACE", "PRENMI"})]
  BY <1>1, NotifyKeeps DEF SchedInv, Placed
<1>7. Placed'
  <2>1. Sending' = Sending /\ IsInjective(audioList)' /\ IsInjective(gfxList)'
    BY <1>1, SchedulerTypesNow DEF Sending, SchedulerTypes
  <2> QED BY <1>1, <1>5, <1>6, <2>1, PlacedStays
<1>8. SchedTypeOK' /\ ~halted'
  BY <1>1, <1>2, <1>6 DEF SchedInv, SchedTypeOK
<1> QED BY <1>3, <1>4, <1>5, <1>7, <1>8, AllKept

LEMMA SendDoneKeeps ==
  ASSUME SchedInv, SendDone
  PROVE  SchedInv'
<1>1. /\ pc = "send" /\ pc' = "swap"
      /\ clientQ' = [clientQ EXCEPT ![Owner[ending]] = Append(@, ending)]
      /\ UNCHANGED << interruptQ, cmdQ, audioList, gfxList, doAudio, state, curRSPTask,
                      curRDPTask, ending, halted, rsp, rdp, yieldReq, yielded,
                      swapPending, preNMI, clientList, busy >>
  BY DEF SendDone, hwVars
<1>2. SchedTypeOK /\ Placed
  BY DEF SchedInv
<1>3. ending \in Tasks /\ Owner[ending] \in Clients
  BY <1>1, <1>2, SchedAssumption DEF SchedTypeOK
<1>4. Sending = {ending} /\ Sending' = {}
  BY <1>1 DEF Sending
<1>5. ending \notin Returned /\ RepliedOnce
  BY <1>2, <1>4 DEF Placed
<1>6. /\ Returned' = Returned \cup {ending} /\ RepliedOnce'
      /\ clientQ' \in [Clients -> Seq(Tasks \cup {"RETRACE", "PRENMI"})]
  BY <1>1, <1>2, <1>3, <1>5, ReplyGains
<1>7. Working' = Working /\ Fits'
  BY <1>1, FitsStay DEF SchedInv, AudioFits
<1>8. Placed'
  <2>1. IsInjective(audioList)' /\ IsInjective(gfxList)' /\ IsInjective(cmdQ)'
    BY <1>1, <1>2 DEF Placed
  <2> QED BY <1>1, <1>2, <1>4, <1>6, <1>7, <2>1 DEF Placed
<1>9. Tracks'
  BY <1>1, QueueStays, TracksStay DEF RSPGoesOn, RDPGoesOn
<1>10. QueueFits'
  BY <1>1, QueueStays
<1>11. SchedTypeOK' /\ ~halted'
  BY <1>1, <1>3, <1>6 DEF SchedInv, SchedTypeOK
<1> QED BY <1>7, <1>8, <1>9, <1>10, <1>11, AllKept


LEMMA SwapBufferKeeps ==
  ASSUME SchedInv, SwapBuffer
  PROVE  SchedInv'
<1>1. /\ pc = "swap" /\ pc' = "schedule" /\ ending' = NoTask
      /\ swapPending' = (swapPending \/ EndsFrame(ending))
      /\ UNCHANGED << interruptQ, cmdQ, audioList, gfxList, doAudio, state, curRSPTask,
                      curRDPTask, halted, rsp, rdp, yieldReq, yielded,
                      preNMI, clientList, clientQ, busy >>
  BY DEF SwapBuffer, hwVars, clientVars
<1>2. /\ SchedTypeOK /\ AudioFits /\ XbusFits /\ DramFits /\ FramesFit
      /\ swapPending \in BOOLEAN
  BY DEF SchedInv, SchedTypeOK
<1>3. Working' = Working
  BY <1>1 DEF Working
<1>4. AudioFits' /\ DramFits'
  BY <1>1, <1>2, <1>3 DEF AudioFits, DramFits
<1>5. XbusFits' /\ FramesFit'
  <2>1. CASE EndsFrame(ending)
    <3>1. IsGfx(ending)
      BY <2>1 DEF EndsFrame
    <3>2. /\ curRDPTask = NoTask /\ (curRSPTask # NoTask => Kind[curRSPTask] # "XBUS")
          /\ \A t \in ToSet(gfxList) : Kind[t] = "XBUS" => "YIELDED" \notin state[t]
      BY <1>1, <1>2, <3>1 DEF FramesFit
    <3>3. \A t \in Working : t # NoTask
      BY WorkingTasks
    <3>4. XbusFits'
      BY <1>1, <1>2, <1>3, <3>2, <3>3 DEF XbusFits
    <3> QED BY <1>1, <3>2, <3>4 DEF FramesFit
  <2>2. CASE ~EndsFrame(ending)
    <3>1. swapPending' = swapPending
      BY <1>1, <1>2, <2>2
    <3>2. \A t : HasYieldedAt(t) => HasYieldedAt(t)'
      BY <1>1, <3>1 DEF HasYieldedAt
    <3> QED BY <1>1, <1>2, <1>3, <3>1, <3>2 DEF XbusFits, FramesFit
  <2> QED BY <2>1, <2>2
<1>6. Placed'
  <2>1. Sending' = Sending /\ IsInjective(audioList)' /\ IsInjective(gfxList)'
    BY <1>1, SchedulerTypesNow DEF Sending, SchedulerTypes
  <2> QED BY <1>1, <1>3, <2>1, PlacedStays, RepliesStay
<1>7. Tracks'
  BY <1>1, QueueStays, TracksStay DEF RSPGoesOn, RDPGoesOn
<1>8. QueueFits'
  BY <1>1, QueueStays
<1>9. SchedTypeOK' /\ ~halted'
  <2>1. swapPending' \in BOOLEAN
    BY <1>1
  <2> QED BY <1>1, <1>2, <2>1 DEF SchedInv, SchedTypeOK
<1> QED BY <1>4, <1>5, <1>6, <1>7, <1>8, <1>9, AllKept DEF Fits

LEMMA StartNextKeeps ==
  ASSUME SchedInv, ListsAreSent, StartNext
  PROVE  SchedInv'
<1>1. /\ pc = "schedule" /\ pc' = "wait" /\ ending' = NoTask /\ Dispatch
      /\ UNCHANGED << interruptQ, cmdQ, swapPending, preNMI, clientList, clientQ, busy >>
  BY DEF StartNext, Dispatch, clientVars
<1>2. Working' = Working /\ Fits' /\ halted' = FALSE
  BY <1>1, DispatchFits
<1>3. SchedulerTypes' /\ RSPGoesOn /\ RDPGoesOn
  BY <1>1, PlanFits, StartsKeeps
<1>4. IsInjective(audioList)' /\ IsInjective(gfxList)' /\ Sending' = Sending
  BY <1>1, <1>3 DEF SchedulerTypes, Sending
<1>5. Placed'
  BY <1>1, <1>2, <1>4, PlacedStays, RepliesStay
<1>6. Tracks'
  BY <1>1, <1>3, QueueStays, TracksStay
<1>7. QueueFits'
  BY <1>1, QueueStays
<1>8. SchedTypeOK' /\ ~halted'
  BY <1>1, <1>2, <1>3 DEF SchedInv, SchedTypeOK, SchedulerTypes
<1> QED BY <1>2, <1>5, <1>6, <1>7, <1>8, AllKept

LEMMA RetracedKeeps ==
  ASSUME SchedInv, ListsAreSent, Retraced
  PROVE  SchedInv'
<1>1. /\ pc = "fetch" /\ Notify("RETRACE")
      /\ (doAudio /\ curRSPTask # NoTask /\ Yield) \/ Dispatch
      /\ UNCHANGED << interruptQ, cmdQ, clientList, swapPending, preNMI, busy >>
  BY DEF Retraced
<1>2. /\ Returned' = Returned /\ RepliedOnce'
      /\ clientQ' \in [Clients -> Seq(Tasks \cup {"RETRACE", "PRENMI"})]
  BY <1>1, NotifyKeeps DEF SchedInv, Placed
<1>3. pc' = "wait" /\ Working' = Working /\ Fits' /\ ~halted'
  <2>1. CASE doAudio /\ curRSPTask # NoTask /\ Yield
    <3>1. pc' = "wait" /\ ~halted'
      BY <2>1 DEF Yield, SchedInv
    <3> QED BY <1>1, <2>1, <3>1, YieldFits
  <2>2. CASE Dispatch
    BY <1>1, <2>2, DispatchFits DEF Dispatch
  <2> QED BY <1>1, <2>1, <2>2
<1>4. SchedulerTypes' /\ RSPGoesOn /\ RDPGoesOn /\ ending' \in Tasks \cup {NoTask}
  <2>1. CASE doAudio /\ curRSPTask # NoTask /\ Yield
    <3>1. SchedulerTypes
      BY SchedulerTypesNow
    <3>2. /\ UNCHANGED << audioList, gfxList, doAudio, curRSPTask, curRDPTask, ending, rsp, rdp, yielded >>
          /\ yieldReq' \in BOOLEAN
          /\ state' \in [Tasks -> SUBSET Bits]
      BY <2>1, <3>1 DEF Yield, SchedulerTypes, Bits
    <3>3. SchedulerTypes' /\ RSPGoesOn /\ RDPGoesOn
      BY <3>1, <3>2 DEF SchedulerTypes, RSPGoesOn, RDPGoesOn
    <3> QED BY <3>2, <3>3 DEF SchedInv, SchedTypeOK
  <2>2. CASE Dispatch
    BY <2>2, PlanFits, StartsKeeps DEF Dispatch
  <2> QED BY <1>1, <2>1, <2>2
<1>5. IsInjective(audioList)' /\ IsInjective(gfxList)' /\ Sending' = Sending
  BY <1>1, <1>3, <1>4 DEF SchedulerTypes, Sending
<1>6. Placed'
  BY <1>1, <1>2, <1>3, <1>5, PlacedStays
<1>7. Tracks'
  BY <1>1, <1>4, QueueStays, TracksStay
<1>8. QueueFits'
  BY <1>1, QueueStays
<1>9. SchedTypeOK' /\ ~halted'
  BY <1>1, <1>2, <1>3, <1>4 DEF SchedInv, SchedTypeOK, SchedulerTypes
<1> QED BY <1>3, <1>6, <1>7, <1>8, <1>9, AllKept

LEMMA AppendListKeeps ==
  ASSUME SchedInv, AppendList
  PROVE  SchedInv'
<1> DEFINE n == Head(cmdQ)
<1>1. /\ pc = "fetch" /\ pc' = "fetch" /\ cmdQ # <<>> /\ cmdQ' = Tail(cmdQ)
      /\ UNCHANGED << interruptQ, curRSPTask, curRDPTask, ending, halted, rsp, rdp, yieldReq,
                      yielded, swapPending, preNMI, clientList, clientQ, busy >>
  BY DEF AppendList, hwVars, clientVars
<1>2. SchedTypeOK /\ Placed /\ cmdQ \in Seq(Tasks) /\ IsInjective(cmdQ) /\ SchedulerTypes
  BY SchedulerTypesNow DEF SchedInv, SchedTypeOK, Placed
<1>3. Working' = Working \cup {n} /\ n \notin Working /\ n \in Tasks /\ Fits'
  BY AppendFits
<1>4. /\ cmdQ' \in Seq(Tasks) /\ ToSet(cmdQ) = {n} \cup ToSet(cmdQ') /\ n \notin ToSet(cmdQ')
      /\ IsInjective(cmdQ')
  BY <1>1, <1>2, TailLoses
<1>5. /\ audioList' \in Seq(Tasks) /\ gfxList' \in Seq(Tasks)
      /\ doAudio' \in BOOLEAN /\ state' \in [Tasks -> SUBSET Bits]
      /\ IsInjective(audioList') /\ IsInjective(gfxList')
  <2>0. n \notin ToSet(audioList) /\ n \notin ToSet(gfxList)
    BY <1>3 DEF Working
  <2>1. /\ state' = [state EXCEPT ![n] = Needs(n)]
        /\ \/ audioList' = Append(audioList, n) /\ doAudio' = TRUE /\ gfxList' = gfxList
           \/ gfxList' = Append(gfxList, n) /\ audioList' = audioList /\ doAudio' = doAudio
    BY <2>0 DEF AppendList, Linked
  <2>2. /\ audioList \in Seq(Tasks) /\ gfxList \in Seq(Tasks) /\ doAudio \in BOOLEAN
        /\ state \in [Tasks -> SUBSET Bits] /\ IsInjective(audioList) /\ IsInjective(gfxList)
        /\ n \notin ToSet(audioList) /\ n \notin ToSet(gfxList)
    BY <1>2, <1>3 DEF SchedulerTypes, Working
  <2>3. state' \in [Tasks -> SUBSET Bits]
    BY <1>3, <2>1, <2>2 DEF Needs, Bits
  <2>4. /\ Append(audioList, n) \in Seq(Tasks) /\ IsInjective(Append(audioList, n))
        /\ Append(gfxList, n) \in Seq(Tasks) /\ IsInjective(Append(gfxList, n))
    BY <1>3, <2>2, AppendGains
  <2> QED BY <2>1, <2>2, <2>3, <2>4
<1> HIDE DEF n
<1>6. Placed'
  <2>1. Sending = {} /\ Sending' = {} /\ Returned' = Returned /\ RepliedOnce'
    BY <1>1, RepliesStay DEF Sending
  <2> QED BY <1>1, <1>2, <1>3, <1>4, <1>5, <2>1 DEF Placed
<1>7. Tracks'
  BY <1>1, QueueStays, TracksStay DEF RSPGoesOn, RDPGoesOn
<1>8. QueueFits'
  BY <1>1, QueueStays
<1>9. SchedTypeOK' /\ ~halted'
  BY <1>1, <1>2, <1>4, <1>5 DEF SchedInv, SchedTypeOK
<1> QED BY <1>3, <1>6, <1>7, <1>8, <1>9, AllKept


LEMMA HandleRSPKeeps ==
  ASSUME SchedInv, HandleRSP
  PROVE  SchedInv'
<1> DEFINE r == curRSPTask
<1>1. /\ Takes("RSP") /\ pc = "wait"
      /\ UNCHANGED << cmdQ, audioList, doAudio, rsp, rdp, yieldReq, yielded,
                      swapPending, preNMI, clientList, clientQ, busy >>
  BY DEF HandleRSP, Takes, hwVars, clientVars
<1>2. r # NoTask /\ rsp = NoTask
  BY <1>1, EndsOfCurrent
<1>3. StoppedRSP(r) /\ halted' = halted
  BY <1>2 DEF HandleRSP
<1>4. SchedTypeOK /\ Placed /\ SchedulerTypes /\ r \in Tasks
  BY <1>2, SchedulerTypesNow DEF SchedInv, SchedulerTypes
<1>5. /\ interruptQ' \in Seq(Interrupts)
      /\ \A x : /\ Occurrences(x) \in Nat
                /\ Occurrences(x)' = IF x = "RSP" THEN Occurrences(x) - 1 ELSE Occurrences(x)
  BY <1>1, <1>4, TakesCounts
<1>6. curRSPTask' = NoTask /\ curRDPTask' = curRDPTask
  BY <1>3 DEF StoppedRSP
<1>7. Tracks'
  BY <1>1, <1>2, <1>5, <1>6 DEF SchedInv, Tracks
<1>8. QueueFits'
  BY <1>1, <1>5, SchedAssumption DEF SchedInv, QueueFits
<1>9. state' \in [Tasks -> SUBSET Bits]
  BY <1>3, <1>4 DEF StoppedRSP, SchedulerTypes, Bits
<1>10. /\ Fits' /\ gfxList' \in Seq(Tasks) /\ IsInjective(gfxList')
       /\ \/ pc' = "schedule" /\ ending' = NoTask /\ Working' = Working
          \/ pc' = "send" /\ ending' = r /\ Working' = Working \ {r}
  <2>1. CASE HasYielded(r)
    <3>1. /\ Working' = Working /\ Fits'
          /\ gfxList' = <<r>> \o gfxList /\ r \notin ToSet(gfxList)
      BY <1>1, <1>2, <1>3, <2>1, RSPYields
    <3>2. pc' = "schedule" /\ ending' = NoTask
      BY <1>3, <2>1 DEF StoppedRSP
    <3>3. gfxList \in Seq(Tasks) /\ IsInjective(gfxList)
      BY <1>4 DEF SchedulerTypes
    <3>4. gfxList' \in Seq(Tasks) /\ IsInjective(gfxList')
      BY <1>4, <3>1, <3>3, PushGains
    <3> QED BY <3>1, <3>2, <3>4
  <2>2. CASE ~HasYielded(r)
    <3>1. /\ Fits' /\ gfxList' = gfxList
          /\ \/ pc' = "schedule" /\ ending' = NoTask /\ Working' = Working
             \/ pc' = "send" /\ ending' = r /\ Working' = Working \ {r}
      BY <1>1, <1>2, <1>3, <2>2, RSPEnds
    <3> QED BY <1>4, <3>1 DEF SchedulerTypes
  <2> QED BY <2>1, <2>2
<1>11. Placed'
  <2>1. /\ Returned' = Returned /\ RepliedOnce' /\ Sending = {}
        /\ IsInjective(audioList)' /\ IsInjective(gfxList)' /\ IsInjective(cmdQ)'
    BY <1>1, <1>4, <1>10, RepliesStay DEF Sending, SchedulerTypes, Placed
  <2>2. r \in Working
    BY <1>2 DEF Working
  <2>3. \/ Sending' = {} /\ Working' = Working
        \/ Sending' = {r} /\ Working' = Working \ {r}
    BY <1>10 DEF Sending
  <2> HIDE DEF r
  <2> QED BY <1>1, <1>4, <2>1, <2>2, <2>3 DEF Placed
<1>12. SchedTypeOK' /\ ~halted'
  BY <1>1, <1>3, <1>4, <1>5, <1>6, <1>9, <1>10 DEF SchedInv, SchedTypeOK
<1> QED BY <1>7, <1>8, <1>10, <1>11, <1>12, AllKept

LEMMA HandleRDPKeeps ==
  ASSUME SchedInv, HandleRDP
  PROVE  SchedInv'
<1> DEFINE r == curRDPTask
<1>1. /\ Takes("RDP") /\ pc = "wait"
      /\ UNCHANGED << cmdQ, audioList, doAudio, rsp, rdp, yieldReq, yielded,
                      swapPending, preNMI, clientList, clientQ, busy >>
  BY DEF HandleRDP, Takes, hwVars, clientVars
<1>2. r # NoTask /\ rdp = NoTask
  BY <1>1, EndsOfCurrent
<1>3. StoppedRDP(r) /\ halted' = halted
  BY <1>2 DEF HandleRDP
<1>4. SchedTypeOK /\ Placed /\ SchedulerTypes /\ r \in Tasks
  BY <1>2, SchedulerTypesNow DEF SchedInv, SchedulerTypes
<1>5. /\ interruptQ' \in Seq(Interrupts)
      /\ \A x : /\ Occurrences(x) \in Nat
                /\ Occurrences(x)' = IF x = "RDP" THEN Occurrences(x) - 1 ELSE Occurrences(x)
  BY <1>1, <1>4, TakesCounts
<1>6. curRDPTask' = NoTask /\ curRSPTask' = curRSPTask /\ gfxList' = gfxList
  BY <1>3 DEF StoppedRDP
<1>7. Tracks'
  BY <1>1, <1>2, <1>5, <1>6 DEF SchedInv, Tracks
<1>8. QueueFits'
  BY <1>1, <1>5, SchedAssumption DEF SchedInv, QueueFits
<1>9. state' \in [Tasks -> SUBSET Bits]
  BY <1>3, <1>4 DEF StoppedRDP, SchedulerTypes, Bits
<1>10. /\ Fits'
       /\ \/ pc' = "schedule" /\ ending' = NoTask /\ Working' = Working
          \/ pc' = "send" /\ ending' = r /\ Working' = Working \ {r}
  BY <1>1, <1>2, <1>3, RDPEnds
<1>11. Placed'
  <2>1. /\ Returned' = Returned /\ RepliedOnce' /\ Sending = {}
        /\ IsInjective(audioList)' /\ IsInjective(gfxList)' /\ IsInjective(cmdQ)'
    BY <1>1, <1>4, <1>6, RepliesStay DEF Sending, SchedulerTypes, Placed
  <2>2. r \in Working
    BY <1>2 DEF Working
  <2>3. \/ Sending' = {} /\ Working' = Working
        \/ Sending' = {r} /\ Working' = Working \ {r}
    BY <1>10 DEF Sending
  <2> HIDE DEF r
  <2> QED BY <1>1, <1>4, <2>1, <2>2, <2>3 DEF Placed
<1>12. SchedTypeOK' /\ ~halted'
  BY <1>1, <1>3, <1>4, <1>5, <1>6, <1>9, <1>10 DEF SchedInv, SchedTypeOK
<1> QED BY <1>7, <1>8, <1>10, <1>11, <1>12, AllKept

------------------------------------------------------------------------------
(* The invariant *)

LEMMA SchedInvInit ==
  ASSUME Init, NeedsBoth
  PROVE  SchedInv
<1>1. SchedTypeOK /\ ~halted
  <2>1. clientQ \in [Clients -> Seq(Tasks \cup {"RETRACE", "PRENMI"})]
    BY DEF Init
  <2>2. state \in [Tasks -> SUBSET Bits]
    BY DEF Init
  <2>3. <<>> \in Seq(Interrupts) /\ <<>> \in Seq(Tasks)
    OBVIOUS
  <2> QED BY <2>1, <2>2, <2>3 DEF Init, SchedTypeOK
<1>2. \A m : Occurrences(m) = 0
  <2>1. \A m : {i \in DOMAIN interruptQ : interruptQ[i] = m} = {}
    BY DEF Init
  <2> QED BY <2>1, FS_EmptySet DEF Occurrences
<1>3. Tracks /\ QueueFits
  BY <1>2, SchedAssumption DEF Init, Tracks, QueueFits
<1>4. ToSet(cmdQ) = {} /\ ToSet(audioList) = {} /\ ToSet(gfxList) = {}
  BY DEF Init, ToSet
<1>5. Working = {} /\ Sending = {}
  BY <1>4 DEF Working, Sending, Init
<1>6. Returned = {} /\ RepliedOnce
  BY <1>1, RepliesRead DEF Init, RepliedOnce
<1>7. IsInjective(cmdQ) /\ IsInjective(audioList) /\ IsInjective(gfxList)
  BY DEF Init, IsInjective
<1>8. Placed
  BY <1>4, <1>5, <1>6, <1>7 DEF Placed, Init
<1>9. AudioFits /\ XbusFits /\ DramFits /\ FramesFit
  BY <1>4, <1>5 DEF AudioFits, XbusFits, DramFits, FramesFit, Init
<1> QED BY <1>1, <1>3, <1>8, <1>9 DEF SchedInv

LEMMA SchedInvStep ==
  ASSUME Roomy, NeedsBoth, NoDramNextToAudio, ListsAreSent, SchedInv, [Next]_vars
  PROVE  SchedInv'
<1>1. CASE Next
  <2>1. CASE HandleRetrace  BY <2>1, HandleRetraceKeeps
  <2>2. CASE AppendList     BY <2>2, AppendListKeeps
  <2>3. CASE Retraced       BY <2>3, RetracedKeeps
  <2>4. CASE HandleRSP      BY <2>4, HandleRSPKeeps
  <2>5. CASE HandleRDP      BY <2>5, HandleRDPKeeps
  <2>6. CASE HandlePreNMI   BY <2>6, HandlePreNMIKeeps
  <2>7. CASE SendDone       BY <2>7, SendDoneKeeps
  <2>8. CASE SwapBuffer     BY <2>8, SwapBufferKeeps
  <2>9. CASE StartNext      BY <2>9, StartNextKeeps
  <2>10. CASE SpYield       BY <2>10, SpYieldKeeps
  <2>11. CASE Field         BY <2>11, FieldKeeps
  <2>12. CASE PreNMI        BY <2>12, PreNMIKeeps
  <2>13. CASE \E t \in Tasks : SpFinish(t)  BY <2>13, SpFinishKeeps
  <2>14. CASE \E t \in Tasks : DpDone(t)    BY <2>14, DpDoneKeeps
  <2>15. CASE \E t \in Tasks : Submit(t)    BY <2>15, SubmitKeeps
  <2>16. CASE \E c \in Clients : ClientRecv(c)  BY <2>16, ClientRecvKeeps
  <2>17. CASE \E c \in Clients : AddClient(c) \/ RemoveClient(c)  BY <2>17, ClientListKeeps
  <2> QED BY <1>1, <2>1, <2>2, <2>3, <2>4, <2>5, <2>6, <2>7, <2>8, <2>9, <2>10, <2>11,
             <2>12, <2>13, <2>14, <2>15, <2>16, <2>17 DEF Next, Scheduler
<1>2. CASE UNCHANGED vars
  <2>1. /\ UNCHANGED << interruptQ, cmdQ, audioList, gfxList, doAudio, state, curRSPTask,
                        curRDPTask, pc, ending, halted, rsp, rdp, yieldReq, yielded,
                        swapPending, preNMI, clientList, clientQ, busy >>
    BY <1>2 DEF vars, schedVars, hwVars, clientVars
  <2>2. Working' = Working /\ Fits'
    BY <2>1, FitsStay DEF SchedInv, AudioFits
  <2>3. Placed'
    BY <2>1, <2>2, PlacedAsBefore
  <2>4. Tracks' /\ QueueFits'
    BY <2>1, QueueStays, TracksStay DEF RSPGoesOn, RDPGoesOn
  <2>5. SchedTypeOK' /\ ~halted'
    BY <2>1 DEF SchedInv, SchedTypeOK
  <2> QED BY <2>2, <2>3, <2>4, <2>5, AllKept
<1> QED BY <1>1, <1>2

LEMMA SchedInvHolds ==
  ASSUME Roomy, NeedsBoth, NoDramNextToAudio, ListsAreSent
  PROVE  Spec => []SchedInv
<1>1. Init => SchedInv
  BY SchedInvInit
<1>2. SchedInv /\ [Next]_vars => SchedInv'
  BY SchedInvStep
<1> QED BY <1>1, <1>2, PTL DEF Spec

------------------------------------------------------------------------------
(* The theorems *)

(* Every submitted task is at one stage, where the scheduler and its client believe
   it to be, and each end of a task is served once: for audio, and for graphics that
   need both processors.  One that needs only the RSP is answered and stays listed. *)
THEOREM TasksAreAccounted ==
  ASSUME Roomy, NeedsBoth, NoDramNextToAudio, ListsAreSent
  PROVE  Spec => []TasksAccounted
<1>1. SchedInv => TasksAccounted
  <2> SUFFICES ASSUME SchedInv PROVE TasksAccounted
    OBVIOUS
  <2>1. Held = ToSet(cmdQ) \cup Working \cup Sending
    BY DEF Held, Working, Sending
  <2>2. Held \cup Returned = busy /\ Held \cap Returned = {}
    BY <2>1 DEF SchedInv, Placed
  <2>3. Tracks
    BY DEF SchedInv
  <2> QED BY <2>2, <2>3 DEF TasksAccounted, HandedBack
<1> QED BY <1>1, SchedInvHolds, PTL

(* No assertion of __scSchedule, __scExec or the handlers fails. *)
THEOREM AssertionsNeverFail ==
  ASSUME Roomy, NeedsBoth, NoDramNextToAudio, ListsAreSent
  PROVE  Spec => []NoAssert
<1>1. SchedInv => NoAssert
  BY DEF SchedInv, NoAssert
<1> QED BY <1>1, SchedInvHolds, PTL

(* Nothing is drawn while a frame waits to be shown, and no frame is replaced
   before it was shown. *)
THEOREM NothingDrawnOverAFrame ==
  ASSUME Roomy, NeedsBoth, NoDramNextToAudio, ListsAreSent
  PROVE  Spec => []DrawsAfterSwap
<1>1. SchedInv => DrawsAfterSwap
  <2> SUFFICES ASSUME SchedInv PROVE DrawsAfterSwap
    OBVIOUS
  <2>1. Tracks /\ FramesFit
    BY DEF SchedInv
  <2>2. rdp # NoTask => ~swapPending
    BY <2>1 DEF Tracks, FramesFit
  <2>3. pc = "swap" /\ EndsFrame(ending) => ~swapPending
    BY <2>1 DEF FramesFit, EndsFrame
  <2> QED BY <2>2, <2>3 DEF DrawsAfterSwap
<1> QED BY <1>1, SchedInvHolds, PTL

------------------------------------------------------------------------------
(***************************************************************************)
(* The video manager                                                       *)
(***************************************************************************)
ViContexts == [frame : Frames, mode : Modes, gamma : BOOLEAN, flags : SUBSET Flags,
               event : BOOLEAN, count : Nat]

ViTypes ==
  /\ vi \in [{0, 1} -> ViContexts] /\ viNext \in {0, 1} /\ wanted \in ViContexts
  /\ retrace \in Nat /\ waited \in Nat /\ asked \in Nat
  /\ viTime \in Nat /\ viTicks \in Nat

\* Of Count and the time at the last retrace, each as far as it fits
CountRuns ==
  /\ viCount \in 0..ViCountMod - 1 /\ viBase \in 0..ViCountMod - 1
  /\ viTime <= viTicks /\ viTicks - viTime < ViCountMod
  /\ \/ viCount = viBase + (viTicks - viTime)
     \/ viCount + ViCountMod = viBase + (viTicks - viTime)

\* The retraces that were waited for and those that are left are no more than were asked for.
MessageComes ==
  /\ retrace \in 1..RetraceMod /\ waited + retrace <= asked
  /\ wanted.count \in 1..RetraceMod /\ wanted.count <= asked

ViInv == ViTypes /\ SettingsStay /\ CountRuns /\ MessageComes

LEMMA ViDefs ==
  ASSUME ViInv PROVE ViTypes /\ SettingsStay /\ CountRuns /\ MessageComes
BY DEF ViInv

LEMMA Wraps ==
  ASSUME NEW m \in Nat \ {0}, NEW d \in 0..m - 1
  PROVE  d % m = d /\ (d - m) % m = d
OBVIOUS

LEMMA NextCount ==
  ASSUME NEW m \in Nat \ {0}, NEW d \in 0..m - 1
  PROVE  (d + 1) % m = IF d = m - 1 THEN 0 ELSE d + 1
<1>1. CASE d = m - 1
  BY <1>1
<1>2. CASE d # m - 1
  <2>1. d + 1 \in 0..m - 1
    BY <1>2
  <2> QED BY <1>2, <2>1
<1> QED BY <1>1, <1>2

LEMMA ElapsedIs ==
  ASSUME CountRuns, viTime \in Nat, viTicks \in Nat
  PROVE  Elapsed = viTicks - viTime
<1>1. ViCountMod \in Nat \ {0}
  BY ViMgrAssumption
<1>2. PICK d : d = viTicks - viTime
  OBVIOUS
<1>3. d \in 0..ViCountMod - 1
  BY <1>1, <1>2 DEF CountRuns
<1>4. viCount - viBase = d \/ viCount - viBase = d - ViCountMod
  BY <1>1, <1>2, <1>3 DEF CountRuns
<1> QED BY <1>1, <1>2, <1>3, <1>4, Wraps DEF Elapsed

\* What the calls leave alone
LEMMA CallKeeps ==
  ASSUME ViInv, NEW c \in ViContexts, vi' = [vi EXCEPT ![viNext] = c], wanted' = c,
         UNCHANGED << viNext, regs, retrace, viTime, viBase, viCount, viTicks, waited >>,
         asked' \in Nat, asked' >= asked, c.count \in 1..RetraceMod, c.count <= asked'
  PROVE  ViInv'
<1>1. ViTypes'
  BY ViDefs DEF ViTypes
<1>2. vi'[viNext] = c /\ vi'[1 - viNext] = vi[1 - viNext]
  BY ViDefs DEF ViTypes
<1>3. SettingsStay'
  BY <1>2, ViDefs DEF SettingsStay, Display
<1>4. CountRuns'
  BY ViDefs DEF CountRuns
<1>5. MessageComes'
  BY ViDefs DEF MessageComes, ViTypes
<1> QED BY <1>1, <1>3, <1>4, <1>5 DEF ViInv

LEMMA RetraceKeeps ==
  ASSUME ViInv, Retrace
  PROVE  ViInv'
<1>1. PICK n \in {0, 1} : n = viNext /\ 1 - n \in {0, 1} /\ 1 - n # n /\ 1 - (1 - n) = n
  BY ViDefs DEF ViTypes
<1>2. /\ regs' = Display(vi[n]) /\ vi' = [vi EXCEPT ![1 - n] = vi[n]] /\ viNext' = 1 - n
      /\ wanted' = wanted /\ asked' = asked /\ viCount' = viCount /\ viTicks' = viTicks
  BY <1>1 DEF Retrace, Copied
<1>3. vi'[n] = vi[n] /\ vi'[1 - n] = vi[n] /\ vi[n] = wanted /\ vi' \in [{0, 1} -> ViContexts]
  BY <1>1, <1>2, ViDefs DEF ViTypes, SettingsStay
<1>4. SettingsStay'
  BY <1>1, <1>2, <1>3 DEF SettingsStay, Display
<1>5. viTime' = viTicks /\ viBase' = viCount
  BY ViDefs, ElapsedIs DEF Retrace, ViTypes
<1>6. CountRuns'
  BY <1>2, <1>5, ViDefs, ViMgrAssumption DEF CountRuns, ViTypes
<1>7. PICK left \in Nat : left = retrace - 1 /\ left = (retrace - 1) % RetraceMod
  <2>1. RetraceMod \in Nat \ {0} /\ retrace - 1 \in 0..RetraceMod - 1
    BY ViDefs, ViMgrAssumption DEF MessageComes
  <2> QED BY <2>1, Wraps
<1>8. /\ retrace' = IF left = 0 THEN wanted.count ELSE left
      /\ waited' = IF left = 0 THEN 0 ELSE waited + 1
  BY <1>1, <1>3, <1>7 DEF Retrace, Reloaded
<1>9. MessageComes' /\ retrace' \in Nat /\ waited' \in Nat
  <2>1. /\ wanted.count \in 1..RetraceMod /\ wanted.count <= asked /\ asked \in Nat /\ waited \in Nat
        /\ retrace \in 1..RetraceMod /\ waited + retrace <= asked /\ RetraceMod \in Nat
    BY ViDefs, ViMgrAssumption DEF ViTypes, MessageComes
  <2>2. PICK k \in Nat : k = wanted.count
    BY <2>1
  <2>3. CASE left = 0
    BY <1>2, <1>7, <1>8, <2>1, <2>2, <2>3 DEF MessageComes
  <2>4. CASE left # 0
    BY <1>2, <1>7, <1>8, <2>1, <2>2, <2>4 DEF MessageComes
  <2> QED BY <2>3, <2>4
<1>10. ViTypes'
  BY <1>1, <1>2, <1>3, <1>5, <1>9, ViDefs DEF ViTypes
<1> QED BY <1>4, <1>6, <1>9, <1>10 DEF ViInv

LEMMA TickKeeps ==
  ASSUME ViInv, ViTick
  PROVE  ViInv'
<1>1. ViCountMod \in Nat \ {0} /\ viCount \in 0..ViCountMod - 1
  BY ViDefs, ViMgrAssumption DEF CountRuns
<1>2. viCount' = IF viCount = ViCountMod - 1 THEN 0 ELSE viCount + 1
  BY <1>1, NextCount DEF ViTick
<1>3. CountRuns'
  BY <1>1, <1>2, ViDefs DEF ViTick, CountRuns, ViTypes
<1>4. ViTypes' /\ SettingsStay' /\ MessageComes'
  BY ViDefs DEF ViTick, ViTypes, SettingsStay, MessageComes, Display
<1> QED BY <1>3, <1>4 DEF ViInv

LEMMA SettingKeeps ==
  ASSUME ViInv, 0 \notin RetraceCounts,
         \/ \E f \in Frames : SwapsBuffer(f)
         \/ \E m \in Modes : SetMode(m)
         \/ \E on \in BOOLEAN : SetGamma(on)
         \/ \E flag \in Flags : SetFlag(flag)
         \/ \E flag \in Flags \ {"xscale", "yscale"} : ClearFlag(flag)
         \/ \E n \in RetraceCounts : SetEvent(n)
  PROVE  ViInv'
<1>1. PICK w \in ViContexts : w = wanted /\ w = vi[viNext] /\ w.count \in 1..RetraceMod /\ w.count <= asked
  BY ViDefs DEF ViTypes, SettingsStay, MessageComes
<1>2. asked \in Nat /\ w.count \in Nat
  BY <1>1, ViDefs DEF ViTypes, ViContexts
<1>3. ASSUME NEW c \in ViContexts, c.count = w.count, asked' = asked,
             vi' = [vi EXCEPT ![viNext] = c], wanted' = c,
             UNCHANGED << viNext, regs, retrace, viTime, viBase, viCount, viTicks, waited >>
      PROVE  ViInv'
  <2>1. asked' \in Nat /\ asked' >= asked /\ c.count \in 1..RetraceMod /\ c.count <= asked'
    BY <1>1, <1>2, <1>3
  <2> QED BY <1>3, <2>1, CallKeeps
<1>4. CASE \E f \in Frames : SwapsBuffer(f)
  <2>1. PICK f \in Frames : SwapsBuffer(f)
    BY <1>4
  <2>2. PICK c : c = [w EXCEPT !.frame = f]
    OBVIOUS
  <2>3. c \in ViContexts /\ c.count = w.count
    BY <1>1, <2>2 DEF ViContexts
  <2> QED BY <1>1, <1>3, <2>1, <2>2, <2>3 DEF SwapsBuffer, Sets
<1>5. CASE \E m \in Modes : SetMode(m)
  <2>1. PICK m \in Modes : SetMode(m)
    BY <1>5
  <2>2. PICK c : c = [w EXCEPT !.mode = m, !.gamma = GammaOf[m], !.flags = {}]
    OBVIOUS
  <2>3. GammaOf[m] \in BOOLEAN
    BY ViMgrAssumption
  <2>4. c \in ViContexts /\ c.count = w.count
    BY <1>1, <2>2, <2>3 DEF ViContexts
  <2> QED BY <1>1, <1>3, <2>1, <2>2, <2>4 DEF SetMode, Sets
<1>6. CASE \E on \in BOOLEAN : SetGamma(on)
  <2>1. PICK on \in BOOLEAN : SetGamma(on)
    BY <1>6
  <2>2. PICK c : c = [w EXCEPT !.gamma = on]
    OBVIOUS
  <2>3. c \in ViContexts /\ c.count = w.count
    BY <1>1, <2>2 DEF ViContexts
  <2> QED BY <1>1, <1>3, <2>1, <2>2, <2>3 DEF SetGamma, Sets
<1>7. CASE \E flag \in Flags : SetFlag(flag)
  <2>1. PICK flag \in Flags : SetFlag(flag)
    BY <1>7
  <2>2. PICK c : c = [w EXCEPT !.flags = @ \cup {flag}]
    OBVIOUS
  <2>3. c \in ViContexts /\ c.count = w.count
    BY <1>1, <2>2 DEF ViContexts
  <2> QED BY <1>1, <1>3, <2>1, <2>2, <2>3 DEF SetFlag, Sets
<1>8. CASE \E flag \in Flags \ {"xscale", "yscale"} : ClearFlag(flag)
  <2>1. PICK flag \in Flags : ClearFlag(flag)
    BY <1>8
  <2>2. PICK c : c = [w EXCEPT !.flags = @ \ {flag}]
    OBVIOUS
  <2>3. c \in ViContexts /\ c.count = w.count
    BY <1>1, <2>2 DEF ViContexts
  <2> QED BY <1>1, <1>3, <2>1, <2>2, <2>3 DEF ClearFlag, Sets
<1>9. CASE \E n \in RetraceCounts : SetEvent(n)
  <2>1. PICK n \in RetraceCounts : SetEvent(n)
    BY <1>9
  <2>2. n \in 1..RetraceMod /\ n \in Nat
    BY ViMgrAssumption
  <2>3. PICK c : c = [w EXCEPT !.event = TRUE, !.count = n]
    OBVIOUS
  <2>4. c \in ViContexts /\ c.count = n
    BY <1>1, <2>2, <2>3 DEF ViContexts
  <2>5. asked' \in Nat /\ asked' >= asked /\ n <= asked'
    <3>1. asked' = IF n > asked THEN n ELSE asked
      BY <2>1 DEF SetEvent, Sets
    <3> QED BY <1>2, <2>2, <3>1
  <2> QED BY <1>1, <2>1, <2>2, <2>3, <2>4, <2>5, CallKeeps DEF SetEvent, Sets
<1> QED BY <1>4, <1>5, <1>6, <1>7, <1>8, <1>9

(* Whatever programs set and however Count wraps, a setting stays until it is
   changed, osGetTime tells all the cycles there were, and a message comes
   within the retraces that were asked for, if none asks for 0 (viMgrMain,
   __osViSwapContext, osGetTime). *)
THEOREM DisplayAsSet ==
  ASSUME 0 \notin RetraceCounts
  PROVE  ViSpec => []RetraceKeepsUp
<1>1. ViInit => ViInv
  <2> SUFFICES ASSUME ViInit PROVE ViInv
    OBVIOUS
  <2>1. PICK c : c = [frame |-> FirstFrame, mode |-> FirstMode, gamma |-> GammaOf[FirstMode],
                      flags |-> {"black"}, event |-> FALSE, count |-> 1]
    OBVIOUS
  <2>2. c \in ViContexts /\ c.count = 1
    BY <2>1, ViMgrAssumption DEF ViContexts, Flags
  <2>3. vi = [i \in {0, 1} |-> c] /\ viNext = 0 /\ regs = Display(c) /\ wanted = c
    BY <2>1 DEF ViInit
  <2>4. ViTypes /\ SettingsStay
    <3>1. vi[0] = c /\ vi[1] = c /\ 1 - viNext = 1 /\ vi \in [{0, 1} -> ViContexts]
      BY <2>2, <2>3
    <3>2. retrace = 1 /\ waited = 0 /\ asked = 1 /\ viTime = 0 /\ viTicks = 0
      BY DEF ViInit
    <3>3. ViTypes
      BY <2>2, <2>3, <3>1, <3>2 DEF ViTypes
    <3> QED BY <2>3, <3>1, <3>3 DEF SettingsStay
  <2>5. CountRuns /\ MessageComes
    BY <2>2, <2>3, ViMgrAssumption DEF ViInit, CountRuns, MessageComes
  <2> QED BY <2>4, <2>5 DEF ViInv
<1>2. ViInv /\ [ViNext]_viVars => ViInv'
  <2>1. ASSUME ViInv, UNCHANGED viVars PROVE ViInv'
    BY <2>1 DEF viVars, ViInv, ViTypes, SettingsStay, CountRuns, MessageComes, Display
  <2> QED BY <2>1, RetraceKeeps, TickKeeps, SettingKeeps DEF ViNext
<1>3. ViInv => RetraceKeepsUp
  <2> SUFFICES ASSUME ViInv PROVE RetraceKeepsUp
    OBVIOUS
  <2>1. GetTime = viTicks
    BY ViDefs, ElapsedIs DEF GetTime, ViTypes
  <2>2. waited < asked
    BY ViDefs, ViMgrAssumption DEF ViTypes, MessageComes
  <2> QED BY <2>1, <2>2, ViDefs DEF RetraceKeepsUp, OnTime
<1> QED BY <1>1, <1>2, <1>3, PTL DEF ViSpec
================================================================================
