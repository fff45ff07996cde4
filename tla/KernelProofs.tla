---------------------------- MODULE KernelProofs ----------------------------
(***************************************************************************)
(* Proofs about two parts of the kernel that share nothing here: the       *)
(* timers (Timer) and the life of a thread (ThreadLife).                   *)
(*                                                                         *)
(* Timer, for any timers, times and widths of the tick: none is late,      *)
(* early or out of order.  The numbers of the code wrap; the age and the   *)
(* time left of a timer do not.  So the proofs begin with what Reached and *)
(* Later, which compare numbers that wrap, say of the time left, then show *)
(* what each function of timer.c keeps of the lists (Sound), and then,     *)
(* action by action, the invariant of the interrupt, the timer thread and  *)
(* the application (IInv).                                                 *)
(*                                                                         *)
(* ThreadLife, for any number of threads and handles: as long as no timer  *)
(* expires in the middle of rt_thread_delete and no handle of a freed      *)
(* thread is used, the lists of the kernel are consistent and no thread is *)
(* lost (LifeInv).                                                         *)
(***************************************************************************)
EXTENDS Timer, ThreadLife, SequenceTheorems, FiniteSetTheorems, WellFoundedInduction, TLAPS

-----------------------------------------------------------------------------
(* Timer: lists of timers *)

\* a timer has one link: a list names it at most once
Once(l) == \A i, j \in 1 .. Len(l) : l[i] = l[j] => i = j

\* the members of r stand in it in the order they have in l
InOrder(r, l) ==
    \A i, j \in 1 .. Len(r) : i < j => \E a, b \in 1 .. Len(l) : a < b /\ l[a] = r[i] /\ l[b] = r[j]

\* a timer leaves the list, wherever it is
LEMMA UnlinkList ==
    ASSUME NEW S, NEW l \in Seq(S), Once(l), NEW x
    PROVE  LET r == Unlink(l, x)
           IN  /\ r \in Seq(S) /\ Once(r) /\ InOrder(r, l)
               /\ \A y : Contains(r, y) <=> y # x /\ Contains(l, y)
<1> DEFINE r == Unlink(l, x)
<1>1. CASE ~Contains(l, x)
  <2>1. r = l
    BY <1>1 DEF Unlink
  <2>2. InOrder(l, l)
    BY DEF InOrder
  <2> QED
    BY <1>1, <2>1, <2>2
<1>2. CASE Contains(l, x)
  <2>n. PICK n \in 1 .. Len(l) : l[n] = x
    BY <1>2 DEF Contains
  <2>1. Len(l) \in Nat /\ n \in Nat /\ \A i \in 1 .. Len(l) : l[i] \in S /\ (l[i] = x => i = n)
    BY <2>n DEF Once
  <2>2. r = [i \in 1 .. Len(l) - 1 |-> IF \E k \in 1 .. i : l[k] = x THEN l[i + 1] ELSE l[i]]
    BY <1>2 DEF Unlink
  <2>3. \A i \in 1 .. Len(l) - 1 : (\E k \in 1 .. i : l[k] = x) <=> n <= i
    BY <2>n, <2>1
  <2>4. \A i \in 1 .. Len(l) - 1 : r[i] = IF n <= i THEN l[i + 1] ELSE l[i]
    BY <2>2, <2>3
  <2>5. \A i \in 1 .. Len(l) - 1 : r[i] \in S
    <3> TAKE i \in 1 .. Len(l) - 1
    <3>1. i \in 1 .. Len(l) /\ i + 1 \in 1 .. Len(l)
      BY <2>1
    <3> QED
      BY <2>1, <2>4, <3>1
  <2>6. r \in Seq(S) /\ Len(r) = Len(l) - 1
    <3>0. Len(l) - 1 \in Nat
      BY <2>n, <2>1
    <3>1. r \in [1 .. Len(l) - 1 -> S]
      BY <2>2, <2>5
    <3>2. r \in Seq(S)
      BY <3>0, <3>1, SeqDef
    <3> QED
      BY <3>0, <3>1, <3>2, LenProperties
  <2> HIDE DEF r
  \* where the members of r come from
  <2>7. \A i \in 1 .. Len(r) : /\ i \in Nat /\ i \in 1 .. Len(l) /\ i + 1 \in 1 .. Len(l)
                               /\ r[i] = IF n <= i THEN l[i + 1] ELSE l[i]
    BY <2>1, <2>4, <2>6
  <2>8. Once(r)
    <3> SUFFICES ASSUME NEW i \in 1 .. Len(r), NEW j \in 1 .. Len(r), r[i] = r[j] PROVE i = j
      BY DEF Once
    <3> QED
      BY <2>1, <2>7 DEF Once
  <2>9. InOrder(r, l)
    <3> SUFFICES ASSUME NEW i \in 1 .. Len(r), NEW j \in 1 .. Len(r), i < j
                 PROVE  \E a, b \in 1 .. Len(l) : a < b /\ l[a] = r[i] /\ l[b] = r[j]
      BY DEF InOrder
    <3>1. i \in Nat /\ j \in Nat /\ n \in Nat /\ {i, i + 1, j, j + 1} \subseteq 1 .. Len(l)
      BY <2>1, <2>7
    <3>2. CASE n <= i
      <4>1. r[i] = l[i + 1] /\ r[j] = l[j + 1] /\ i + 1 < j + 1
        BY <2>7, <3>1, <3>2
      <4> QED
        BY <3>1, <4>1
    <3>3. CASE ~(n <= i) /\ n <= j
      <4>1. r[i] = l[i] /\ r[j] = l[j + 1] /\ i < j + 1
        BY <2>7, <3>1, <3>3
      <4> QED
        BY <3>1, <4>1
    <3>4. CASE ~(n <= i) /\ ~(n <= j)
      BY <2>7, <3>1, <3>4
    <3> QED
      BY <3>2, <3>3, <3>4
  <2>10. ASSUME NEW y PROVE Contains(r, y) <=> y # x /\ Contains(l, y)
    <3>1. ASSUME NEW i \in 1 .. Len(r) PROVE r[i] # x /\ Contains(l, r[i])
      BY <2>1, <2>7 DEF Contains
    <3>2. ASSUME NEW i \in 1 .. Len(l), l[i] # x PROVE Contains(r, l[i])
      <4>1. i # n /\ i \in Nat
        BY <2>n, <3>2
      <4>2. CASE i < n
        <5>1. i \in 1 .. Len(r) /\ r[i] = l[i]
          BY <2>1, <2>6, <2>7, <4>1, <4>2
        <5> QED
          BY <5>1 DEF Contains
      <4>3. CASE i > n
        <5>1. i - 1 \in 1 .. Len(r) /\ r[i - 1] = l[i]
          BY <2>1, <2>6, <2>7, <4>1, <4>3
        <5> QED
          BY <5>1 DEF Contains
      <4> QED
        BY <2>1, <4>1, <4>2, <4>3
    <3> QED
      BY <3>1, <3>2 DEF Contains
  <2> QED
    BY <2>6, <2>8, <2>9, <2>10 DEF r
<1> QED
  BY <1>1, <1>2

\* r is l with x at the place i
Inserted(l, i, x, r) ==
    /\ Len(r) = Len(l) + 1
    /\ \A k \in 1 .. Len(r) : r[k] = IF k < i THEN l[k] ELSE IF k = i THEN x ELSE l[k - 1]
    /\ \A y : Contains(r, y) <=> y = x \/ Contains(l, y)

\* a timer is put into the list at the place i
LEMMA InsertList ==
    ASSUME NEW S, NEW l \in Seq(S), NEW x \in S, NEW i \in 1 .. Len(l) + 1, Once(l), ~Contains(l, x)
    PROVE  LET r == InsertAt(l, i, x)
           IN  r \in Seq(S) /\ Once(r) /\ Inserted(l, i, x, r)
<1> DEFINE a == SubSeq(l, 1, i - 1)
           b == SubSeq(l, i, Len(l))
           r == InsertAt(l, i, x)
<1>0. Len(l) \in Nat /\ i \in Nat /\ i >= 1 /\ i <= Len(l) + 1 /\ \A k \in 1 .. Len(l) : l[k] \in S
  OBVIOUS
<1>1. a \in Seq(S) /\ Len(a) = i - 1 /\ \A k \in 1 .. i - 1 : a[k] = l[k]
  <2>1. \A k \in 1 .. i - 1 : l[k] \in S
    BY <1>0
  <2> QED
    BY <1>0, <2>1, SubSeqProperties
<1>2. b \in Seq(S) /\ Len(b) = Len(l) - i + 1 /\ \A k \in 1 .. Len(l) - i + 1 : b[k] = l[i + k - 1]
  <2>1. \A k \in i .. Len(l) : l[k] \in S
    BY <1>0
  <2> QED
    BY <1>0, <2>1, SubSeqProperties
<1>3. r = a \o <<x>> \o b
  BY DEF InsertAt
<1> HIDE DEF a, b, r
<1> DEFINE c == a \o <<x>>
<1>4. c \in Seq(S) /\ Len(c) = i /\ c[i] = x /\ \A k \in 1 .. i - 1 : c[k] = l[k]
  BY <1>0, <1>1
<1>5. r = c \o b
  BY <1>3
<1> HIDE DEF c
<1>6. r \in Seq(S) /\ Len(r) = Len(l) + 1
  BY <1>0, <1>2, <1>4, <1>5, ConcatProperties
<1>7. \A k \in 1 .. Len(l) + 1 : r[k] = IF k <= i THEN c[k] ELSE b[k - i]
  BY <1>0, <1>2, <1>4, <1>5, ConcatProperties
<1>8. \A k \in 1 .. Len(l) + 1 : r[k] = IF k < i THEN l[k] ELSE IF k = i THEN x ELSE l[k - 1]
  <2> TAKE k \in 1 .. Len(l) + 1
  <2>1. k > i => k - i \in 1 .. Len(l) - i + 1 /\ i + (k - i) - 1 = k - 1
    BY <1>0
  <2> QED
    BY <1>0, <1>2, <1>4, <1>7, <2>1
<1>9. \A y : Contains(r, y) <=> y = x \/ Contains(l, y)
  <2> TAKE y
  <2>1. ASSUME NEW k \in 1 .. Len(r) PROVE r[k] = x \/ Contains(l, r[k])
    <3>1. k # i => k \in 1 .. Len(l) \/ k - 1 \in 1 .. Len(l)
      BY <1>0, <1>6
    <3>2. k < i => k \in 1 .. Len(l)
      BY <1>0, <1>6
    <3>3. k > i => k - 1 \in 1 .. Len(l)
      BY <1>0, <1>6
    <3> QED
      BY <1>0, <1>6, <1>8, <3>2, <3>3 DEF Contains
  <2>2. Contains(r, x)
    BY <1>0, <1>6, <1>8 DEF Contains
  <2>3. ASSUME NEW k \in 1 .. Len(l) PROVE Contains(r, l[k])
    <3>1. CASE k < i
      BY <1>0, <1>6, <1>8, <3>1 DEF Contains
    <3>2. CASE ~(k < i)
      <4>1. k + 1 \in 1 .. Len(r) /\ r[k + 1] = l[k]
        BY <1>0, <1>6, <1>8, <3>2
      <4> QED
        BY <4>1 DEF Contains
    <3> QED
      BY <3>1, <3>2
  <2> QED
    BY <2>1, <2>2, <2>3 DEF Contains
<1>10. Once(r)
  <2> SUFFICES ASSUME NEW j \in 1 .. Len(r), NEW k \in 1 .. Len(r), r[j] = r[k] PROVE j = k
    BY DEF Once
  <2>1. \A d \in 1 .. Len(r) : /\ d < i => d \in 1 .. Len(l) /\ r[d] = l[d]
                               /\ d = i => r[d] = x
                               /\ d > i => d - 1 \in 1 .. Len(l) /\ r[d] = l[d - 1]
    BY <1>0, <1>6, <1>8
  <2>2. \A d \in 1 .. Len(l) : l[d] # x
    BY DEF Contains
  <2>3. \A g, d \in 1 .. Len(l) : l[g] = l[d] => g = d
    BY DEF Once
  <2>4. j \in Nat /\ k \in Nat
    BY <1>6
  <2>5. CASE j < i
    BY <1>0, <2>1, <2>2, <2>3, <2>4, <2>5
  <2>6. CASE j = i
    BY <1>0, <2>1, <2>2, <2>4, <2>6
  <2>7. CASE j > i
    <3>1. j - 1 \in 1 .. Len(l) /\ r[j] = l[j - 1]
      BY <2>1, <2>7
    <3>2. k > i
      <4>1. ASSUME k < i PROVE FALSE
        <5>1. k \in 1 .. Len(l) /\ l[k] = l[j - 1]
          BY <2>1, <3>1, <4>1
        <5>2. k = j - 1
          BY <2>3, <3>1, <5>1
        <5> QED
          BY <1>0, <2>4, <2>7, <4>1, <5>2
      <4>2. k # i
        BY <2>1, <2>2, <3>1
      <4> QED
        BY <1>0, <2>4, <4>1, <4>2
    <3>3. k - 1 \in 1 .. Len(l) /\ r[k] = l[k - 1]
      BY <2>1, <3>2
    <3>4. j - 1 = k - 1
      BY <2>3, <3>1, <3>3
    <3> QED
      BY <2>4, <3>4
  <2> QED
    BY <1>0, <2>4, <2>5, <2>6, <2>7
<1> QED
  BY <1>6, <1>8, <1>9, <1>10 DEF Inserted, r

\* a list without members is empty
LEMMA EmptyList ==
    ASSUME NEW S, NEW l \in Seq(S)
    PROVE  l = <<>> <=> \A x : ~Contains(l, x)
<1>1. Len(l) \in Nat /\ (l # <<>> => Len(l) >= 1)
  OBVIOUS
<1>2. l # <<>> => Contains(l, l[1])
  BY <1>1 DEF Contains
<1>3. l = <<>> => \A x : ~Contains(l, x)
  BY DEF Contains
<1> QED
  BY <1>2, <1>3

\* the numbers of a set have a least one
LEMMA LeastNumber ==
    ASSUME NEW S, S \subseteq Nat, S # {}
    PROVE  \E x \in S : \A y \in S : x <= y
<1> DEFINE R == {ss \in Nat \X Nat : ss[1] < ss[2]}
<1>1. IsWellFoundedOn(R, Nat)
  BY NatLessThanWellFounded DEF OpToRel
<1> HIDE DEF R
<1>2. PICK x \in S : \A y \in S : <<y, x>> \notin R
  BY <1>1, WFMin
<1>3. \A y \in S : x <= y
  <2> TAKE y \in S
  <2>1. ~(y < x)
    BY <1>2 DEF R
  <2> QED
    BY <2>1
<1> QED
  BY <1>3

-----------------------------------------------------------------------------
(* Timer: the tick wraps, times do not *)

\* the number a of the code stands for the time y
Wraps(a, y) == a = y \/ a = y + W \/ a = y - W

LEMMA Bounds ==
    /\ W \in Nat /\ Half \in Nat /\ MaxLag \in Nat /\ MaxSlip \in Nat /\ TickMax = W - 1 /\ TickMax \in Nat
    /\ 2 * Half + 1 <= W /\ 1 <= MaxLag /\ MaxLag < Half
    /\ \A d \in Durations : d \in Nat /\ d # 0 /\ d + 2 * MaxLag <= Half
<1>1. W \in Nat /\ MaxLag \in 1 .. Half - 1 /\ MaxSlip \in Nat
  BY TimeAssumption
<1>2. Half = (W - 1) \div 2 /\ TickMax = W - 1
  BY DEF Half, TickMax
<1>3. Half \in Int /\ 2 * Half <= W - 1
  BY <1>1, <1>2
<1>4. 1 <= MaxLag /\ MaxLag <= Half - 1 /\ MaxLag \in Nat
  BY <1>1, <1>3
<1>5. \A d \in Durations : d \in Nat /\ d # 0 /\ d + 2 * MaxLag <= Half
  BY TimeAssumption
<1> HIDE DEF Half
<1> QED
  BY <1>1, <1>2, <1>3, <1>4, <1>5

LEMMA Modulo ==
    ASSUME NEW x \in Nat, x < 2 * W
    PROVE  x % W = IF x < W THEN x ELSE x - W
<1>1. W \in Nat /\ W > 0
  BY Bounds
<1>2. CASE x < W
  BY <1>1, <1>2
<1>3. CASE ~(x < W)
  BY <1>1, <1>3
<1> QED
  BY <1>2, <1>3

\* Dist tells how two times, less than half a turn apart, lie to each other
LEMMA DistFacts ==
    ASSUME NEW a \in 0 .. TickMax, NEW b \in 0 .. TickMax, NEW x \in Int, NEW y \in Int,
           Wraps(a, x), Wraps(b, y), -Half <= x - y, x - y < Half
    PROVE  /\ Dist(a, b) < Half <=> x >= y
           /\ x >= y => Dist(a, b) = x - y
           /\ a = b <=> x = y
<1>1. W \in Nat /\ Half \in Nat /\ 2 * Half + 1 <= W /\ a \in Nat /\ b \in Nat /\ a < W /\ b < W
  BY Bounds
<1>2. a - b + W \in Nat /\ a - b + W < 2 * W
  BY <1>1
<1>3. Dist(a, b) = IF a - b + W < W THEN a - b + W ELSE a - b
  BY <1>1, <1>2, Modulo DEF Dist
<1> HIDE DEF Half
<1>4. a - b = x - y \/ a - b = x - y + W \/ a - b = x - y - W
  BY <1>1 DEF Wraps
<1> QED
  BY <1>1, <1>3, <1>4

LEMMA DeadlineFacts ==
    ASSUME tick \in 0 .. TickMax, NEW r, NEW t, NEW d \in Nat, d < Half
    PROVE  Deadline(r, t, d) \in 0 .. TickMax /\ Wraps(Deadline(r, t, d), tick + d)
<1>1. W \in Nat /\ Half \in Nat /\ 2 * Half + 1 <= W /\ TickMax = W - 1 /\ tick \in Nat /\ tick < W
  BY Bounds
<1>2. tick + d \in Nat /\ tick + d < 2 * W
  BY <1>1
<1>y. PICK y \in Nat : y = tick + d
  BY <1>2
<1>3. y % W = IF y < W THEN y ELSE y - W
  BY <1>2, <1>y, Modulo
<1>4. Deadline(r, t, d) = (tick + d) % W
  BY DEF Deadline
<1> QED
  BY <1>1, <1>2, <1>3, <1>4, <1>y DEF Wraps

-----------------------------------------------------------------------------
(* Timer: what every critical section keeps of the timers *)

Lists == {"hard", "soft"}
TimerData == [list : [Lists -> Seq(Timers)], deadline : [Timers -> 0 .. TickMax],
              active : SUBSET Timers, init : [Timers -> Nat], age : [Timers -> Nat]]

\* t is on its list
In(r, t) == Contains(r.list[ListOf(t)], t)
LeftIn(r, t) == r.init[t] - r.age[t]
Before(r, t, u) ==
    \/ LeftIn(r, t) < LeftIn(r, u)
    \/ LeftIn(r, t) = LeftIn(r, u) /\ r.age[t] >= r.age[u]

\* a timer is on no list but its own, once, and then it is active
Linked(r) ==
    \A k \in Lists : /\ Once(r.list[k])
                     /\ \A t \in Timers : Contains(r.list[k], t) => ListOf(t) = k /\ t \in r.active
\* a time that the application gives, or less than half a turn; none is late but for a bound
Legal(t, d) == d \in Nat /\ d < Half /\ (t # ThreadTimer => d \in Durations)
AgeOf(r, t) ==
    /\ Legal(t, r.init[t])
    /\ r.age[t] <= r.init[t] + MaxLag
    /\ t \in Soft \/ r.age[t] <= r.init[t] \/ r.age[t] <= 1
Aged(r) == \A t \in r.active : AgeOf(r, t)
Ends(r) == \A t \in Timers : In(r, t) => Wraps(r.deadline[t], tick + LeftIn(r, t))
Sorted(r) ==
    \A k \in Lists : \A i, j \in 1 .. Len(r.list[k]) : i < j => Before(r, r.list[k][i], r.list[k][j])

Sound(r) == r \in TimerData /\ Linked(r) /\ Aged(r) /\ Ends(r) /\ Sorted(r)

\* r2 and r differ in t only
Same(r, r2, u) ==
    /\ r2.init[u] = r.init[u] /\ r2.age[u] = r.age[u] /\ r2.deadline[u] = r.deadline[u]
    /\ u \in r2.active <=> u \in r.active
Rest(r, r2, t) == \A u \in Timers \ {t} : Same(r, r2, u) /\ (In(r2, u) <=> In(r, u))

LEMMA OwnList ==
    ASSUME NEW t PROVE ListOf(t) \in Lists /\ (ListOf(t) = "soft" <=> t \in Soft) /\ (ListOf(t) = "hard" <=> t \notin Soft)
BY DEF ListOf, Lists

LEMMA Kinds == /\ AppTimer \subseteq Timers /\ ThreadTimer \in Timers /\ ThreadTimer \notin AppTimer /\ None \notin Timers
               /\ Soft \subseteq AppTimer /\ Periodic \subseteq AppTimer
BY TimerAssumption DEF Timers

LEMMA DataFacts ==
    ASSUME NEW r \in TimerData
    PROVE  /\ \A k \in Lists : r.list[k] \in Seq(Timers)
           /\ r.active \subseteq Timers
           /\ \A t \in Timers : r.deadline[t] \in 0 .. TickMax /\ r.init[t] \in Nat /\ r.age[t] \in Nat
           /\ DOMAIN r.list = Lists /\ DOMAIN r.init = Timers /\ DOMAIN r.age = Timers /\ DOMAIN r.deadline = Timers
BY DEF TimerData

\* what is left of a time
LEMMA LeftFacts ==
    ASSUME NEW r, Sound(r), NEW t \in r.active
    PROVE  /\ LeftIn(r, t) \in Int /\ LeftIn(r, t) < Half /\ -MaxLag <= LeftIn(r, t)
           /\ t \notin Soft => -1 <= LeftIn(r, t)
           /\ t # ThreadTimer => LeftIn(r, t) + 2 * MaxLag <= Half
<1>1. r \in TimerData /\ AgeOf(r, t) /\ t \in Timers
  BY DataFacts DEF Sound, Aged
<1>2. r.init[t] \in Nat /\ r.age[t] \in Nat
  BY <1>1, DataFacts
<1> HIDE DEF Half
<1> QED
  BY <1>1, <1>2, Bounds DEF AgeOf, Legal, LeftIn

\* a timer that is on no list changes
LEMMA ChangedFacts ==
    ASSUME tick \in 0 .. TickMax, NEW r, Sound(r), NEW t \in Timers, ~In(r, t), NEW r2 \in TimerData,
           r2.list = r.list, \A u \in Timers \ {t} : Same(r, r2, u), t \in r2.active => AgeOf(r2, t)
    PROVE  Sound(r2) /\ ~In(r2, t) /\ Rest(r, r2, t)
<1>1. r \in TimerData /\ Linked(r) /\ Aged(r) /\ Ends(r) /\ Sorted(r)
  BY DEF Sound
<1>2. \A k \in Lists : ~Contains(r.list[k], t)
  BY <1>1 DEF Linked, In
<1>3. Linked(r2)
  BY <1>1, <1>2 DEF Linked, Same
<1>4. Aged(r2)
  <2> SUFFICES ASSUME NEW u \in r2.active, u # t PROVE AgeOf(r2, u)
    BY DEF Aged
  <2>1. u \in Timers \ {t}
    BY DataFacts
  <2> QED
    BY <1>1, <2>1 DEF Aged, AgeOf, Same
<1>5. \A u \in Timers : In(r2, u) <=> In(r, u)
  BY DEF In
<1>6. Ends(r2)
  <2> SUFFICES ASSUME NEW u \in Timers, In(r2, u) PROVE Wraps(r2.deadline[u], tick + LeftIn(r2, u))
    BY DEF Ends
  <2>1. u # t /\ In(r, u)
    BY <1>5
  <2>2. r2.deadline[u] = r.deadline[u] /\ LeftIn(r2, u) = LeftIn(r, u)
    BY <2>1 DEF Same, LeftIn
  <2> QED
    BY <1>1, <2>1, <2>2 DEF Ends
<1>7. Sorted(r2)
  <2> SUFFICES ASSUME NEW k \in Lists, NEW i \in 1 .. Len(r.list[k]), NEW j \in 1 .. Len(r.list[k]), i < j
               PROVE  Before(r2, r.list[k][i], r.list[k][j])
    BY DEF Sorted
  <2> DEFINE a == r.list[k][i]
             b == r.list[k][j]
  <2>1. a \in Timers /\ b \in Timers /\ Contains(r.list[k], a) /\ Contains(r.list[k], b)
    BY <1>1, DataFacts DEF Contains
  <2>2. a # t /\ b # t /\ Before(r, a, b)
    BY <1>1, <1>2, <2>1 DEF Sorted
  <2> HIDE DEF a, b
  <2>3. r2.init[a] = r.init[a] /\ r2.age[a] = r.age[a] /\ r2.init[b] = r.init[b] /\ r2.age[b] = r.age[b]
    BY <2>1, <2>2 DEF Same
  <2>4. Before(r2, a, b)
    BY <2>2, <2>3 DEF Before, LeftIn
  <2> QED
    BY <2>4 DEF a, b
<1> QED
  BY <1>3, <1>4, <1>5, <1>6, <1>7 DEF Sound, Rest

\* a timer leaves its list
LEMMA UnlinkedFacts ==
    ASSUME tick \in 0 .. TickMax, NEW r, Sound(r), NEW t \in Timers
    PROVE  LET r2 == Unlinked(r, t)
           IN  /\ Sound(r2) /\ ~In(r2, t) /\ Rest(r, r2, t) /\ Same(r, r2, t)
               /\ r2.list = [r.list EXCEPT ![ListOf(t)] = Unlink(@, t)]
<1> DEFINE r2 == Unlinked(r, t)
<1>k. PICK k \in Lists : k = ListOf(t)
  BY OwnList
<1>l. PICK l : l = Unlink(r.list[k], t)
  OBVIOUS
<1>1. r \in TimerData /\ Linked(r) /\ Aged(r) /\ Ends(r) /\ Sorted(r)
  BY DEF Sound
<1>2. r.list[k] \in Seq(Timers) /\ Once(r.list[k])
  BY <1>1, DataFacts DEF Linked
<1>3. l \in Seq(Timers) /\ Once(l) /\ InOrder(l, r.list[k]) /\ \A y : Contains(l, y) <=> y # t /\ Contains(r.list[k], y)
  BY <1>2, <1>l, UnlinkList
<1>4. r2 = [r EXCEPT !.list = [r.list EXCEPT ![k] = l]]
  BY <1>k, <1>l DEF Unlinked
<1> HIDE DEF r2
<1>5. /\ r2.list = [r.list EXCEPT ![k] = l] /\ r2 \in TimerData
      /\ r2.init = r.init /\ r2.age = r.age /\ r2.deadline = r.deadline /\ r2.active = r.active
  BY <1>1, <1>3, <1>4 DEF TimerData
<1>6. r2.list[k] = l /\ \A m \in Lists \ {k} : r2.list[m] = r.list[m]
  BY <1>1, <1>5, DataFacts
<1>7. \A m \in Lists : \A y : Contains(r2.list[m], y) <=> Contains(r.list[m], y) /\ ~(m = k /\ y = t)
  BY <1>3, <1>6
<1>8. ~In(r2, t) /\ \A u \in Timers \ {t} : In(r2, u) <=> In(r, u)
  BY <1>7, <1>k, OwnList DEF In
<1>9. Linked(r2) /\ Aged(r2)
  BY <1>1, <1>3, <1>5, <1>6, <1>7 DEF Linked, Aged, AgeOf
<1>10. Ends(r2)
  <2> SUFFICES ASSUME NEW u \in Timers, In(r2, u) PROVE Wraps(r2.deadline[u], tick + LeftIn(r2, u))
    BY DEF Ends
  <2>1. In(r, u)
    BY <1>8
  <2> QED
    BY <1>1, <1>5, <2>1 DEF Ends, LeftIn
<1>11. Sorted(r2)
  <2> SUFFICES ASSUME NEW m \in Lists, NEW i \in 1 .. Len(r2.list[m]), NEW j \in 1 .. Len(r2.list[m]), i < j
               PROVE  Before(r, r2.list[m][i], r2.list[m][j])
    BY <1>5 DEF Sorted, Before, LeftIn
  <2>1. CASE m = k
    <3>1. PICK a \in 1 .. Len(r.list[k]), b \in 1 .. Len(r.list[k]) : a < b /\ r.list[k][a] = l[i] /\ r.list[k][b] = l[j]
      BY <1>3, <1>6, <2>1 DEF InOrder
    <3> QED
      BY <1>1, <1>6, <2>1, <3>1 DEF Sorted
  <2>2. CASE m # k
    BY <1>1, <1>6, <2>2 DEF Sorted
  <2> QED
    BY <2>1, <2>2
<1>12. Rest(r, r2, t) /\ Same(r, r2, t)
  BY <1>5, <1>8 DEF Rest, Same
<1> QED
  BY <1>5, <1>8, <1>9, <1>10, <1>11, <1>12, <1>k, <1>l DEF Sound, r2

\* rt_timer_stop
LEMMA StoppedFacts ==
    ASSUME tick \in 0 .. TickMax, NEW r, Sound(r), NEW t \in Timers
    PROVE  LET r2 == Stopped(r, t)
           IN  Sound(r2) /\ ~In(r2, t) /\ Rest(r, r2, t) /\ t \notin r2.active
<1> DEFINE r2 == Stopped(r, t)
<1>o. PICK out : out = Unlinked(r, t)
  OBVIOUS
<1>1. Sound(out) /\ ~In(out, t) /\ Rest(r, out, t)
  BY <1>o, UnlinkedFacts
<1>2. out \in TimerData
  BY <1>1 DEF Sound
<1>3. r2 = [out EXCEPT !.active = @ \ {t}, !.init[t] = 0, !.deadline[t] = 0, !.age[t] = 0]
  BY <1>o DEF Stopped
<1> HIDE DEF r2
<1>4. /\ r2.list = out.list /\ r2.active = out.active \ {t} /\ r2.init = [out.init EXCEPT ![t] = 0]
      /\ r2.deadline = [out.deadline EXCEPT ![t] = 0] /\ r2.age = [out.age EXCEPT ![t] = 0]
  BY <1>2, <1>3 DEF TimerData
<1>5. r2 \in TimerData
  <2>1. 0 \in 0 .. TickMax
    BY Bounds
  <2> QED
    BY <1>2, <1>3, <2>1 DEF TimerData
<1>6. \A u \in Timers \ {t} : Same(out, r2, u)
  BY <1>2, <1>4, DataFacts DEF Same
<1>7. Sound(r2) /\ ~In(r2, t) /\ Rest(out, r2, t)
  BY <1>1, <1>4, <1>5, <1>6, ChangedFacts
<1>8. Rest(r, r2, t)
  BY <1>1, <1>7 DEF Rest, Same
<1> QED
  BY <1>4, <1>7, <1>8 DEF r2

\* a timer is taken for its timeout function
LEMMA TakenFacts ==
    ASSUME tick \in 0 .. TickMax, NEW r, Sound(r), NEW t \in r.active
    PROVE  LET r2 == Taken(r, t)
           IN  /\ Sound(r2) /\ ~In(r2, t) /\ Rest(r, r2, t) /\ (t \in r2.active <=> t \in Periodic)
               /\ t \in Periodic => r2.init[t] = r.init[t] /\ r2.age[t] = 0
<1> DEFINE r2 == Taken(r, t)
<1>t. t \in Timers /\ AgeOf(r, t)
  BY DataFacts DEF Sound, Aged
<1>1. CASE t \notin Periodic
  <2>1. r2 = Stopped(r, t)
    BY <1>1 DEF Taken
  <2> QED
    BY <1>1, <1>t, <2>1, StoppedFacts
<1>2. CASE t \in Periodic
  <2>o. PICK out : out = Unlinked(r, t)
    OBVIOUS
  <2>1. Sound(out) /\ ~In(out, t) /\ Rest(r, out, t) /\ Same(r, out, t)
    BY <1>t, <2>o, UnlinkedFacts
  <2>2. out \in TimerData
    BY <2>1 DEF Sound
  <2>3. r2 = [out EXCEPT !.age[t] = 0]
    BY <1>2, <2>o DEF Taken
  <2> HIDE DEF r2
  <2>4. /\ r2.list = out.list /\ r2.active = out.active /\ r2.init = out.init /\ r2.deadline = out.deadline
        /\ r2.age = [out.age EXCEPT ![t] = 0] /\ r2 \in TimerData
    BY <2>2, <2>3 DEF TimerData
  <2>5. \A u \in Timers \ {t} : Same(out, r2, u)
    BY <2>2, <2>4, DataFacts DEF Same
  <2>6. r2.age[t] = 0 /\ r2.init[t] = r.init[t] /\ t \in r2.active
    BY <1>t, <2>1, <2>2, <2>4, DataFacts DEF Same
  <2>7. AgeOf(r2, t)
    BY <1>t, <2>6, Bounds DEF AgeOf, Legal
  <2>8. Sound(r2) /\ ~In(r2, t) /\ Rest(out, r2, t)
    BY <1>t, <2>1, <2>4, <2>5, <2>7, ChangedFacts
  <2>9. Rest(r, r2, t)
    BY <2>1, <2>8 DEF Rest, Same
  <2> QED
    BY <1>2, <2>6, <2>8, <2>9 DEF r2
<1> QED
  BY <1>1, <1>2

\* where rt_timer_start stops: all before do not end later, the next one does
LEMMA PlaceFacts ==
    ASSUME NEW l \in Seq(Timers), NEW deadline, NEW d
    PROVE  LET i == Place(l, deadline, d)
           IN  /\ i \in 1 .. Len(l) + 1 /\ (i <= Len(l) => Later(deadline[l[i]], d))
               /\ \A k \in 1 .. i - 1 : ~Later(deadline[l[k]], d)
<1> DEFINE Ok(i) == i <= Len(l) => Later(deadline[l[i]], d)
           S == {i \in 1 .. Len(l) + 1 : Ok(i)}
<1>1. Len(l) \in Nat
  OBVIOUS
<1>2. S \subseteq Nat /\ S # {}
  <2>1. Len(l) + 1 \in S
    BY <1>1
  <2> QED
    BY <1>1, <2>1
<1>3. PICK i \in S : \A k \in S : i <= k
  BY <1>2, LeastNumber
<1>4. i \in 1 .. Len(l) + 1 /\ Ok(i) /\ i \in Nat
  BY <1>2, <1>3
<1>5. \A k \in 1 .. i - 1 : ~Later(deadline[l[k]], d)
  <2> SUFFICES ASSUME NEW k \in 1 .. i - 1, Later(deadline[l[k]], d) PROVE FALSE
    OBVIOUS
  <2>1. k \in 1 .. Len(l) + 1 /\ k < i
    BY <1>1, <1>4
  <2>2. k \in S
    BY <2>1
  <2> QED
    BY <1>2, <1>3, <1>4, <2>1, <2>2
<1> QED
  BY <1>4, <1>5 DEF Place

\* for a timer u that can be on the list of t, Later compares what is left
LEMMA LaterFacts ==
    ASSUME tick \in 0 .. TickMax, NEW r, Sound(r), NEW t \in Timers, NEW d, Legal(t, d),
           NEW end \in 0 .. TickMax, Wraps(end, tick + d),
           NEW u \in Timers, In(r, u), ListOf(u) = ListOf(t)
    PROVE  Later(r.deadline[u], end) <=> LeftIn(r, u) > d
<1>1. u \in r.active /\ r.deadline[u] \in 0 .. TickMax /\ Wraps(r.deadline[u], tick + LeftIn(r, u))
  BY DataFacts, OwnList DEF Sound, Linked, Ends, In
<1>p. PICK p \in Int : p = LeftIn(r, u)
  BY <1>1, LeftFacts
<1>2. d \in Nat /\ d < Half /\ p < Half /\ -MaxLag <= p /\ tick \in Nat
  BY <1>1, <1>p, LeftFacts, Bounds DEF Legal
<1>3. -Half <= p - d /\ p - d < Half
  <2>1. CASE t = ThreadTimer
    <3>1. -1 <= p
      BY <1>1, <1>p, <2>1, LeftFacts, Kinds, OwnList
    <3> HIDE DEF Half
    <3> QED
      BY <1>2, <3>1, Bounds
  <2>2. CASE t # ThreadTimer
    <3>1. d + 2 * MaxLag <= Half
      BY <2>2, Bounds DEF Legal
    <3> HIDE DEF Half
    <3> QED
      BY <1>2, <3>1, Bounds
  <2> QED
    BY <2>1, <2>2
<1>x. PICK x \in Int, y \in Int : x = tick + p /\ y = tick + d
  BY <1>2
<1>4. x - y = p - d
  BY <1>2, <1>x
<1>5. /\ Dist(r.deadline[u], end) < Half <=> x >= y
      /\ r.deadline[u] = end <=> x = y
  BY <1>1, <1>3, <1>4, <1>x, <1>p, DistFacts
<1> QED
  BY <1>2, <1>5, <1>x, <1>p DEF Later

\* rt_timer_start
LEMMA StartedFacts ==
    ASSUME tick \in 0 .. TickMax, NEW r, Sound(r), NEW t \in Timers, NEW d, Legal(t, d)
    PROVE  LET r2 == Started(r, t, d)
           IN  /\ Sound(r2) /\ In(r2, t) /\ Rest(r, r2, t) /\ t \in r2.active
               /\ r2.init[t] = d /\ r2.age[t] = 0
<1> DEFINE r2 == Started(r, t, d)
<1>k. PICK k \in Lists : k = ListOf(t)
  BY OwnList
<1>o. PICK out : out = Unlinked(r, t)
  OBVIOUS
<1>e. PICK end : end = Deadline(r, t, d)
  OBVIOUS
<1>d. d \in Nat /\ d < Half /\ end \in 0 .. TickMax /\ Wraps(end, tick + d)
  BY <1>e, DeadlineFacts DEF Legal
<1>1. Sound(out) /\ ~In(out, t) /\ Rest(r, out, t) /\ out \in TimerData
  BY <1>o, UnlinkedFacts DEF Sound
<1>m. PICK mid : mid = [out EXCEPT !.deadline[t] = end, !.active = @ \cup {t}, !.init[t] = d, !.age[t] = 0]
  OBVIOUS
<1>2. /\ mid.list = out.list /\ mid.active = out.active \cup {t} /\ mid.init = [out.init EXCEPT ![t] = d]
      /\ mid.deadline = [out.deadline EXCEPT ![t] = end] /\ mid.age = [out.age EXCEPT ![t] = 0] /\ mid \in TimerData
  BY <1>1, <1>m, <1>d DEF TimerData
<1>3. mid.init[t] = d /\ mid.age[t] = 0 /\ mid.deadline[t] = end /\ \A u \in Timers \ {t} : Same(out, mid, u)
  BY <1>1, <1>2, DataFacts DEF Same
<1>4. AgeOf(mid, t)
  BY <1>3, <1>d, Bounds DEF AgeOf
<1>5. Sound(mid) /\ ~In(mid, t) /\ Rest(out, mid, t)
  BY <1>1, <1>2, <1>3, <1>4, ChangedFacts
<1>6. Rest(r, mid, t)
  BY <1>1, <1>5 DEF Rest, Same
<1>l. PICK l : l = mid.list[k]
  OBVIOUS
<1>7. l \in Seq(Timers) /\ Once(l) /\ ~Contains(l, t) /\ Len(l) \in Nat
  BY <1>2, <1>5, <1>k, <1>l, DataFacts DEF Sound, Linked, In
<1>i. PICK i : i = Place(l, r.deadline, end)
  OBVIOUS
<1>8. /\ i \in 1 .. Len(l) + 1 /\ (i <= Len(l) => Later(r.deadline[l[i]], end))
      /\ \A n \in 1 .. i - 1 : ~Later(r.deadline[l[n]], end)
  BY <1>7, <1>i, PlaceFacts
<1>9. \A n \in 1 .. Len(l) : /\ l[n] \in Timers /\ l[n] # t /\ In(mid, l[n]) /\ LeftIn(mid, l[n]) \in Int
                             /\ Later(r.deadline[l[n]], end) <=> LeftIn(mid, l[n]) > d
  <2> TAKE n \in 1 .. Len(l)
  <2>u. PICK u \in Timers : u = l[n]
    BY <1>7
  <2>1. u # t /\ Contains(l, u)
    BY <1>7, <2>u DEF Contains
  <2>2. ListOf(u) = k /\ In(mid, u) /\ u \in mid.active
    BY <1>5, <1>l, <2>1 DEF Sound, Linked, In
  <2>3. Later(mid.deadline[u], end) <=> LeftIn(mid, u) > d
    BY <1>5, <1>d, <1>k, <2>2, LaterFacts
  <2>4. mid.deadline[u] = r.deadline[u]
    BY <1>6, <2>1 DEF Rest, Same
  <2> QED
    BY <1>5, <2>u, <2>1, <2>2, <2>3, <2>4, LeftFacts
<1>a. PICK all : all = InsertAt(l, i, t)
  OBVIOUS
<1>10. all \in Seq(Timers) /\ Once(all) /\ Inserted(l, i, t, all)
  BY <1>7, <1>8, <1>a, InsertList
<1>11. r2 = [mid EXCEPT !.list = [out.list EXCEPT ![k] = all]]
  <2>1. r2 = [out EXCEPT !.list[k] = InsertAt(@, Place(@, r.deadline, end), t),
                         !.deadline[t] = end, !.active = @ \cup {t}, !.init[t] = d, !.age[t] = 0]
    BY <1>k, <1>o, <1>e DEF Started
  <2>2. out.list[k] = l
    BY <1>2, <1>l
  <2>3. r2 = [out EXCEPT !.list = [out.list EXCEPT ![k] = all],
                         !.deadline[t] = end, !.active = @ \cup {t}, !.init[t] = d, !.age[t] = 0]
    BY <2>1, <2>2, <1>a, <1>i
  <2> HIDE DEF r2
  <2> QED
    BY <1>1, <1>m, <2>3 DEF TimerData
<1> HIDE DEF r2
<1>12. /\ r2.list = [mid.list EXCEPT ![k] = all] /\ r2 \in TimerData
       /\ r2.init = mid.init /\ r2.age = mid.age /\ r2.deadline = mid.deadline /\ r2.active = mid.active
  BY <1>2, <1>10, <1>11 DEF TimerData
<1>13. r2.list[k] = all /\ \A m \in Lists \ {k} : r2.list[m] = mid.list[m]
  BY <1>2, <1>12, DataFacts
<1>14. \A m \in Lists : \A y : Contains(r2.list[m], y) <=> Contains(mid.list[m], y) \/ (m = k /\ y = t)
  BY <1>10, <1>13, <1>l DEF Inserted
<1>15. In(r2, t) /\ \A u \in Timers \ {t} : In(r2, u) <=> In(mid, u)
  BY <1>14, <1>k, OwnList DEF In
<1>16. t \in mid.active
  BY <1>2
<1>17. Linked(r2) /\ Aged(r2)
  BY <1>5, <1>10, <1>12, <1>13, <1>14, <1>16, <1>k DEF Sound, Linked, Aged, AgeOf
<1>18. Ends(r2)
  <2> SUFFICES ASSUME NEW u \in Timers, In(r2, u) PROVE Wraps(mid.deadline[u], tick + LeftIn(mid, u))
    BY <1>12 DEF Ends, LeftIn
  <2>1. CASE u = t
    <3>1. LeftIn(mid, t) = d
      BY <1>3, <1>d DEF LeftIn
    <3> QED
      BY <1>3, <1>d, <2>1, <3>1
  <2>2. CASE u # t
    BY <1>5, <1>15, <2>2 DEF Sound, Ends
  <2> QED
    BY <2>1, <2>2
<1>19. Sorted(r2)
  <2> SUFFICES ASSUME NEW m \in Lists, NEW a \in 1 .. Len(r2.list[m]), NEW b \in 1 .. Len(r2.list[m]), a < b
               PROVE  Before(mid, r2.list[m][a], r2.list[m][b])
    BY <1>12 DEF Sorted, Before, LeftIn
  <2>1. CASE m # k
    BY <1>5, <1>13, <2>1 DEF Sound, Sorted
  <2>2. CASE m = k
    <3>1. /\ a \in Nat /\ b \in Nat /\ 1 <= a /\ b <= Len(l) + 1 /\ i \in Nat /\ 1 <= i
          /\ \A n \in 1 .. Len(l) + 1 : all[n] = IF n < i THEN l[n] ELSE IF n = i THEN t ELSE l[n - 1]
      BY <1>7, <1>8, <1>10, <1>13, <2>2 DEF Inserted
    <3>2. \A n, o \in 1 .. Len(l) : n < o => Before(mid, l[n], l[o])
      BY <1>5, <1>l DEF Sound, Sorted
    <3>3. LeftIn(mid, t) = d /\ mid.age[t] = 0 /\ \A u \in Timers : mid.age[u] >= 0
      BY <1>2, <1>3, <1>d, DataFacts DEF LeftIn
    <3>4. Before(mid, all[a], all[b])
      <4>1. CASE b < i
        <5>1. a \in 1 .. Len(l) /\ b \in 1 .. Len(l) /\ all[a] = l[a] /\ all[b] = l[b]
          BY <1>7, <1>8, <3>1, <4>1
        <5> QED
          BY <3>2, <5>1
      <4>2. CASE a < i /\ b = i
        <5>1. a \in 1 .. Len(l) /\ a \in 1 .. i - 1 /\ all[a] = l[a] /\ all[b] = t
          BY <1>7, <3>1, <4>2
        <5>2. ~(LeftIn(mid, l[a]) > d) /\ LeftIn(mid, l[a]) \in Int /\ mid.age[l[a]] >= 0
          BY <1>8, <1>9, <3>3, <5>1
        <5> QED
          BY <1>d, <3>3, <5>1, <5>2 DEF Before
      <4>3. CASE a < i /\ i < b
        <5>1. a \in 1 .. Len(l) /\ b - 1 \in 1 .. Len(l) /\ a < b - 1 /\ all[a] = l[a] /\ all[b] = l[b - 1]
          BY <1>7, <3>1, <4>3
        <5> QED
          BY <3>2, <5>1
      <4>4. CASE a = i
        <5>1. b - 1 \in 1 .. Len(l) /\ i \in 1 .. Len(l) /\ i <= b - 1 /\ all[a] = t /\ all[b] = l[b - 1]
          BY <1>7, <3>1, <4>4
        <5>2. LeftIn(mid, l[i]) > d /\ LeftIn(mid, l[i]) \in Int /\ LeftIn(mid, l[b - 1]) \in Int
          BY <1>8, <1>9, <3>1, <5>1
        <5>3. LeftIn(mid, l[b - 1]) > d
          <6>1. i = b - 1 \/ Before(mid, l[i], l[b - 1])
            BY <3>1, <3>2, <5>1
          <6> QED
            BY <1>d, <5>2, <6>1 DEF Before
        <5> QED
          BY <1>d, <3>3, <5>1, <5>2, <5>3 DEF Before
      <4>5. CASE i < a
        <5>1. a - 1 \in 1 .. Len(l) /\ b - 1 \in 1 .. Len(l) /\ a - 1 < b - 1 /\ all[a] = l[a - 1] /\ all[b] = l[b - 1]
          BY <1>7, <3>1, <4>5
        <5> QED
          BY <3>2, <5>1
      <4> QED
        BY <3>1, <4>1, <4>2, <4>3, <4>4, <4>5
    <3> QED
      BY <1>13, <2>2, <3>4
  <2> QED
    BY <2>1, <2>2
<1>20. Rest(r, r2, t)
  BY <1>6, <1>12, <1>15 DEF Rest, Same
<1> QED
  BY <1>3, <1>12, <1>15, <1>16, <1>17, <1>18, <1>19, <1>20 DEF Sound, r2

\* what a caller does to a timer
LEMMA TouchedFacts ==
    ASSUME tick \in 0 .. TickMax, NEW r, Sound(r), NEW o \in Touch \cup {Nothing}
    PROVE  LET r2 == Touched(r, o)
               t == o.timer
           IN  /\ Sound(r2) /\ Rest(r, r2, t) /\ t # ThreadTimer
               /\ ~Effective(r, o) => r2 = r
               /\ Effective(r, o) => /\ t \in AppTimer
                                     /\ \/ t \in r2.active /\ In(r2, t) /\ r2.age[t] = 0 /\ o.op = "start"
                                        \/ t \notin r2.active /\ ~In(r2, t) /\ o.op = "stop"
<1>0. Rest(r, r, o.timer)
  BY DEF Rest, Same
<1>1. CASE o = Nothing
  <2>1. o.op = "none" /\ o.timer = None
    BY <1>1 DEF Nothing
  <2>2. Touched(r, o) = r /\ ~Effective(r, o)
    BY <2>1 DEF Touched, Effective
  <2> QED
    BY <1>0, <2>1, <2>2, Kinds
<1>2. CASE o \in Touch /\ o.op = "start"
  <2>1. o.timer \in AppTimer /\ o.time \in Durations
    BY <1>2 DEF Touch
  <2>2. Legal(o.timer, o.time)
    <3> HIDE DEF Half
    <3> QED
      BY <2>1, Bounds DEF Legal
  <2>3. Touched(r, o) = Started(r, o.timer, o.time) /\ Effective(r, o)
    BY <1>2 DEF Touched, Effective
  <2>4. o.timer \in Timers /\ o.timer # ThreadTimer
    BY <2>1, Kinds
  <2> QED
    BY <1>2, <2>1, <2>2, <2>3, <2>4, StartedFacts
<1>3. CASE o \in Touch /\ o.op = "stop"
  <2>1. o.timer \in AppTimer /\ o.timer \in Timers /\ o.timer # ThreadTimer
    BY <1>3, Kinds DEF Touch
  <2>2. Touched(r, o) = IF Effective(r, o) THEN Stopped(r, o.timer) ELSE r
    BY <1>3 DEF Touched
  <2> QED
    BY <1>0, <1>3, <2>1, <2>2, StoppedFacts
<1> QED
  BY <1>1, <1>2, <1>3 DEF Touch

\* after a timeout function
LEMMA RestartedFacts ==
    ASSUME tick \in 0 .. TickMax, NEW r, Sound(r), NEW t, NEW kept \in BOOLEAN
    PROVE  LET r2 == Restarted(r, t, kept)
           IN  /\ Sound(r2) /\ Rest(r, r2, t)
               /\ kept /\ t \in Periodic \cap r.active => t \in r2.active /\ In(r2, t) /\ r2.age[t] = 0
               /\ ~(kept /\ t \in Periodic \cap r.active) => r2 = r
<1>1. CASE kept /\ t \in Periodic \cap r.active
  <2>1. t \in Timers /\ Legal(t, r.init[t])
    BY <1>1, DataFacts DEF Sound, Aged, AgeOf
  <2>2. Restarted(r, t, kept) = Started(r, t, r.init[t])
    BY <1>1 DEF Restarted
  <2>s. PICK s : s = Started(r, t, r.init[t])
    OBVIOUS
  <2>3. Sound(s) /\ In(s, t) /\ Rest(r, s, t) /\ t \in s.active /\ s.age[t] = 0
    BY <2>1, <2>s, StartedFacts
  <2> QED
    BY <1>1, <2>2, <2>s, <2>3
<1>2. CASE ~(kept /\ t \in Periodic \cap r.active)
  <2>1. Restarted(r, t, kept) = r
    BY <1>2 DEF Restarted
  <2> QED
    BY <1>2, <2>1 DEF Rest, Same
<1> QED
  BY <1>1, <1>2

\* the code's comparison with the tick, and the time left
LEMMA ReachedFacts ==
    ASSUME tick \in 0 .. TickMax, Sound(q), NEW t \in Timers, In(q, t)
    PROVE  Reached(t) <=> LeftIn(q, t) <= 0
<1>1. t \in q.active /\ q.deadline[t] \in 0 .. TickMax /\ Wraps(q.deadline[t], tick + LeftIn(q, t)) /\ tick \in Int
  BY DataFacts, OwnList, Bounds DEF Sound, Linked, Ends, In
<1>p. PICK p \in Int : p = LeftIn(q, t)
  BY <1>1, LeftFacts
<1>2. p < Half /\ -MaxLag <= p
  BY <1>1, <1>p, LeftFacts
<1>x. PICK x \in Int, y \in Int : x = tick /\ y = tick + p
  BY <1>1
<1>3. -Half <= x - y /\ x - y < Half
  <2> HIDE DEF Half
  <2> QED
    BY <1>1, <1>2, <1>x, Bounds
<1>4. Wraps(tick, x) /\ Wraps(q.deadline[t], y)
  BY <1>1, <1>x, <1>p DEF Wraps
<1>5. Dist(tick, q.deadline[t]) < Half <=> x >= y
  BY <1>1, <1>3, <1>4, DistFacts
<1> QED
  BY <1>1, <1>5, <1>x, <1>p DEF Reached

\* the first timer of a list tells whether one is due
LEMMA DueFacts ==
    ASSUME tick \in 0 .. TickMax, Sound(q), NEW k \in Lists
    PROVE  /\ Due(k) => LET t == Head(q.list[k])
                        IN  t \in q.active /\ In(q, t) /\ ListOf(t) = k /\ LeftIn(q, t) <= 0
           /\ ~Due(k) => \A t \in Timers : In(q, t) /\ ListOf(t) = k => LeftIn(q, t) >= 1
<1>l. PICK l : l = q.list[k]
  OBVIOUS
<1>1. l \in Seq(Timers) /\ Len(l) \in Nat
  BY <1>l, DataFacts DEF Sound
<1>2. CASE l = <<>>
  <2>1. ~Due(k)
    BY <1>l, <1>2 DEF Due
  <2>2. \A t \in Timers : ~(In(q, t) /\ ListOf(t) = k)
    BY <1>1, <1>2, <1>l, EmptyList DEF In
  <2> QED
    BY <2>1, <2>2
<1>3. CASE l # <<>>
  <2>h. PICK h : h = Head(l)
    OBVIOUS
  <2>1. h \in Timers /\ h = l[1] /\ 1 \in 1 .. Len(l) /\ Len(l) >= 1
    BY <1>1, <1>3, <2>h
  <2>2. Contains(l, h)
    BY <2>1 DEF Contains
  <2>3. h \in q.active /\ ListOf(h) = k /\ In(q, h)
    BY <1>l, <2>1, <2>2 DEF Sound, Linked, In
  <2>4. LeftIn(q, h) \in Int /\ (Due(k) <=> LeftIn(q, h) <= 0)
    BY <1>3, <1>l, <2>1, <2>3, <2>h, ReachedFacts, LeftFacts DEF Due
  <2>5. ASSUME NEW t \in Timers, In(q, t), ListOf(t) = k, LeftIn(q, h) >= 1
        PROVE  LeftIn(q, t) >= 1
    <3>1. PICK i \in 1 .. Len(l) : l[i] = t
      BY <1>l, <2>5 DEF In, Contains
    <3>2. t \in q.active
      BY <2>5, OwnList DEF Sound, Linked, In
    <3>3. LeftIn(q, t) \in Int
      BY <3>2, LeftFacts
    <3>4. i = 1 \/ 1 < i
      BY <1>1, <3>1
    <3>5. 1 < i => Before(q, h, t)
      BY <1>l, <2>1, <3>1 DEF Sound, Sorted
    <3> QED
      BY <2>1, <2>4, <2>5, <3>1, <3>3, <3>4, <3>5 DEF Before
  <2>6. LeftIn(q, h) >= 1 \/ LeftIn(q, h) <= 0
    BY <2>4
  <2> QED
    BY <1>l, <2>h, <2>3, <2>4, <2>5, <2>6
<1> QED
  BY <1>2, <1>3

-----------------------------------------------------------------------------
(* Timer: the invariant of the interrupt, the timer thread and the application *)

States ==
    /\ tick \in 0 .. TickMax /\ isr \in BOOLEAN /\ asleep \in BOOLEAN /\ misled \in BOOLEAN
    /\ tpc \in {"next", "look", "delay", "check", "call"} /\ apc \in {"idle", "look", "resume"}
    /\ next \in 0 .. TickMax /\ slip \in Nat
    /\ asleep => tpc \in {"check", "call"}
    /\ tpc = "delay" => next < Half

\* an active timer is on its list, or it is h, the periodic soft timer whose function is called,
\* or in out
KeptOf(r, h, out) ==
    /\ \A t \in r.active : In(r, t) \/ (t = h /\ t \in Periodic) \/ t \in out
    /\ h # None => h \in Soft /\ ~In(r, h)
Kept == KeptOf(q, inhand, {}) /\ (inhand # None => tpc = "call")

OnTime(r) == \A t \in r.active \ Soft : r.age[t] < r.init[t] \/ r.age[t] = 0

\* between its look at the list and its look at the tick, the timer thread holds the deadline of
\* a timer x that is left no longer than any soft timer now
First(x, t) == Wraps(next, tick + x) /\ x <= LeftIn(q, t) /\ x + q.age[t] >= -MaxLag
Looked ==
    tpc = "look" /\ ~misled =>
        \A t \in Soft \cap q.active : next # TickMax /\ \E x \in Int : First(x, t)
\* then it has a time to sleep, up to the ticks since that look
Timed ==
    tpc = "delay" /\ ~misled => \A t \in Soft \cap q.active : next <= LeftIn(q, t) + slip
\* and then it sleeps, and wakes up in time or is about to be resumed
Served(t) == ThreadTimer \in q.active /\ LeftIn(q, ThreadTimer) <= LeftIn(q, t) + slip
Slept ==
    asleep /\ tpc = "check" /\ ~misled =>
        (\A t \in Soft \cap q.active : Served(t)) \/ apc \in {"look", "resume"}

Waiting == Looked /\ Timed /\ Slept
IInv == States /\ Sound(q) /\ Kept /\ HardInTime /\ Waiting

\* no soft timer is started
SoftLess(r, r2) ==
    \A t \in Soft : t \in r2.active => t \in r.active /\ r2.init[t] = r.init[t] /\ r2.age[t] = r.age[t]

LEMMA SoundNext ==
    ASSUME tick' = tick, Sound(q') PROVE Sound(q)'
BY DEF Sound, Linked, Aged, AgeOf, Legal, Ends, Sorted, Before, LeftIn, In, Wraps, TimerData

\* a step by which no soft timer starts and the timer thread does not move leaves it what it knows
LEMMA QuietStep ==
    ASSUME Waiting, UNCHANGED <<tick, tpc, next, slip, apc>>, misled => misled', asleep' => asleep,
           SoftLess(q, q'), Same(q, q', ThreadTimer)
    PROVE  Waiting'
<1>1. \A t \in Soft \cap q'.active : t \in q.active /\ LeftIn(q', t) = LeftIn(q, t) /\ q'.age[t] = q.age[t]
  BY DEF SoftLess, LeftIn
<1>2. LeftIn(q', ThreadTimer) = LeftIn(q, ThreadTimer) /\ (ThreadTimer \in q.active => ThreadTimer \in q'.active)
  BY DEF Same, LeftIn
<1>3. Looked'
  BY <1>1 DEF Waiting, Looked, First, Wraps
<1>4. Timed'
  BY <1>1 DEF Waiting, Timed
<1>5. Slept'
  BY <1>1, <1>2 DEF Waiting, Slept, Served
<1> QED
  BY <1>3, <1>4, <1>5 DEF Waiting

\* a step after which the timer thread neither looks nor sleeps outside a timeout function
LEMMA AwakeStep ==
    ASSUME tpc' \notin {"look", "delay"} \/ misled', tpc' # "check" \/ ~asleep' \/ misled'
    PROVE  Waiting'
BY DEF Waiting, Looked, Timed, Slept

LEMMA InTimeStep ==
    ASSUME NEW r, NEW r2, NEW t, OnTime(r), Rest(r, r2, t), r2 \in TimerData,
           t \in r2.active => t \in Soft \/ r2.age[t] = 0
    PROVE  OnTime(r2)
BY DataFacts DEF OnTime, Rest, Same

\* a touch of a timer keeps the lists complete
LEMMA KeptTouched ==
    ASSUME tick \in 0 .. TickMax, NEW r, Sound(r), NEW h, NEW out, KeptOf(r, h, out), NEW o \in Touch \cup {Nothing}
    PROVE  KeptOf(Touched(r, o), IF o.timer = h /\ Effective(r, o) THEN None ELSE h, out)
<1>r. PICK r2 : r2 = Touched(r, o)
  OBVIOUS
<1>1. /\ Sound(r2) /\ Rest(r, r2, o.timer) /\ (~Effective(r, o) => r2 = r)
      /\ Effective(r, o) => \/ o.timer \in r2.active /\ In(r2, o.timer)
                            \/ o.timer \notin r2.active /\ ~In(r2, o.timer)
  BY <1>r, TouchedFacts
<1>2. r2.active \subseteq Timers /\ Soft \subseteq Timers
  BY <1>1, DataFacts, Kinds DEF Sound
<1>3. CASE ~Effective(r, o)
  BY <1>1, <1>3, <1>r
<1>4. CASE Effective(r, o)
  <2>1. \A t \in r2.active : In(r2, t) \/ (t # o.timer /\ ((t = h /\ t \in Periodic) \/ t \in out))
    BY <1>1, <1>2, <1>4 DEF KeptOf, Rest, Same
  <2>2. h # None /\ h # o.timer => h \in Soft /\ ~In(r2, h)
    BY <1>2, <1>1 DEF KeptOf, Rest
  <2> QED
    BY <1>4, <1>r, <2>1, <2>2 DEF KeptOf
<1> QED
  BY <1>3, <1>4

-----------------------------------------------------------------------------
(* Timer: the steps *)

LEMMA InitInv == Init => IInv
<1> SUFFICES ASSUME Init PROVE IInv
  OBVIOUS
<1>0. 0 \in 0 .. TickMax
  BY Bounds
<1>1. q = [list |-> [k \in Lists |-> <<>>], deadline |-> [t \in Timers |-> 0],
           active |-> {}, init |-> [t \in Timers |-> 0], age |-> [t \in Timers |-> 0]]
  BY DEF Init, Lists
<1>2. q \in TimerData /\ q.active = {} /\ \A k \in Lists : q.list[k] = <<>>
  BY <1>0, <1>1 DEF TimerData
<1>i. /\ tick \in 0 .. TickMax /\ inhand = None /\ tpc = "next" /\ next = 0 /\ slip = 0 /\ apc = "idle"
      /\ isr \in BOOLEAN /\ asleep \in BOOLEAN /\ misled \in BOOLEAN /\ ~asleep
  BY DEF Init
<1>3. Sound(q)
  BY <1>2, OwnList DEF Sound, Linked, Once, Aged, Ends, Sorted, In, Contains
<1>4. States
  BY <1>0, <1>i DEF States
<1>5. Kept /\ HardInTime /\ Waiting
  BY <1>2, <1>i DEF Kept, KeptOf, HardInTime, Waiting, Looked, Timed, Slept
<1> QED
  BY <1>3, <1>4, <1>5 DEF IInv

\* the time left of the active timers goes down together
LEMMA TickStep ==
    ASSUME IInv, Tick PROVE IInv'
<1>1. /\ Sound(q) /\ q \in TimerData /\ tick \in Nat /\ tick < W /\ slip \in Nat /\ States /\ Waiting
      /\ W \in Nat /\ TickMax = W - 1 /\ TickMax \in Nat
  BY Bounds DEF IInv, States, Sound
<1>2. /\ q' = [q EXCEPT !.age = [t \in Timers |-> IF t \in q.active THEN @[t] + 1 ELSE 0]]
      /\ isr' = TRUE /\ UNCHANGED <<tpc, next, asleep, inhand, misled, apc>> /\ ~isr
      /\ tick' = (tick + 1) % W /\ slip' = IF tpc = "delay" THEN slip + 1 ELSE slip
      /\ \A t \in q.active : q.age[t] < q.init[t] + MaxLag
  BY DEF Tick
<1>a. PICK ages : ages = [t \in Timers |-> IF t \in q.active THEN q.age[t] + 1 ELSE 0]
  OBVIOUS
<1>b. ages \in [Timers -> Nat] /\ q' = [q EXCEPT !.age = ages]
  BY <1>1, <1>2, <1>a, DataFacts
<1>3. /\ q'.list = q.list /\ q'.active = q.active /\ q'.init = q.init /\ q'.deadline = q.deadline
      /\ q'.age = ages /\ q' \in TimerData
  BY <1>1, <1>b DEF TimerData
<1>4. ASSUME NEW t \in q.active
      PROVE  /\ t \in Timers /\ q'.age[t] = q.age[t] + 1 /\ q.age[t] \in Nat /\ q.init[t] \in Nat
             /\ LeftIn(q', t) = LeftIn(q, t) - 1 /\ LeftIn(q, t) \in Int
  <2>1. t \in Timers /\ q.age[t] \in Nat /\ q.init[t] \in Nat
    BY <1>1, DataFacts
  <2>2. q'.age[t] = q.age[t] + 1 /\ q'.init[t] = q.init[t]
    BY <1>3, <1>a, <2>1
  <2> QED
    BY <2>1, <2>2 DEF LeftIn
<1>5. tick' = IF tick + 1 < W THEN tick + 1 ELSE tick + 1 - W
  <2>1. tick + 1 \in Nat /\ tick + 1 < 2 * W
    BY <1>1
  <2>y. PICK y \in Nat : y = tick + 1
    BY <1>1
  <2>2. y % W = IF y < W THEN y ELSE y - W
    BY <2>1, <2>y, Modulo
  <2>m. PICK m : m = y % W
    OBVIOUS
  <2>3. tick' = m
    BY <1>2, <2>y, <2>m
  <2>4. m = IF y < W THEN y ELSE y - W
    BY <2>2, <2>m
  <2> QED
    BY <1>1, <2>3, <2>4, <2>y
<1>6. tick' \in 0 .. TickMax /\ (tick' = tick + 1 \/ tick' = tick + 1 - W)
  BY <1>1, <1>5
<1>7. States'
  <2>1. slip' \in Nat
    BY <1>1, <1>2
  <2> QED
    BY <1>1, <1>2, <1>6, <2>1 DEF States
<1>8. \A t : In(q', t) <=> In(q, t)
  BY <1>3 DEF In
<1>9. Linked(q')
  BY <1>1, <1>3 DEF Sound, Linked
<1>10. Aged(q')
  <2> SUFFICES ASSUME NEW t \in q.active PROVE AgeOf(q', t)
    BY <1>3 DEF Aged
  <2>1. AgeOf(q, t) /\ q.age[t] < q.init[t] + MaxLag /\ (t \in Soft \/ q.age[t] < q.init[t] \/ q.age[t] = 0)
    BY <1>1, <1>2 DEF Sound, Aged, IInv, HardInTime
  <2>p. PICK a \in Nat, d \in Nat : a = q.age[t] /\ d = q.init[t]
    BY <1>4
  <2>2. q'.age[t] = a + 1 /\ q'.init[t] = d
    BY <1>3, <1>4, <2>p
  <2> QED
    BY <2>1, <2>2, <2>p, Bounds DEF AgeOf
<1>11. Sorted(q')
  <2> SUFFICES ASSUME NEW k \in Lists, NEW i \in 1 .. Len(q.list[k]), NEW j \in 1 .. Len(q.list[k]), i < j
               PROVE  Before(q', q.list[k][i], q.list[k][j])
    BY <1>3 DEF Sorted
  <2>p. PICK a, b : a = q.list[k][i] /\ b = q.list[k][j]
    OBVIOUS
  <2>1. a \in Timers /\ b \in Timers /\ Contains(q.list[k], a) /\ Contains(q.list[k], b)
    BY <1>1, <2>p, DataFacts DEF Contains
  <2>2. a \in q.active /\ b \in q.active /\ Before(q, a, b)
    BY <1>1, <2>1, <2>p DEF Sound, Linked, Sorted
  <2>3. Before(q', a, b)
    BY <1>4, <2>2 DEF Before
  <2> QED
    BY <2>3, <2>p
<1>12. ASSUME NEW t \in Timers, In(q, t) PROVE Wraps(q.deadline[t], tick' + LeftIn(q', t))
  <2>1. t \in q.active /\ q.deadline[t] \in 0 .. TickMax /\ Wraps(q.deadline[t], tick + LeftIn(q, t))
    BY <1>1, <1>12, DataFacts, OwnList DEF Sound, Linked, Ends, In
  <2>p. PICK p \in Int : p = LeftIn(q, t)
    BY <1>4, <2>1
  <2>2. LeftIn(q', t) = p - 1 /\ p < Half /\ -MaxLag <= p
    BY <1>1, <1>4, <2>1, <2>p, LeftFacts
  <2>3. -MaxLag <= p - 1
    <3>1. q.age[t] < q.init[t] + MaxLag
      BY <1>2, <2>1
    <3> QED
      BY <1>4, <2>1, <2>p, <3>1, Bounds DEF LeftIn
  <2>4. q.deadline[t] \in Nat /\ q.deadline[t] < W
    BY <1>1, <2>1
  <2>5. Half \in Nat /\ 2 * Half + 1 <= W /\ MaxLag \in Nat /\ MaxLag < Half
    BY Bounds
  <2> HIDE DEF Half
  <2> QED
    BY <1>1, <1>6, <2>1, <2>2, <2>3, <2>4, <2>5, <2>p DEF Wraps
<1>13. Sound(q)'
  <2>1. Ends(q)'
    BY <1>3, <1>8, <1>12 DEF Ends, In, Wraps, LeftIn
  <2> QED
    BY <1>3, <1>9, <1>10, <1>11, <2>1
       DEF Sound, Linked, Aged, AgeOf, Legal, Sorted, Before, LeftIn, TimerData
<1>14. Kept' /\ HardInTime'
  BY <1>2, <1>3, <1>8 DEF IInv, Kept, KeptOf, HardInTime
<1>15. Looked'
  <2> SUFFICES ASSUME tpc = "look", ~misled, NEW t \in Soft \cap q.active
               PROVE  next # TickMax /\ \E x \in Int : First(x, t)'
    BY <1>2, <1>3 DEF Looked
  <2>1. PICK x \in Int : First(x, t)
    BY <1>1 DEF Waiting, Looked
  <2>2. next # TickMax /\ next \in Nat /\ next < W
    BY <1>1 DEF Waiting, Looked, States
  <2>3. x - 1 \in Int /\ x - 1 <= LeftIn(q', t) /\ (x - 1) + q'.age[t] >= -MaxLag
    BY <1>4, <2>1, Bounds DEF First
  <2>4. Wraps(next, tick' + (x - 1))
    <3>1. Wraps(next, tick + x) /\ x < Half /\ -Half <= x - 1
      <4>1. LeftIn(q, t) + 2 * MaxLag <= Half /\ t # ThreadTimer /\ AgeOf(q, t)
        BY <1>1, LeftFacts, Kinds DEF Sound, Aged
      <4>2. q.init[t] + 2 * MaxLag <= Half /\ q.age[t] < q.init[t] + MaxLag
        BY <1>2, <4>1, Bounds DEF AgeOf, Legal
      <4> HIDE DEF Half
      <4> QED
        BY <1>4, <2>1, <4>1, <4>2, Bounds DEF First
    <3>2. Half \in Nat /\ 2 * Half + 1 <= W
      BY Bounds
    <3>p. PICK y \in Nat : y = tick'
      BY <1>1, <1>6
    <3>3. y = tick + 1 \/ y = tick + 1 - W
      BY <1>6, <3>p
    <3> HIDE DEF Half
    <3>4. Wraps(next, y + (x - 1))
      BY <1>1, <2>2, <3>1, <3>2, <3>3 DEF Wraps
    <3> QED
      BY <3>4, <3>p
  <2> QED
    BY <1>2, <2>2, <2>3, <2>4 DEF First, LeftIn, Wraps
<1>16. Timed'
  <2> SUFFICES ASSUME tpc = "delay", ~misled, NEW t \in Soft \cap q.active PROVE next <= LeftIn(q', t) + slip'
    BY <1>2, <1>3 DEF Timed, LeftIn
  <2>1. next <= LeftIn(q, t) + slip /\ slip' = slip + 1
    BY <1>1, <1>2 DEF Waiting, Timed
  <2> QED
    BY <1>1, <1>4, <2>1
<1>17. Slept'
  <2> SUFFICES ASSUME asleep, tpc = "check", ~misled, apc \notin {"look", "resume"}, NEW t \in Soft \cap q.active
               PROVE  Served(t)'
    BY <1>2, <1>3 DEF Slept
  <2>1. ThreadTimer \in q.active /\ LeftIn(q, ThreadTimer) <= LeftIn(q, t) + slip /\ slip' = slip
    BY <1>1, <1>2 DEF Waiting, Slept, Served
  <2> QED
    BY <1>1, <1>3, <1>4, <2>1 DEF Served, LeftIn
<1> QED
  BY <1>7, <1>13, <1>14, <1>15, <1>16, <1>17 DEF IInv, Waiting

\* the timer thread's own timer ends its sleep
LEMMA TimeOutStep ==
    ASSUME IInv, TimeOut PROVE IInv'
<1>1. /\ isr /\ Due("hard") /\ Head(q.list["hard"]) = ThreadTimer /\ q' = Taken(q, ThreadTimer) /\ ~asleep'
      /\ asleep' \in BOOLEAN /\ UNCHANGED <<tick, isr, tpc, next, inhand, slip, misled, apc>>
  BY DEF TimeOut
<1>2. tick \in 0 .. TickMax /\ Sound(q) /\ States /\ Kept /\ Waiting
  BY DEF IInv, States
<1>3. ThreadTimer \in q.active
  BY <1>1, <1>2, DueFacts DEF Lists
<1>4. Sound(q') /\ Rest(q, q', ThreadTimer) /\ ThreadTimer \notin q'.active /\ ~In(q', ThreadTimer)
  BY <1>1, <1>2, <1>3, TakenFacts, Kinds
<1>5. q'.active \subseteq Timers /\ Soft \subseteq Timers \ {ThreadTimer}
  BY <1>4, DataFacts, Kinds DEF Sound
<1>6. KeptOf(q', inhand, {})
  BY <1>2, <1>4, <1>5 DEF Kept, KeptOf, Rest, Same
<1>7. Kept'
  BY <1>1, <1>2, <1>6 DEF Kept, KeptOf, In
<1>8. SoftLess(q, q')
  BY <1>4, <1>5 DEF SoftLess, Rest, Same
<1>9. Waiting'
  <2>1. \A t \in Soft \cap q'.active : t \in q.active /\ LeftIn(q', t) = LeftIn(q, t) /\ q'.age[t] = q.age[t]
    BY <1>8 DEF SoftLess, LeftIn
  <2>2. Looked' /\ Timed' /\ Slept'
    BY <1>1, <1>2, <2>1 DEF Waiting, Looked, Timed, Slept, First, Wraps
  <2> QED
    BY <2>2 DEF Waiting
<1> QED
  BY <1>1, <1>2, <1>4, <1>7, <1>9, SoundNext DEF IInv, States, HardInTime

\* a timeout function in the tick interrupt
LEMMA FireHardStep ==
    ASSUME IInv, NEW o \in Touch \cup {Nothing}, FireHard(o) PROVE IInv'
<1>t. PICK t : t = Head(q.list["hard"])
  OBVIOUS
<1>1. /\ isr /\ Due("hard") /\ t # ThreadTimer
      /\ misled' = (misled \/ (o.op = "start" /\ o.timer \in Soft /\ tpc \in {"look", "delay"}))
      /\ inhand' = IF o.timer = inhand /\ Effective(Taken(q, t), o) THEN None ELSE inhand
      /\ UNCHANGED <<tick, isr, tpc, next, slip, apc>>
  BY <1>t DEF FireHard
<1>2. tick \in 0 .. TickMax /\ Sound(q) /\ States /\ Kept /\ Waiting
  BY DEF IInv, States
<1>3. t \in q.active /\ t \in Timers /\ t \notin Soft /\ t \in Timers \ {ThreadTimer}
  BY <1>1, <1>2, <1>t, DueFacts, OwnList, DataFacts DEF Lists, Sound
<1>a. PICK q1 : q1 = Taken(q, t)
  OBVIOUS
<1>b. PICK q2 : q2 = Touched(q1, o)
  OBVIOUS
<1>k. PICK kept \in BOOLEAN : kept = ~(o.timer = t /\ Effective(q1, o))
  OBVIOUS
<1>c. PICK q3 : q3 = Restarted(q2, t, kept)
  OBVIOUS
<1>4. Sound(q1) /\ ~In(q1, t) /\ Rest(q, q1, t) /\ (t \in q1.active <=> t \in Periodic)
  BY <1>2, <1>3, <1>a, TakenFacts
<1>5. /\ Sound(q2) /\ Rest(q1, q2, o.timer) /\ o.timer # ThreadTimer /\ (~Effective(q1, o) => q2 = q1)
      /\ Effective(q1, o) => \/ o.timer \in q2.active /\ In(q2, o.timer) /\ o.op = "start"
                             \/ o.timer \notin q2.active /\ ~In(q2, o.timer) /\ o.op = "stop"
  BY <1>2, <1>4, <1>b, TouchedFacts
<1>6. /\ Sound(q3) /\ Rest(q2, q3, t)
      /\ kept /\ t \in Periodic \cap q2.active => t \in q3.active /\ In(q3, t)
      /\ ~(kept /\ t \in Periodic \cap q2.active) => q3 = q2
  BY <1>2, <1>5, <1>c, RestartedFacts
<1>7. Soft \subseteq Timers \ {t, ThreadTimer} /\ q1.active \subseteq Timers /\ q2.active \subseteq Timers /\ q3.active \subseteq Timers
      /\ ThreadTimer \in Timers
  BY <1>3, <1>4, <1>5, <1>6, DataFacts, Kinds DEF Sound
<1>8. KeptOf(q1, inhand, {t})
  BY <1>2, <1>4, <1>7 DEF Kept, KeptOf, Rest, Same
<1>9. KeptOf(q2, inhand', {t})
  BY <1>1, <1>2, <1>4, <1>8, <1>a, <1>b, KeptTouched
<1>10. t \in q3.active => In(q3, t)
  <2>1. CASE kept
    <3>1. t \in q2.active => t \in q1.active
      BY <1>3, <1>4, <1>5, <1>k, <2>1 DEF Rest, Same
    <3> QED
      BY <1>4, <1>6, <2>1, <3>1
  <2>2. CASE ~kept
    BY <1>5, <1>6, <1>k, <2>2
  <2> QED
    BY <2>1, <2>2
<1>11. KeptOf(q3, inhand', {})
  BY <1>6, <1>7, <1>9, <1>10 DEF KeptOf, Rest, Same
<1>12. Same(q, q3, ThreadTimer)
  BY <1>3, <1>4, <1>5, <1>6, <1>7 DEF Rest, Same
<1>13. ~(o.op = "start" /\ o.timer \in Soft) => SoftLess(q, q3)
  <2> SUFFICES ASSUME ~(o.op = "start" /\ o.timer \in Soft), NEW u \in Soft, u \in q3.active
               PROVE  u \in q.active /\ q3.init[u] = q.init[u] /\ q3.age[u] = q.age[u]
    BY DEF SoftLess
  <2>1. Same(q2, q3, u) /\ Same(q, q1, u)
    BY <1>4, <1>6, <1>7 DEF Rest
  <2>2. Same(q1, q2, u)
    BY <1>5, <1>7, <2>1 DEF Rest, Same
  <2> QED
    BY <2>1, <2>2 DEF Same
<1>14. \/ o.op = "start" /\ o.timer \in Soft /\ ThreadWaits /\ ~asleep' /\ asleep' \in BOOLEAN /\ q' = Stopped(q3, ThreadTimer)
       \/ ~(o.op = "start" /\ o.timer \in Soft /\ ThreadWaits) /\ asleep' = asleep /\ q' = q3
  BY <1>t, <1>a, <1>b, <1>c, <1>k DEF FireHard, Woken
<1>15. Sound(q') /\ KeptOf(q', inhand', {}) /\ asleep' \in BOOLEAN /\ (asleep' => asleep)
  <2>1. CASE q' = q3 /\ asleep' = asleep
    BY <1>2, <1>6, <1>11, <2>1 DEF States
  <2>2. CASE q' = Stopped(q3, ThreadTimer) /\ ~asleep' /\ asleep' \in BOOLEAN
    <3>1. Sound(q') /\ ThreadTimer \notin q'.active /\ ~In(q', ThreadTimer) /\ Rest(q3, q', ThreadTimer)
      BY <1>2, <1>6, <1>7, <2>2, StoppedFacts
    <3>2. q'.active \subseteq Timers
      BY <3>1, DataFacts DEF Sound
    <3> QED
      BY <1>7, <1>11, <2>2, <3>1, <3>2 DEF KeptOf, Rest, Same
  <2> QED
    BY <1>14, <2>1, <2>2
<1>16. Kept'
  BY <1>1, <1>2, <1>15 DEF Kept, KeptOf, In
<1>17. Waiting'
  <2>1. CASE o.op = "start" /\ o.timer \in Soft
    <3>1. tpc' \notin {"look", "delay"} \/ misled'
      BY <1>1, <2>1
    <3>2. tpc' # "check" \/ ~asleep'
      BY <1>1, <1>14, <2>1 DEF ThreadWaits, Busy
    <3> QED
      BY <3>1, <3>2, AwakeStep
  <2>2. CASE ~(o.op = "start" /\ o.timer \in Soft)
    <3>0. q' = q3 /\ asleep' = asleep
      BY <1>14, <2>2
    <3>1. q' = q3 /\ (asleep' => asleep) /\ (misled => misled')
      BY <1>1, <3>0, Zenon
    <3>2. SoftLess(q, q') /\ Same(q, q', ThreadTimer)
      BY <1>12, <1>13, <2>2, <3>1
    <3>3. UNCHANGED <<tick, tpc, next, slip, apc>> /\ Waiting
      BY <1>1, <1>2
    <3> QED
      BY <3>1, <3>2, <3>3, QuietStep
  <2> QED
    BY <2>1, <2>2
<1>18. States'
  BY <1>1, <1>2, <1>15 DEF States
<1> QED
  BY <1>1, <1>15, <1>16, <1>17, <1>18, SoundNext DEF IInv, HardInTime

\* rt_timer_check ends: the first timer is not due, so none is
LEMMA CheckDoneStep ==
    ASSUME IInv, CheckDone PROVE IInv'
<1>1. ~Due("hard") /\ ~isr' /\ isr' \in BOOLEAN /\ UNCHANGED <<tick, q, tpc, next, asleep, inhand, slip, misled, apc>>
  BY DEF CheckDone, thread
<1>2. tick \in 0 .. TickMax /\ Sound(q) /\ States /\ Kept /\ Waiting
  BY DEF IInv, States
<1>3. OnTime(q)
  <2> SUFFICES ASSUME NEW t \in q.active \ Soft PROVE q.age[t] < q.init[t]
    BY DEF OnTime
  <2>1. t \in Timers /\ q.age[t] \in Nat /\ q.init[t] \in Nat
    BY <1>2, DataFacts DEF Sound
  <2>2. In(q, t) /\ ListOf(t) = "hard"
    BY <1>2, <2>1, Kinds, OwnList DEF Kept, KeptOf
  <2>3. LeftIn(q, t) >= 1
    BY <1>1, <1>2, <2>1, <2>2, DueFacts DEF Lists
  <2> QED
    BY <2>1, <2>3 DEF LeftIn
<1>4. HardInTime'
  BY <1>1, <1>3 DEF HardInTime, OnTime
<1>5. Kept' /\ Sound(q)'
  BY <1>1, <1>2, SoundNext DEF Kept, KeptOf, In
<1>6. Waiting'
  BY <1>1, <1>2, QuietStep DEF SoftLess, Same
<1> QED
  BY <1>1, <1>2, <1>4, <1>5, <1>6 DEF IInv, States

\* the timer thread reads the first deadline of the soft timers
LEMMA ReadNextStep ==
    ASSUME IInv, ReadNext PROVE IInv'
<1>1. /\ ~isr /\ ~asleep /\ tpc = "next" /\ tpc' = "look" /\ UNCHANGED <<tick, q, isr, asleep, inhand, slip, apc>>
      /\ next' = IF q.list["soft"] = <<>> THEN TickMax ELSE q.deadline[Head(q.list["soft"])]
      /\ misled' = (q.list["soft"] # <<>> /\ next' = TickMax)
  BY DEF ReadNext, Threading
<1>2. tick \in 0 .. TickMax /\ Sound(q) /\ States /\ Kept
  BY DEF IInv, States
<1>l. PICK l : l = q.list["soft"]
  OBVIOUS
<1>3. l \in Seq(Timers)
  BY <1>2, <1>l, DataFacts DEF Sound, Lists
\* nothing is in hand, so the list is complete
<1>4. \A t \in Soft \cap q.active : Contains(l, t)
  BY <1>1, <1>2, <1>l, OwnList, Kinds DEF Kept, KeptOf, In
<1>5. CASE l = <<>>
  <2>1. Soft \cap q.active = {} /\ next' = TickMax
    BY <1>1, <1>3, <1>4, <1>5, <1>l, EmptyList
  <2>2. Waiting' /\ next' \in 0 .. TickMax
    BY <1>1, <2>1, Bounds DEF Waiting, Looked, Timed, Slept
  <2> QED
    BY <1>1, <1>2, <2>2, SoundNext DEF IInv, States, Kept, KeptOf, In, HardInTime
<1>6. CASE l # <<>>
  <2>h. PICK h : h = Head(l)
    OBVIOUS
  <2>1. h \in Timers /\ h = l[1] /\ 1 \in 1 .. Len(l) /\ Len(l) \in Nat
    BY <1>3, <1>6, <2>h
  <2>2. Contains(l, h)
    BY <2>1 DEF Contains
  <2>3. h \in q.active /\ In(q, h)
    BY <1>2, <1>l, <2>1, <2>2 DEF Sound, Linked, In, Lists
  <2>4. next' = q.deadline[h] /\ next' \in 0 .. TickMax /\ Wraps(next', tick + LeftIn(q, h)) /\ LeftIn(q, h) \in Int /\ -MaxLag <= LeftIn(q, h)
    BY <1>1, <1>2, <1>6, <1>l, <2>h, <2>1, <2>3, DataFacts, LeftFacts DEF Sound, Ends
  <2>5. ASSUME NEW t \in Soft \cap q.active
        PROVE  LeftIn(q, h) <= LeftIn(q, t) /\ LeftIn(q, h) + q.age[t] >= -MaxLag
    <3>1. PICK i \in 1 .. Len(l) : l[i] = t
      BY <1>4 DEF Contains
    <3>2. i = 1 \/ 1 < i
      BY <2>1, <3>1
    <3>3. 1 < i => Before(q, h, t)
      BY <1>2, <1>l, <2>1, <3>1 DEF Sound, Sorted, Lists
    <3>4. LeftIn(q, t) \in Int /\ q.age[t] \in Nat
      BY <1>2, LeftFacts, DataFacts DEF Sound
    <3> QED
      BY <2>1, <2>4, <3>1, <3>2, <3>3, <3>4, Bounds DEF Before
  <2>6. Looked'
    <3> SUFFICES ASSUME ~misled', NEW t \in Soft \cap q.active PROVE next' # TickMax /\ \E x \in Int : First(x, t)'
      BY <1>1 DEF Looked
    <3>1. next' # TickMax
      BY <1>1, <1>6, <1>l
    <3> QED
      BY <1>1, <2>4, <2>5, <3>1 DEF First, Wraps, LeftIn
  <2>7. Timed' /\ Slept'
    BY <1>1 DEF Timed, Slept
  <2>8. misled' \in BOOLEAN
    BY <1>1
  <2> QED
    BY <1>1, <1>2, <2>4, <2>6, <2>7, <2>8, SoundNext DEF IInv, Waiting, States, Kept, KeptOf, In, HardInTime
<1> QED
  BY <1>5, <1>6

\* it looks at the tick
LEMMA LookStep ==
    ASSUME IInv, Look PROVE IInv'
<1>1. /\ ~isr /\ ~asleep /\ tpc = "look" /\ UNCHANGED <<tick, q, isr, inhand, misled, apc>> /\ slip' = 0
      /\ \/ next = TickMax /\ tpc' = "check" /\ asleep' /\ asleep' \in BOOLEAN /\ next' = 0
         \/ /\ next # TickMax /\ asleep' = asleep
            /\ IF Dist(next, tick) < Half THEN tpc' = "delay" /\ next' = Dist(next, tick)
               ELSE tpc' = "check" /\ next' = 0
  BY DEF Look, Threading
<1>2. tick \in 0 .. TickMax /\ Sound(q) /\ States /\ Kept /\ Waiting
  BY DEF IInv, States
<1>3. Dist(next, tick) \in Nat
  <2>1. W \in Nat /\ W > 0 /\ next \in Nat /\ tick \in Nat /\ TickMax = W - 1
    BY <1>2, Bounds DEF States
  <2>2. next - tick + W \in Nat
    BY <1>2, <2>1 DEF States
  <2>y. PICK y \in Nat : y = next - tick + W
    BY <2>2
  <2>3. y % W \in Nat
    BY <2>1
  <2> QED
    BY <2>3, <2>y DEF Dist
<1>4. States'
  <2>1. next' \in 0 .. TickMax /\ (tpc' = "delay" => next' < Half) /\ tpc' \in {"check", "delay"}
    <3>1. TickMax \in Nat /\ Half \in Nat /\ Half <= TickMax
      <4> HIDE DEF Half
      <4> QED
        BY Bounds
    <3> HIDE DEF Half
    <3> QED
      BY <1>1, <1>3, <3>1
  <2> QED
    BY <1>1, <1>2, <2>1 DEF States
<1>5. Kept' /\ HardInTime'
  BY <1>1, <1>2 DEF IInv, Kept, KeptOf, In, HardInTime
<1>6. Waiting'
  <2>1. Looked'
    BY <1>1 DEF Looked
  <2>2. ASSUME ~misled, next # TickMax, Dist(next, tick) < Half, NEW t \in Soft \cap q.active
        PROVE  Dist(next, tick) <= LeftIn(q, t) + 0
    <3>1. PICK x \in Int : First(x, t)
      BY <1>1, <1>2, <2>2 DEF Waiting, Looked
    <3>2. x < Half /\ -Half <= x /\ x <= LeftIn(q, t) /\ LeftIn(q, t) \in Int
      <4>1. LeftIn(q, t) < Half /\ LeftIn(q, t) \in Int
        BY <1>2, LeftFacts
      <4>2. t # ThreadTimer /\ AgeOf(q, t) /\ q.age[t] \in Nat /\ q.init[t] \in Nat
        BY <1>2, Kinds, DataFacts DEF Sound, Aged
      <4>3. q.init[t] + 2 * MaxLag <= Half /\ q.age[t] <= q.init[t] + MaxLag
        BY <4>2, Bounds DEF AgeOf, Legal
      <4> HIDE DEF Half
      <4> QED
        BY <3>1, <4>1, <4>2, <4>3, Bounds DEF First
    <3>p. PICK y \in Int, z \in Int : y = tick /\ z = tick + x
      BY <1>2, Bounds
    <3>3. Wraps(tick, y) /\ Wraps(next, z) /\ z - y = x
      BY <1>2, <3>1, <3>p, Bounds DEF First, Wraps
    <3>4. next \in 0 .. TickMax
      BY <1>2 DEF States
    <3>5. (Dist(next, tick) < Half <=> z >= y) /\ (z >= y => Dist(next, tick) = z - y)
      BY <1>2, <3>2, <3>3, <3>4, DistFacts
    <3> QED
      BY <2>2, <3>2, <3>3, <3>5
  <2>3. Timed'
    BY <1>1, <2>2 DEF Timed, LeftIn
  <2>4. Slept'
    <3>1. next = TickMax /\ ~misled => Soft \cap q.active = {}
      BY <1>1, <1>2 DEF Waiting, Looked
    <3> QED
      BY <1>1, <3>1 DEF Slept
  <2> QED
    BY <2>1, <2>3, <2>4 DEF Waiting
<1> QED
  BY <1>1, <1>2, <1>4, <1>5, <1>6, SoundNext DEF IInv

\* it goes to sleep
LEMMA DelayStep ==
    ASSUME IInv, Delay PROVE IInv'
<1>1. /\ ~isr /\ tpc = "delay" /\ tpc' = "check" /\ next' = 0 /\ asleep' \in BOOLEAN /\ asleep'
      /\ q' = Started(q, ThreadTimer, next) /\ UNCHANGED <<tick, isr, inhand, slip, misled, apc>>
  BY DEF Delay, Threading, Sleeps
<1>2. tick \in 0 .. TickMax /\ Sound(q) /\ States /\ Kept /\ Waiting /\ OnTime(q)
  BY <1>1 DEF IInv, States, HardInTime, OnTime
<1>3. Legal(ThreadTimer, next)
  BY <1>1, <1>2, Bounds DEF States, Legal
<1>4. /\ Sound(q') /\ In(q', ThreadTimer) /\ Rest(q, q', ThreadTimer) /\ ThreadTimer \in q'.active
      /\ q'.init[ThreadTimer] = next /\ q'.age[ThreadTimer] = 0
  BY <1>1, <1>2, <1>3, StartedFacts, Kinds
<1>5. q'.active \subseteq Timers /\ Soft \subseteq Timers \ {ThreadTimer} /\ q' \in TimerData
  BY <1>4, DataFacts, Kinds DEF Sound
<1>6. KeptOf(q', inhand, {})
  BY <1>2, <1>4, <1>5 DEF Kept, KeptOf, Rest, Same
<1>7. Kept'
  BY <1>1, <1>2, <1>6 DEF Kept, KeptOf, In
<1>8. OnTime(q')
  BY <1>2, <1>4, <1>5, InTimeStep
<1>9. Slept'
  <2> SUFFICES ASSUME ~misled, NEW t \in Soft \cap q'.active PROVE Served(t)'
    BY <1>1 DEF Slept
  <2>1. Same(q, q', t)
    BY <1>4, <1>5 DEF Rest
  <2>2. next <= LeftIn(q, t) + slip /\ LeftIn(q', t) = LeftIn(q, t)
    BY <1>1, <1>2, <2>1 DEF Waiting, Timed, Same, LeftIn
  <2>3. LeftIn(q', ThreadTimer) = next
    BY <1>2, <1>4, Bounds DEF States, LeftIn
  <2> QED
    BY <1>1, <1>4, <2>2, <2>3 DEF Served, LeftIn
<1>10. Looked' /\ Timed'
  BY <1>1 DEF Looked, Timed
<1>11. States'
  BY <1>1, <1>2, Bounds DEF States
<1> QED
  BY <1>1, <1>4, <1>7, <1>8, <1>9, <1>10, <1>11, SoundNext DEF IInv, HardInTime, OnTime, Waiting

\* it takes the first soft timer, if that is due
LEMMA CheckStep ==
    ASSUME IInv, Check PROVE IInv'
<1>1. /\ ~isr /\ ~asleep /\ tpc = "check" /\ UNCHANGED <<tick, isr, next, asleep, slip, misled, apc>>
      /\ \/ Due("soft") /\ tpc' = "call" /\ inhand' = Head(q.list["soft"]) /\ q' = Taken(q, inhand')
         \/ tpc' = "next" /\ inhand' = inhand /\ q' = q
  BY DEF Check, Threading
<1>2. tick \in 0 .. TickMax /\ Sound(q) /\ States /\ Kept /\ OnTime(q) /\ inhand = None
  BY <1>1 DEF IInv, States, HardInTime, OnTime, Kept
<1>3. States'
  BY <1>1, <1>2, Bounds DEF States
<1>4. Waiting'
  BY <1>1, AwakeStep
<1>5. CASE tpc' = "next"
  <2>1. q' = q /\ inhand' = inhand
    BY <1>1, <1>5
  <2> QED
    BY <1>1, <1>2, <1>3, <1>4, <2>1, SoundNext DEF IInv, Kept, KeptOf, In, HardInTime, OnTime
<1>6. CASE tpc' = "call"
  <2>h. PICK h : h = inhand'
    OBVIOUS
  <2>1. h \in q.active /\ ListOf(h) = "soft" /\ q' = Taken(q, h) /\ In(q, h)
    BY <1>1, <1>2, <1>6, <2>h, DueFacts DEF Lists
  <2>2. h \in Soft /\ h \in Timers
    BY <1>2, <2>1, OwnList, DataFacts DEF Sound
  <2>3. Sound(q') /\ ~In(q', h) /\ Rest(q, q', h) /\ (h \in q'.active <=> h \in Periodic)
    BY <1>2, <2>1, TakenFacts
  <2>4. q'.active \subseteq Timers /\ q' \in TimerData
    BY <2>3, DataFacts DEF Sound
  <2>5. KeptOf(q', h, {})
    BY <1>2, <2>2, <2>3, <2>4, Kinds DEF Kept, KeptOf, Rest, Same
  <2>6. Kept'
    BY <1>6, <2>h, <2>5 DEF Kept, KeptOf, In
  <2>7. OnTime(q')
    BY <1>2, <2>2, <2>3, <2>4, InTimeStep
  <2> QED
    BY <1>1, <1>3, <1>4, <2>3, <2>6, <2>7, SoundNext DEF IInv, HardInTime, OnTime
<1> QED
  BY <1>1, <1>5, <1>6

\* what a touch by the timer thread or the application keeps
LEMMA TouchStep ==
    ASSUME IInv, NEW o \in Touch, ~isr, q' = Touched(q, o), UNCHANGED <<tick, isr, tpc>>,
           inhand' = IF o.timer = inhand /\ Effective(q, o) THEN None ELSE inhand
    PROVE  /\ Sound(q)' /\ Kept' /\ HardInTime' /\ Same(q, q', ThreadTimer)
           /\ ~(o.op = "start" /\ o.timer \in Soft) => SoftLess(q, q')
<1>1. tick \in 0 .. TickMax /\ Sound(q) /\ Kept /\ OnTime(q) /\ o \in Touch \cup {Nothing}
  BY DEF IInv, States, HardInTime, OnTime
<1>2. /\ Sound(q') /\ Rest(q, q', o.timer) /\ o.timer # ThreadTimer /\ (~Effective(q, o) => q' = q)
      /\ Effective(q, o) => \/ o.timer \in q'.active /\ In(q', o.timer) /\ q'.age[o.timer] = 0 /\ o.op = "start"
                            \/ o.timer \notin q'.active /\ ~In(q', o.timer) /\ o.op = "stop"
  BY <1>1, TouchedFacts
<1>3. KeptOf(q', inhand', {})
  BY <1>1, KeptTouched DEF Kept
<1>4. Kept'
  BY <1>1, <1>3 DEF Kept, KeptOf, In
<1>5. q' \in TimerData /\ Soft \subseteq Timers /\ ThreadTimer \in Timers
  BY <1>2, Kinds DEF Sound
<1>6. OnTime(q')
  <2>1. CASE Effective(q, o)
    BY <1>1, <1>2, <1>5, <2>1, InTimeStep
  <2>2. CASE ~Effective(q, o)
    BY <1>1, <1>2, <2>2
  <2> QED
    BY <2>1, <2>2
<1>7. SoftLess(q, q') \/ (o.op = "start" /\ o.timer \in Soft)
  <2> SUFFICES ASSUME ~(o.op = "start" /\ o.timer \in Soft), NEW u \in Soft, u \in q'.active
               PROVE  u \in q.active /\ q'.init[u] = q.init[u] /\ q'.age[u] = q.age[u]
    BY DEF SoftLess
  <2>1. Same(q, q', u)
    BY <1>2, <1>5 DEF Rest, Same
  <2> QED
    BY <2>1 DEF Same
<1> QED
  BY <1>2, <1>4, <1>5, <1>6, <1>7, SoundNext DEF HardInTime, OnTime, Rest

LEMMA CallTouchStep ==
    ASSUME IInv, NEW o \in Touch, CallTouch(o) PROVE IInv'
<1>1. /\ ~isr /\ ~asleep /\ tpc = "call" /\ q' = Touched(q, o)
      /\ inhand' = IF o.timer = inhand /\ Effective(q, o) THEN None ELSE inhand
      /\ UNCHANGED <<tick, isr, tpc, next, asleep, slip, misled, apc>>
  BY DEF CallTouch, Threading
<1>2. Sound(q)' /\ Kept' /\ HardInTime'
  BY <1>1, TouchStep
<1>3. Waiting'
  BY <1>1, AwakeStep
<1>4. States'
  BY <1>1 DEF IInv, States
<1> QED
  BY <1>2, <1>3, <1>4 DEF IInv

\* a thread of the application starts or stops a timer
LEMMA AppTouchStep ==
    ASSUME IInv, NEW o \in Touch, AppTouch(o) PROVE IInv'
<1>1. /\ ~isr /\ asleep /\ apc = "idle" /\ q' = Touched(q, o)
      /\ inhand' = IF o.timer = inhand /\ Effective(q, o) THEN None ELSE inhand
      /\ apc' = IF o.op = "start" /\ o.timer \in Soft THEN "look" ELSE "idle"
      /\ UNCHANGED <<tick, isr, tpc, next, asleep, slip, misled>>
  BY DEF AppTouch, Running
<1>2. /\ Sound(q)' /\ Kept' /\ HardInTime' /\ Same(q, q', ThreadTimer)
      /\ ~(o.op = "start" /\ o.timer \in Soft) => SoftLess(q, q')
  BY <1>1, TouchStep
<1>3. Waiting'
  <2>1. CASE o.op = "start" /\ o.timer \in Soft
    <3>1. tpc \in {"check", "call"}
      BY <1>1 DEF IInv, States
    <3> QED
      BY <1>1, <2>1, <3>1 DEF Waiting, Looked, Timed, Slept
  <2>2. CASE ~(o.op = "start" /\ o.timer \in Soft)
    <3>1. UNCHANGED <<tick, tpc, next, slip, apc>> /\ asleep' = asleep /\ misled' = misled
      BY <1>1, <2>2
    <3>2. Waiting /\ SoftLess(q, q') /\ Same(q, q', ThreadTimer)
      BY <1>2, <2>2 DEF IInv
    <3> QED
      BY <3>1, <3>2, QuietStep
  <2> QED
    BY <2>1, <2>2
<1>4. States'
  BY <1>1 DEF IInv, States
<1> QED
  BY <1>2, <1>3, <1>4 DEF IInv

\* a timeout function of a soft timer sleeps
LEMMA CallSleepStep ==
    ASSUME IInv, NEW d \in Durations, CallSleep(d) PROVE IInv'
<1>1. /\ ~isr /\ tpc = "call" /\ asleep' \in BOOLEAN /\ q' = Started(q, ThreadTimer, d)
      /\ UNCHANGED <<tick, isr, tpc, next, inhand, slip, misled, apc>>
  BY DEF CallSleep, Threading, Sleeps
<1>2. tick \in 0 .. TickMax /\ Sound(q) /\ States /\ Kept /\ OnTime(q)
  BY <1>1 DEF IInv, States, HardInTime, OnTime
<1>3. Legal(ThreadTimer, d)
  <2> HIDE DEF Half
  <2> QED
    BY Bounds DEF Legal
<1>4. /\ Sound(q') /\ In(q', ThreadTimer) /\ Rest(q, q', ThreadTimer) /\ q'.age[ThreadTimer] = 0
  BY <1>1, <1>2, <1>3, StartedFacts, Kinds
<1>5. q'.active \subseteq Timers /\ Soft \subseteq Timers \ {ThreadTimer} /\ q' \in TimerData
  BY <1>4, DataFacts, Kinds DEF Sound
<1>6. KeptOf(q', inhand, {})
  BY <1>2, <1>4, <1>5 DEF Kept, KeptOf, Rest, Same
<1>7. Kept'
  BY <1>1, <1>2, <1>6 DEF Kept, KeptOf, In
<1>8. OnTime(q')
  BY <1>2, <1>4, <1>5, InTimeStep
<1>9. Waiting' /\ States'
  BY <1>1, <1>2, AwakeStep DEF States
<1> QED
  BY <1>1, <1>4, <1>7, <1>8, <1>9, SoundNext DEF IInv, HardInTime, OnTime

\* it returns; a periodic timer that is still in hand starts again
LEMMA CallEndStep ==
    ASSUME IInv, CallEnd PROVE IInv'
<1>1. /\ ~isr /\ ~asleep /\ tpc = "call" /\ tpc' = "check" /\ inhand' = None
      /\ q' = Restarted(q, inhand, inhand # None)
      /\ UNCHANGED <<tick, isr, next, asleep, slip, misled, apc>>
  BY DEF CallEnd, Threading
<1>2. tick \in 0 .. TickMax /\ Sound(q) /\ States /\ Kept /\ OnTime(q)
  BY <1>1 DEF IInv, States, HardInTime, OnTime
<1>k. PICK kept \in BOOLEAN : kept = (inhand # None)
  OBVIOUS
<1>h. PICK h : h = inhand
  OBVIOUS
<1>3. q' = Restarted(q, h, kept)
  BY <1>1, <1>k, <1>h
<1>4. /\ Sound(q') /\ Rest(q, q', h)
      /\ kept /\ h \in Periodic \cap q.active => h \in q'.active /\ In(q', h) /\ q'.age[h] = 0
      /\ ~(kept /\ h \in Periodic \cap q.active) => q' = q
  BY <1>2, <1>3, RestartedFacts
<1>5. q'.active \subseteq Timers /\ q' \in TimerData
  BY <1>4, DataFacts DEF Sound
<1>6. KeptOf(q', None, {})
  <2>1. CASE h = None
    <3>1. q' = q
      BY <1>4, <1>h, <1>k, <2>1
    <3> QED
      BY <1>2, <1>h, <2>1, <3>1 DEF Kept, KeptOf
  <2>2. CASE h # None
    <3>1. kept
      BY <1>h, <1>k, <2>2
    <3>2. \A t \in q'.active : t # h => In(q', t)
      BY <1>2, <1>4, <1>5, <1>h DEF Kept, KeptOf, Rest, Same
    <3>3. h \in q'.active => In(q', h)
      BY <1>2, <1>4, <1>h, <3>1 DEF Kept, KeptOf
    <3> QED
      BY <3>2, <3>3 DEF KeptOf
  <2> QED
    BY <2>1, <2>2
<1>7. Kept'
  BY <1>1, <1>6 DEF Kept, KeptOf, In
<1>8. OnTime(q')
  <2>1. CASE kept /\ h \in Periodic \cap q.active
    BY <1>2, <1>4, <1>5, <2>1, InTimeStep
  <2>2. CASE ~(kept /\ h \in Periodic \cap q.active)
    BY <1>2, <1>4, <2>2
  <2> QED
    BY <2>1, <2>2
<1>9. Waiting' /\ States'
  BY <1>1, <1>2, AwakeStep DEF States
<1> QED
  BY <1>1, <1>4, <1>7, <1>8, <1>9, SoundNext DEF IInv, HardInTime, OnTime

LEMMA AppLookStep ==
    ASSUME IInv, AppLook PROVE IInv'
<1>1. /\ asleep /\ apc = "look" /\ apc' = IF ThreadWaits THEN "resume" ELSE "idle"
      /\ UNCHANGED <<tick, q, isr, tpc, next, asleep, inhand, slip, misled>>
  BY DEF AppLook, Running, thread
<1>2. /\ tick \in 0 .. TickMax /\ Sound(q) /\ States /\ Kept /\ HardInTime
      /\ tpc \in {"check", "call"} /\ apc' \in {"idle", "look", "resume"}
  BY <1>1 DEF IInv, States
<1>3. tpc = "check" => apc' = "resume"
  BY <1>1 DEF ThreadWaits, Busy
<1>4. Waiting'
  BY <1>1, <1>2, <1>3 DEF Waiting, Looked, Timed, Slept
<1> QED
  BY <1>1, <1>2, <1>4, SoundNext DEF IInv, States, Kept, KeptOf, In, HardInTime

LEMMA AppResumeStep ==
    ASSUME IInv, AppResume PROVE IInv'
<1>1. /\ ~isr /\ asleep /\ apc' = "idle" /\ ~asleep' /\ asleep' \in BOOLEAN /\ q' = Stopped(q, ThreadTimer)
      /\ UNCHANGED <<tick, isr, tpc, next, inhand, slip, misled>>
  BY DEF AppResume, Running, Woken
<1>2. tick \in 0 .. TickMax /\ Sound(q) /\ States /\ Kept /\ OnTime(q) /\ tpc \in {"check", "call"}
  BY <1>1 DEF IInv, States, HardInTime, OnTime
<1>3. Sound(q') /\ ~In(q', ThreadTimer) /\ Rest(q, q', ThreadTimer) /\ ThreadTimer \notin q'.active
  BY <1>1, <1>2, StoppedFacts, Kinds
<1>4. q'.active \subseteq Timers /\ Soft \subseteq Timers \ {ThreadTimer} /\ q' \in TimerData
  BY <1>3, DataFacts, Kinds DEF Sound
<1>5. KeptOf(q', inhand, {})
  BY <1>2, <1>3, <1>4 DEF Kept, KeptOf, Rest, Same
<1>6. Kept'
  BY <1>1, <1>2, <1>5 DEF Kept, KeptOf, In
<1>7. OnTime(q')
  BY <1>2, <1>3, <1>4, InTimeStep
<1>8. Waiting' /\ States'
  BY <1>1, <1>2, AwakeStep DEF States
<1> QED
  BY <1>1, <1>3, <1>6, <1>7, <1>8, SoundNext DEF IInv, HardInTime, OnTime

LEMMA NextInv == IInv /\ [Next]_vars => IInv'
<1> SUFFICES ASSUME IInv, [Next]_vars PROVE IInv'
  OBVIOUS
<1>1. CASE UNCHANGED vars
  <2>1. UNCHANGED <<tick, q, isr, tpc, next, asleep, inhand, slip, misled, apc>>
    BY <1>1 DEF vars, thread
  <2>2. Sound(q)'
    BY <2>1, SoundNext DEF IInv
  <2>3. Waiting'
    BY <2>1, QuietStep DEF IInv, SoftLess, Same
  <2> QED
    BY <2>1, <2>2, <2>3 DEF IInv, States, Kept, KeptOf, In, HardInTime
<1>2. CASE Next
  BY <1>2, TickStep, TimeOutStep, CheckDoneStep, FireHardStep, ReadNextStep, LookStep, DelayStep, CheckStep,
     CallEndStep, CallTouchStep, AppTouchStep, CallSleepStep, AppLookStep, AppResumeStep DEF Next
<1> QED
  BY <1>1, <1>2

LEMMA InvHolds == Spec => []IInv
<1>1. Init => IInv
  BY InitInv
<1>2. IInv /\ [Next]_vars => IInv'
  BY NextInv
<1> QED
  BY <1>1, <1>2, PTL DEF Spec

-----------------------------------------------------------------------------
(* Timer: the theorems *)

\* Timers end in time and in the order of their deadlines, for any timers, times and width of the
\* tick, in whatever order they are started, restarted and stopped, across the wrap of the tick
\* (rt_timer_check, rt_timer_start).
THEOREM TimersEndInTime == Spec => []InTime
<1>1. IInv => InTime
  <2> SUFFICES ASSUME IInv PROVE InTime
    OBVIOUS
  <2>1. CalledInOrder
    <3> SUFFICES ASSUME NEW k \in Lists, NEW i \in DOMAIN q.list[k], NEW j \in DOMAIN q.list[k], i < j
                 PROVE  LET t == q.list[k][i]
                            u == q.list[k][j]
                        IN  Left(t) < Left(u) \/ (Left(t) = Left(u) /\ q.age[t] >= q.age[u])
      BY DEF CalledInOrder, Lists
    <3>1. DOMAIN q.list[k] = 1 .. Len(q.list[k])
      BY DataFacts DEF IInv, Sound
    <3>2. Before(q, q.list[k][i], q.list[k][j])
      BY <3>1 DEF IInv, Sound, Sorted
    <3> QED
      BY <3>2 DEF Before, LeftIn, Left
  <2> QED
    BY <2>1 DEF IInv, InTime
<1> QED
  BY <1>1, InvHolds, PTL

\* No timeout function is called before the time of its timer is over, in the tick interrupt and in
\* the timer thread, although the code compares numbers that wrap (rt_timer_check,
\* rt_soft_timer_check).
THEOREM NoTimerEarly == Spec => NeverEarly
<1> DEFINE P == /\ (TimeOut \/ \E o \in Touch \cup {Nothing} : FireHard(o)) =>
                     LET t == Head(q.list["hard"]) IN t \in q.active /\ q.age[t] >= q.init[t]
                /\ (Check /\ tpc' = "call" => inhand' \in q.active /\ q.age[inhand'] >= q.init[inhand'])
<1>1. ASSUME NEW k \in Lists, IInv, Due(k)
      PROVE  Head(q.list[k]) \in q.active /\ q.age[Head(q.list[k])] >= q.init[Head(q.list[k])]
  <2>h. PICK h : h = Head(q.list[k])
    OBVIOUS
  <2>1. h \in q.active /\ LeftIn(q, h) <= 0 /\ Sound(q)
    BY <1>1, <2>h, DueFacts DEF IInv, States
  <2>2. q.age[h] \in Nat /\ q.init[h] \in Nat
    BY <2>1, DataFacts DEF Sound
  <2> QED
    BY <2>1, <2>2, <2>h DEF LeftIn
<1>2. ASSUME IInv, TimeOut \/ \E o \in Touch \cup {Nothing} : FireHard(o)
      PROVE  LET t == Head(q.list["hard"]) IN t \in q.active /\ q.age[t] >= q.init[t]
  <2>1. Due("hard")
    BY <1>2 DEF TimeOut, FireHard
  <2> QED
    BY <1>1, <1>2, <2>1 DEF Lists
<1>3. ASSUME IInv, Check, tpc' = "call" PROVE inhand' \in q.active /\ q.age[inhand'] >= q.init[inhand']
  <2>1. Due("soft") /\ inhand' = Head(q.list["soft"])
    BY <1>3 DEF Check
  <2> QED
    BY <1>1, <1>3, <2>1 DEF Lists
<1>4. IInv /\ [Next]_vars => [P]_vars
  BY <1>2, <1>3
<1> QED
  BY <1>4, InvHolds, PTL DEF Spec, NeverEarly

\* The timer thread wakes up for every soft timer, whichever of the application, its timeout
\* functions and the tick interrupt starts and stops timers, and when (rt_timer_start,
\* rt_thread_timer_entry).
THEOREM SoftTimersServed == Spec => []SoftServed
<1>1. IInv => SoftServed
  BY DEF IInv, Waiting, Slept, Served, LeftIn, Left, SoftServed
<1> QED
  BY <1>1, InvHolds, PTL

\* No start of a timer wakes the timer thread while it sleeps in a timeout function
\* (soft_timer_status in rt_timer_start).
THEOREM SleepNotBroken == Spec => SleepKept
<1> DEFINE P == asleep /\ tpc = "call" /\ ~asleep' => TimeOut \/ apc = "resume"
<1>1. ASSUME Next, asleep, tpc = "call", ~asleep', ~TimeOut PROVE apc = "resume"
  <2>1. CASE Tick \/ CheckDone \/ ReadNext \/ Look \/ Delay \/ Check \/ CallEnd \/ AppLook
    BY <1>1, <2>1 DEF Tick, CheckDone, ReadNext, Look, Delay, Check, CallEnd, AppLook, Threading, thread
  <2>2. ASSUME NEW o \in Touch \cup {Nothing}, FireHard(o) PROVE FALSE
    BY <1>1, <2>2 DEF FireHard, ThreadWaits, Busy
  <2>3. ASSUME NEW o \in Touch, CallTouch(o) \/ AppTouch(o) PROVE FALSE
    BY <1>1, <2>3 DEF CallTouch, AppTouch, Threading
  <2>4. ASSUME NEW d \in Durations, CallSleep(d) PROVE FALSE
    BY <1>1, <2>4 DEF CallSleep, Threading
  <2>5. CASE AppResume
    BY <2>5 DEF AppResume
  <2> QED
    BY <1>1, <2>1, <2>2, <2>3, <2>4, <2>5 DEF Next
<1>2. [Next]_vars => [P]_vars
  BY <1>1
<1> QED
  BY <1>2, PTL DEF Spec, SleepKept

-----------------------------------------------------------------------------
(* ThreadLife: what the application holds *)

\* app holds the handle of a thread whenever it deletes or starts one
TargetOK == step \in {"check", "remove", "detach", "close", "startup"} => target \in Block

\* what app has in hand is allocated and, once it is unlinked, in no list
InHandOK ==
    /\ step \in {"check", "remove", "detach", "close", "startup"} => target \in allocated
    /\ step \in {"detach", "close", "startup"} => target \notin ready \cup defunct
    /\ step \in {"close", "startup"} => target \notin timer
    /\ step = "startup" => stat[target] = "init"

TypeInv == LifeTypeOK /\ TargetOK
LifeInv == ListsMatchStat /\ NoneLost /\ (~raced => InHandOK)

-----------------------------------------------------------------------------
(* ThreadLife: types *)

\* The type invariant is inductive together with TargetOK.
LEMMA TypeStep == TypeInv /\ [LifeNext]_lifeVars => TypeInv'
<1> SUFFICES ASSUME LifeTypeOK, TargetOK, [LifeNext]_lifeVars PROVE TypeInv'
  BY DEF TypeInv
<1> USE DEF TypeInv, LifeTypeOK, TargetOK, Steps, Stats, lists, memory, app, target
<1>1. ASSUME NEW h \in Handle, Begin(h) PROVE TypeInv'
  BY <1>1 DEF Begin, Usable
<1>2. CASE DeleteCheck
  BY <1>2 DEF DeleteCheck, Deleted
<1>3. CASE DeleteRemove
  BY <1>3 DEF DeleteRemove, TakenOut
<1>4. CASE DeleteDetach
  BY <1>4 DEF DeleteDetach, Detached
<1>5. CASE DeleteClose
  BY <1>5 DEF DeleteClose, Deleted
<1>6. CASE Create
  BY <1>6 DEF Create
<1>7. CASE Startup
  BY <1>7 DEF Startup
<1>8. ASSUME NEW b \in Block, Sleep(b) PROVE TypeInv'
  BY <1>8 DEF Sleep
<1>9. ASSUME NEW b \in Block, Expire(b) PROVE TypeInv'
  BY <1>9 DEF Expire
<1>10. ASSUME NEW b \in Block, Exit(b) PROVE TypeInv'
  BY <1>10 DEF Exit, Buried
<1>11. CASE Reclaim
  BY <1>11 DEF Reclaim, Forgotten
<1>12. CASE UNCHANGED lifeVars
  BY <1>12 DEF lifeVars
<1> QED
  BY <1>1, <1>2, <1>3, <1>4, <1>5, <1>6, <1>7, <1>8, <1>9, <1>10, <1>11, <1>12 DEF LifeNext, App

-----------------------------------------------------------------------------
(* ThreadLife: the lists *)

\* When only handles of living threads are used, every step keeps the lists of the kernel
\* consistent, no thread is lost, and what app has in hand is in no list it should not be in.
LEMMA LifeStep ==
    ASSUME Fresh PROVE TypeInv /\ LifeInv /\ [LifeNext]_lifeVars => LifeInv'
<1> SUFFICES ASSUME TypeInv, LifeInv, [LifeNext]_lifeVars PROVE LifeInv'
  OBVIOUS
<1> USE DEF TypeInv, LifeTypeOK, TargetOK, Steps, Stats, target, lists, memory, app,
            LifeInv, ListsMatchStat, NoneLost, InHandOK, Deleting
<1>1. ASSUME NEW h \in Handle, Begin(h) PROVE LifeInv'
  <2>1. ListsMatchStat'
    BY <1>1 DEF Begin, Usable
  <2>2. NoneLost'
    BY <1>1 DEF Begin, Usable
  <2>3. (~raced => InHandOK)'
    BY <1>1 DEF Begin, Usable
  <2> QED
    BY <2>1, <2>2, <2>3
<1>2. CASE DeleteCheck
  <2>1. ListsMatchStat'
    BY <1>2 DEF DeleteCheck, Deleted
  <2>2. NoneLost'
    BY <1>2 DEF DeleteCheck, Deleted
  <2>3. (~raced => InHandOK)'
    BY <1>2 DEF DeleteCheck, Deleted
  <2> QED
    BY <2>1, <2>2, <2>3
<1>3. CASE DeleteRemove
  <2>1. ListsMatchStat'
    BY <1>3 DEF DeleteRemove, TakenOut
  <2>2. NoneLost'
    BY <1>3 DEF DeleteRemove, TakenOut
  <2>3. (~raced => InHandOK)'
    BY <1>3 DEF DeleteRemove, TakenOut
  <2> QED
    BY <2>1, <2>2, <2>3
<1>4. CASE DeleteDetach
  <2>1. ListsMatchStat'
    BY <1>4 DEF DeleteDetach, Detached
  <2>2. NoneLost'
    BY <1>4 DEF DeleteDetach, Detached
  <2>3. (~raced => InHandOK)'
    BY <1>4 DEF DeleteDetach, Detached
  <2> QED
    BY <2>1, <2>2, <2>3
<1>5. CASE DeleteClose
  <2>1. ListsMatchStat'
    BY <1>5 DEF DeleteClose, Deleted
  <2>2. NoneLost'
    BY <1>5 DEF DeleteClose, Deleted
  <2>3. (~raced => InHandOK)'
    BY <1>5 DEF DeleteClose, Deleted
  <2> QED
    BY <2>1, <2>2, <2>3
<1>6. CASE Create
  <2>1. ListsMatchStat'
    BY <1>6 DEF Create
  <2>2. NoneLost'
    BY <1>6 DEF Create
  <2>3. (~raced => InHandOK)'
    BY <1>6 DEF Create
  <2> QED
    BY <2>1, <2>2, <2>3
<1>7. CASE Startup
  <2>1. ListsMatchStat'
    BY <1>7 DEF Startup
  <2>2. NoneLost'
    BY <1>7 DEF Startup
  <2>3. (~raced => InHandOK)'
    BY <1>7 DEF Startup
  <2> QED
    BY <2>1, <2>2, <2>3
<1>8. ASSUME NEW b \in Block, Sleep(b) PROVE LifeInv'
  <2>1. ListsMatchStat'
    BY <1>8 DEF Sleep
  <2>2. NoneLost'
    BY <1>8 DEF Sleep
  <2>3. (~raced => InHandOK)'
    BY <1>8 DEF Sleep
  <2> QED
    BY <2>1, <2>2, <2>3
<1>9. ASSUME NEW b \in Block, Expire(b) PROVE LifeInv'
  <2>1. ListsMatchStat'
    BY <1>9 DEF Expire
  <2>2. NoneLost'
    BY <1>9 DEF Expire
  <2>3. (~raced => InHandOK)'
    BY <1>9 DEF Expire
  <2> QED
    BY <2>1, <2>2, <2>3
<1>10. ASSUME NEW b \in Block, Exit(b) PROVE LifeInv'
  <2>1. ListsMatchStat'
    BY <1>10 DEF Exit, Buried
  <2>2. NoneLost'
    BY <1>10 DEF Exit, Buried
  <2>3. (~raced => InHandOK)'
    BY <1>10 DEF Exit, Buried
  <2> QED
    BY <2>1, <2>2, <2>3
<1>11. CASE Reclaim
  <2>1. ListsMatchStat'
    BY <1>11 DEF Reclaim, Forgotten
  <2>2. NoneLost'
    BY <1>11 DEF Reclaim, Forgotten
  <2>3. (~raced => InHandOK)'
    BY <1>11 DEF Reclaim, Forgotten
  <2> QED
    BY <2>1, <2>2, <2>3
<1>12. CASE UNCHANGED lifeVars
  <2>1. ListsMatchStat'
    BY <1>12 DEF lifeVars
  <2>2. NoneLost'
    BY <1>12 DEF lifeVars
  <2>3. (~raced => InHandOK)'
    BY <1>12 DEF lifeVars
  <2> QED
    BY <2>1, <2>2, <2>3
<1> QED
  BY <1>1, <1>2, <1>3, <1>4, <1>5, <1>6, <1>7, <1>8, <1>9, <1>10, <1>11, <1>12 DEF LifeNext, App

-----------------------------------------------------------------------------
(* ThreadLife: theorems *)

\* Types are kept, and app deletes and starts only what a handle really holds.
THEOREM LifeTypeCorrect == LifeSpec => [](LifeTypeOK /\ TargetOK)
<1>1. LifeInit => TypeInv
  BY NoThreadAssumption DEF LifeInit, TypeInv, LifeTypeOK, TargetOK, Steps, Stats
<1>2. TypeInv => LifeTypeOK /\ TargetOK
  BY DEF TypeInv
<1> QED
  BY <1>1, <1>2, TypeStep, PTL DEF LifeSpec

\* The ready list, the defunct list and the timer list name only threads that exist, no
\* thread is in two of them, and stat says in which it is; every thread that exists is in
\* one of them or in the hand of app.  The two ways out are named: a handle of a freed
\* thread, which Fresh rules out, and a timer that expires inside rt_thread_delete, after
\* which raced holds.
THEOREM ThreadsKept ==
    ASSUME Fresh PROVE LifeSpec => []ThreadsSound
<1>1. LifeInit => TypeInv
  BY NoThreadAssumption DEF LifeInit, TypeInv, LifeTypeOK, TargetOK, Steps, Stats
<1>2. LifeInit => LifeInv
  BY DEF LifeInit, LifeInv, ListsMatchStat, NoneLost, InHandOK
<1>3. TypeInv /\ LifeInv /\ [LifeNext]_lifeVars => TypeInv' /\ LifeInv'
  BY TypeStep, LifeStep
<1>4. LifeInv => ThreadsSound
  BY DEF LifeInv, ThreadsSound
<1> QED
  BY <1>1, <1>2, <1>3, <1>4, PTL DEF LifeSpec
=============================================================================
