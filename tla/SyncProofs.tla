----------------------------- MODULE SyncProofs -----------------------------
(* Semaphores, mutexes and events for any threads, priorities, objects and     *)
(* flags.  Everything rests on one fact: the link of a thread, tlist, is in    *)
(* the list of its priority or in that of what it waits for, once and nowhere  *)
(* else.  So the proofs begin with what the operators on lists and on the      *)
(* ready queue do to any list without duplicates, then show that invariant     *)
(* (Listed) with what it needs of the scheduler (Runner) and of the mutexes    *)
(* (Owned), action by action, as Base.  Each further property has its own      *)
(* invariant on top of Base.                                                   *)
EXTENDS Sync, SequenceTheorems, FiniteSetTheorems, WellFoundedInduction, TLAPS

-----------------------------------------------------------------------------
(* Lists of threads *)

\* tlist is one link: a list names a thread at most once
Once(l) == \A i, j \in 1 .. Len(l) : l[i] = l[j] => i = j

\* the members of r stand in it in the order they have in l
InOrder(r, l) ==
    \A i, j \in 1 .. Len(r) : i < j => \E a, b \in 1 .. Len(l) : a < b /\ l[a] = r[i] /\ l[b] = r[j]

\* r is l and then x
Appended(l, x, r) ==
    /\ Len(r) = Len(l) + 1 /\ r[Len(l) + 1] = x /\ (\A i \in 1 .. Len(l) : r[i] = l[i])
    /\ \A y : Contains(r, y) <=> y = x \/ Contains(l, y)

LEMMA AppendList ==
    ASSUME NEW S, NEW l \in Seq(S), NEW x \in S
    PROVE  /\ Append(l, x) \in Seq(S) /\ Append(l, x) # <<>> /\ Appended(l, x, Append(l, x))
           /\ Once(l) /\ ~Contains(l, x) => Once(Append(l, x))
<1> DEFINE r == Append(l, x)
<1>1. r \in Seq(S) /\ Len(r) = Len(l) + 1 /\ Len(l) \in Nat /\ r # <<>>
  OBVIOUS
<1>2. r[Len(l) + 1] = x /\ \A i \in 1 .. Len(l) : r[i] = l[i]
  OBVIOUS
<1> HIDE DEF r
<1>3. \A y : Contains(r, y) <=> y = x \/ Contains(l, y)
  BY <1>1, <1>2 DEF Contains
<1>4. Once(l) /\ ~Contains(l, x) => Once(r)
  BY <1>1, <1>2 DEF Once, Contains
<1> QED
  BY <1>1, <1>2, <1>3, <1>4 DEF Appended, r

\* the first leaves the list
LEMMA TailList ==
    ASSUME NEW S, NEW l \in Seq(S), l # <<>>
    PROVE  /\ Head(l) \in S /\ Contains(l, Head(l)) /\ Head(l) = l[1] /\ Tail(l) \in Seq(S) /\ InOrder(Tail(l), l)
           /\ \A i \in 1 .. Len(Tail(l)) : i + 1 \in 1 .. Len(l) /\ Tail(l)[i] = l[i + 1]
           /\ Once(l) => Once(Tail(l)) /\ \A y : Contains(Tail(l), y) <=> y # Head(l) /\ Contains(l, y)
<1> DEFINE r == Tail(l)
<1>1. Len(l) \in Nat \ {0} /\ Head(l) = l[1] /\ Head(l) \in S
  OBVIOUS
<1>2. r \in Seq(S) /\ Len(r) = Len(l) - 1 /\ \A i \in 1 .. Len(r) : r[i] = l[i + 1]
  OBVIOUS
<1> HIDE DEF r
<1>3. \A i \in 1 .. Len(r) : i + 1 \in 1 .. Len(l)
  BY <1>1, <1>2
<1>4. Once(l) => Once(r)
  BY <1>1, <1>2, <1>3 DEF Once
<1>5. InOrder(r, l)
  <2> SUFFICES ASSUME NEW i \in 1 .. Len(r), NEW j \in 1 .. Len(r), i < j
               PROVE  \E a, b \in 1 .. Len(l) : a < b /\ l[a] = r[i] /\ l[b] = r[j]
    BY DEF InOrder
  <2>1. i + 1 \in 1 .. Len(l) /\ j + 1 \in 1 .. Len(l) /\ i + 1 < j + 1
    BY <1>3
  <2> QED
    BY <1>2, <2>1
<1>6. Contains(l, Head(l))
  BY <1>1 DEF Contains
<1>7. Once(l) => \A y : Contains(r, y) <=> y # Head(l) /\ Contains(l, y)
  <2> SUFFICES ASSUME Once(l), NEW y PROVE Contains(r, y) <=> y # Head(l) /\ Contains(l, y)
    OBVIOUS
  <2>1. ASSUME NEW i \in 1 .. Len(r) PROVE r[i] # l[1] /\ Contains(l, r[i])
    BY <1>1, <1>2, <1>3, <2>1 DEF Once, Contains
  <2>2. ASSUME NEW i \in 1 .. Len(l), i # 1 PROVE Contains(r, l[i])
    <3>1. i - 1 \in 1 .. Len(r) /\ r[i - 1] = l[i]
      BY <1>1, <1>2, <2>2
    <3> QED
      BY <3>1 DEF Contains
  <2> QED
    BY <1>1, <2>1, <2>2 DEF Contains
<1> QED
  BY <1>1, <1>2, <1>3, <1>4, <1>5, <1>6, <1>7 DEF r

\* a thread leaves the list, wherever it is
LEMMA UnlinkList ==
    ASSUME NEW S, NEW l \in Seq(S), Once(l), NEW x
    PROVE  LET r == Unlink(l, x)
           IN  /\ r \in Seq(S) /\ Once(r) /\ InOrder(r, l)
               /\ \A y : Contains(r, y) <=> y # x /\ Contains(l, y)
<1> DEFINE r == Unlink(l, x)
<1>1. CASE ~Contains(l, x)
  <2>1. r = l
    BY <1>1 DEF Unlink
  <2>2. InOrder(l, l)
    BY DEF InOrder
  <2> QED
    BY <1>1, <2>1, <2>2
<1>2. CASE Contains(l, x)
  <2>n. PICK n \in 1 .. Len(l) : l[n] = x
    BY <1>2 DEF Contains
  <2>1. Len(l) \in Nat /\ n \in Nat /\ \A i \in 1 .. Len(l) : l[i] \in S /\ (l[i] = x => i = n)
    BY <2>n DEF Once
  <2>2. r = [i \in 1 .. Len(l) - 1 |-> IF \E k \in 1 .. i : l[k] = x THEN l[i + 1] ELSE l[i]]
    BY <1>2 DEF Unlink
  <2>3. \A i \in 1 .. Len(l) - 1 : (\E k \in 1 .. i : l[k] = x) <=> n <= i
    BY <2>n, <2>1
  <2>4. \A i \in 1 .. Len(l) - 1 : r[i] = IF n <= i THEN l[i + 1] ELSE l[i]
    BY <2>2, <2>3
  <2>5. \A i \in 1 .. Len(l) - 1 : r[i] \in S
    <3> TAKE i \in 1 .. Len(l) - 1
    <3>1. i \in 1 .. Len(l) /\ i + 1 \in 1 .. Len(l)
      BY <2>1
    <3> QED
      BY <2>1, <2>4, <3>1
  <2>6. r \in Seq(S) /\ Len(r) = Len(l) - 1
    <3>0. Len(l) - 1 \in Nat
      BY <2>n, <2>1
    <3>1. r \in [1 .. Len(l) - 1 -> S]
      BY <2>2, <2>5
    <3>2. r \in Seq(S)
      BY <3>0, <3>1, SeqDef
    <3> QED
      BY <3>0, <3>1, <3>2, LenProperties
  <2> HIDE DEF r
  \* where the members of r come from
  <2>7. \A i \in 1 .. Len(r) : /\ i \in Nat /\ i \in 1 .. Len(l) /\ i + 1 \in 1 .. Len(l)
                               /\ r[i] = IF n <= i THEN l[i + 1] ELSE l[i]
    BY <2>1, <2>4, <2>6
  <2>8. Once(r)
    <3> SUFFICES ASSUME NEW i \in 1 .. Len(r), NEW j \in 1 .. Len(r), r[i] = r[j] PROVE i = j
      BY DEF Once
    <3> QED
      BY <2>1, <2>7 DEF Once
  <2>9. InOrder(r, l)
    <3> SUFFICES ASSUME NEW i \in 1 .. Len(r), NEW j \in 1 .. Len(r), i < j
                 PROVE  \E a, b \in 1 .. Len(l) : a < b /\ l[a] = r[i] /\ l[b] = r[j]
      BY DEF InOrder
    <3>1. i \in Nat /\ j \in Nat /\ n \in Nat /\ {i, i + 1, j, j + 1} \subseteq 1 .. Len(l)
      BY <2>1, <2>7
    <3>2. CASE n <= i
      <4>1. r[i] = l[i + 1] /\ r[j] = l[j + 1] /\ i + 1 < j + 1
        BY <2>7, <3>1, <3>2
      <4> QED
        BY <3>1, <4>1
    <3>3. CASE ~(n <= i) /\ n <= j
      <4>1. r[i] = l[i] /\ r[j] = l[j + 1] /\ i < j + 1
        BY <2>7, <3>1, <3>3
      <4> QED
        BY <3>1, <4>1
    <3>4. CASE ~(n <= i) /\ ~(n <= j)
      BY <2>7, <3>1, <3>4
    <3> QED
      BY <3>2, <3>3, <3>4
  <2>10. ASSUME NEW y PROVE Contains(r, y) <=> y # x /\ Contains(l, y)
    <3>1. ASSUME NEW i \in 1 .. Len(r) PROVE r[i] # x /\ Contains(l, r[i])
      BY <2>1, <2>7 DEF Contains
    <3>2. ASSUME NEW i \in 1 .. Len(l), l[i] # x PROVE Contains(r, l[i])
      <4>1. i # n /\ i \in Nat
        BY <2>n, <3>2
      <4>2. CASE i < n
        <5>1. i \in 1 .. Len(r) /\ r[i] = l[i]
          BY <2>1, <2>6, <2>7, <4>1, <4>2
        <5> QED
          BY <5>1 DEF Contains
      <4>3. CASE i > n
        <5>1. i - 1 \in 1 .. Len(r) /\ r[i - 1] = l[i]
          BY <2>1, <2>6, <2>7, <4>1, <4>3
        <5> QED
          BY <5>1 DEF Contains
      <4> QED
        BY <2>1, <4>1, <4>2, <4>3
    <3> QED
      BY <3>1, <3>2 DEF Contains
  <2> QED
    BY <2>6, <2>8, <2>9, <2>10 DEF r
<1> QED
  BY <1>1, <1>2

\* r is l with x at the place i
Inserted(l, i, x, r) ==
    /\ Len(r) = Len(l) + 1
    /\ \A k \in 1 .. Len(r) : r[k] = IF k < i THEN l[k] ELSE IF k = i THEN x ELSE l[k - 1]
    /\ \A y : Contains(r, y) <=> y = x \/ Contains(l, y)

\* a thread is put into the list at the place i
LEMMA InsertList ==
    ASSUME NEW S, NEW l \in Seq(S), NEW x \in S, NEW i \in 1 .. Len(l) + 1, Once(l), ~Contains(l, x)
    PROVE  LET r == InsertAt(l, i, x)
           IN  r \in Seq(S) /\ Once(r) /\ Inserted(l, i, x, r)
<1> DEFINE a == SubSeq(l, 1, i - 1)
           b == SubSeq(l, i, Len(l))
           r == InsertAt(l, i, x)
<1>0. Len(l) \in Nat /\ i \in Nat /\ i >= 1 /\ i <= Len(l) + 1 /\ \A k \in 1 .. Len(l) : l[k] \in S
  OBVIOUS
<1>1. a \in Seq(S) /\ Len(a) = i - 1 /\ \A k \in 1 .. i - 1 : a[k] = l[k]
  <2>1. \A k \in 1 .. i - 1 : l[k] \in S
    BY <1>0
  <2> QED
    BY <1>0, <2>1, SubSeqProperties
<1>2. b \in Seq(S) /\ Len(b) = Len(l) - i + 1 /\ \A k \in 1 .. Len(l) - i + 1 : b[k] = l[i + k - 1]
  <2>1. \A k \in i .. Len(l) : l[k] \in S
    BY <1>0
  <2> QED
    BY <1>0, <2>1, SubSeqProperties
<1>3. r = a \o <<x>> \o b
  BY DEF InsertAt
<1> HIDE DEF a, b, r
<1> DEFINE c == a \o <<x>>
<1>4. c \in Seq(S) /\ Len(c) = i /\ c[i] = x /\ \A k \in 1 .. i - 1 : c[k] = l[k]
  BY <1>0, <1>1
<1>5. r = c \o b
  BY <1>3
<1> HIDE DEF c
<1>6. r \in Seq(S) /\ Len(r) = Len(l) + 1
  BY <1>0, <1>2, <1>4, <1>5, ConcatProperties
<1>7. \A k \in 1 .. Len(l) + 1 : r[k] = IF k <= i THEN c[k] ELSE b[k - i]
  BY <1>0, <1>2, <1>4, <1>5, ConcatProperties
<1>8. \A k \in 1 .. Len(l) + 1 : r[k] = IF k < i THEN l[k] ELSE IF k = i THEN x ELSE l[k - 1]
  <2> TAKE k \in 1 .. Len(l) + 1
  <2>1. k > i => k - i \in 1 .. Len(l) - i + 1 /\ i + (k - i) - 1 = k - 1
    BY <1>0
  <2> QED
    BY <1>0, <1>2, <1>4, <1>7, <2>1
<1>9. \A y : Contains(r, y) <=> y = x \/ Contains(l, y)
  <2> TAKE y
  <2>1. ASSUME NEW k \in 1 .. Len(r) PROVE r[k] = x \/ Contains(l, r[k])
    <3>1. k # i => k \in 1 .. Len(l) \/ k - 1 \in 1 .. Len(l)
      BY <1>0, <1>6
    <3>2. k < i => k \in 1 .. Len(l)
      BY <1>0, <1>6
    <3>3. k > i => k - 1 \in 1 .. Len(l)
      BY <1>0, <1>6
    <3> QED
      BY <1>0, <1>6, <1>8, <3>2, <3>3 DEF Contains
  <2>2. Contains(r, x)
    BY <1>0, <1>6, <1>8 DEF Contains
  <2>3. ASSUME NEW k \in 1 .. Len(l) PROVE Contains(r, l[k])
    <3>1. CASE k < i
      BY <1>0, <1>6, <1>8, <3>1 DEF Contains
    <3>2. CASE ~(k < i)
      <4>1. k + 1 \in 1 .. Len(r) /\ r[k + 1] = l[k]
        BY <1>0, <1>6, <1>8, <3>2
      <4> QED
        BY <4>1 DEF Contains
    <3> QED
      BY <3>1, <3>2
  <2> QED
    BY <2>1, <2>2, <2>3 DEF Contains
<1>10. Once(r)
  <2> SUFFICES ASSUME NEW j \in 1 .. Len(r), NEW k \in 1 .. Len(r), r[j] = r[k] PROVE j = k
    BY DEF Once
  <2>1. \A d \in 1 .. Len(r) : /\ d < i => d \in 1 .. Len(l) /\ r[d] = l[d]
                               /\ d = i => r[d] = x
                               /\ d > i => d - 1 \in 1 .. Len(l) /\ r[d] = l[d - 1]
    BY <1>0, <1>6, <1>8
  <2>2. \A d \in 1 .. Len(l) : l[d] # x
    BY DEF Contains
  <2>3. \A g, d \in 1 .. Len(l) : l[g] = l[d] => g = d
    BY DEF Once
  <2>4. j \in Nat /\ k \in Nat
    BY <1>6
  <2>5. CASE j < i
    BY <1>0, <2>1, <2>2, <2>3, <2>4, <2>5
  <2>6. CASE j = i
    BY <1>0, <2>1, <2>2, <2>4, <2>6
  <2>7. CASE j > i
    <3>1. j - 1 \in 1 .. Len(l) /\ r[j] = l[j - 1]
      BY <2>1, <2>7
    <3>2. k > i
      <4>1. ASSUME k < i PROVE FALSE
        <5>1. k \in 1 .. Len(l) /\ l[k] = l[j - 1]
          BY <2>1, <3>1, <4>1
        <5>2. k = j - 1
          BY <2>3, <3>1, <5>1
        <5> QED
          BY <1>0, <2>4, <2>7, <4>1, <5>2
      <4>2. k # i
        BY <2>1, <2>2, <3>1
      <4> QED
        BY <1>0, <2>4, <4>1, <4>2
    <3>3. k - 1 \in 1 .. Len(l) /\ r[k] = l[k - 1]
      BY <2>1, <3>2
    <3>4. j - 1 = k - 1
      BY <2>3, <3>1, <3>3
    <3> QED
      BY <2>4, <3>4
  <2> QED
    BY <1>0, <2>4, <2>5, <2>6, <2>7
<1> QED
  BY <1>6, <1>8, <1>9, <1>10 DEF Inserted, r

-----------------------------------------------------------------------------
(* The ready queue *)

Queue == [list : [Prio -> Seq(Thread)], group : SUBSET Prio, prio : [Thread -> Prio]]

\* a thread is at most in the list of its priority, and there once
QueueOK(q) ==
    /\ q \in Queue
    /\ \A p \in Prio : Once(q.list[p])
    /\ \A p \in Prio : \A t \in Thread : Contains(q.list[p], t) => q.prio[t] = p
    /\ q.group = {p \in Prio : q.list[p] # <<>>}

Ready(q) == {t \in Thread : IsReady(q, t)}

LEMMA ReadyList ==
    ASSUME NEW q, QueueOK(q), NEW t \in Thread
    PROVE  t \in Ready(q) <=> Contains(q.list[q.prio[t]], t)
<1>1. q.prio[t] \in Prio
  BY DEF QueueOK, Queue
<1> QED
  BY <1>1 DEF QueueOK, Ready, IsReady

\* a list without members is empty
LEMMA EmptyList ==
    ASSUME NEW S, NEW l \in Seq(S)
    PROVE  l = <<>> <=> \A x : ~Contains(l, x)
<1>1. Len(l) \in Nat /\ (l # <<>> => Len(l) >= 1)
  OBVIOUS
<1>2. l # <<>> => Contains(l, l[1])
  BY <1>1 DEF Contains
<1>3. l = <<>> => \A x : ~Contains(l, x)
  BY DEF Contains
<1> QED
  BY <1>2, <1>3

\* rt_schedule_insert_thread
LEMMA InsertFacts ==
    ASSUME NEW q, QueueOK(q), NEW t \in Thread, t \notin Ready(q)
    PROVE  LET r == Insert(q, t)
           IN  QueueOK(r) /\ r.prio = q.prio /\ Ready(r) = Ready(q) \cup {t}
<1>p. PICK p, r, l : p = q.prio[t] /\ r = Insert(q, t) /\ l = Append(q.list[p], t)
  OBVIOUS
<1>1. q \in Queue /\ p \in Prio /\ q.list[p] \in Seq(Thread)
  BY <1>p DEF QueueOK, Queue
<1>2. ~Contains(q.list[p], t) /\ Once(q.list[p])
  BY <1>1 DEF Ready, IsReady, QueueOK
<1>3. l \in Seq(Thread) /\ l # <<>> /\ Once(l) /\ \A y : Contains(l, y) <=> y = t \/ Contains(q.list[p], y)
  BY <1>1, <1>2, <1>p, AppendList DEF Appended
<1>4. /\ r.list = [q.list EXCEPT ![p] = l] /\ r.group = q.group \cup {p} /\ r.prio = q.prio
      /\ r = [q EXCEPT !.list = [q.list EXCEPT ![p] = l], !.group = q.group \cup {p}]
  BY <1>1, <1>p DEF Insert, Queue
<1>5. r \in Queue
  BY <1>1, <1>3, <1>4 DEF Queue
<1>6. r.list[p] = l /\ \A o \in Prio \ {p} : r.list[o] = q.list[o]
  BY <1>1, <1>4 DEF Queue
<1>7. QueueOK(r)
  <2>1. \A o \in Prio : Once(r.list[o])
    BY <1>3, <1>6 DEF QueueOK
  <2>2. \A o \in Prio : \A u \in Thread : Contains(r.list[o], u) => r.prio[u] = o
    BY <1>3, <1>4, <1>6, <1>p DEF QueueOK
  <2>3. r.group = {o \in Prio : r.list[o] # <<>>}
    BY <1>1, <1>3, <1>4, <1>6 DEF QueueOK
  <2> QED
    BY <1>5, <2>1, <2>2, <2>3 DEF QueueOK
<1>8. Ready(r) = Ready(q) \cup {t}
  BY <1>1, <1>3, <1>6 DEF Ready, IsReady
<1> QED
  BY <1>4, <1>7, <1>8, <1>p

\* rt_schedule_remove_thread
LEMMA TakeOutFacts ==
    ASSUME NEW q, QueueOK(q), NEW t \in Thread
    PROVE  LET r == TakeOut(q, t)
           IN  QueueOK(r) /\ r.prio = q.prio /\ Ready(r) = Ready(q) \ {t}
<1>p. PICK p, r, rest : p = q.prio[t] /\ r = TakeOut(q, t) /\ rest = Unlinked(q.list, t)
  OBVIOUS
<1>1. q \in Queue /\ p \in Prio /\ \A o \in Prio : q.list[o] \in Seq(Thread) /\ Once(q.list[o])
  BY <1>p DEF QueueOK, Queue
<1>2. /\ rest = [o \in Prio |-> rest[o]]
      /\ \A o \in Prio : rest[o] = Unlink(q.list[o], t)
  BY <1>p DEF Unlinked
<1>3. \A o \in Prio : /\ rest[o] \in Seq(Thread) /\ Once(rest[o])
                      /\ \A y : Contains(rest[o], y) <=> y # t /\ Contains(q.list[o], y)
  BY <1>1, <1>2, UnlinkList
<1>4. \A o \in Prio \ {p} : rest[o] = <<>> <=> q.list[o] = <<>>
  <2> TAKE o \in Prio \ {p}
  <2>1. ~Contains(q.list[o], t)
    BY <1>p DEF QueueOK
  <2>2. rest[o] = q.list[o]
    BY <1>2, <2>1 DEF Unlink
  <2> QED
    BY <2>2
<1>5. rest \in [Prio -> Seq(Thread)]
  BY <1>2, <1>3
<1>6. /\ r.list = rest /\ r.prio = q.prio
      /\ r.group = IF rest[p] = <<>> THEN q.group \ {p} ELSE q.group
      /\ r \in Queue
  BY <1>1, <1>5, <1>p DEF TakeOut, Queue
<1>7. QueueOK(r)
  <2>1. \A o \in Prio : \A u \in Thread : Contains(r.list[o], u) => r.prio[u] = o
    BY <1>3, <1>6 DEF QueueOK
  <2>2. rest[p] # <<>> => q.list[p] # <<>>
    BY <1>1, <1>3, EmptyList
  <2>3. r.group = {o \in Prio : r.list[o] # <<>>}
    BY <1>1, <1>4, <1>6, <2>2 DEF QueueOK
  <2> QED
    BY <1>3, <1>6, <2>1, <2>3 DEF QueueOK
<1>8. Ready(r) = Ready(q) \ {t}
  BY <1>3, <1>6 DEF Ready, IsReady
<1> QED
  BY <1>6, <1>7, <1>8, <1>p

\* a thread in no list has another priority
LEMMA RenamedFacts ==
    ASSUME NEW q, QueueOK(q), NEW t \in Thread, t \notin Ready(q), NEW p \in Prio
    PROVE  LET r == [q EXCEPT !.prio[t] = p]
           IN  QueueOK(r) /\ r.prio = [q.prio EXCEPT ![t] = p] /\ Ready(r) = Ready(q)
<1>p. PICK r : r = [q EXCEPT !.prio[t] = p]
  OBVIOUS
<1>1. r \in Queue /\ r.list = q.list /\ r.group = q.group /\ r.prio = [q.prio EXCEPT ![t] = p]
  BY <1>p DEF QueueOK, Queue
<1>2. q.prio \in [Thread -> Prio]
  BY DEF QueueOK, Queue
<1>3. \A o \in Prio : \A u \in Thread : Contains(r.list[o], u) => r.prio[u] = o
  BY <1>1, <1>2 DEF QueueOK, Ready, IsReady
<1>4. QueueOK(r)
  BY <1>1, <1>3 DEF QueueOK
<1>5. Ready(r) = Ready(q)
  BY <1>1 DEF Ready, IsReady
<1> QED
  BY <1>1, <1>4, <1>5, <1>p

\* RT_THREAD_CTRL_CHANGE_PRIORITY
LEMMA ChangeFacts ==
    ASSUME NEW q, QueueOK(q), NEW t \in Thread, NEW p \in Prio
    PROVE  LET r == ChangePriority(q, t, p)
           IN  QueueOK(r) /\ r.prio = [q.prio EXCEPT ![t] = p] /\ Ready(r) = Ready(q)
<1>1. CASE t \notin Ready(q)
  <2>1. ChangePriority(q, t, p) = [q EXCEPT !.prio[t] = p]
    BY <1>1 DEF ChangePriority, Ready
  <2> QED
    BY <1>1, <2>1, RenamedFacts
<1>2. CASE t \in Ready(q)
  <2>p. PICK a, b : a = TakeOut(q, t) /\ b = [a EXCEPT !.prio[t] = p]
    OBVIOUS
  <2>1. ChangePriority(q, t, p) = Insert(b, t)
    BY <1>2, <2>p DEF ChangePriority, Ready
  <2>2. QueueOK(a) /\ a.prio = q.prio /\ Ready(a) = Ready(q) \ {t}
    BY <2>p, TakeOutFacts
  <2>3. QueueOK(b) /\ b.prio = [q.prio EXCEPT ![t] = p] /\ Ready(b) = Ready(q) \ {t}
    BY <2>2, <2>p, RenamedFacts
  <2>4. LET r == Insert(b, t) IN QueueOK(r) /\ r.prio = b.prio /\ Ready(r) = Ready(b) \cup {t}
    BY <2>3, InsertFacts
  <2> QED
    BY <1>2, <2>1, <2>3, <2>4
<1> QED
  BY <1>1, <1>2

\* the numbers of a set have a least one
LEMMA LeastNumber ==
    ASSUME NEW S, S \subseteq Nat, S # {}
    PROVE  \E x \in S : \A y \in S : x <= y
<1> DEFINE R == {ss \in Nat \X Nat : ss[1] < ss[2]}
<1>1. IsWellFoundedOn(R, Nat)
  BY NatLessThanWellFounded DEF OpToRel
<1> HIDE DEF R
<1>2. PICK x \in S : \A y \in S : <<y, x>> \notin R
  BY <1>1, WFMin
<1>3. \A y \in S : x <= y
  <2> TAKE y \in S
  <2>1. ~(y < x)
    BY <1>2 DEF R
  <2> QED
    BY <2>1
<1> QED
  BY <1>3

\* the thread to run is a ready one, and none has a higher priority
LEMMA TopFacts ==
    ASSUME NEW q, QueueOK(q), Ready(q) # {}
    PROVE  /\ Top(q) \in Ready(q) /\ \A t \in Ready(q) : q.prio[Top(q)] <= q.prio[t]
           /\ Top(q) = Head(q.list[q.prio[Top(q)]])
<1>1. q.group \subseteq Prio /\ Prio \subseteq Nat /\ \A t \in Thread : q.prio[t] \in Prio
  BY PrioAssumption DEF QueueOK, Queue, Prio
<1>2. \A t \in Ready(q) : q.prio[t] \in q.group
  <2> TAKE t \in Ready(q)
  <2>1. t \in Thread /\ q.prio[t] \in Prio /\ Contains(q.list[q.prio[t]], t) /\ q.list[q.prio[t]] \in Seq(Thread)
    BY <1>1, ReadyList DEF Ready, QueueOK, Queue
  <2> QED
    BY <2>1, EmptyList DEF QueueOK
<1>p. PICK p : p = CHOOSE o \in q.group : \A n \in q.group : o <= n
  OBVIOUS
<1>3. p \in q.group /\ \A n \in q.group : p <= n
  <2>1. \E o \in q.group : \A n \in q.group : o <= n
    BY <1>1, <1>2, LeastNumber
  <2> QED
    BY <1>p, <2>1
<1>4. p \in Prio /\ q.list[p] # <<>> /\ q.list[p] \in Seq(Thread) /\ Top(q) = Head(q.list[p])
  BY <1>3, <1>p DEF QueueOK, Queue, Top
<1>5. Top(q) \in Thread /\ Contains(q.list[p], Top(q))
  BY <1>4, TailList
<1>6. q.prio[Top(q)] = p /\ Top(q) \in Ready(q)
  BY <1>4, <1>5 DEF QueueOK, Ready, IsReady
<1> QED
  BY <1>2, <1>3, <1>4, <1>6

\* the thread that runs stays the one to run when its priority gets higher
LEMMA RaisedTop ==
    ASSUME NEW q, QueueOK(q), Ready(q) # {}, NEW p \in Prio, p < q.prio[Top(q)]
    PROVE  Top(ChangePriority(q, Top(q), p)) = Top(q)
<1>p. PICK t, r : t = Top(q) /\ r = ChangePriority(q, t, p)
  OBVIOUS
<1>1. t \in Ready(q) /\ t \in Thread /\ \A u \in Ready(q) : q.prio[t] <= q.prio[u]
  BY <1>p, TopFacts DEF Ready
<1>2. QueueOK(r) /\ r.prio = [q.prio EXCEPT ![t] = p] /\ Ready(r) = Ready(q)
  BY <1>1, <1>p, ChangeFacts
<1>3. Top(r) \in Ready(q) /\ r.prio[Top(r)] <= r.prio[t]
  BY <1>1, <1>2, TopFacts
<1>4. q.prio \in [Thread -> Prio] /\ Prio \subseteq Nat
  BY PrioAssumption DEF QueueOK, Queue, Prio
<1>5. r.prio[t] = p /\ \A u \in Thread \ {t} : r.prio[u] = q.prio[u]
  BY <1>1, <1>2, <1>4
<1> QED
  <2> SUFFICES ASSUME Top(r) # t PROVE FALSE
    BY <1>p
  <2>1. Top(r) \in Thread \ {t}
    BY <1>3 DEF Ready
  <2>2. q.prio[Top(r)] <= p /\ q.prio[t] <= q.prio[Top(r)] /\ q.prio[Top(r)] \in Nat /\ q.prio[t] \in Nat /\ p \in Nat
    BY <1>1, <1>3, <1>4, <1>5, <2>1
  <2> QED
    BY <1>p, <2>2

-----------------------------------------------------------------------------
(* One thread after the other *)

\* what holds at 0 and carries over from each number to the next holds up to n
LEMMA UpTo ==
    ASSUME NEW n \in Nat, NEW G, 0 \in G, \A i \in 1 .. n : i - 1 \in G => i \in G
    PROVE  \A i \in 0 .. n : i \in G
<1> SUFFICES ASSUME NEW b \in 0 .. n, b \notin G PROVE FALSE
  OBVIOUS
<1> DEFINE B == {i \in 0 .. n : i \notin G}
<1>1. B \subseteq Nat /\ B # {}
  OBVIOUS
<1>2. PICK x \in B : \A y \in B : x <= y
  BY <1>1, LeastNumber
<1>3. x \in 1 .. n /\ x - 1 \in 0 .. n /\ ~(x <= x - 1)
  OBVIOUS
<1>4. x - 1 \in G
  BY <1>2, <1>3
<1> QED
  BY <1>3, <1>4

\* the queues that rt_schedule_insert_thread makes of q
Inserts(q, ts, f) ==
    /\ f[0] = q
    /\ \A i \in 1 .. Len(ts) : f[i] = Insert(f[i - 1], ts[i])

LEMMA InsertsExist ==
    ASSUME NEW q, NEW S, NEW ts \in Seq(S)
    PROVE  \E f : Inserts(q, ts, f) /\ InsertAll(q, ts) = f[Len(ts)]
<1> DEFINE Is(g, n) == g = [i \in 0 .. n |-> IF i = 0 THEN q ELSE Insert(g[i - 1], ts[i])]
           G == {n \in 0 .. Len(ts) : \E g : Is(g, n)}
<1>0. Len(ts) \in Nat
  OBVIOUS
<1>1. 0 \in G
  <2>p. PICK g : g = [i \in 0 .. 0 |-> q]
    OBVIOUS
  <2>1. \A i \in 0 .. 0 : q = IF i = 0 THEN q ELSE Insert(g[i - 1], ts[i])
    OBVIOUS
  <2>2. Is(g, 0)
    BY <2>1, <2>p
  <2>3. 0 \in 0 .. Len(ts)
    BY <1>0
  <2> QED
    BY <2>2, <2>3
<1>2. ASSUME NEW n \in 1 .. Len(ts), n - 1 \in G PROVE n \in G
  <2>1. PICK g : Is(g, n - 1)
    BY <1>2
  <2>p. PICK h : h = [i \in 0 .. n |-> IF i = n THEN Insert(g[n - 1], ts[n]) ELSE g[i]]
    OBVIOUS
  <2>2. \A i \in 0 .. n - 1 : g[i] = IF i = 0 THEN q ELSE Insert(g[i - 1], ts[i])
    BY <2>1
  <2>3. \A i \in 0 .. n : h[i] = IF i = n THEN Insert(g[n - 1], ts[n]) ELSE g[i]
    BY <2>p
  <2>4. \A i \in 0 .. n : h[i] = IF i = 0 THEN q ELSE Insert(h[i - 1], ts[i])
    <3> TAKE i \in 0 .. n
    <3>1. CASE i = 0
      BY <2>2, <2>3, <3>1
    <3>2. CASE i = n
      <4>1. n - 1 \in 0 .. n /\ n - 1 # n /\ n # 0
        OBVIOUS
      <4>2. h[n - 1] = g[n - 1]
        BY <2>3, <4>1
      <4> QED
        BY <2>3, <3>2, <4>1, <4>2
    <3>3. CASE i # 0 /\ i # n
      <4>1. i \in 0 .. n - 1 /\ i - 1 \in 0 .. n /\ i - 1 # n
        BY <3>3
      <4>2. h[i] = g[i] /\ h[i - 1] = g[i - 1]
        BY <2>3, <3>3, <4>1
      <4> QED
        BY <2>2, <3>3, <4>1, <4>2
    <3> QED
      BY <3>1, <3>2, <3>3
  <2>5. Is(h, n)
    BY <2>p, <2>4
  <2> QED
    BY <2>5
<1>3. \E f : Is(f, Len(ts))
  <2>1. \A i \in 0 .. Len(ts) : i \in G
    <3> HIDE DEF G
    <3> QED
      BY <1>0, <1>1, <1>2, UpTo
  <2> QED
    BY <1>0, <2>1
<1>p. PICK f : f = CHOOSE g : Is(g, Len(ts))
  OBVIOUS
<1>4. Is(f, Len(ts))
  BY <1>3, <1>p
<1>5. InsertAll(q, ts) = f[Len(ts)]
  BY <1>p DEF InsertAll
<1>6. Inserts(q, ts, f)
  BY <1>0, <1>4 DEF Inserts
<1> QED
  BY <1>5, <1>6

Members(ts) == {t \in Thread : Contains(ts, t)}

\* rt_thread_resume puts each of the threads into its list
LEMMA InsertAllFacts ==
    ASSUME NEW q, QueueOK(q), NEW ts \in Seq(Thread), Once(ts), Ready(q) \cap Members(ts) = {}
    PROVE  LET r == InsertAll(q, ts)
           IN  QueueOK(r) /\ r.prio = q.prio /\ Ready(r) = Ready(q) \cup Members(ts)
<1>1. PICK f : Inserts(q, ts, f) /\ InsertAll(q, ts) = f[Len(ts)]
  BY InsertsExist
<1>0. Len(ts) \in Nat /\ \A k \in 1 .. Len(ts) : ts[k] \in Thread
  OBVIOUS
<1> DEFINE Seen(i) == {t \in Thread : \E k \in 1 .. i : ts[k] = t}
           G == {i \in 0 .. Len(ts) : QueueOK(f[i]) /\ f[i].prio = q.prio /\ Ready(f[i]) = Ready(q) \cup Seen(i)}
<1>2. 0 \in G
  <2>1. Seen(0) = {}
    OBVIOUS
  <2> QED
    BY <1>0, <1>1, <2>1 DEF Inserts
<1>3. ASSUME NEW i \in 1 .. Len(ts), i - 1 \in G PROVE i \in G
  <2>p. PICK a, t : a = f[i - 1] /\ t = ts[i]
    OBVIOUS
  <2>1. QueueOK(a) /\ a.prio = q.prio /\ Ready(a) = Ready(q) \cup Seen(i - 1)
    BY <1>3, <2>p
  <2>2. t \in Thread /\ f[i] = Insert(a, t)
    BY <1>0, <1>1, <2>p DEF Inserts
  <2>3. t \notin Ready(q)
    BY <2>2, <2>p DEF Members, Contains
  <2>4. t \notin Seen(i - 1)
    BY <1>0, <2>p DEF Once
  <2>5. QueueOK(f[i]) /\ f[i].prio = a.prio /\ Ready(f[i]) = Ready(a) \cup {t}
    <3>1. t \notin Ready(a)
      BY <2>1, <2>3, <2>4
    <3>2. LET r == Insert(a, t) IN QueueOK(r) /\ r.prio = a.prio /\ Ready(r) = Ready(a) \cup {t}
      BY <2>1, <2>2, <3>1, InsertFacts
    <3> QED
      BY <2>2, <3>2
  <2>6. Seen(i) = Seen(i - 1) \cup {t}
    <3>1. \A k \in 1 .. i : k = i \/ k \in 1 .. i - 1
      OBVIOUS
    <3> QED
      BY <2>2, <2>p, <3>1
  <2> QED
    BY <2>1, <2>5, <2>6
<1>4. \A i \in 0 .. Len(ts) : i \in G
  <2> HIDE DEF G
  <2> QED
    BY <1>0, <1>2, <1>3, UpTo
<1>5. Len(ts) \in G
  BY <1>0, <1>4
<1>6. Seen(Len(ts)) = Members(ts)
  BY DEF Members, Contains
<1> QED
  BY <1>1, <1>5, <1>6

LEMMA InsertNone == \A q : InsertAll(q, <<>>) = q
<1> TAKE q
<1>1. <<>> \in Seq(Thread) /\ Len(<<>>) = 0
  OBVIOUS
<1>2. PICK f : Inserts(q, <<>>, f) /\ InsertAll(q, <<>>) = f[Len(<<>>)]
  BY <1>1, InsertsExist
<1> QED
  BY <1>1, <1>2 DEF Inserts

\* the first of a list is resumed
LEMMA InsertFirst ==
    ASSUME NEW q, QueueOK(q), NEW t \in Thread, t \notin Ready(q)
    PROVE  LET r == InsertAll(q, <<t>>)
           IN  QueueOK(r) /\ r.prio = q.prio /\ Ready(r) = Ready(q) \cup {t}
<1>p. PICK ts : ts = <<t>>
  OBVIOUS
<1>1. ts \in Seq(Thread) /\ Once(ts)
  BY <1>p DEF Once
<1>2. Members(ts) = {t}
  BY <1>p DEF Members, Contains
<1>3. LET r == InsertAll(q, ts) IN QueueOK(r) /\ r.prio = q.prio /\ Ready(r) = Ready(q) \cup Members(ts)
  BY <1>1, <1>2, InsertAllFacts
<1> QED
  BY <1>2, <1>3, <1>p

-----------------------------------------------------------------------------
(* The walk of rt_event_send *)

\* the walk has come to the place i of the list l, with these flags at the beginning
Walked(l, i, flags, w) ==
    /\ w \in [flags : SUBSET flags, woken : Seq(Thread), left : Seq(Thread)]
    /\ Once(w.woken) /\ Once(w.left)
    /\ \A t \in Thread : (Contains(w.woken, t) \/ Contains(w.left, t)) <=> \E k \in 1 .. i : l[k] = t
    /\ \A t \in Thread : ~(Contains(w.woken, t) /\ Contains(w.left, t))
    /\ \A t \in Thread : Contains(w.left, t) => ~Satisfied(want[t], w.flags)

\* whoever is not satisfied is not satisfied by fewer flags either
LEMMA FewerFlags ==
    ASSUME NEW w, NEW f, NEW g, g \subseteq f, ~Satisfied(w, f)
    PROVE  ~Satisfied(w, g)
BY DEF Satisfied

LEMMA Visits ==
    ASSUME NEW l \in Seq(Thread), Once(l), NEW flags, NEW i \in 1 .. Len(l), NEW w, Walked(l, i - 1, flags, w)
    PROVE  Walked(l, i, flags, Visit(w, l[i]))
<1>p. PICK t, v : t = l[i] /\ v = Visit(w, t)
  OBVIOUS
<1>0. /\ t \in Thread /\ i \in Nat /\ \A k \in 1 .. i - 1 : l[k] # t
      /\ \A k \in 1 .. i : k = i \/ k \in 1 .. i - 1
  BY <1>p DEF Once
<1>1. /\ w \in [flags : SUBSET flags, woken : Seq(Thread), left : Seq(Thread)]
      /\ Once(w.woken) /\ Once(w.left)
      /\ \A u \in Thread : (Contains(w.woken, u) \/ Contains(w.left, u)) <=> \E k \in 1 .. i - 1 : l[k] = u
      /\ \A u \in Thread : ~(Contains(w.woken, u) /\ Contains(w.left, u))
      /\ \A u \in Thread : Contains(w.left, u) => ~Satisfied(want[u], w.flags)
  BY DEF Walked
<1>2. ~Contains(w.woken, t) /\ ~Contains(w.left, t)
  BY <1>0, <1>1
<1>3. \A u \in Thread : (\E k \in 1 .. i : l[k] = u) <=> u = t \/ \E k \in 1 .. i - 1 : l[k] = u
  BY <1>0, <1>p
<1>4. CASE Satisfied(want[t], w.flags)
  <2>p. PICK r : r = Append(w.woken, t)
    OBVIOUS
  <2>1. r \in Seq(Thread) /\ Once(r) /\ \A u : Contains(r, u) <=> u = t \/ Contains(w.woken, u)
    BY <1>0, <1>1, <1>2, <2>p, AppendList DEF Appended
  <2>2. v.woken = r /\ v.left = w.left /\ v.flags = Left(want[t], w.flags)
        /\ v \in [flags : {Left(want[t], w.flags)}, woken : {r}, left : {w.left}]
    BY <1>1, <1>4, <1>p, <2>p DEF Visit
  <2>3. v.flags \subseteq w.flags
    BY <2>2 DEF Left
  <2>4. v \in [flags : SUBSET flags, woken : Seq(Thread), left : Seq(Thread)]
    BY <1>1, <2>1, <2>2, <2>3
  <2>5. \A u \in Thread : Contains(v.left, u) => ~Satisfied(want[u], v.flags)
    BY <1>1, <2>2, <2>3, FewerFlags
  <2>6. \A u \in Thread : (Contains(v.woken, u) \/ Contains(v.left, u)) <=> \E k \in 1 .. i : l[k] = u
    BY <1>1, <1>3, <2>1, <2>2
  <2>7. \A u \in Thread : ~(Contains(v.woken, u) /\ Contains(v.left, u))
    BY <1>1, <1>2, <2>1, <2>2
  <2>8. Once(v.woken) /\ Once(v.left)
    BY <1>1, <2>1, <2>2
  <2> QED
    BY <1>p, <2>4, <2>5, <2>6, <2>7, <2>8 DEF Walked
<1>5. CASE ~Satisfied(want[t], w.flags)
  <2>p. PICK r : r = Append(w.left, t)
    OBVIOUS
  <2>1. r \in Seq(Thread) /\ Once(r) /\ \A u : Contains(r, u) <=> u = t \/ Contains(w.left, u)
    BY <1>0, <1>1, <1>2, <2>p, AppendList DEF Appended
  <2>2. v.woken = w.woken /\ v.left = r /\ v.flags = w.flags
        /\ v \in [flags : {w.flags}, woken : {w.woken}, left : {r}]
    BY <1>1, <1>5, <1>p, <2>p DEF Visit
  <2>4. v \in [flags : SUBSET flags, woken : Seq(Thread), left : Seq(Thread)]
    BY <1>1, <2>1, <2>2
  <2>5. \A u \in Thread : Contains(v.left, u) => ~Satisfied(want[u], v.flags)
    BY <1>1, <1>5, <2>1, <2>2
  <2>6. \A u \in Thread : (Contains(v.woken, u) \/ Contains(v.left, u)) <=> \E k \in 1 .. i : l[k] = u
    BY <1>1, <1>3, <2>1, <2>2
  <2>7. \A u \in Thread : ~(Contains(v.woken, u) /\ Contains(v.left, u))
    BY <1>1, <1>2, <2>1, <2>2
  <2>8. Once(v.woken) /\ Once(v.left)
    BY <1>1, <2>1, <2>2
  <2> QED
    BY <1>p, <2>4, <2>5, <2>6, <2>7, <2>8 DEF Walked
<1> QED
  BY <1>4, <1>5

\* the stages of the walk
Stages(l, flags, f) ==
    /\ f[0] = [flags |-> flags, woken |-> <<>>, left |-> <<>>]
    /\ \A i \in 1 .. Len(l) : f[i] = Visit(f[i - 1], l[i])

LEMMA StagesExist ==
    ASSUME NEW e, waiting[e] \in Seq(Thread), NEW flags
    PROVE  \E f : Stages(waiting[e], flags, f) /\ Walk(e, flags) = f[Len(waiting[e])]
<1> DEFINE l == waiting[e]
           w == [flags |-> flags, woken |-> <<>>, left |-> <<>>]
           Is(g, n) == g = [i \in 0 .. n |-> IF i = 0 THEN w ELSE Visit(g[i - 1], l[i])]
           G == {n \in 0 .. Len(l) : \E g : Is(g, n)}
<1>0. Len(l) \in Nat
  OBVIOUS
<1>1. 0 \in G
  <2>p. PICK g : g = [i \in 0 .. 0 |-> w]
    OBVIOUS
  <2>1. \A i \in 0 .. 0 : w = IF i = 0 THEN w ELSE Visit(g[i - 1], l[i])
    OBVIOUS
  <2>2. Is(g, 0)
    BY <2>1, <2>p
  <2>3. 0 \in 0 .. Len(l)
    BY <1>0
  <2> QED
    BY <2>2, <2>3
<1>2. ASSUME NEW n \in 1 .. Len(l), n - 1 \in G PROVE n \in G
  <2>1. PICK g : Is(g, n - 1)
    BY <1>2
  <2>p. PICK h : h = [i \in 0 .. n |-> IF i = n THEN Visit(g[n - 1], l[n]) ELSE g[i]]
    OBVIOUS
  <2>2. \A i \in 0 .. n - 1 : g[i] = IF i = 0 THEN w ELSE Visit(g[i - 1], l[i])
    BY <2>1
  <2>3. \A i \in 0 .. n : h[i] = IF i = n THEN Visit(g[n - 1], l[n]) ELSE g[i]
    BY <2>p
  <2>4. \A i \in 0 .. n : h[i] = IF i = 0 THEN w ELSE Visit(h[i - 1], l[i])
    <3> TAKE i \in 0 .. n
    <3>1. CASE i = 0
      BY <2>2, <2>3, <3>1
    <3>2. CASE i = n
      <4>1. n - 1 \in 0 .. n /\ n - 1 # n /\ n # 0
        OBVIOUS
      <4>2. h[n - 1] = g[n - 1]
        BY <2>3, <4>1
      <4> QED
        BY <2>3, <3>2, <4>1, <4>2
    <3>3. CASE i # 0 /\ i # n
      <4>1. i \in 0 .. n - 1 /\ i - 1 \in 0 .. n /\ i - 1 # n
        BY <3>3
      <4>2. h[i] = g[i] /\ h[i - 1] = g[i - 1]
        BY <2>3, <3>3, <4>1
      <4> QED
        BY <2>2, <3>3, <4>1, <4>2
    <3> QED
      BY <3>1, <3>2, <3>3
  <2>5. Is(h, n)
    BY <2>p, <2>4
  <2> QED
    BY <2>5
<1>3. \E f : Is(f, Len(l))
  <2>1. \A i \in 0 .. Len(l) : i \in G
    <3> HIDE DEF G
    <3> QED
      BY <1>0, <1>1, <1>2, UpTo
  <2> QED
    BY <1>0, <2>1
<1>p. PICK f : f = CHOOSE g : Is(g, Len(l))
  OBVIOUS
<1>4. Is(f, Len(l))
  BY <1>3, <1>p
<1>5. Walk(e, flags) = f[Len(l)]
  BY <1>p DEF Walk
<1>6. Stages(l, flags, f)
  BY <1>0, <1>4 DEF Stages
<1> QED
  BY <1>5, <1>6

\* after the walk the threads that are left are not satisfied by the flags that are left
LEMMA WalkFacts ==
    ASSUME NEW e, waiting[e] \in Seq(Thread), Once(waiting[e]), NEW flags
    PROVE  Walked(waiting[e], Len(waiting[e]), flags, Walk(e, flags))
<1>p. PICK l : l = waiting[e]
  OBVIOUS
<1>1. PICK f : Stages(l, flags, f) /\ Walk(e, flags) = f[Len(l)]
  BY <1>p, StagesExist
<1>0. Len(l) \in Nat /\ l \in Seq(Thread) /\ Once(l)
  BY <1>p
<1> DEFINE G == {i \in 0 .. Len(l) : Walked(l, i, flags, f[i])}
<1>2. 0 \in G
  <2>1. f[0] = [flags |-> flags, woken |-> <<>>, left |-> <<>>]
    BY <1>1 DEF Stages
  <2>2. Walked(l, 0, flags, f[0])
    <3>1. <<>> \in Seq(Thread) /\ Once(<<>>) /\ \A t : ~Contains(<<>>, t)
      BY DEF Once, Contains
    <3>2. f[0] \in [flags : SUBSET flags, woken : Seq(Thread), left : Seq(Thread)]
      BY <2>1, <3>1
    <3>3. \A t \in Thread : ~(\E k \in 1 .. 0 : l[k] = t)
      OBVIOUS
    <3> QED
      BY <2>1, <3>1, <3>2, <3>3 DEF Walked
  <2> QED
    BY <1>0, <2>2
<1>3. ASSUME NEW i \in 1 .. Len(l), i - 1 \in G PROVE i \in G
  <2>1. f[i] = Visit(f[i - 1], l[i])
    BY <1>1 DEF Stages
  <2>2. Walked(l, i, flags, f[i])
    BY <1>0, <1>3, <2>1, Visits
  <2> QED
    BY <2>2
<1>4. \A i \in 0 .. Len(l) : i \in G
  <2> HIDE DEF G
  <2> QED
    BY <1>0, <1>2, <1>3, UpTo
<1>5. Len(l) \in G
  BY <1>0, <1>4
<1> QED
  BY <1>1, <1>5, <1>p

-----------------------------------------------------------------------------
(* The invariant *)

\* t sleeps, or is in the list of what it waits for
Parked(t) ==
    /\ t # Idle
    /\ \/ t \in timed /\ on[t] = "sleep"
       \/ on[t] \in Object /\ Contains(waiting[on[t]], t)

\* the lists and what the threads say of themselves agree: tlist is one link
Listed ==
    /\ QueueOK(rq)
    /\ \A o \in Object : Once(waiting[o])
    /\ \A o \in Object : \A t \in Thread :
         Contains(waiting[o], t) => on[t] = o /\ error[t] = "ok" /\ t \notin Ready(rq)
    /\ \A t \in Thread \ Ready(rq) : Parked(t)
    /\ \A t \in timed : t \notin Ready(rq)

\* only a thread on its way into rt_schedule() runs without being ready
Runner ==
    /\ current \in Ready(rq) \/ current \in due
    /\ nest > 0 => current \in Ready(rq)

Units == granted \in [Sem -> Nat] /\ SemUnits

\* who owns a mutex has it in its history, and only an owned mutex is waited for
Owned ==
    /\ \A t \in Thread : Once(held[t]) /\ \A m \in Mutex : Contains(held[t], m) <=> owner[m] = t
    /\ \A m \in Mutex : owner[m] # None => original[m] \in Prio
    /\ \A m \in Mutex : waiting[m] # <<>> => owner[m] # None

\* a thread gets its own priority back with the mutex it has held longest
Restorable ==
    \A t \in Thread : IF held[t] = <<>> THEN rq.prio[t] = InitPrio[t] ELSE original[held[t][1]] = InitPrio[t]

\* a waiter without a mutex stands behind those of its priority and of higher ones
Ordered ==
    \A m \in Mutex \ Fifo : \A i, j \in 1 .. Len(waiting[m]) :
        i < j /\ held[waiting[m][j]] = <<>> => rq.prio[waiting[m][i]] <= rq.prio[waiting[m][j]]

\* priority inheritance works where mutexes are not nested
Inherited ==
    /\ \A t \in Thread : Len(held[t]) > 1 => t \in nested
    /\ \A m \in Mutex \ Fifo : \A w \in Thread :
         Contains(waiting[m], w) /\ held[w] = <<>> /\ owner[m] \notin nested => rq.prio[owner[m]] <= rq.prio[w]

-----------------------------------------------------------------------------
(* What a step does to the lists *)

\* waiting, timed, on and error keep their types
Typed ==
    /\ waiting' \in [Object -> Seq(Thread)] /\ timed' \subseteq Thread
    /\ on' \in [Thread -> Object \cup {"no", "sleep"}] /\ error' \in [Thread -> {"ok", "timeout", "error"}]

\* nobody moves
Kept ==
    /\ QueueOK(rq') /\ Ready(rq') = Ready(rq) /\ waiting' = waiting /\ timed' = timed
    /\ \A t \in Thread \ Ready(rq) : on'[t] = on[t] /\ error'[t] = error[t]

\* t leaves the ready queue to sleep or to wait
Went(t) ==
    /\ t \in Ready(rq) /\ t # Idle /\ QueueOK(rq') /\ Ready(rq') = Ready(rq) \ {t}
    /\ timed \subseteq timed' /\ timed' \subseteq timed \cup {t}
    /\ \A u \in Thread \ {t} : on'[u] = on[u] /\ error'[u] = error[u]
    /\ \A o \in Object : o # on'[t] => waiting'[o] = waiting[o]
    /\ \/ on'[t] = "sleep" /\ t \in timed'
       \/ /\ on'[t] \in Object /\ error'[t] = "ok" /\ Once(waiting'[on'[t]])
          /\ \A y : Contains(waiting'[on'[t]], y) <=> y = t \/ Contains(waiting[on'[t]], y)

\* the threads ts come back to the ready queue
Came(ts) ==
    /\ ts \subseteq Thread \ Ready(rq) /\ QueueOK(rq') /\ Ready(rq') = Ready(rq) \cup ts
    /\ on' = on /\ timed' = timed \ ts
    /\ \A t \in Thread \ ts : error'[t] = error[t]
    /\ \A o \in Object : Once(waiting'[o])
    /\ \A o \in Object : \A t \in Thread : Contains(waiting'[o], t) <=> Contains(waiting[o], t) /\ t \notin ts

\* a thread that runs outside rt_schedule() is ready, and if it calls it is in no waiting list
LEMMA Caller ==
    ASSUME Listed, Runner, NEW t, Runs(t)
    PROVE  t \in Thread /\ t \in Ready(rq) /\ t \notin timed /\ \A o \in Object : ~Contains(waiting[o], t)
<1>1. t \in Ready(rq)
  BY DEF Runner, Runs
<1> QED
  BY <1>1 DEF Listed, Ready

LEMMA KeptListed ==
    ASSUME TypeOK, Listed, Kept
    PROVE  Listed'
<1>1. \A t \in Thread : t \in Ready(rq') <=> t \in Ready(rq)
  BY DEF Kept
<1>2. ASSUME NEW o \in Object, NEW t \in Thread, Contains(waiting'[o], t)
      PROVE  on'[t] = o /\ error'[t] = "ok" /\ t \notin Ready(rq')
  BY <1>2 DEF Kept, Listed
<1>3. ASSUME NEW t \in Thread \ Ready(rq')
      PROVE  Parked(t)'
  BY <1>3 DEF Kept, Listed, Parked
<1>4. QueueOK(rq') /\ (\A o \in Object : Once(waiting'[o])) /\ \A t \in timed' : t \notin Ready(rq')
  BY DEF Kept, Listed
<1> QED
  BY <1>2, <1>3, <1>4 DEF Listed

LEMMA WentListed ==
    ASSUME TypeOK, Listed, NEW t \in Thread, Went(t)
    PROVE  Listed'
<1>1. \A o \in Object : ~Contains(waiting[o], t)
  BY DEF Went, Listed
<1>o. \A o \in Object : \/ waiting'[o] = waiting[o] /\ o # on'[t]
                        \/ /\ o = on'[t] /\ error'[t] = "ok" /\ Once(waiting'[o])
                           /\ \A y : Contains(waiting'[o], y) <=> y = t \/ Contains(waiting[o], y)
  <2> TAKE o \in Object
  <2>1. o # "sleep"
    BY NameAssumption
  <2> QED
    BY <2>1 DEF Went
<1>2. ASSUME NEW o \in Object, NEW u \in Thread, Contains(waiting'[o], u)
      PROVE  on'[u] = o /\ error'[u] = "ok" /\ u \notin Ready(rq')
  <2>1. CASE u = t
    BY <1>1, <1>2, <1>o, <2>1 DEF Went
  <2>2. CASE u # t
    <3>1. Contains(waiting[o], u)
      BY <1>2, <1>o, <2>2
    <3>2. on[u] = o /\ error[u] = "ok" /\ u \notin Ready(rq)
      BY <3>1 DEF Listed
    <3> QED
      BY <2>2, <3>2 DEF Went
  <2> QED
    BY <2>1, <2>2
<1>3. ASSUME NEW u \in Thread \ Ready(rq')
      PROVE  Parked(u)'
  <2>1. CASE u = t
    BY <2>1 DEF Went, Parked
  <2>2. CASE u # t
    <3>1. Parked(u) /\ on'[u] = on[u] /\ (u \in timed => u \in timed')
      BY <1>3, <2>2 DEF Went, Listed
    <3>2. ASSUME NEW o \in Object, Contains(waiting[o], u) PROVE Contains(waiting'[o], u)
      BY <1>o, <3>2
    <3> QED
      BY <3>1, <3>2 DEF Parked
  <2> QED
    BY <2>1, <2>2
<1>4. \A o \in Object : Once(waiting'[o])
  BY <1>o DEF Listed
<1>5. QueueOK(rq') /\ \A u \in timed' : u \notin Ready(rq')
  BY DEF Went, Listed
<1> QED
  BY <1>2, <1>3, <1>4, <1>5 DEF Listed

LEMMA CameListed ==
    ASSUME TypeOK, Listed, NEW ts, Came(ts)
    PROVE  Listed'
<1>1. ASSUME NEW o \in Object, NEW u \in Thread, Contains(waiting'[o], u)
      PROVE  on'[u] = o /\ error'[u] = "ok" /\ u \notin Ready(rq')
  <2>1. Contains(waiting[o], u) /\ u \notin ts
    BY <1>1 DEF Came
  <2>2. on[u] = o /\ error[u] = "ok" /\ u \notin Ready(rq)
    BY <2>1 DEF Listed
  <2> QED
    BY <2>1, <2>2 DEF Came
<1>2. ASSUME NEW u \in Thread \ Ready(rq')
      PROVE  Parked(u)'
  <2>1. u \notin Ready(rq) /\ u \notin ts /\ on' = on /\ (u \in timed => u \in timed')
    BY <1>2 DEF Came
  <2>2. Parked(u)
    BY <2>1 DEF Listed
  <2>3. ASSUME NEW o \in Object, Contains(waiting[o], u) PROVE Contains(waiting'[o], u)
    BY <2>1, <2>3 DEF Came
  <2> QED
    BY <2>1, <2>2, <2>3 DEF Parked
<1>3. QueueOK(rq') /\ (\A o \in Object : Once(waiting'[o])) /\ \A u \in timed' : u \notin Ready(rq')
  BY DEF Came, Listed, TypeOK
<1> QED
  BY <1>1, <1>2, <1>3 DEF Listed

\* t waits for o: thread.c takes it out of the ready queue, ipc.c puts it into the list
LEMMA SuspendedFacts ==
    ASSUME TypeOK, Listed, Runner, NEW t, Calls(t), NEW o \in Object, NEW wait, NEW q,
           QueueOK(q), Ready(q) = Ready(rq), Suspended(t, o, wait, q)
    PROVE  /\ Went(t) /\ Typed /\ nest = 0 /\ ThenSchedule(t) /\ rq'.prio = q.prio
           /\ on' = [on EXCEPT ![t] = o] /\ error' = [error EXCEPT ![t] = "ok"]
           /\ \E i \in Turn(waiting[o], o, t, q) :
                /\ i \in 1 .. Len(waiting[o]) + 1
                /\ waiting' = [waiting EXCEPT ![o] = waiting'[o]] /\ Inserted(waiting[o], i, t, waiting'[o])
<1>1. t \in Thread /\ t \in Ready(rq) /\ t # Idle /\ t \notin timed /\ \A p \in Object : ~Contains(waiting[p], t)
  BY Caller DEF Calls
<1>2. QueueOK(rq') /\ rq'.prio = q.prio /\ Ready(rq') = Ready(rq) \ {t}
  <2>1. LET r == TakeOut(q, t) IN QueueOK(r) /\ r.prio = q.prio /\ Ready(r) = Ready(q) \ {t}
    BY <1>1, TakeOutFacts
  <2>2. rq' = TakeOut(q, t)
    BY DEF Suspended
  <2> QED
    BY <2>1, <2>2
<1>3. nest = 0 /\ ThenSchedule(t) /\ on' = [on EXCEPT ![t] = o] /\ error' = [error EXCEPT ![t] = "ok"]
  BY DEF Suspended
<1>4. timed' = timed \cup {t} \/ timed' = timed
  BY <1>1 DEF Suspended
<1>5. PICK i \in Turn(waiting[o], o, t, q) : waiting' = [waiting EXCEPT ![o] = InsertAt(@, i, t)]
  BY DEF Suspended
<1>6. waiting \in [Object -> Seq(Thread)] /\ on \in [Thread -> Object \cup {"no", "sleep"}]
      /\ error \in [Thread -> {"ok", "timeout", "error"}] /\ timed \subseteq Thread
  BY DEF TypeOK
<1>7. i \in 1 .. Len(waiting[o]) + 1
  <2>1. Len(waiting[o]) \in Nat
    BY <1>6
  <2> QED
    BY <2>1 DEF Turn
<1>p. PICK l, r : l = waiting[o] /\ r = InsertAt(l, i, t)
  OBVIOUS
<1>8. l \in Seq(Thread) /\ Once(l) /\ ~Contains(l, t)
  BY <1>1, <1>6, <1>p DEF Listed
<1>9. r \in Seq(Thread) /\ Once(r) /\ Inserted(l, i, t, r)
  BY <1>1, <1>7, <1>8, <1>p, InsertList
<1>10. waiting' = [waiting EXCEPT ![o] = r] /\ waiting'[o] = r /\ \A p \in Object : p # o => waiting'[p] = waiting[p]
  BY <1>5, <1>6, <1>p
<1>11. Typed
  BY <1>1, <1>3, <1>4, <1>6, <1>9, <1>10 DEF Typed
<1>12. Went(t)
  <2>1. on'[t] = o /\ error'[t] = "ok" /\ \A u \in Thread \ {t} : on'[u] = on[u] /\ error'[u] = error[u]
    BY <1>1, <1>3, <1>6
  <2>2. Once(waiting'[o]) /\ \A y : Contains(waiting'[o], y) <=> y = t \/ Contains(waiting[o], y)
    BY <1>9, <1>10, <1>p DEF Inserted
  <2>3. timed \subseteq timed' /\ timed' \subseteq timed \cup {t}
    BY <1>4
  <2> QED
    BY <1>1, <1>2, <1>10, <2>1, <2>2, <2>3 DEF Went
<1> QED
  BY <1>2, <1>3, <1>5, <1>7, <1>9, <1>10, <1>11, <1>12, <1>p

\* t sleeps
LEMMA SleepFacts ==
    ASSUME TypeOK, Listed, Runner, NEW t, Sleep(t)
    PROVE  Went(t) /\ Typed /\ rq'.prio = rq.prio
<1>1. t \in Thread /\ t \in Ready(rq) /\ t # Idle
  BY Caller DEF Calls, Sleep
<1>2. QueueOK(rq') /\ rq'.prio = rq.prio /\ Ready(rq') = Ready(rq) \ {t}
  <2>1. LET r == TakeOut(rq, t) IN QueueOK(r) /\ r.prio = rq.prio /\ Ready(r) = Ready(rq) \ {t}
    BY <1>1, TakeOutFacts DEF Listed
  <2>2. rq' = TakeOut(rq, t)
    BY DEF Sleep
  <2> QED
    BY <2>1, <2>2
<1>3. on' = [on EXCEPT ![t] = "sleep"] /\ error' = error /\ waiting' = waiting /\ timed' = timed \cup {t}
  BY DEF Sleep
<1>4. on'[t] = "sleep" /\ \A u \in Thread \ {t} : on'[u] = on[u]
  BY <1>1, <1>3 DEF TypeOK
<1> QED
  BY <1>1, <1>2, <1>3, <1>4 DEF Went, Typed, TypeOK

\* a time-out takes t out of the list it waits in
LEMMA ExpireFacts ==
    ASSUME TypeOK, Listed, Runner, NEW t \in Thread, Expire(t)
    PROVE  /\ Came({t}) /\ Typed /\ rq'.prio = rq.prio /\ error' = [error EXCEPT ![t] = "timeout"]
           /\ \A o \in Object : InOrder(waiting'[o], waiting[o])
<1>1. t \in timed /\ t \notin Ready(rq)
  BY DEF Expire, Listed
<1>2. QueueOK(rq') /\ rq'.prio = rq.prio /\ Ready(rq') = Ready(rq) \cup {t}
  <2>1. LET r == Insert(rq, t) IN QueueOK(r) /\ r.prio = rq.prio /\ Ready(r) = Ready(rq) \cup {t}
    BY <1>1, InsertFacts DEF Listed
  <2>2. rq' = Insert(rq, t)
    BY DEF Expire
  <2> QED
    BY <2>1, <2>2
<1>3. error' = [error EXCEPT ![t] = "timeout"] /\ on' = on /\ timed' = timed \ {t}
      /\ waiting' = [o \in Object |-> Unlink(waiting[o], t)]
  BY DEF Expire, OutOfList
<1>4. \A o \in Object : /\ waiting'[o] \in Seq(Thread) /\ Once(waiting'[o]) /\ InOrder(waiting'[o], waiting[o])
                        /\ \A y : Contains(waiting'[o], y) <=> y # t /\ Contains(waiting[o], y)
  <2> TAKE o \in Object
  <2>1. waiting[o] \in Seq(Thread) /\ Once(waiting[o]) /\ waiting'[o] = Unlink(waiting[o], t)
    BY <1>3 DEF TypeOK, Listed
  <2> QED
    BY <2>1, UnlinkList
<1>5. Typed
  <2>1. waiting' \in [Object -> Seq(Thread)]
    BY <1>3, <1>4
  <2> QED
    BY <1>3, <2>1 DEF Typed, TypeOK
<1>6. Came({t})
  <2>1. \A u \in Thread \ {t} : error'[u] = error[u]
    BY <1>3 DEF TypeOK
  <2>2. \A o \in Object : \A u \in Thread : Contains(waiting'[o], u) <=> Contains(waiting[o], u) /\ u \notin {t}
    BY <1>4
  <2> QED
    BY <1>1, <1>2, <1>3, <1>4, <2>1, <2>2 DEF Came
<1> QED
  BY <1>2, <1>3, <1>4, <1>5, <1>6

\* the threads ts, which wait for o, are resumed and the threads of left wait on
LEMMA ResumedFacts ==
    ASSUME TypeOK, Listed, NEW o \in Object, NEW ts \in Seq(Thread), Once(ts), NEW left \in Seq(Thread), Once(left),
           \A t \in Thread : Contains(ts, t) => Contains(waiting[o], t),
           \A t \in Thread : Contains(left, t) <=> Contains(waiting[o], t) /\ ~Contains(ts, t),
           NEW q, QueueOK(q), Ready(q) = Ready(rq), Resumed(ts, left, o, q), on' = on,
           error' \in [Thread -> {"ok", "timeout", "error"}],
           \A t \in Thread \ Members(ts) : error'[t] = error[t]
    PROVE  Came(Members(ts)) /\ Typed /\ rq'.prio = q.prio /\ waiting' = [waiting EXCEPT ![o] = left]
<1>1. \A t \in Thread : Contains(ts, t) => t \notin Ready(rq) /\ on[t] = o
  BY DEF Listed
<1>2. QueueOK(rq') /\ rq'.prio = q.prio /\ Ready(rq') = Ready(rq) \cup Members(ts)
  <2>1. Ready(q) \cap Members(ts) = {}
    BY <1>1 DEF Members
  <2>2. LET r == InsertAll(q, ts) IN QueueOK(r) /\ r.prio = q.prio /\ Ready(r) = Ready(q) \cup Members(ts)
    BY <2>1, InsertAllFacts
  <2>3. rq' = InsertAll(q, ts)
    BY DEF Resumed
  <2> QED
    BY <2>2, <2>3
<1>3. ToSet(ts) = Members(ts)
  <2>1. \A i \in 1 .. Len(ts) : ts[i] \in Thread
    OBVIOUS
  <2>2. DOMAIN ts = 1 .. Len(ts)
    OBVIOUS
  <2> QED
    BY <2>1, <2>2 DEF ToSet, Members, Contains
<1>4. timed' = timed \ Members(ts) /\ waiting' = [waiting EXCEPT ![o] = left]
  BY <1>3 DEF Resumed, TimerStopped
<1>5. waiting \in [Object -> Seq(Thread)] /\ on \in [Thread -> Object \cup {"no", "sleep"}] /\ timed \subseteq Thread
  BY DEF TypeOK
<1>6. waiting'[o] = left /\ \A p \in Object : p # o => waiting'[p] = waiting[p]
  BY <1>4, <1>5
<1>7. Typed
  BY <1>4, <1>5 DEF Typed
<1>8. \A p \in Object : Once(waiting'[p])
  BY <1>6 DEF Listed
<1>9. \A p \in Object : \A t \in Thread : Contains(waiting'[p], t) <=> Contains(waiting[p], t) /\ t \notin Members(ts)
  <2> TAKE p \in Object
  <2> TAKE t \in Thread
  <2>1. CASE p = o
    BY <1>6, <2>1 DEF Members
  <2>2. CASE p # o
    <3>1. Contains(waiting[p], t) => ~Contains(ts, t)
      BY <1>1, <2>2 DEF Listed
    <3> QED
      BY <1>6, <2>2, <3>1 DEF Members
  <2> QED
    BY <2>1, <2>2
<1>10. Came(Members(ts))
  <2>1. Members(ts) \subseteq Thread \ Ready(rq)
    BY <1>1 DEF Members
  <2> QED
    BY <1>2, <1>4, <1>8, <1>9, <2>1 DEF Came
<1> QED
  BY <1>2, <1>4, <1>7, <1>10

\* rt_ipc_list_resume
LEMMA ResumedFirstFacts ==
    ASSUME TypeOK, Listed, NEW o \in Object, waiting[o] # <<>>, NEW q, QueueOK(q), Ready(q) = Ready(rq),
           ResumedFirst(o, q), on' = on, error' = error
    PROVE  /\ Head(waiting[o]) \in Thread /\ Contains(waiting[o], Head(waiting[o]))
           /\ Came({Head(waiting[o])}) /\ Typed /\ rq'.prio = q.prio
           /\ waiting' = [waiting EXCEPT ![o] = Tail(waiting[o])]
<1>p. PICK l, h, ts, left : l = waiting[o] /\ h = Head(l) /\ ts = <<h>> /\ left = Tail(l)
  OBVIOUS
<1>1. l \in Seq(Thread) /\ l # <<>> /\ Once(l)
  BY <1>p DEF TypeOK, Listed
<1>2. h \in Thread /\ Contains(l, h) /\ left \in Seq(Thread) /\ Once(left)
      /\ \A y : Contains(left, y) <=> y # h /\ Contains(l, y)
  BY <1>1, <1>p, TailList
<1>3. ts \in Seq(Thread) /\ Once(ts) /\ \A y : Contains(ts, y) <=> y = h
  BY <1>2, <1>p DEF Once, Contains
<1>4. Members(ts) = {h}
  BY <1>2, <1>3 DEF Members
<1>5. Resumed(ts, left, o, q)
  BY <1>p DEF ResumedFirst
<1>6. error' \in [Thread -> {"ok", "timeout", "error"}] /\ \A t \in Thread \ Members(ts) : error'[t] = error[t]
  BY DEF TypeOK
<1>7. /\ \A t \in Thread : Contains(ts, t) => Contains(waiting[o], t)
      /\ \A t \in Thread : Contains(left, t) <=> Contains(waiting[o], t) /\ ~Contains(ts, t)
  BY <1>2, <1>3, <1>p
<1>8. Came(Members(ts)) /\ Typed /\ rq'.prio = q.prio /\ waiting' = [waiting EXCEPT ![o] = left]
  BY <1>2, <1>3, <1>5, <1>6, <1>7, ResumedFacts
<1> QED
  BY <1>2, <1>4, <1>8, <1>p

\* rt_ipc_list_resume_all
LEMMA ResumedAllFacts ==
    ASSUME TypeOK, Listed, NEW o \in Object, ResumedAll(o), on' = on
    PROVE  /\ Came(Members(waiting[o])) /\ Typed /\ rq'.prio = rq.prio
           /\ waiting' = [waiting EXCEPT ![o] = <<>>]
           /\ \A t \in Members(waiting[o]) : error'[t] = "error"
<1>p. PICK l : l = waiting[o]
  OBVIOUS
<1>1. l \in Seq(Thread) /\ Once(l) /\ \A i \in 1 .. Len(l) : l[i] \in Thread
  BY <1>p DEF TypeOK, Listed
<1>2. ToSet(l) = Members(l)
  <2>1. DOMAIN l = 1 .. Len(l)
    BY <1>1
  <2> QED
    BY <1>1, <2>1 DEF ToSet, Members, Contains
<1>3. <<>> \in Seq(Thread) /\ Once(<<>>) /\ \A y : ~Contains(<<>>, y)
  BY DEF Once, Contains
<1>4. Resumed(l, <<>>, o, rq) /\ error' = [t \in Thread |-> IF t \in Members(l) THEN "error" ELSE error[t]]
  BY <1>2, <1>p DEF ResumedAll
<1>5. /\ error' \in [Thread -> {"ok", "timeout", "error"}] /\ \A t \in Thread \ Members(l) : error'[t] = error[t]
      /\ \A t \in Members(l) : error'[t] = "error"
  BY <1>4 DEF TypeOK, Members
<1>6. /\ \A t \in Thread : Contains(l, t) => Contains(waiting[o], t)
      /\ \A t \in Thread : Contains(<<>>, t) <=> Contains(waiting[o], t) /\ ~Contains(l, t)
  BY <1>3, <1>p
<1>7. QueueOK(rq)
  BY DEF Listed
<1>8. Came(Members(l)) /\ Typed /\ rq'.prio = rq.prio /\ waiting' = [waiting EXCEPT ![o] = <<>>]
  BY <1>1, <1>3, <1>4, <1>5, <1>6, <1>7, ResumedFacts
<1> QED
  BY <1>5, <1>8, <1>p

\* after rt_schedule(), or on the way to it
LEMMA ThenScheduled ==
    ASSUME TypeOK, Runner, QueueOK(rq'), Ready(rq') # {}, NEW c, ThenSchedule(c), c = Isr \/ c = current,
           Ready(rq) \subseteq Ready(rq') \/ (c = current /\ nest = 0)
    PROVE  Runner' /\ current' \in Thread /\ nest' = nest /\ due' \subseteq Thread /\ HighestRuns'
<1>1. nest' = nest /\ nest \in Nat /\ current \in Thread /\ due \subseteq Thread
  BY NestAssumption DEF ThenSchedule, TypeOK
<1>2. Top(rq') \in Ready(rq') /\ Top(rq') \in Thread
  BY TopFacts DEF Ready
<1>3. CASE c = Isr
  <2>1. c # current
    BY <1>1, <1>3, NameAssumption
  <2>2. due' = due /\ current' = IF nest = 0 THEN Top(rq') ELSE current
    BY <1>3 DEF ThenSchedule, Scheduled
  <2>3. Runner'
    <3>1. current' \in Ready(rq') \/ current' \in due'
      BY <1>1, <1>2, <2>1, <2>2 DEF Runner
    <3>2. nest' > 0 => current' \in Ready(rq')
      BY <1>1, <2>1, <2>2 DEF Runner
    <3> QED
      BY <3>1, <3>2 DEF Runner
  <2> QED
    BY <1>1, <1>2, <2>2, <2>3 DEF HighestRuns
<1>4. CASE c = current /\ c # Isr
  <2>1. due' = due \cup {current} /\ current' = current
    BY <1>4 DEF ThenSchedule
  <2>2. nest' > 0 => current' \in Ready(rq')
    BY <1>1, <2>1 DEF Runner
  <2>3. Runner'
    BY <2>1, <2>2 DEF Runner
  <2>4. HighestRuns'
    BY <2>1 DEF HighestRuns
  <2> QED
    BY <1>1, <2>1, <2>3, <2>4
<1> QED
  BY <1>3, <1>4

-----------------------------------------------------------------------------
(* The lists, the thread that runs and the owners of the mutexes *)

Base == TypeOK /\ Listed /\ Runner /\ Owned /\ HighestRuns

\* the objects keep their types
ObjectsTyped ==
    /\ want' \in [Thread -> Requests \cup {NoRequest}]
    /\ value' \in [Sem -> 0 .. SemMax] /\ set' \in [Event -> SUBSET Flag]
    /\ owner' \in [Mutex -> Thread \cup {None}] /\ hold' \in [Mutex -> 0 .. HoldMax]
    /\ original' \in [Mutex -> Prio \cup {NoPrio}] /\ held' \in [Thread -> Seq(Mutex)]

\* some threads move and rt_schedule() follows
LEMMA Moves ==
    ASSUME Base, Typed, ObjectsTyped, NEW c, ThenSchedule(c), c = Isr \/ c = current, Owned',
           (Went(current) /\ c = current /\ nest = 0) \/ \E ts \in SUBSET Thread : Came(ts)
    PROVE  Base'
<1>1. TypeOK /\ Listed /\ Runner /\ current \in Thread
  BY DEF Base, TypeOK
<1>2. Listed'
  BY <1>1, WentListed, CameListed
<1>3. QueueOK(rq') /\ Ready(rq') # {}
  <2>1. \A t \in Thread \ Ready(rq') : t # Idle
    BY <1>2 DEF Listed, Parked
  <2>2. Idle \in Ready(rq')
    BY <2>1, IdleAssumption
  <2> QED
    BY <1>2, <2>2 DEF Listed
<1>4. Ready(rq) \subseteq Ready(rq') \/ (c = current /\ nest = 0)
  BY DEF Came
<1>5. Runner' /\ current' \in Thread /\ nest' = nest /\ due' \subseteq Thread /\ HighestRuns'
  BY <1>1, <1>3, <1>4, ThenScheduled
<1>6. TypeOK'
  BY <1>1, <1>3, <1>5 DEF TypeOK, Typed, ObjectsTyped, QueueOK, Queue
<1> QED
  BY <1>2, <1>5, <1>6 DEF Base

\* the others change one thing of the scheduler
LEMMA Stays ==
    ASSUME Base, sched' = sched, calls' = calls, demoted' = demoted, ObjectsTyped, Owned'
    PROVE  Base'
<1>1. rq' = rq /\ current' = current /\ nest' = nest /\ due' = due /\ waiting' = waiting /\ timed' = timed
      /\ on' = on /\ error' = error
  BY DEF sched, calls
<1>2. TypeOK'
  BY <1>1 DEF Base, TypeOK, ObjectsTyped
<1>3. Listed'
  BY <1>1 DEF Base, Listed, Parked
<1>4. Runner' /\ HighestRuns'
  BY <1>1 DEF Base, Runner, HighestRuns
<1> QED
  BY <1>2, <1>3, <1>4 DEF Base

\* rt_thread_yield
LEMMA YieldFacts ==
    ASSUME QueueOK(rq), current \in Thread, Yield
    PROVE  QueueOK(rq') /\ rq'.prio = rq.prio /\ Ready(rq') = Ready(rq) /\ current \in Ready(rq)
<1>p. PICK p, t, r, l, a : /\ p = rq.prio[current] /\ t = current /\ r = rq' /\ l = rq.list[p]
                           /\ a = Append(Unlink(l, t), t)
  OBVIOUS
<1>1. rq \in Queue /\ p \in Prio /\ t \in Thread /\ l \in Seq(Thread) /\ Once(l) /\ Contains(l, t)
  BY <1>p DEF QueueOK, Queue, Yield
<1>2. LET u == Unlink(l, t) IN u \in Seq(Thread) /\ Once(u) /\ \A y : Contains(u, y) <=> y # t /\ Contains(l, y)
  BY <1>1, UnlinkList
<1>3. a \in Seq(Thread) /\ a # <<>> /\ Once(a) /\ \A y : Contains(a, y) <=> Contains(l, y)
  BY <1>1, <1>2, <1>p, AppendList DEF Appended
<1>4. r = [rq EXCEPT !.list = [rq.list EXCEPT ![p] = a]]
  BY <1>1, <1>p DEF Yield, Queue
<1>5. r.list = [rq.list EXCEPT ![p] = a] /\ r.group = rq.group /\ r.prio = rq.prio /\ r \in Queue
  BY <1>1, <1>3, <1>4 DEF Queue
<1>6. r.list[p] = a /\ \A o \in Prio \ {p} : r.list[o] = rq.list[o]
  BY <1>1, <1>5 DEF Queue
<1>7. l # <<>>
  BY <1>1 DEF Contains
<1>8. QueueOK(r)
  <2>1. \A o \in Prio : Once(r.list[o])
    BY <1>3, <1>6 DEF QueueOK
  <2>2. \A o \in Prio : \A u \in Thread : Contains(r.list[o], u) => r.prio[u] = o
    BY <1>3, <1>5, <1>6, <1>p DEF QueueOK
  <2>3. r.group = {o \in Prio : r.list[o] # <<>>}
    BY <1>3, <1>5, <1>6, <1>7, <1>p DEF QueueOK
  <2> QED
    BY <1>5, <2>1, <2>2, <2>3 DEF QueueOK
<1>9. Ready(r) = Ready(rq)
  BY <1>3, <1>6, <1>p DEF Ready, IsReady
<1>10. t \in Ready(rq)
  BY <1>1, <1>p DEF Ready, IsReady
<1> QED
  BY <1>5, <1>8, <1>9, <1>10, <1>p

\* steps of the scheduler
LEMMA ScheduleStep ==
    ASSUME Base, Unsynced, (\E t \in Thread : Reschedule(t)) \/ Yield
    PROVE  Base' /\ Kept /\ rq'.prio = rq.prio
<1>1. TypeOK /\ Listed /\ Runner /\ Owned
  BY DEF Base
<1>2. QueueOK(rq) /\ Idle \in Ready(rq)
  BY <1>1, IdleAssumption DEF Listed, Parked
<1>3. nest' = nest /\ current' = Scheduled(rq') /\ (due' = due \/ due' = due \ {current})
  BY DEF Reschedule, Yield, Scheduled
<1>4. QueueOK(rq') /\ rq'.prio = rq.prio /\ Ready(rq') = Ready(rq)
  BY <1>1, <1>2, YieldFacts DEF Reschedule, TypeOK
<1>5. current' \in Thread /\ nest \in Nat /\ Top(rq') \in Ready(rq')
      /\ current' = IF nest = 0 THEN Top(rq') ELSE current
  BY <1>1, <1>2, <1>3, <1>4, NestAssumption, TopFacts DEF TypeOK, Scheduled, Ready
<1>6. Runner' /\ HighestRuns'
  BY <1>1, <1>3, <1>4, <1>5 DEF Runner, HighestRuns
<1>7. waiting' = waiting /\ timed' = timed /\ on' = on /\ error' = error /\ want' = want
      /\ UNCHANGED <<value, set, owner, hold, original, held>>
  BY DEF Unsynced, calls, sems, mutexes
<1>8. Kept
  BY <1>4, <1>7 DEF Kept
<1>9. Listed'
  BY <1>1, <1>8, KeptListed
<1>10. TypeOK'
  BY <1>1, <1>3, <1>4, <1>5, <1>7 DEF TypeOK, QueueOK, Queue
<1>11. Owned'
  BY <1>1, <1>7 DEF Owned
<1> QED
  BY <1>4, <1>6, <1>8, <1>9, <1>10, <1>11 DEF Base

LEMMA CriticalStep ==
    ASSUME Base, Unsynced, demoted' = demoted, NEW t \in Thread, EnterCritical(t) \/ ExitCritical(t)
    PROVE  Base' /\ Kept
<1>1. TypeOK /\ Listed /\ Runner /\ Owned /\ HighestRuns
  BY DEF Base
<1>2. t = current /\ t \in Ready(rq) /\ rq' = rq /\ current' = current
  BY <1>1, Caller DEF EnterCritical, ExitCritical, Runs
<1>3. nest \in 0 .. MaxNest /\ MaxNest \in Nat
  BY <1>1, NestAssumption DEF TypeOK
<1>4. \/ nest < MaxNest /\ nest' = nest + 1 /\ due' = due
      \/ nest > 0 /\ nest' = nest - 1 /\ due' = IF nest = 1 THEN due \cup {t} ELSE due
  BY DEF EnterCritical, ExitCritical
<1>5. nest' \in 0 .. MaxNest /\ (nest' = 0 => current' \in due') /\ due' \subseteq due \cup {t}
  BY <1>2, <1>3, <1>4
<1>6. Runner' /\ HighestRuns'
  BY <1>2, <1>5 DEF Runner, HighestRuns
<1>7. waiting' = waiting /\ timed' = timed /\ on' = on /\ error' = error /\ want' = want
      /\ UNCHANGED <<value, set, owner, hold, original, held>>
  BY DEF Unsynced, calls, sems, mutexes
<1>8. Kept
  BY <1>1, <1>2, <1>7 DEF Kept, Listed
<1>9. Listed'
  BY <1>1, <1>8, KeptListed
<1>10. TypeOK'
  BY <1>1, <1>2, <1>5, <1>7 DEF TypeOK
<1>11. Owned'
  BY <1>1, <1>7 DEF Owned
<1> QED
  BY <1>6, <1>8, <1>9, <1>10, <1>11 DEF Base

LEMMA SleepStep ==
    ASSUME Base, NEW t, Sleep(t)
    PROVE  Base' /\ Went(t) /\ t = current
<1>1. TypeOK /\ Listed /\ Runner
  BY DEF Base
<1>2. Went(t) /\ Typed /\ t = current /\ nest = 0 /\ ThenSchedule(t)
  BY <1>1, SleepFacts DEF Sleep, Calls, Runs
<1>3. ObjectsTyped
  BY <1>1 DEF Sleep, ObjectsTyped, TypeOK, sems, mutexes
<1>4. Owned'
  BY DEF Sleep, Base, Owned, mutexes
<1> QED
  BY <1>2, <1>3, <1>4, Moves

LEMMA ExpireStep ==
    ASSUME Base, NEW t \in Thread, Expire(t)
    PROVE  Base' /\ Came({t})
<1>1. TypeOK /\ Listed /\ Runner
  BY DEF Base
<1>2. Came({t}) /\ Typed /\ ThenSchedule(Isr)
  BY <1>1, ExpireFacts DEF Expire
<1>3. ObjectsTyped
  BY <1>1 DEF Expire, ObjectsTyped, TypeOK, sems, mutexes
<1>4. Owned'
  <2> SUFFICES ASSUME NEW m \in Mutex, waiting[m] = <<>> PROVE waiting'[m] = <<>>
    BY DEF Base, Owned, Expire, mutexes
  <2>1. waiting'[m] = Unlink(waiting[m], t)
    BY DEF Expire, OutOfList, Object
  <2>2. ~Contains(<<>>, t)
    BY DEF Contains
  <2> QED
    BY <2>1, <2>2 DEF Unlink
<1>5. {t} \in SUBSET Thread
  OBVIOUS
<1> QED
  BY <1>2, <1>3, <1>4, <1>5, Moves

LEMMA ReturnStep ==
    ASSUME Base, NEW t, Return(t)
    PROVE  Base' /\ Kept
<1>1. TypeOK /\ Listed /\ Runner /\ Owned /\ HighestRuns
  BY DEF Base
<1>2. t \in Thread /\ t \in Ready(rq)
  BY <1>1, Caller DEF Return
<1>3. /\ on' = [on EXCEPT ![t] = "no"] /\ error' = [error EXCEPT ![t] = "ok"] /\ want' = [want EXCEPT ![t] = NoRequest]
      /\ UNCHANGED <<rq, current, nest, due, waiting, timed, value, owner, hold, original, held, set, demoted>>
  BY DEF Return, sched, mutexes
<1>4. \A u \in Thread \ Ready(rq) : on'[u] = on[u] /\ error'[u] = error[u]
  BY <1>1, <1>2, <1>3 DEF TypeOK
<1>5. Kept
  BY <1>1, <1>3, <1>4 DEF Kept, Listed
<1>6. Listed'
  BY <1>1, <1>5, KeptListed
<1>7. TypeOK'
  BY <1>1, <1>2, <1>3 DEF TypeOK
<1>8. Owned' /\ Runner' /\ HighestRuns'
  BY <1>1, <1>3 DEF Owned, Runner, HighestRuns
<1> QED
  BY <1>5, <1>6, <1>7, <1>8 DEF Base

\* those who wait for something else, or for a mutex that has an owner, do not matter to the mutexes
LEMMA OwnedKept ==
    ASSUME TypeOK, Owned, NEW o \in Object, NEW l, waiting' = [waiting EXCEPT ![o] = l], UNCHANGED mutexes,
           o \notin Mutex \/ owner[o] # None
    PROVE  Owned'
<1> SUFFICES ASSUME NEW m \in Mutex, waiting'[m] # <<>> PROVE owner[m] # None
  BY DEF Owned, mutexes
<1>1. m \in Object /\ waiting \in [Object -> Seq(Thread)]
  BY DEF Object, TypeOK
<1>2. waiting[m] # <<>> \/ m = o
  BY <1>1
<1> QED
  BY <1>2 DEF Owned

\* t waits for an object that is no mutex
LEMMA WaitStep ==
    ASSUME Base, NEW t, Calls(t), NEW o \in Sem \cup Event, NEW wait, Suspended(t, o, wait, rq), ObjectsTyped, UNCHANGED mutexes
    PROVE  /\ Base' /\ Went(t) /\ t = current /\ on' = [on EXCEPT ![t] = o]
           /\ waiting' = [waiting EXCEPT ![o] = waiting'[o]] /\ rq'.prio = rq.prio
<1>1. TypeOK /\ Listed /\ Runner /\ Owned /\ t = current /\ o \in Object /\ o \notin Mutex /\ QueueOK(rq)
  BY NameAssumption DEF Base, Calls, Runs, Object, Listed
<1>2. Went(t) /\ Typed /\ nest = 0 /\ ThenSchedule(t) /\ on' = [on EXCEPT ![t] = o]
      /\ rq'.prio = rq.prio /\ waiting' = [waiting EXCEPT ![o] = waiting'[o]]
  BY <1>1, SuspendedFacts
<1>3. Owned'
  BY <1>1, <1>2, OwnedKept
<1> QED
  BY <1>1, <1>2, <1>3, Moves

LEMMA SemTakeStep ==
    ASSUME Base, NEW t, NEW s \in Sem, NEW wait, SemTake(t, s, wait)
    PROVE  /\ Base'
           /\ \/ value[s] > 0 /\ UNCHANGED <<sched, calls>>
              \/ /\ value[s] = 0 /\ Went(t) /\ on' = [on EXCEPT ![t] = s]
                 /\ waiting' = [waiting EXCEPT ![s] = waiting'[s]] /\ rq'.prio = rq.prio
<1>1. TypeOK /\ Owned
  BY DEF Base
<1>2. CASE value[s] > 0 /\ value' = [value EXCEPT ![s] = @ - 1] /\ UNCHANGED <<sched, calls, demoted>>
  <2>1. value' \in [Sem -> 0 .. SemMax]
    BY <1>1, <1>2, LimitAssumption DEF TypeOK
  <2>2. ObjectsTyped
    BY <1>1, <1>2, <2>1 DEF SemTake, ObjectsTyped, TypeOK, calls, mutexes
  <2>3. Owned'
    BY <1>1, <1>2 DEF SemTake, Owned, calls, mutexes
  <2> QED
    BY <1>2, <2>2, <2>3, Stays
<1>3. CASE value[s] = 0 /\ Suspended(t, s, wait, rq) /\ UNCHANGED <<want, sems>>
  <2>1. ObjectsTyped /\ UNCHANGED mutexes /\ Calls(t)
    BY <1>1, <1>3 DEF SemTake, ObjectsTyped, TypeOK, sems, mutexes
  <2> QED
    BY <1>3, <2>1, WaitStep
<1> QED
  BY <1>2, <1>3 DEF SemTake

LEMMA SemReleaseStep ==
    ASSUME Base, NEW c, NEW s \in Sem, SemRelease(c, s)
    PROVE  /\ Base'
           /\ \/ waiting[s] = <<>> /\ UNCHANGED <<sched, calls>>
              \/ /\ waiting[s] # <<>> /\ Came({Head(waiting[s])}) /\ Head(waiting[s]) \in Thread
                 /\ Contains(waiting[s], Head(waiting[s]))
                 /\ waiting' = [waiting EXCEPT ![s] = Tail(waiting[s])] /\ rq'.prio = rq.prio
<1>1. TypeOK /\ Listed /\ Owned /\ s \in Object /\ QueueOK(rq) /\ s \notin Mutex
  BY NameAssumption DEF Base, Object, Listed
<1>2. on' = on /\ error' = error /\ want' = want /\ set' = set /\ UNCHANGED mutexes /\ (c = Isr \/ c = current)
  BY DEF SemRelease, CallsOrInterrupts, Calls, Runs
<1>3. CASE waiting[s] # <<>> /\ ResumedFirst(s, rq) /\ ThenSchedule(c) /\ UNCHANGED value
  <2>1. /\ Head(waiting[s]) \in Thread /\ Contains(waiting[s], Head(waiting[s])) /\ Came({Head(waiting[s])}) /\ Typed
        /\ waiting' = [waiting EXCEPT ![s] = Tail(waiting[s])] /\ rq'.prio = rq.prio
    BY <1>1, <1>2, <1>3, ResumedFirstFacts
  <2>2. ObjectsTyped
    BY <1>1, <1>2, <1>3 DEF ObjectsTyped, TypeOK, mutexes
  <2>3. Owned'
    BY <1>1, <1>2, <2>1, OwnedKept
  <2>4. {Head(waiting[s])} \in SUBSET Thread
    BY <2>1
  <2>5. Base'
    BY <1>2, <1>3, <2>1, <2>2, <2>3, <2>4, Moves
  <2> QED
    BY <1>3, <2>1, <2>5
<1>4. CASE /\ waiting[s] = <<>> /\ value[s] < SemMax
           /\ value' = [value EXCEPT ![s] = @ + 1] /\ UNCHANGED <<sched, waiting, timed, demoted>>
  <2>1. value' \in [Sem -> 0 .. SemMax]
    BY <1>1, <1>4, LimitAssumption DEF TypeOK
  <2>2. ObjectsTyped
    BY <1>1, <1>2, <2>1 DEF ObjectsTyped, TypeOK, mutexes
  <2>3. Owned' /\ calls' = calls
    BY <1>1, <1>2, <1>4 DEF Owned, calls, mutexes
  <2> QED
    BY <1>4, <2>2, <2>3, Stays
<1> QED
  BY <1>3, <1>4 DEF SemRelease

\* everybody who waits for o gets an error
LEMMA ResetStep ==
    ASSUME Base, NEW t, Calls(t), NEW o \in Object \ Mutex, ResumedAll(o), ThenSchedule(t), on' = on, ObjectsTyped, UNCHANGED mutexes
    PROVE  /\ Base' /\ Came(Members(waiting[o])) /\ waiting' = [waiting EXCEPT ![o] = <<>>]
           /\ rq'.prio = rq.prio /\ \A u \in Members(waiting[o]) : error'[u] = "error"
<1>1. TypeOK /\ Listed /\ Owned /\ t = current
  BY DEF Base, Calls, Runs
<1>2. /\ Came(Members(waiting[o])) /\ Typed /\ waiting' = [waiting EXCEPT ![o] = <<>>]
      /\ rq'.prio = rq.prio /\ \A u \in Members(waiting[o]) : error'[u] = "error"
  BY <1>1, ResumedAllFacts
<1>3. Owned'
  BY <1>1, <1>2, OwnedKept
<1>4. Members(waiting[o]) \in SUBSET Thread
  BY DEF Members
<1>5. Base'
  BY <1>1, <1>2, <1>3, <1>4, Moves
<1> QED
  BY <1>2, <1>5

LEMMA SemResetStep ==
    ASSUME Base, NEW t, NEW s \in Sem, NEW v \in 0 .. SemMax, SemReset(t, s, v)
    PROVE  /\ Base' /\ Came(Members(waiting[s])) /\ waiting' = [waiting EXCEPT ![s] = <<>>]
           /\ rq'.prio = rq.prio /\ \A u \in Members(waiting[s]) : error'[u] = "error"
<1>1. value' \in [Sem -> 0 .. SemMax]
  BY DEF SemReset, Base, TypeOK
<1>2. ObjectsTyped /\ UNCHANGED mutexes /\ s \in Object \ Mutex
  BY <1>1, NameAssumption DEF SemReset, Base, TypeOK, ObjectsTyped, mutexes, Object
<1>3. Calls(t) /\ ResumedAll(s) /\ ThenSchedule(t) /\ on' = on
  BY DEF SemReset
<1> QED
  BY <1>2, <1>3, ResetStep

LEMMA EventResetStep ==
    ASSUME Base, NEW t, NEW e \in Event, EventReset(t, e)
    PROVE  /\ Base' /\ Came(Members(waiting[e])) /\ waiting' = [waiting EXCEPT ![e] = <<>>]
           /\ rq'.prio = rq.prio /\ \A u \in Members(waiting[e]) : error'[u] = "error"
<1>1. set' \in [Event -> SUBSET Flag]
  BY DEF EventReset, Base, TypeOK
<1>2. ObjectsTyped /\ UNCHANGED mutexes /\ e \in Object \ Mutex
  BY <1>1, NameAssumption DEF EventReset, Base, TypeOK, ObjectsTyped, mutexes, sems, Object
<1>3. Calls(t) /\ ResumedAll(e) /\ ThenSchedule(t) /\ on' = on
  BY DEF EventReset
<1> QED
  BY <1>2, <1>3, ResetStep

\* the two ways of rt_event_recv
FlagsGot(e, w) == UNCHANGED <<sched, calls>> /\ set' = [set EXCEPT ![e] = Left(w, @)]
FlagsAwaited(t, e, w) ==
    /\ ~Satisfied(w, set[e]) /\ set' = set /\ want' = [want EXCEPT ![t] = w]
    /\ Went(t) /\ on' = [on EXCEPT ![t] = e] /\ waiting' = [waiting EXCEPT ![e] = waiting'[e]] /\ rq'.prio = rq.prio

LEMMA EventRecvStep ==
    ASSUME Base, NEW t, NEW e \in Event, NEW w \in Requests, NEW wait, EventRecv(t, e, w, wait)
    PROVE  Base' /\ (FlagsGot(e, w) \/ FlagsAwaited(t, e, w))
<1>1. TypeOK /\ Owned
  BY DEF Base
<1>2. CASE set' = [set EXCEPT ![e] = Left(w, @)] /\ UNCHANGED <<sched, calls, demoted>>
  <2>1. set' \in [Event -> SUBSET Flag]
    <3>1. set[e] \subseteq Flag
      BY <1>1 DEF TypeOK
    <3>2. Left(w, set[e]) \subseteq Flag
      BY <3>1 DEF Left
    <3> QED
      BY <1>1, <1>2, <3>2 DEF TypeOK
  <2>2. ObjectsTyped
    BY <1>1, <1>2, <2>1 DEF EventRecv, ObjectsTyped, TypeOK, calls, mutexes, sems
  <2>3. Owned'
    BY <1>1, <1>2 DEF EventRecv, Owned, calls, mutexes
  <2>4. Base'
    BY <1>2, <2>2, <2>3, Stays
  <2> QED
    BY <1>2, <2>4 DEF FlagsGot
<1>3. CASE ~Satisfied(w, set[e]) /\ Suspended(t, e, wait, rq) /\ want' = [want EXCEPT ![t] = w] /\ UNCHANGED set
  <2>0. Calls(t) /\ UNCHANGED <<sems, mutexes>>
    BY DEF EventRecv
  <2>1. want' \in [Thread -> Requests \cup {NoRequest}]
    BY <1>1, <1>3 DEF TypeOK
  <2>2. ObjectsTyped /\ UNCHANGED mutexes
    BY <1>1, <1>3, <2>0, <2>1 DEF ObjectsTyped, TypeOK, mutexes, sems
  <2>3. /\ Base' /\ Went(t) /\ on' = [on EXCEPT ![t] = e]
        /\ waiting' = [waiting EXCEPT ![e] = waiting'[e]] /\ rq'.prio = rq.prio
    BY <1>3, <2>0, <2>2, WaitStep
  <2> QED
    BY <1>3, <2>3 DEF FlagsAwaited
<1> QED
  BY <1>2, <1>3 DEF EventRecv

LEMMA EventSendStep ==
    ASSUME Base, NEW c, NEW e \in Event, NEW flags, flags \subseteq Flag, EventSend(c, e, flags)
    PROVE  LET walk == Walk(e, set[e] \cup flags)
           IN  /\ Base' /\ Came(Members(walk.woken)) /\ waiting' = [waiting EXCEPT ![e] = walk.left]
               /\ set' = [set EXCEPT ![e] = walk.flags] /\ rq'.prio = rq.prio
               /\ Walked(waiting[e], Len(waiting[e]), set[e] \cup flags, walk)
<1>1. TypeOK /\ Listed /\ Owned /\ e \in Object /\ QueueOK(rq) /\ e \notin Mutex
  BY NameAssumption DEF Base, Object, Listed
<1>p. PICK l, walk, all : l = waiting[e] /\ all = set[e] \cup flags /\ walk = Walk(e, all)
  OBVIOUS
<1>2. /\ CallsOrInterrupts(c) /\ set' = [set EXCEPT ![e] = walk.flags] /\ Resumed(walk.woken, walk.left, e, rq)
      /\ IF walk.woken # <<>> THEN ThenSchedule(c) ELSE UNCHANGED <<current, nest, due, demoted>>
      /\ UNCHANGED <<on, error, want, sems, mutexes>>
  BY <1>p DEF EventSend
<1>3. l \in Seq(Thread) /\ Once(l)
  BY <1>1, <1>p DEF TypeOK, Listed
<1>4. Walked(l, Len(l), all, walk)
  BY <1>3, <1>p, WalkFacts
<1>5. /\ walk.woken \in Seq(Thread) /\ walk.left \in Seq(Thread) /\ walk.flags \subseteq all
      /\ Once(walk.woken) /\ Once(walk.left)
  BY <1>4 DEF Walked
<1>6. /\ \A t \in Thread : Contains(walk.woken, t) => Contains(l, t)
      /\ \A t \in Thread : Contains(walk.left, t) <=> Contains(l, t) /\ ~Contains(walk.woken, t)
  BY <1>4 DEF Walked, Contains
<1>7. error' \in [Thread -> {"ok", "timeout", "error"}] /\ \A t \in Thread \ Members(walk.woken) : error'[t] = error[t]
  BY <1>1, <1>2 DEF TypeOK
<1>8. Came(Members(walk.woken)) /\ Typed /\ rq'.prio = rq.prio /\ waiting' = [waiting EXCEPT ![e] = walk.left]
  <2>p. PICK ts, left : ts = walk.woken /\ left = walk.left
    OBVIOUS
  <2>1. ts \in Seq(Thread) /\ left \in Seq(Thread) /\ Once(ts) /\ Once(left)
    BY <1>5, <2>p
  <2>2. /\ \A t \in Thread : Contains(ts, t) => Contains(waiting[e], t)
        /\ \A t \in Thread : Contains(left, t) <=> Contains(waiting[e], t) /\ ~Contains(ts, t)
    BY <1>6, <1>p, <2>p
  <2>3. Resumed(ts, left, e, rq) /\ on' = on
    BY <1>2, <2>p
  <2>4. error' \in [Thread -> {"ok", "timeout", "error"}] /\ \A t \in Thread \ Members(ts) : error'[t] = error[t]
    BY <1>7, <2>p
  <2>5. Came(Members(ts)) /\ Typed /\ rq'.prio = rq.prio /\ waiting' = [waiting EXCEPT ![e] = left]
    BY <1>1, <2>1, <2>2, <2>3, <2>4, ResumedFacts
  <2> QED
    BY <2>5, <2>p
<1>9. ObjectsTyped /\ UNCHANGED mutexes
  <2>1. set[e] \subseteq Flag
    BY <1>1 DEF TypeOK
  <2>2. set' \in [Event -> SUBSET Flag]
    BY <1>1, <1>2, <1>5, <1>p, <2>1 DEF TypeOK
  <2> QED
    BY <1>1, <1>2, <2>2 DEF ObjectsTyped, TypeOK, mutexes, sems
<1>10. Owned'
  BY <1>1, <1>8, <1>9, OwnedKept
<1>11. Members(walk.woken) \in SUBSET Thread /\ (c = Isr \/ c = current)
  BY <1>2 DEF Members, CallsOrInterrupts, Calls, Runs
<1>12. CASE walk.woken # <<>>
  <2>1. Base'
    BY <1>2, <1>8, <1>9, <1>10, <1>11, <1>12, Moves
  <2> QED
    BY <1>2, <1>4, <1>8, <1>p, <2>1
<1>13. CASE walk.woken = <<>>
  <2>1. rq' = rq /\ UNCHANGED <<current, nest, due, demoted>>
    BY <1>2, <1>13, InsertNone DEF Resumed
  <2>2. Listed'
    BY <1>1, <1>8, CameListed
  <2>3. TypeOK'
    BY <1>1, <1>8, <1>9, <2>1 DEF TypeOK, Typed, ObjectsTyped
  <2>5. Runner' /\ HighestRuns'
    BY <2>1 DEF Base, Runner, HighestRuns
  <2>6. Base'
    BY <1>10, <2>2, <2>3, <2>5 DEF Base
  <2> QED
    BY <1>2, <1>4, <1>8, <1>p, <2>6
<1> QED
  BY <1>12, <1>13

\* the owner has at least the priority of t, and the others keep theirs
LEMMA InheritingFacts ==
    ASSUME QueueOK(rq), NEW t \in Thread, NEW m, owner[m] \in Thread
    PROVE  LET q == Inheriting(t, m)
           IN  /\ QueueOK(q) /\ Ready(q) = Ready(rq)
               /\ q.prio[owner[m]] <= rq.prio[t] /\ q.prio[owner[m]] <= rq.prio[owner[m]]
               /\ \A u \in Thread \ {owner[m]} : q.prio[u] = rq.prio[u]
<1>p. PICK o, q, p, r : o = owner[m] /\ q = Inheriting(t, m) /\ p = rq.prio[t] /\ r = rq.prio[o]
  OBVIOUS
<1>1. rq.prio \in [Thread -> Prio] /\ o \in Thread /\ p \in Prio /\ r \in Prio
  BY <1>p DEF QueueOK, Queue
<1>n. p \in Nat /\ r \in Nat
  BY <1>1, PrioAssumption DEF Prio
<1>2. CASE p < r
  <2>1. q = ChangePriority(rq, o, p)
    BY <1>2, <1>p DEF Inheriting
  <2>2. QueueOK(q) /\ q.prio = [rq.prio EXCEPT ![o] = p] /\ Ready(q) = Ready(rq)
    BY <1>1, <2>1, ChangeFacts
  <2>3. q.prio[o] = p /\ \A u \in Thread \ {o} : q.prio[u] = rq.prio[u]
    BY <1>1, <2>2
  <2>4. p <= p /\ p <= r
    BY <1>n, <1>2
  <2> QED
    BY <1>p, <2>2, <2>3, <2>4
<1>3. CASE ~(p < r)
  <2>1. q = rq
    BY <1>3, <1>p DEF Inheriting
  <2>2. r <= p /\ r <= r
    BY <1>n, <1>3
  <2> QED
    BY <1>p, <2>1, <2>2
<1> QED
  BY <1>2, <1>3

\* t has the priority that the mutex remembers, and the others keep theirs
LEMMA RestoredFacts ==
    ASSUME QueueOK(rq), NEW t \in Thread, NEW m, original[m] \in Prio
    PROVE  LET q == Restored(t, m)
           IN  QueueOK(q) /\ Ready(q) = Ready(rq) /\ q.prio = [rq.prio EXCEPT ![t] = original[m]]
<1>p. PICK q : q = Restored(t, m)
  OBVIOUS
<1>1. rq.prio \in [Thread -> Prio]
  BY DEF QueueOK, Queue
<1>2. CASE original[m] # rq.prio[t]
  <2>p. PICK p : p = original[m]
    OBVIOUS
  <2>1. q = ChangePriority(rq, t, p) /\ p \in Prio
    BY <1>2, <1>p, <2>p DEF Restored
  <2>2. LET r == ChangePriority(rq, t, p)
        IN  QueueOK(r) /\ r.prio = [rq.prio EXCEPT ![t] = p] /\ Ready(r) = Ready(rq)
    BY <2>1, ChangeFacts
  <2> QED
    BY <1>p, <2>p, <2>1, <2>2
<1>3. CASE original[m] = rq.prio[t]
  <2>1. q = rq /\ rq.prio = [rq.prio EXCEPT ![t] = original[m]]
    BY <1>1, <1>3, <1>p DEF Restored
  <2> QED
    BY <1>p, <2>1
<1> QED
  BY <1>2, <1>3

\* the three ways of rt_mutex_take
MutexAgain(t, m) ==
    /\ owner[m] = t /\ UNCHANGED <<sched, calls, owner, original, held>>
MutexGot(t, m) ==
    /\ owner[m] = None /\ owner' = [owner EXCEPT ![m] = t] /\ original' = [original EXCEPT ![m] = rq.prio[t]]
    /\ held' = [held EXCEPT ![t] = Append(@, m)] /\ UNCHANGED <<sched, calls>>
MutexAwaited(t, m) ==
    /\ owner[m] \in Thread \ {t} /\ Went(t) /\ on' = [on EXCEPT ![t] = m] /\ UNCHANGED mutexes
    /\ LET q == Inheriting(t, m) IN
       /\ rq'.prio = q.prio
       /\ \E i \in Turn(waiting[m], m, t, q) :
            /\ i \in 1 .. Len(waiting[m]) + 1
            /\ waiting' = [waiting EXCEPT ![m] = waiting'[m]] /\ Inserted(waiting[m], i, t, waiting'[m])

LEMMA MutexTakeStep ==
    ASSUME Base, NEW t, NEW m \in Mutex, NEW wait, MutexTake(t, m, wait)
    PROVE  Base' /\ (MutexAgain(t, m) \/ MutexGot(t, m) \/ MutexAwaited(t, m))
<1>1. TypeOK /\ Listed /\ Runner /\ Owned /\ QueueOK(rq) /\ m \in Object
  BY DEF Base, Listed, Object
<1>2. Calls(t) /\ t = current /\ t \in Thread /\ set' = set /\ value' = value
  BY <1>1 DEF MutexTake, Calls, Runs, TypeOK, sems
<1>3. /\ owner \in [Mutex -> Thread \cup {None}] /\ hold \in [Mutex -> 0 .. HoldMax]
      /\ original \in [Mutex -> Prio \cup {NoPrio}] /\ held \in [Thread -> Seq(Mutex)]
      /\ want \in [Thread -> Requests \cup {NoRequest}]
      /\ value \in [Sem -> 0 .. SemMax] /\ set \in [Event -> SUBSET Flag]
  BY <1>1 DEF TypeOK
<1>4. CASE /\ owner[m] = t /\ hold[m] < HoldMax /\ hold' = [hold EXCEPT ![m] = @ + 1]
           /\ UNCHANGED <<sched, calls, owner, original, held, demoted>>
  <2>1. hold[m] + 1 \in 0 .. HoldMax
    BY <1>3, <1>4, LimitAssumption
  <2>2. ObjectsTyped
    BY <1>2, <1>3, <1>4, <2>1 DEF ObjectsTyped, calls
  <2>3. Owned'
    BY <1>1, <1>4 DEF Owned, calls
  <2>4. Base'
    BY <1>4, <2>2, <2>3, Stays
  <2> QED
    BY <1>4, <2>4 DEF MutexAgain
<1>5. CASE /\ owner[m] = None /\ owner' = [owner EXCEPT ![m] = t] /\ hold' = [hold EXCEPT ![m] = 1]
           /\ original' = [original EXCEPT ![m] = rq.prio[t]] /\ held' = [held EXCEPT ![t] = Append(@, m)]
           /\ UNCHANGED <<sched, calls, demoted>>
  <2>1. rq.prio[t] \in Prio /\ 1 \in 0 .. HoldMax /\ t # None
    BY <1>1, <1>2, LimitAssumption, NameAssumption DEF TypeOK
  <2>2. ~Contains(held[t], m) /\ held[t] \in Seq(Mutex) /\ Once(held[t])
    BY <1>1, <1>2, <1>3, <1>5, <2>1 DEF Owned
  <2>p. PICK l : l = Append(held[t], m)
    OBVIOUS
  <2>3. l \in Seq(Mutex) /\ Once(l) /\ \A y : Contains(l, y) <=> y = m \/ Contains(held[t], y)
    BY <2>2, <2>p, AppendList DEF Appended
  <2>4. held'[t] = l /\ \A u \in Thread \ {t} : held'[u] = held[u]
    BY <1>2, <1>3, <1>5, <2>p
  <2>5. owner'[m] = t /\ original'[m] = rq.prio[t]
        /\ \A x \in Mutex \ {m} : owner'[x] = owner[x] /\ original'[x] = original[x]
    BY <1>3, <1>5
  <2>6. held' \in [Thread -> Seq(Mutex)]
    BY <1>3, <1>5, <2>3, <2>p
  <2>7. ObjectsTyped
    BY <1>2, <1>3, <1>5, <2>1, <2>6 DEF ObjectsTyped, calls
  <2>8. \A u \in Thread : Once(held'[u]) /\ \A x \in Mutex : Contains(held'[u], x) <=> owner'[x] = u
    <3> TAKE u \in Thread
    <3>1. Once(held[u]) /\ \A x \in Mutex : Contains(held[u], x) <=> owner[x] = u
      BY <1>1 DEF Owned
    <3>2. u # None
      BY NameAssumption
    <3>3. CASE u = t
      BY <2>3, <2>4, <2>5, <3>1, <3>3
    <3>4. CASE u # t
      BY <1>5, <2>4, <2>5, <3>1, <3>2, <3>4
    <3> QED
      BY <3>3, <3>4
  <2>9. Owned'
    <3>1. \A x \in Mutex : owner'[x] # None => original'[x] \in Prio
      BY <1>1, <2>1, <2>5 DEF Owned
    <3>2. \A x \in Mutex : waiting'[x] # <<>> => owner'[x] # None
      BY <1>1, <1>5, <2>1, <2>5 DEF Owned, calls
    <3> QED
      BY <2>8, <3>1, <3>2 DEF Owned
  <2>10. Base'
    BY <1>5, <2>7, <2>9, Stays
  <2> QED
    BY <1>5, <2>10 DEF MutexGot
<1>6. CASE /\ owner[m] \notin {t, None} /\ Suspended(t, m, wait, Inheriting(t, m)) /\ UNCHANGED <<want, mutexes>>
  <2>1. owner[m] \in Thread \ {t}
    BY <1>3, <1>6
  <2>p. PICK q : q = Inheriting(t, m)
    OBVIOUS
  <2>2. QueueOK(q) /\ Ready(q) = Ready(rq)
    BY <1>1, <1>2, <2>1, <2>p, InheritingFacts
  <2>3. /\ Went(t) /\ Typed /\ nest = 0 /\ ThenSchedule(t) /\ rq'.prio = q.prio /\ on' = [on EXCEPT ![t] = m]
        /\ \E i \in Turn(waiting[m], m, t, q) :
             /\ i \in 1 .. Len(waiting[m]) + 1
             /\ waiting' = [waiting EXCEPT ![m] = waiting'[m]] /\ Inserted(waiting[m], i, t, waiting'[m])
    BY <1>1, <1>2, <1>6, <2>2, <2>p, SuspendedFacts
  <2>4. ObjectsTyped
    BY <1>2, <1>3, <1>6 DEF ObjectsTyped, mutexes
  <2>5. Owned'
    <3>1. waiting' = [waiting EXCEPT ![m] = waiting'[m]] /\ owner[m] # None
      BY <1>6, <2>3
    <3> QED
      BY <1>1, <1>6, <3>1, OwnedKept
  <2>6. Base'
    BY <1>2, <2>3, <2>4, <2>5, Moves
  <2> QED
    BY <1>6, <2>1, <2>3, <2>6, <2>p DEF MutexAwaited
<1> QED
  BY <1>4, <1>5, <1>6 DEF MutexTake

\* the three ways of rt_mutex_release
MutexLess(t, m) == UNCHANGED <<sched, calls, owner, original, held>>
MutexHanded(t, m) ==
    LET n == Head(waiting[m]) IN
    /\ waiting[m] # <<>> /\ n \in Thread \ {t} /\ Contains(waiting[m], n) /\ Came({n})
    /\ waiting' = [waiting EXCEPT ![m] = Tail(waiting[m])]
    /\ rq'.prio = [rq.prio EXCEPT ![t] = original[m]]
    /\ owner' = [owner EXCEPT ![m] = n] /\ original' = [original EXCEPT ![m] = rq.prio[n]]
    /\ held' = [held EXCEPT ![t] = Unlink(@, m), ![n] = Append(@, m)]
MutexFreed(t, m) ==
    /\ waiting[m] = <<>> /\ Kept /\ UNCHANGED <<on, error>> /\ rq'.prio = [rq.prio EXCEPT ![t] = original[m]]
    /\ owner' = [owner EXCEPT ![m] = None] /\ original' = [original EXCEPT ![m] = NoPrio]
    /\ held' = [held EXCEPT ![t] = Unlink(@, m)]

\* m is no longer t's, but n's or nobody's
LEMMA GivenAway ==
    ASSUME Base, NEW t \in Thread, NEW m \in Mutex, owner[m] = t
    PROVE  /\ Unlink(held[t], m) \in Seq(Mutex) /\ Once(Unlink(held[t], m))
           /\ \A x \in Mutex : Contains(Unlink(held[t], m), x) <=> x # m /\ owner[x] = t
<1>1. held[t] \in Seq(Mutex) /\ Once(held[t]) /\ \A x \in Mutex : Contains(held[t], x) <=> owner[x] = t
  BY DEF Base, TypeOK, Owned
<1>2. LET r == Unlink(held[t], m) IN r \in Seq(Mutex) /\ Once(r) /\ \A y : Contains(r, y) <=> y # m /\ Contains(held[t], y)
  BY <1>1, UnlinkList
<1> QED
  BY <1>1, <1>2

LEMMA HandOverStep ==
    ASSUME Base, NEW t \in Thread, t \in Ready(rq), t = current, NEW m \in Mutex, owner[m] = t, waiting[m] # <<>>,
           HandedOver(t, m, Head(waiting[m]), Restored(t, m)), UNCHANGED <<on, error, want, sems, set>>
    PROVE  Base' /\ MutexHanded(t, m)
<1>1. TypeOK /\ Listed /\ Runner /\ Owned /\ QueueOK(rq) /\ m \in Object /\ original[m] \in Prio
  BY NameAssumption DEF Base, Listed, Owned, Object
<1>p. PICK n, q, l : n = Head(waiting[m]) /\ q = Restored(t, m) /\ l = Unlink(held[t], m)
  OBVIOUS
<1>2. QueueOK(q) /\ Ready(q) = Ready(rq) /\ q.prio = [rq.prio EXCEPT ![t] = original[m]]
  BY <1>1, <1>p, RestoredFacts
<1>3. /\ owner' = [owner EXCEPT ![m] = n] /\ hold' = hold /\ original' = [original EXCEPT ![m] = q.prio[n]]
      /\ held' = [held EXCEPT ![t] = l, ![n] = Append(@, m)] /\ ResumedFirst(m, q) /\ ThenSchedule(t)
  BY <1>p DEF HandedOver
<1>4. /\ n \in Thread /\ Contains(waiting[m], n) /\ Came({n}) /\ Typed /\ rq'.prio = q.prio
      /\ waiting' = [waiting EXCEPT ![m] = Tail(waiting[m])]
  BY <1>1, <1>2, <1>3, <1>p, ResumedFirstFacts
<1>5. n # t
  BY <1>1, <1>4 DEF Listed
<1>6. q.prio[n] = rq.prio[n] /\ rq.prio[n] \in Prio
  BY <1>1, <1>2, <1>4, <1>5 DEF TypeOK
<1>7. l \in Seq(Mutex) /\ Once(l) /\ \A x \in Mutex : Contains(l, x) <=> x # m /\ owner[x] = t
  BY <1>p, GivenAway
<1>8. held[n] \in Seq(Mutex) /\ Once(held[n]) /\ \A x \in Mutex : Contains(held[n], x) <=> owner[x] = n
  BY <1>1, <1>4 DEF TypeOK, Owned
<1>a. PICK k : k = Append(held[n], m)
  OBVIOUS
<1>9. k \in Seq(Mutex) /\ Once(k) /\ \A x \in Mutex : Contains(k, x) <=> x = m \/ owner[x] = n
  <2>1. ~Contains(held[n], m)
    BY <1>5, <1>8
  <2> QED
    BY <1>8, <1>a, <2>1, AppendList DEF Appended
<1>10. /\ owner \in [Mutex -> Thread \cup {None}] /\ original \in [Mutex -> Prio \cup {NoPrio}]
       /\ held \in [Thread -> Seq(Mutex)] /\ waiting \in [Object -> Seq(Thread)]
  BY <1>1 DEF TypeOK
<1>11. held'[t] = l /\ held'[n] = k /\ \A u \in Thread \ {t, n} : held'[u] = held[u]
  BY <1>3, <1>4, <1>5, <1>10, <1>a
<1>12. owner'[m] = n /\ original'[m] = rq.prio[n]
       /\ \A x \in Mutex \ {m} : owner'[x] = owner[x] /\ original'[x] = original[x]
  BY <1>3, <1>6, <1>10
<1>13. held' \in [Thread -> Seq(Mutex)]
  <2>1. held' = [held EXCEPT ![t] = l, ![n] = k]
    BY <1>3, <1>4, <1>5, <1>10, <1>a
  <2> QED
    BY <1>7, <1>9, <1>10, <2>1
<1>14. ObjectsTyped
  <2>1. owner' \in [Mutex -> Thread \cup {None}] /\ original' \in [Mutex -> Prio \cup {NoPrio}]
    BY <1>3, <1>4, <1>6, <1>10
  <2> QED
    BY <1>1, <1>3, <1>13, <2>1 DEF ObjectsTyped, TypeOK, sems
<1>15. \A u \in Thread : Once(held'[u]) /\ \A x \in Mutex : Contains(held'[u], x) <=> owner'[x] = u
  <2> TAKE u \in Thread
  <2>1. Once(held[u]) /\ \A x \in Mutex : Contains(held[u], x) <=> owner[x] = u
    BY <1>1 DEF Owned
  <2>2. CASE u = t
    BY <1>5, <1>7, <1>11, <1>12, <2>2
  <2>3. CASE u = n
    BY <1>9, <1>11, <1>12, <2>3
  <2>4. CASE u # t /\ u # n
    BY <1>11, <1>12, <2>1, <2>4
  <2> QED
    BY <2>2, <2>3, <2>4
<1>16. Owned'
  <2>1. \A x \in Mutex : owner'[x] # None => original'[x] \in Prio
    BY <1>1, <1>6, <1>12 DEF Owned
  <2>2. n # None /\ \A x \in Mutex \ {m} : waiting'[x] = waiting[x]
    BY <1>4, <1>10, NameAssumption DEF Object
  <2>3. \A x \in Mutex : waiting'[x] # <<>> => owner'[x] # None
    BY <1>1, <1>12, <2>2 DEF Owned
  <2> QED
    BY <1>15, <2>1, <2>3 DEF Owned
<1>17. {n} \in SUBSET Thread
  BY <1>4
<1>18. Base'
  BY <1>3, <1>4, <1>14, <1>16, <1>17, Moves
<1>19. MutexHanded(t, m)
  BY <1>2, <1>3, <1>4, <1>5, <1>6, <1>p DEF MutexHanded
<1> QED
  BY <1>18, <1>19

LEMMA FreeStep ==
    ASSUME Base, NEW t \in Thread, t \in Ready(rq), t = current, NEW m \in Mutex, owner[m] = t, waiting[m] = <<>>,
           Freed(t, m, Restored(t, m)), UNCHANGED <<on, error, want, sems, set>>
    PROVE  Base' /\ MutexFreed(t, m)
<1>1. TypeOK /\ Listed /\ Runner /\ Owned /\ HighestRuns /\ QueueOK(rq) /\ m \in Object /\ original[m] \in Prio
  BY NameAssumption DEF Base, Listed, Owned, Object
<1>p. PICK q, l : q = Restored(t, m) /\ l = Unlink(held[t], m)
  OBVIOUS
<1>2. QueueOK(q) /\ Ready(q) = Ready(rq) /\ q.prio = [rq.prio EXCEPT ![t] = original[m]]
  BY <1>1, <1>p, RestoredFacts
<1>3. /\ owner' = [owner EXCEPT ![m] = None] /\ hold' = [hold EXCEPT ![m] = 0]
      /\ original' = [original EXCEPT ![m] = NoPrio] /\ held' = [held EXCEPT ![t] = l]
      /\ rq' = q /\ demoted' = (demoted \/ q.prio[t] > rq.prio[t])
      /\ UNCHANGED <<current, nest, due, waiting, timed>>
  BY <1>p DEF Freed
<1>4. l \in Seq(Mutex) /\ Once(l) /\ \A x \in Mutex : Contains(l, x) <=> x # m /\ owner[x] = t
  BY <1>p, GivenAway
<1>5. /\ owner \in [Mutex -> Thread \cup {None}] /\ original \in [Mutex -> Prio \cup {NoPrio}]
      /\ held \in [Thread -> Seq(Mutex)] /\ hold \in [Mutex -> 0 .. HoldMax]
  BY <1>1 DEF TypeOK
<1>6. Kept
  BY <1>2, <1>3 DEF Kept
<1>7. Listed'
  BY <1>1, <1>6, KeptListed
<1>8. TypeOK'
  <2>1. owner' \in [Mutex -> Thread \cup {None}] /\ original' \in [Mutex -> Prio \cup {NoPrio}]
        /\ held' \in [Thread -> Seq(Mutex)]
    BY <1>3, <1>4, <1>5
  <2>2. hold' \in [Mutex -> 0 .. HoldMax]
    BY <1>3, <1>5, LimitAssumption
  <2>3. rq'.list \in [Prio -> Seq(Thread)] /\ rq'.prio \in [Thread -> Prio]
    BY <1>2, <1>3 DEF QueueOK, Queue
  <2> QED
    BY <1>1, <1>3, <2>1, <2>2, <2>3 DEF TypeOK, sems
<1>9. Owned'
  <2>1. owner'[m] = None /\ \A x \in Mutex \ {m} : owner'[x] = owner[x] /\ original'[x] = original[x]
    BY <1>3, <1>5
  <2>2. held'[t] = l /\ \A u \in Thread \ {t} : held'[u] = held[u]
    BY <1>3, <1>5
  <2>3. \A u \in Thread : Once(held'[u]) /\ \A x \in Mutex : Contains(held'[u], x) <=> owner'[x] = u
    <3> TAKE u \in Thread
    <3>1. Once(held[u]) /\ (\A x \in Mutex : Contains(held[u], x) <=> owner[x] = u) /\ u # None
      BY <1>1, NameAssumption DEF Owned
    <3>2. CASE u = t
      BY <1>4, <2>1, <2>2, <3>1, <3>2
    <3>3. CASE u # t
      BY <2>1, <2>2, <3>1, <3>3
    <3> QED
      BY <3>2, <3>3
  <2>4. \A x \in Mutex : owner'[x] # None => original'[x] \in Prio
    BY <1>1, <2>1 DEF Owned
  <2>5. \A x \in Mutex : waiting'[x] # <<>> => owner'[x] # None
    BY <1>1, <1>3, <2>1 DEF Owned
  <2> QED
    BY <2>3, <2>4, <2>5 DEF Owned
<1>10. Runner'
  BY <1>1, <1>2, <1>3 DEF Runner
\* the current thread has the highest priority, and after the release none has a higher one
<1>11. HighestRuns'
  <2> SUFFICES ASSUME nest' = 0, current' \notin due', ~demoted' PROVE current' = Top(rq')
    BY DEF HighestRuns
  <2>1. t = Top(rq) /\ ~(q.prio[t] > rq.prio[t])
    BY <1>1, <1>3 DEF HighestRuns
  <2>2. q.prio[t] = original[m] /\ rq.prio[t] \in Prio /\ Prio \subseteq Nat
    BY <1>1, <1>2, PrioAssumption DEF TypeOK, Prio
  <2>3. CASE original[m] = rq.prio[t]
    <3>1. q = rq
      BY <1>p, <2>3 DEF Restored
    <3> QED
      BY <1>3, <2>1, <3>1
  <2>4. CASE original[m] # rq.prio[t]
    <3>0. \A x, y \in Nat : ~(x > y) /\ x # y => x < y
      OBVIOUS
    <3>1. original[m] < rq.prio[t]
      <4>1. original[m] \in Nat /\ rq.prio[t] \in Nat /\ ~(original[m] > rq.prio[t])
        BY <1>1, <2>1, <2>2
      <4> QED
        BY <2>4, <3>0, <4>1
    <3>2. q = ChangePriority(rq, t, original[m])
      BY <1>p, <2>4 DEF Restored
    <3>p. PICK p : p = original[m]
      OBVIOUS
    <3>3. QueueOK(rq) /\ Ready(rq) # {} /\ p \in Prio /\ p < rq.prio[Top(rq)]
      BY <1>1, <2>1, <3>1, <3>p
    <3>4. Top(ChangePriority(rq, Top(rq), p)) = Top(rq)
      BY <3>3, RaisedTop
    <3> QED
      BY <1>3, <2>1, <3>2, <3>4, <3>p
  <2> QED
    BY <2>3, <2>4
<1>12. MutexFreed(t, m)
  BY <1>2, <1>3, <1>6, <1>p DEF MutexFreed
<1> QED
  BY <1>7, <1>8, <1>9, <1>10, <1>11, <1>12 DEF Base

LEMMA MutexReleaseStep ==
    ASSUME Base, NEW t, NEW m \in Mutex, MutexRelease(t, m)
    PROVE  /\ Base' /\ t \in Ready(rq) /\ t \in Thread /\ owner[m] = t /\ (Lifo => Last(held[t]) = m)
           /\ MutexLess(t, m) \/ MutexHanded(t, m) \/ MutexFreed(t, m)
<1>1. TypeOK /\ Listed /\ Runner /\ Owned
  BY DEF Base
<1>2. /\ Calls(t) /\ t = current /\ owner[m] = t /\ (Lifo => Last(held[t]) = m)
      /\ UNCHANGED <<on, error, want, sems, set>>
  BY DEF MutexRelease, Calls, Runs
<1>3. t \in Thread /\ t \in Ready(rq)
  BY <1>1, <1>2, Caller DEF Calls
<1>4. CASE /\ hold[m] > 1 /\ hold' = [hold EXCEPT ![m] = @ - 1]
           /\ UNCHANGED <<sched, waiting, timed, owner, original, held, demoted>>
  <2>1. calls' = calls
    BY <1>2, <1>4 DEF calls
  <2>2. hold' \in [Mutex -> 0 .. HoldMax]
    BY <1>1, <1>4, LimitAssumption DEF TypeOK
  <2>3. ObjectsTyped
    BY <1>1, <1>2, <1>4, <2>2 DEF ObjectsTyped, TypeOK, sems
  <2>4. Owned'
    BY <1>1, <1>4 DEF Owned
  <2>5. Base'
    BY <1>4, <2>1, <2>3, <2>4, Stays
  <2> QED
    BY <1>2, <1>3, <1>4, <2>1, <2>5 DEF MutexLess
<1>5. CASE waiting[m] # <<>> /\ HandedOver(t, m, Head(waiting[m]), Restored(t, m))
  BY <1>2, <1>3, <1>5, HandOverStep
<1>6. CASE waiting[m] = <<>> /\ Freed(t, m, Restored(t, m))
  BY <1>2, <1>3, <1>6, FreeStep
<1> QED
  BY <1>4, <1>5, <1>6 DEF MutexRelease

-----------------------------------------------------------------------------
(* The beginning *)

\* a set as a list: everybody is in it once
LEMMA SetList ==
    ASSUME NEW S, IsFiniteSet(S)
    PROVE  SetToSeq(S) \in Seq(S) /\ Once(SetToSeq(S)) /\ \A t : Contains(SetToSeq(S), t) <=> t \in S
<1>p. PICK n, l : n = Cardinality(S) /\ l = SetToSeq(S)
  OBVIOUS
<1>1. n \in Nat /\ ExistsBijection(1 .. n, S)
  BY <1>p, FS_CardinalityType
<1>2. PICK f : f \in Injection(1 .. n, S)
  BY <1>1 DEF ExistsBijection, Bijection
<1>3. l \in [1 .. n -> S] /\ IsInjective(l)
  <2>1. f \in [1 .. n -> S] /\ IsInjective(f)
    BY <1>2 DEF Injection
  <2> QED
    BY <1>p, <2>1 DEF SetToSeq
<1>4. l \in Surjection(1 .. n, S)
  <2>1. IsFiniteSet(1 .. n) /\ Cardinality(1 .. n) = n
    BY <1>1, FS_Interval
  <2>2. l \in Injection(1 .. n, S)
    BY <1>3 DEF Injection
  <2> QED
    BY <1>p, <2>1, <2>2, FS_Injection
<1>5. l \in Seq(S) /\ Len(l) = n /\ DOMAIN l = 1 .. n
  <2>1. l \in Seq(S)
    BY <1>1, <1>3, SeqDef
  <2> QED
    BY <1>1, <1>3, <2>1, LenProperties
<1>6. Once(l)
  BY <1>3, <1>5 DEF Once, IsInjective
<1>7. \A t : Contains(l, t) <=> t \in S
  BY <1>4, <1>5 DEF Contains, Surjection
<1> QED
  BY <1>5, <1>6, <1>7, <1>p

\* all threads are ready
LEMMA InitQueue ==
    ASSUME InitSched
    PROVE  QueueOK(rq) /\ Ready(rq) = Thread /\ rq.prio = InitPrio
<1> DEFINE S(p) == {t \in Thread : InitPrio[t] = p}
           lists == [p \in Prio |-> SetToSeq(S(p))]
           group == {InitPrio[t] : t \in Thread}
<1>1. \A p \in Prio : /\ lists[p] = SetToSeq(S(p)) /\ lists[p] \in Seq(Thread) /\ Once(lists[p])
                      /\ \A t : Contains(lists[p], t) <=> t \in S(p)
  <2> TAKE p \in Prio
  <2>1. IsFiniteSet(S(p))
    BY IdleAssumption, FS_Subset
  <2>2. SetToSeq(S(p)) \in Seq(S(p)) /\ Once(SetToSeq(S(p))) /\ \A t : Contains(SetToSeq(S(p)), t) <=> t \in S(p)
    BY <2>1, SetList
  <2>3. S(p) \subseteq Thread
    OBVIOUS
  <2>4. SetToSeq(S(p)) \in Seq(Thread)
    <3> HIDE DEF S
    <3> QED
      BY <2>2, <2>3
  <2>5. lists[p] = SetToSeq(S(p))
    OBVIOUS
  <2> HIDE DEF S, lists
  <2> QED
    BY <2>2, <2>4, <2>5
<1>2. rq = [list |-> lists, group |-> group, prio |-> InitPrio]
  BY DEF InitSched
<1>3. InitPrio \in [Thread -> Prio] /\ group \subseteq Prio
  BY PrioAssumption
<1>4. lists \in [Prio -> Seq(Thread)]
  <2>1. lists = [p \in Prio |-> lists[p]]
    OBVIOUS
  <2> HIDE DEF lists
  <2> QED
    BY <1>1, <2>1
<1> HIDE DEF lists, group
<1>5. rq.list = lists /\ rq.prio = InitPrio /\ rq.group = group /\ rq \in Queue
  BY <1>2, <1>3, <1>4 DEF Queue
<1>6. \A p \in Prio : \A t \in Thread : Contains(lists[p], t) <=> InitPrio[t] = p
  BY <1>1
<1>7. \A p \in Prio : p \in group <=> lists[p] # <<>>
  <2> TAKE p \in Prio
  <2>1. lists[p] # <<>> <=> \E t : Contains(lists[p], t)
    BY <1>1, EmptyList
  <2>2. (\E t : Contains(lists[p], t)) <=> \E t \in Thread : InitPrio[t] = p
    BY <1>1
  <2> QED
    BY <2>1, <2>2 DEF group
<1>8. QueueOK(rq)
  <2>1. \A p \in Prio : Once(rq.list[p])
    BY <1>1, <1>5
  <2>2. \A p \in Prio : \A t \in Thread : Contains(rq.list[p], t) => rq.prio[t] = p
    BY <1>5, <1>6
  <2>3. rq.group = {p \in Prio : rq.list[p] # <<>>}
    BY <1>3, <1>5, <1>7
  <2> QED
    BY <1>5, <2>1, <2>2, <2>3 DEF QueueOK
<1>9. Ready(rq) = Thread
  BY <1>3, <1>5, <1>6 DEF Ready, IsReady
<1> QED
  BY <1>5, <1>8, <1>9

LEMMA BaseInit == Init => Base
<1> SUFFICES ASSUME Init PROVE Base
  OBVIOUS
<1>1. /\ InitSched /\ current = Top(rq) /\ nest = 0 /\ due = {} /\ waiting = [o \in Object |-> <<>>] /\ timed = {}
      /\ on = [t \in Thread |-> "no"] /\ error = [t \in Thread |-> "ok"] /\ want = [t \in Thread |-> NoRequest]
      /\ value = [s \in Sem |-> SemStart] /\ owner = [m \in Mutex |-> None] /\ hold = [m \in Mutex |-> 0]
      /\ original = [m \in Mutex |-> NoPrio] /\ held = [t \in Thread |-> <<>>] /\ set = [e \in Event |-> {}]
  BY DEF Init, InitSched
<1>2. QueueOK(rq) /\ Ready(rq) = Thread
  BY <1>1, InitQueue
<1>3. current \in Ready(rq) /\ current \in Thread
  BY <1>1, <1>2, IdleAssumption, TopFacts
<1>4. TypeOK
  BY <1>1, <1>2, <1>3, LimitAssumption, NestAssumption DEF TypeOK, QueueOK, Queue
<1>5. Once(<<>>) /\ \A x : ~Contains(<<>>, x)
  BY DEF Once, Contains
<1>6. Listed
  BY <1>1, <1>2, <1>5 DEF Listed
<1>7. Runner /\ HighestRuns
  BY <1>1, <1>3 DEF Runner, HighestRuns
<1>8. Owned
  <2>1. \A t \in Thread : t # None
    BY NameAssumption
  <2> QED
    BY <1>1, <1>5, <2>1 DEF Owned, Object
<1> QED
  BY <1>4, <1>6, <1>7, <1>8 DEF Base

-----------------------------------------------------------------------------
(* Every step keeps the base *)

LEMMA BaseStep ==
    ASSUME Base, Step
    PROVE  Base'
<1>1. ASSUME NEW t \in Thread, Reschedule(t) /\ Settled /\ Unsynced PROVE Base'
  BY <1>1, ScheduleStep
<1>2. ASSUME NEW t \in Thread, (EnterCritical(t) \/ ExitCritical(t)) /\ UNCHANGED demoted /\ Unsynced PROVE Base'
  BY <1>2, CriticalStep
<1>3. ASSUME NEW t \in Thread, Sleep(t) \/ Expire(t) \/ Return(t) PROVE Base'
  BY <1>3, SleepStep, ExpireStep, ReturnStep
<1>4. ASSUME NEW t \in Thread, NEW s \in Sem,
             (\E wait \in Waits : SemTake(t, s, wait)) \/ (\E v \in 0 .. SemMax : SemReset(t, s, v))
      PROVE  Base'
  BY <1>4, SemTakeStep, SemResetStep
<1>5. ASSUME NEW t \in Thread, NEW m \in Mutex, MutexRelease(t, m) \/ \E wait \in Waits : MutexTake(t, m, wait)
      PROVE  Base'
  BY <1>5, MutexReleaseStep, MutexTakeStep
<1>6. ASSUME NEW t \in Thread, NEW e \in Event,
             (\E w \in Requests, wait \in Waits : EventRecv(t, e, w, wait)) \/ EventReset(t, e)
      PROVE  Base'
  BY <1>6, EventRecvStep, EventResetStep
<1>7. ASSUME Yield /\ Settled /\ Unsynced PROVE Base'
  BY <1>7, ScheduleStep
<1>8. ASSUME NEW c, NEW s \in Sem, SemRelease(c, s) PROVE Base'
  BY <1>8, SemReleaseStep
<1>9. ASSUME NEW c, NEW e \in Event, NEW flags \in SUBSET Flag, EventSend(c, e, flags) PROVE Base'
  <2>1. LET walk == Walk(e, set[e] \cup flags) IN Base' /\ Came(Members(walk.woken))
    BY <1>9, EventSendStep
  <2> QED
    BY <2>1
<1> QED
  BY <1>1, <1>2, <1>3, <1>4, <1>5, <1>6, <1>7, <1>8, <1>9 DEF Step

LEMMA BaseKept == ASSUME Base, [Next]_vars PROVE Base'
<1>1. CASE Next
  BY <1>1, BaseStep DEF Next
<1>2. CASE UNCHANGED vars
  <2>1. sched' = sched /\ calls' = calls /\ demoted' = demoted /\ mutexes' = mutexes /\ sems' = sems /\ set' = set
    BY <1>2 DEF vars
  <2>2. ObjectsTyped
    BY <2>1 DEF Base, TypeOK, ObjectsTyped, sems, mutexes, calls
  <2>3. Owned'
    BY <2>1 DEF Base, Owned, calls, mutexes
  <2> QED
    BY <2>1, <2>2, <2>3, Stays
<1> QED
  BY <1>1, <1>2

LEMMA BaseAlways == Spec => []Base
<1>1. Init => Base
  BY BaseInit
<1>2. Base /\ [Next]_vars => Base'
  BY BaseKept
<1> QED
  BY <1>1, <1>2, PTL DEF Spec

\* All variables keep their types, however threads, interrupts and the tick are interleaved.
THEOREM TypeCorrect == Spec => []TypeOK
<1>1. Base => TypeOK
  BY DEF Base
<1> QED
  BY <1>1, BaseAlways, PTL

\* The thread that runs is the first of the highest priority that is ready, as soon as it is
\* not on its way into rt_schedule(), and apart from the release that does not call it.
THEOREM FirstRuns == Spec => []HighestRuns
<1>1. Base => HighestRuns
  BY DEF Base
<1> QED
  BY <1>1, BaseAlways, PTL

-----------------------------------------------------------------------------
(* The places of a thread *)

LEMMA PlacesFacts ==
    ASSUME NEW S, NEW l \in Seq(S), Once(l), NEW t
    PROVE  Places(l, t) = IF Contains(l, t) THEN 1 ELSE 0
<1> DEFINE I == {i \in DOMAIN l : l[i] = t}
<1>1. DOMAIN l = 1 .. Len(l)
  OBVIOUS
<1>2. CASE Contains(l, t)
  <2>1. PICK n \in 1 .. Len(l) : l[n] = t
    BY <1>2 DEF Contains
  <2>2. I = {n}
    BY <1>1, <2>1 DEF Once
  <2> QED
    BY <1>2, <2>2, FS_Singleton DEF Places
<1>3. CASE ~Contains(l, t)
  <2>1. I = {}
    BY <1>1, <1>3 DEF Contains
  <2> QED
    BY <1>3, <2>1, FS_EmptySet DEF Places
<1> QED
  BY <1>2, <1>3

LEMMA ListedPlaces == TypeOK /\ Listed => OnePlace
<1> SUFFICES ASSUME TypeOK, Listed PROVE OnePlace
  OBVIOUS
<1>1. /\ \A p \in Prio : rq.list[p] \in Seq(Thread) /\ Once(rq.list[p])
      /\ \A o \in Object : waiting[o] \in Seq(Thread) /\ Once(waiting[o])
      /\ rq.group = {p \in Prio : rq.list[p] # <<>>} /\ QueueOK(rq)
      /\ \A t \in Thread : rq.prio[t] \in Prio
  BY DEF TypeOK, Listed, QueueOK
<1>2. \A t \in Thread : /\ \A p \in Prio : Places(rq.list[p], t) = IF Contains(rq.list[p], t) THEN 1 ELSE 0
                        /\ \A o \in Object : Places(waiting[o], t) = IF Contains(waiting[o], t) THEN 1 ELSE 0
  BY <1>1, PlacesFacts
<1>3. ASSUME NEW t \in Thread, t \in Ready(rq)
      PROVE  /\ Places(rq.list[rq.prio[t]], t) = 1 /\ t \notin timed
             /\ \A p \in Prio \ {rq.prio[t]} : Places(rq.list[p], t) = 0
             /\ \A o \in Object : Places(waiting[o], t) = 0
  <2>1. Contains(rq.list[rq.prio[t]], t)
    BY <1>1, <1>3, ReadyList
  <2>2. \A p \in Prio \ {rq.prio[t]} : ~Contains(rq.list[p], t)
    BY <1>1 DEF QueueOK
  <2>3. t \notin timed /\ \A o \in Object : ~Contains(waiting[o], t)
    BY <1>3 DEF Listed
  <2> QED
    BY <1>1, <1>2, <2>1, <2>2, <2>3
<1>4. ASSUME NEW t \in Thread, t \notin Ready(rq)
      PROVE  /\ ~IsReady(rq, t)
             /\ IF on[t] = "sleep" THEN t \in timed ELSE on[t] \in Object /\ Places(waiting[on[t]], t) = 1
             /\ \A o \in Object \ {on[t]} : Places(waiting[o], t) = 0
  <2>1. Parked(t) /\ "sleep" \notin Object
    BY <1>4, NameAssumption DEF Listed
  <2>2. IF on[t] = "sleep" THEN t \in timed ELSE on[t] \in Object /\ Contains(waiting[on[t]], t)
    BY <2>1 DEF Parked
  <2>3. \A o \in Object \ {on[t]} : ~Contains(waiting[o], t)
    BY DEF Listed
  <2> QED
    BY <1>2, <1>4, <2>2, <2>3 DEF Ready
<1> QED
  BY <1>1, <1>3, <1>4 DEF OnePlace

\* No thread is lost or in two lists.
THEOREM NoThreadLost == Spec => []OnePlace
<1>1. Base => OnePlace
  BY ListedPlaces DEF Base
<1> QED
  BY <1>1, BaseAlways, PTL

-----------------------------------------------------------------------------
(* The units of a semaphore *)

LEMMA ServedFinite == \A s : IsFiniteSet(Served(s)) /\ Cardinality(Served(s)) \in Nat
<1> TAKE s
<1>1. Served(s) \in SUBSET Thread
  BY DEF Served
<1>2. IsFiniteSet(Served(s))
  BY <1>1, IdleAssumption, FS_Subset
<1> QED
  BY <1>2, FS_CardinalityType

\* who is away waits or sleeps, and has nothing yet
LEMMA AwayUnserved ==
    ASSUME Listed, NEW s \in Sem, NEW t \in Thread \ Ready(rq)
    PROVE  t \notin Served(s)
<1>1. Parked(t) /\ s # "sleep" /\ s \in Object
  BY NameAssumption DEF Listed, Object
<1> QED
  BY <1>1 DEF Parked, Served

\* nothing is put in or received, and nobody comes to wait at a positive value
LEMMA UnitsSame ==
    ASSUME Units, UNCHANGED sems, \A s \in Sem : Served(s)' = Served(s),
           \A s \in Sem : value[s] > 0 /\ waiting[s] = <<>> => waiting'[s] = <<>>
    PROVE  Units'
<1>1. value' = value /\ granted' = granted
  BY DEF sems
<1> QED
  BY <1>1 DEF Units, SemUnits

LEMMA UnitsQuiet ==
    ASSUME Units, UNCHANGED <<sems, waiting, on, error>>
    PROVE  Units'
<1>1. \A s \in Sem : Served(s)' = Served(s)
  BY DEF Served
<1> QED
  BY <1>1, UnitsSame

LEMMA UnitsAway ==
    ASSUME Base, Units, UNCHANGED sems, NEW t \in Thread, Went(t), on[t] = "no", on'[t] \notin Sem \/ value[on'[t]] = 0
    PROVE  Units'
<1>1. \A s \in Sem : Served(s)' = Served(s)
  <2> TAKE s \in Sem
  <2>1. \A u \in Thread \ {t} : on'[u] = on[u] /\ error'[u] = error[u]
    BY DEF Went
  <2>2. s \in Object /\ s # "no" /\ s # "sleep"
    BY NameAssumption DEF Object
  <2>3. CASE s # on'[t]
    <3>1. waiting'[s] = waiting[s]
      BY <2>2, <2>3 DEF Went
    <3> QED
      BY <2>1, <2>2, <2>3, <3>1 DEF Served
  <2>4. CASE s = on'[t]
    <3>1. \A y : Contains(waiting'[s], y) <=> y = t \/ Contains(waiting[s], y)
      BY <2>2, <2>4 DEF Went
    <3> QED
      BY <2>1, <2>2, <2>4, <3>1 DEF Served
  <2> QED
    BY <2>3, <2>4
<1>2. \A s \in Sem : value[s] > 0 /\ waiting[s] = <<>> => waiting'[s] = <<>>
  <2> TAKE s \in Sem
  <2>1. s \in Object /\ (s # on'[t] => waiting'[s] = waiting[s])
    BY DEF Went, Object
  <2>2. s = on'[t] => ~(value[s] > 0)
    OBVIOUS
  <2> QED
    BY <2>1, <2>2
<1> QED
  BY <1>1, <1>2, UnitsSame

LEMMA EmptyStays ==
    ASSUME TypeOK, TypeOK', NEW ts, Came(ts), NEW o \in Object, waiting[o] = <<>>
    PROVE  waiting'[o] = <<>>
<1>0. \A t \in Thread : ~Contains(<<>>, t)
  BY DEF Contains
<1>1. waiting'[o] \in Seq(Thread) /\ \A t \in Thread : ~Contains(waiting'[o], t)
  BY <1>0 DEF TypeOK, Came
<1>2. \A x : Contains(waiting'[o], x) => x \in Thread
  BY <1>1 DEF Contains
<1> QED
  BY <1>1, <1>2, EmptyList

LEMMA UnitsBack ==
    ASSUME Base, TypeOK', Units, UNCHANGED sems, NEW ts, Came(ts), \A t \in ts : on[t] \notin Sem \/ error'[t] # "ok"
    PROVE  Units'
<1>1. \A s \in Sem : Served(s)' = Served(s)
  <2> TAKE s \in Sem
  <2>1. \A t \in ts : t \in Thread \ Ready(rq) /\ t \notin Served(s)
    BY AwayUnserved DEF Base, Came
  <2>2. \A t \in Thread : t \in Served(s)' <=> on[t] = s /\ error'[t] = "ok" /\ ~Contains(waiting'[s], t)
    BY DEF Served, Came
  <2>3. \A t \in Thread \ ts : error'[t] = error[t] /\ (Contains(waiting'[s], t) <=> Contains(waiting[s], t))
    BY DEF Came, Object
  <2>4. Served(s)' \subseteq Thread /\ Served(s) \subseteq Thread
    BY DEF Served
  <2>5. \A t \in ts : t \notin Served(s)'
    BY <2>1, <2>2
  <2>6. \A t \in Thread \ ts : t \in Served(s)' <=> t \in Served(s)
    BY <2>2, <2>3 DEF Served
  <2> QED
    BY <2>1, <2>4, <2>5, <2>6
<1>2. \A s \in Sem : value[s] > 0 /\ waiting[s] = <<>> => waiting'[s] = <<>>
  BY EmptyStays DEF Base, Object
<1> QED
  BY <1>1, <1>2, UnitsSame

\* a thread that returns takes its unit with it
LEMMA UnitsReturn ==
    ASSUME Base, Units, NEW t, Return(t)
    PROVE  Units'
<1>1. t \in Thread /\ t \in Ready(rq) /\ \A o \in Object : ~Contains(waiting[o], t)
  BY Caller DEF Base, Return
<1>2. /\ on \in [Thread -> Object \cup {"no", "sleep"}] /\ error \in [Thread -> {"ok", "timeout", "error"}]
      /\ value \in [Sem -> 0 .. SemMax] /\ granted \in [Sem -> Nat]
  BY DEF Base, TypeOK, Units
<1>3. /\ granted' = IF on[t] \in Sem /\ error[t] = "ok" THEN [granted EXCEPT ![on[t]] = @ - 1] ELSE granted
      /\ on' = [on EXCEPT ![t] = "no"] /\ error' = [error EXCEPT ![t] = "ok"] /\ waiting' = waiting /\ value' = value
  BY DEF Return
<1>4. /\ on'[t] = "no" /\ \A u \in Thread \ {t} : on'[u] = on[u] /\ error'[u] = error[u]
      /\ \A s \in Sem : s # "no" /\ s \in Object
  BY <1>1, <1>2, <1>3, NameAssumption DEF Object
<1>5. \A s \in Sem : Served(s)' = Served(s) \ {t}
  BY <1>3, <1>4 DEF Served
<1>6. \A s \in Sem : t \in Served(s) <=> on[t] = s /\ error[t] = "ok"
  BY <1>1, <1>4 DEF Served
<1>7. \A s \in Sem : /\ granted'[s] = value'[s] + Cardinality(Served(s)') /\ granted'[s] \in Nat
                     /\ value'[s] > 0 => waiting'[s] = <<>>
  <2> TAKE s \in Sem
  <2>1. /\ granted[s] = value[s] + Cardinality(Served(s)) /\ (value[s] > 0 => waiting[s] = <<>>)
        /\ granted[s] \in Nat /\ value[s] \in Nat /\ Cardinality(Served(s)) \in Nat /\ IsFiniteSet(Served(s))
    BY <1>2, LimitAssumption, ServedFinite DEF Units, SemUnits
  <2>2. Cardinality(Served(s)') = IF t \in Served(s) THEN Cardinality(Served(s)) - 1 ELSE Cardinality(Served(s))
    BY <1>5, <2>1, FS_RemoveElement
  <2>3. Cardinality(Served(s)') \in Nat
    <3>1. Served(s)' \in SUBSET Thread
      BY DEF Served
    <3> QED
      BY <3>1, IdleAssumption, FS_Subset, FS_CardinalityType
  <2>4. CASE t \in Served(s)
    <3>1. granted'[s] = granted[s] - 1
      BY <1>2, <1>3, <1>6, <2>4
    <3> QED
      BY <1>3, <2>1, <2>2, <2>3, <2>4, <3>1
  <2>5. CASE t \notin Served(s)
    <3>1. granted'[s] = granted[s]
      BY <1>2, <1>3, <1>6, <2>5
    <3> QED
      BY <1>3, <2>1, <2>2, <2>5, <3>1
  <2> QED
    BY <2>4, <2>5
<1>8. granted' \in [Sem -> Nat]
  <2>1. granted' = [s \in Sem |-> granted'[s]]
    BY <1>2, <1>3
  <2> QED
    BY <1>7, <2>1
<1> QED
  BY <1>7, <1>8 DEF Units, SemUnits

\* the unit is in the value, and goes to the one who takes it
LEMMA UnitsTake ==
    ASSUME Base, Units, NEW t, NEW s \in Sem, NEW wait, SemTake(t, s, wait)
    PROVE  Units'
<1>1. /\ value \in [Sem -> 0 .. SemMax] /\ granted \in [Sem -> Nat] /\ on[t] = "no"
  BY DEF Base, TypeOK, Units, SemTake, Calls, Busy
<1>2. CASE /\ value[s] > 0 /\ value' = [value EXCEPT ![s] = @ - 1] /\ granted' = [granted EXCEPT ![s] = @ - 1]
           /\ UNCHANGED calls
  <2>1. UNCHANGED <<waiting, on, error>>
    BY <1>2 DEF calls
  <2>2. \A r \in Sem : Served(r)' = Served(r)
    BY <2>1 DEF Served
  <2>3. \A r \in Sem : /\ granted'[r] = value'[r] + Cardinality(Served(r)') /\ granted'[r] \in Nat
                       /\ value'[r] > 0 => waiting'[r] = <<>>
    <3> TAKE r \in Sem
    <3>1. /\ granted[r] = value[r] + Cardinality(Served(r)) /\ (value[r] > 0 => waiting[r] = <<>>)
          /\ granted[r] \in Nat /\ value[r] \in Nat /\ Cardinality(Served(r)) \in Nat
      BY <1>1, LimitAssumption, ServedFinite DEF Units, SemUnits
    <3>2. \/ r = s /\ value[r] > 0 /\ value'[r] = value[r] - 1 /\ granted'[r] = granted[r] - 1
          \/ r # s /\ value'[r] = value[r] /\ granted'[r] = granted[r]
      BY <1>1, <1>2
    <3>3. Cardinality(Served(r)') = Cardinality(Served(r)) /\ waiting'[r] = waiting[r]
      BY <2>1, <2>2
    <3> QED
      BY <3>1, <3>2, <3>3
  <2>4. granted' \in [Sem -> Nat]
    <3>1. granted' = [r \in Sem |-> granted'[r]]
      BY <1>1, <1>2
    <3> QED
      BY <2>3, <3>1
  <2> QED
    BY <2>3, <2>4 DEF Units, SemUnits
<1>3. CASE value[s] = 0 /\ Suspended(t, s, wait, rq) /\ UNCHANGED sems
  <2>1. Went(t) /\ on'[t] = s
    <3>1. Went(t) /\ on' = [on EXCEPT ![t] = s]
      BY <1>3, SemTakeStep
    <3> QED
      BY <3>1 DEF Base, TypeOK, Went, Ready
  <2>2. t \in Thread
    BY <2>1 DEF Went, Ready
  <2> QED
    BY <1>1, <1>3, <2>1, <2>2, UnitsAway
<1> QED
  BY <1>2, <1>3 DEF SemTake

\* the unit goes to the thread that has waited first, or into the value
LEMMA UnitsRelease ==
    ASSUME Base, Units, NEW c, NEW s \in Sem, SemRelease(c, s)
    PROVE  Units'
<1>1. value \in [Sem -> 0 .. SemMax] /\ granted \in [Sem -> Nat] /\ s \in Object /\ Listed
  BY DEF Base, TypeOK, Units, Object
<1>2. granted' = [granted EXCEPT ![s] = @ + 1] /\ on' = on /\ error' = error
  BY DEF SemRelease
<1>3. \A r \in Sem : granted'[r] = (IF r = s THEN granted[r] + 1 ELSE granted[r]) /\ granted'[r] \in Nat
  <2> TAKE r \in Sem
  <2>1. granted[r] \in Nat
    BY <1>1
  <2> QED
    BY <1>1, <1>2, <2>1
<1>4. granted' \in [Sem -> Nat]
  <2>1. granted' = [r \in Sem |-> granted'[r]]
    BY <1>1, <1>2
  <2> QED
    BY <1>3, <2>1
<1>5. \A r \in Sem : /\ granted[r] = value[r] + Cardinality(Served(r)) /\ (value[r] > 0 => waiting[r] = <<>>)
                     /\ granted[r] \in Nat /\ value[r] \in Nat /\ Cardinality(Served(r)) \in Nat
  BY <1>1, LimitAssumption, ServedFinite DEF Units, SemUnits
<1>6. CASE waiting[s] # <<>> /\ UNCHANGED value
  <2>p. PICK h : h = Head(waiting[s])
    OBVIOUS
  <2>1. h \in Thread /\ Contains(waiting[s], h) /\ Came({h})
    BY <1>6, <2>p, SemReleaseStep
  <2>2. on[h] = s /\ error[h] = "ok" /\ h \notin Served(s)
    BY <1>1, <2>1 DEF Listed, Served
  <2>3. \A r \in Sem : \A u \in Thread : Contains(waiting'[r], u) <=> Contains(waiting[r], u) /\ u # h
    BY <2>1 DEF Came, Object
  <2>4. Served(s)' = Served(s) \cup {h}
    BY <1>2, <2>1, <2>2, <2>3 DEF Served
  <2>5. \A r \in Sem \ {s} : Served(r)' = Served(r)
    BY <1>2, <2>2, <2>3 DEF Served
  <2>6. Cardinality(Served(s)') = Cardinality(Served(s)) + 1
    BY <2>2, <2>4, ServedFinite, FS_AddElement
  <2>7. \A r \in Sem : /\ granted'[r] = value'[r] + Cardinality(Served(r)')
                       /\ value'[r] > 0 => waiting'[r] = <<>>
    <3> TAKE r \in Sem
    <3>1. CASE r = s
      BY <1>3, <1>5, <1>6, <2>6, <3>1
    <3>2. CASE r # s
      <4>1. waiting[r] = <<>> => waiting'[r] = <<>>
        BY <2>1, EmptyStays, SemReleaseStep DEF Base, Object
      <4> QED
        BY <1>3, <1>5, <1>6, <2>5, <3>2, <4>1
    <3> QED
      BY <3>1, <3>2
  <2> QED
    BY <1>4, <2>7 DEF Units, SemUnits
<1>7. CASE waiting[s] = <<>> /\ value' = [value EXCEPT ![s] = @ + 1] /\ UNCHANGED waiting
  <2>1. \A r \in Sem : Served(r)' = Served(r)
    BY <1>2, <1>7 DEF Served
  <2>2. \A r \in Sem : /\ granted'[r] = value'[r] + Cardinality(Served(r)')
                       /\ value'[r] > 0 => waiting'[r] = <<>>
    <3> TAKE r \in Sem
    <3>1. value'[r] = IF r = s THEN value[r] + 1 ELSE value[r]
      BY <1>1, <1>7
    <3>2. Cardinality(Served(r)') = Cardinality(Served(r)) /\ waiting'[r] = waiting[r]
      BY <1>7, <2>1
    <3>3. CASE r = s
      BY <1>3, <1>5, <1>7, <3>1, <3>2, <3>3
    <3>4. CASE r # s
      BY <1>3, <1>5, <3>1, <3>2, <3>4
    <3> QED
      BY <3>3, <3>4
  <2> QED
    BY <1>4, <2>2 DEF Units, SemUnits
<1> QED
  BY <1>6, <1>7 DEF SemRelease

\* after a reset there are the units of the new value, and those who have been resumed before keep theirs
LEMMA UnitsReset ==
    ASSUME Base, Units, NEW t, NEW s \in Sem, NEW v \in 0 .. SemMax, SemReset(t, s, v)
    PROVE  Units'
<1>1. value \in [Sem -> 0 .. SemMax] /\ granted \in [Sem -> Nat] /\ s \in Object /\ Listed
  BY DEF Base, TypeOK, Units, Object
<1>2. /\ value' = [value EXCEPT ![s] = v] /\ granted' = [granted EXCEPT ![s] = v + Cardinality(Served(s))] /\ on' = on
  BY DEF SemReset
<1>p. PICK ts : ts = Members(waiting[s])
  OBVIOUS
<1>3. TypeOK' /\ Came(ts) /\ waiting' = [waiting EXCEPT ![s] = <<>>] /\ \A u \in ts : error'[u] = "error"
  BY <1>p, SemResetStep DEF Base
<1>4. \A r \in Sem : Served(r)' = Served(r)
  <2> TAKE r \in Sem
  <2>1. \A u \in ts : u \notin Served(r) /\ u \notin Served(r)'
    BY <1>1, <1>3, AwayUnserved DEF Came, Served
  <2>2. \A u \in Thread \ ts : u \in Served(r)' <=> u \in Served(r)
    BY <1>2, <1>3 DEF Came, Served, Object
  <2>3. Served(r)' \subseteq Thread /\ Served(r) \subseteq Thread
    BY DEF Served
  <2> QED
    BY <2>1, <2>2, <2>3
<1>5. \A r \in Sem : /\ granted'[r] = value'[r] + Cardinality(Served(r)') /\ granted'[r] \in Nat
                     /\ value'[r] > 0 => waiting'[r] = <<>>
  <2> TAKE r \in Sem
  <2>1. /\ granted[r] = value[r] + Cardinality(Served(r)) /\ (value[r] > 0 => waiting[r] = <<>>)
        /\ granted[r] \in Nat /\ Cardinality(Served(r)) \in Nat /\ r \in Object /\ v \in Nat
    BY <1>1, LimitAssumption, ServedFinite DEF Units, SemUnits, Object
  <2>2. Cardinality(Served(r)') = Cardinality(Served(r))
    BY <1>4
  <2>3. CASE r = s
    <3>1. waiting'[r] = <<>> /\ value'[r] = v /\ granted'[r] = v + Cardinality(Served(r))
      BY <1>1, <1>2, <1>3, <2>1, <2>3 DEF Base, TypeOK
    <3> QED
      BY <2>1, <2>2, <3>1
  <2>4. CASE r # s
    <3>1. value'[r] = value[r] /\ granted'[r] = granted[r] /\ (waiting[r] = <<>> => waiting'[r] = <<>>)
      BY <1>1, <1>2, <1>3, <2>1, <2>4, EmptyStays DEF Base
    <3> QED
      BY <2>1, <2>2, <3>1
  <2> QED
    BY <2>3, <2>4
<1>6. granted' \in [Sem -> Nat]
  <2>1. granted' = [r \in Sem |-> granted'[r]]
    BY <1>1, <1>2
  <2> QED
    BY <1>5, <2>1
<1> QED
  BY <1>5, <1>6 DEF Units, SemUnits

\* mutexes and events do not touch the semaphores
LEMMA UnitsMutex ==
    ASSUME Base, Units, NEW t \in Thread, NEW m \in Mutex,
           MutexRelease(t, m) \/ \E wait \in Waits : MutexTake(t, m, wait)
    PROVE  Units'
<1>1. UNCHANGED sems /\ on[t] = "no" /\ m \notin Sem
  BY NameAssumption DEF MutexRelease, MutexTake, Calls, Busy
<1>2. CASE \E wait \in Waits : MutexTake(t, m, wait)
  <2>1. MutexAgain(t, m) \/ MutexGot(t, m) \/ MutexAwaited(t, m)
    BY <1>2, MutexTakeStep
  <2>2. CASE MutexAgain(t, m) \/ MutexGot(t, m)
    BY <1>1, <2>2, UnitsQuiet DEF MutexAgain, MutexGot, calls
  <2>3. CASE MutexAwaited(t, m)
    <3>1. Went(t) /\ on' = [on EXCEPT ![t] = m]
      BY <2>3 DEF MutexAwaited
    <3>2. on'[t] = m
      BY <3>1 DEF Base, TypeOK
    <3> QED
      BY <1>1, <3>1, <3>2, UnitsAway
  <2> QED
    BY <2>1, <2>2, <2>3
<1>3. CASE MutexRelease(t, m)
  <2>1. TypeOK' /\ (MutexLess(t, m) \/ MutexHanded(t, m) \/ MutexFreed(t, m))
    BY <1>3, MutexReleaseStep DEF Base
  <2>2. CASE MutexLess(t, m) \/ MutexFreed(t, m)
    BY <1>1, <2>2, UnitsQuiet DEF MutexLess, MutexFreed, Kept, calls
  <2>3. CASE MutexHanded(t, m)
    <3>p. PICK n : n = Head(waiting[m])
      OBVIOUS
    <3>1. n \in Thread /\ Contains(waiting[m], n) /\ Came({n})
      BY <2>3, <3>p DEF MutexHanded
    <3>2. on[n] = m
      BY <3>1 DEF Base, Listed, Object
    <3> QED
      BY <1>1, <2>1, <3>1, <3>2, UnitsBack
  <2> QED
    BY <2>1, <2>2, <2>3
<1> QED
  BY <1>2, <1>3

LEMMA UnitsEvent ==
    ASSUME Base, Units, NEW e \in Event,
           \/ \E c, flags : flags \subseteq Flag /\ EventSend(c, e, flags)
           \/ \E t : EventReset(t, e) \/ \E w \in Requests, wait \in Waits : EventRecv(t, e, w, wait)
    PROVE  Units'
<1>1. UNCHANGED sems /\ e \notin Sem /\ e \in Object
  BY NameAssumption DEF EventSend, EventReset, EventRecv, Object
<1>2. ASSUME NEW c, NEW flags, flags \subseteq Flag, EventSend(c, e, flags) PROVE Units'
  <2>p. PICK walk : walk = Walk(e, set[e] \cup flags)
    OBVIOUS
  <2>1. Base' /\ Came(Members(walk.woken)) /\ Walked(waiting[e], Len(waiting[e]), set[e] \cup flags, walk)
    BY <1>2, <2>p, EventSendStep
  <2>2. \A u \in Members(walk.woken) : on[u] = e
    BY <1>1, <2>1 DEF Walked, Members, Contains, Base, Listed
  <2>3. TypeOK'
    BY <2>1 DEF Base
  <2> QED
    BY <1>1, <2>1, <2>2, <2>3, UnitsBack
<1>3. ASSUME NEW t, EventReset(t, e) PROVE Units'
  <2>1. Base' /\ Came(Members(waiting[e])) /\ \A u \in Members(waiting[e]) : error'[u] = "error"
    BY <1>3, EventResetStep
  <2>2. TypeOK'
    BY <2>1 DEF Base
  <2> QED
    BY <1>1, <2>1, <2>2, UnitsBack
<1>4. ASSUME NEW t, NEW w \in Requests, NEW wait, EventRecv(t, e, w, wait) PROVE Units'
  <2>1. UNCHANGED calls \/ (Went(t) /\ on' = [on EXCEPT ![t] = e])
    BY <1>4, EventRecvStep DEF FlagsGot, FlagsAwaited
  <2>2. CASE UNCHANGED calls
    BY <1>1, <2>2, UnitsQuiet DEF calls
  <2>3. CASE Went(t) /\ on' = [on EXCEPT ![t] = e]
    <3>1. t \in Thread /\ on'[t] = e /\ on[t] = "no"
      BY <1>4, <2>3 DEF Went, Ready, Base, TypeOK, EventRecv, Calls, Busy
    <3> QED
      BY <1>1, <2>3, <3>1, UnitsAway
  <2> QED
    BY <2>1, <2>2, <2>3
<1> QED
  BY <1>2, <1>3, <1>4

LEMMA UnitsStep ==
    ASSUME Base, Units, Step
    PROVE  Units'
<1>1. ASSUME NEW t, Reschedule(t) /\ Settled /\ Unsynced PROVE Units'
  BY <1>1, UnitsQuiet DEF Unsynced, calls
<1>2. ASSUME NEW t, (EnterCritical(t) \/ ExitCritical(t)) /\ UNCHANGED demoted /\ Unsynced PROVE Units'
  BY <1>2, UnitsQuiet DEF Unsynced, calls
<1>3. ASSUME NEW t, Sleep(t) PROVE Units'
  <2>1. Went(t) /\ on' = [on EXCEPT ![t] = "sleep"] /\ on[t] = "no" /\ UNCHANGED sems
    BY <1>3, SleepStep DEF Sleep, Calls, Busy
  <2>2. t \in Thread /\ on'[t] = "sleep" /\ "sleep" \notin Sem
    BY <2>1, NameAssumption DEF Went, Ready, Base, TypeOK, Object
  <2> QED
    BY <2>1, <2>2, UnitsAway
<1>4. ASSUME NEW t \in Thread, Expire(t) PROVE Units'
  <2>1. Came({t}) /\ Base' /\ UNCHANGED sems /\ error' = [error EXCEPT ![t] = "timeout"]
    BY <1>4, ExpireStep DEF Expire
  <2>2. TypeOK' /\ error'[t] = "timeout"
    BY <2>1 DEF Base, TypeOK
  <2> QED
    BY <2>1, <2>2, UnitsBack
<1>5. ASSUME NEW t \in Thread, NEW s \in Sem,
             (\E wait \in Waits : SemTake(t, s, wait)) \/ (\E v \in 0 .. SemMax : SemReset(t, s, v))
      PROVE  Units'
  BY <1>5, UnitsTake, UnitsReset
<1>6. ASSUME NEW t \in Thread, NEW m \in Mutex, MutexRelease(t, m) \/ \E wait \in Waits : MutexTake(t, m, wait)
      PROVE  Units'
  BY <1>6, UnitsMutex
<1>7. ASSUME NEW t \in Thread, NEW e \in Event,
             (\E w \in Requests, wait \in Waits : EventRecv(t, e, w, wait)) \/ EventReset(t, e)
      PROVE  Units'
  BY <1>7, UnitsEvent
<1>8. ASSUME Yield /\ Settled /\ Unsynced PROVE Units'
  BY <1>8, UnitsQuiet DEF Unsynced, calls
<1>9. ASSUME NEW c, NEW s \in Sem, SemRelease(c, s) PROVE Units'
  BY <1>9, UnitsRelease
<1>10. ASSUME NEW c, NEW e \in Event, NEW flags \in SUBSET Flag, EventSend(c, e, flags) PROVE Units'
  BY <1>10, UnitsEvent
<1>11. ASSUME NEW t, Return(t) PROVE Units'
  BY <1>11, UnitsReturn
<1> QED
  BY <1>1, <1>2, <1>3, <1>4, <1>5, <1>6, <1>7, <1>8, <1>9, <1>10, <1>11 DEF Step

\* No unit of a semaphore is lost or given twice, and nobody waits at a positive value.
THEOREM UnitsKept == Spec => []SemUnits
<1>1. Init => Units
  <2> SUFFICES ASSUME Init PROVE Units
    OBVIOUS
  <2>1. value = [s \in Sem |-> SemStart] /\ granted = value /\ on = [t \in Thread |-> "no"]
        /\ waiting = [o \in Object |-> <<>>]
    BY DEF Init
  <2>2. \A s \in Sem : Cardinality(Served(s)) = 0
    <3> TAKE s \in Sem
    <3>1. Served(s) = {}
      BY <2>1, NameAssumption DEF Served, Object
    <3> QED
      BY <3>1, FS_EmptySet
  <2> QED
    BY <2>1, <2>2, LimitAssumption DEF Units, SemUnits, Object
<1>2. Base /\ Units /\ [Next]_vars => Units'
  <2>1. CASE UNCHANGED vars
    BY <2>1, UnitsQuiet DEF vars, calls
  <2> QED
    BY <2>1, UnitsStep DEF Next
<1>3. Units => SemUnits
  BY DEF Units
<1> QED
  BY <1>1, <1>2, <1>3, BaseAlways, PTL DEF Spec

-----------------------------------------------------------------------------
(* The flags of an event *)

\* NoneMissed with the threads of the lists by name
Unmissed ==
    \A e \in Event : \A t \in Thread : Contains(waiting[e], t) => ~Satisfied(want[t], set[e])

\* nobody comes to wait, and no flag is set
LEMMA UnmissedFewer ==
    ASSUME Unmissed, \A e \in Event : set'[e] \subseteq set[e],
           \A e \in Event : \A t \in Thread : Contains(waiting'[e], t) => Contains(waiting[e], t) /\ want'[t] = want[t]
    PROVE  Unmissed'
BY FewerFlags DEF Unmissed

\* the lists of the events and the flags stay
LEMMA UnmissedElsewhere ==
    ASSUME Base, Unmissed, NEW o \in Sem \cup Mutex, NEW l,
           waiting' = [waiting EXCEPT ![o] = l] \/ waiting' = waiting, UNCHANGED <<want, set>>
    PROVE  Unmissed'
<1>1. \A e \in Event : waiting'[e] = waiting[e]
  BY NameAssumption DEF Base, TypeOK, Object
<1> QED
  BY <1>1 DEF Unmissed

LEMMA UnmissedCame ==
    ASSUME Unmissed, NEW ts, Came(ts), UNCHANGED <<want, set>>
    PROVE  Unmissed'
<1>1. \A e \in Event : \A t \in Thread : Contains(waiting'[e], t) => Contains(waiting[e], t)
  BY DEF Came, Object
<1> QED
  BY <1>1, UnmissedFewer

LEMMA UnmissedSend ==
    ASSUME Base, Unmissed, NEW c, NEW e \in Event, NEW flags, flags \subseteq Flag, EventSend(c, e, flags)
    PROVE  Unmissed'
<1>p. PICK walk : walk = Walk(e, set[e] \cup flags)
  OBVIOUS
<1>1. /\ waiting' = [waiting EXCEPT ![e] = walk.left] /\ set' = [set EXCEPT ![e] = walk.flags]
      /\ Walked(waiting[e], Len(waiting[e]), set[e] \cup flags, walk)
  BY <1>p, EventSendStep
<1>w. want' = want
  BY DEF EventSend
<1>2. waiting \in [Object -> Seq(Thread)] /\ set \in [Event -> SUBSET Flag] /\ Event \subseteq Object
  BY DEF Base, TypeOK, Object
<1>3. \A t \in Thread : Contains(waiting'[e], t) => ~Satisfied(want'[t], set'[e])
  BY <1>1, <1>2, <1>w DEF Walked
<1>4. \A f \in Event \ {e} : waiting'[f] = waiting[f] /\ set'[f] = set[f]
  BY <1>1, <1>2
<1> QED
  BY <1>w, <1>3, <1>4 DEF Unmissed

LEMMA UnmissedRecv ==
    ASSUME Base, Unmissed, NEW t, NEW e \in Event, NEW w \in Requests, NEW wait, EventRecv(t, e, w, wait)
    PROVE  Unmissed'
<1>1. waiting \in [Object -> Seq(Thread)] /\ set \in [Event -> SUBSET Flag] /\ Event \subseteq Object
      /\ want \in [Thread -> Requests \cup {NoRequest}]
  BY DEF Base, TypeOK, Object
<1>2. CASE FlagsGot(e, w)
  <2>1. \A f \in Event : set'[f] \subseteq set[f]
    BY <1>1, <1>2 DEF FlagsGot, Left
  <2>2. waiting' = waiting /\ want' = want
    BY <1>2 DEF FlagsGot, calls
  <2> QED
    BY <2>1, <2>2, UnmissedFewer
<1>3. CASE FlagsAwaited(t, e, w)
  <2>0. /\ ~Satisfied(w, set[e]) /\ set' = set /\ want' = [want EXCEPT ![t] = w]
        /\ Went(t) /\ on' = [on EXCEPT ![t] = e] /\ waiting' = [waiting EXCEPT ![e] = waiting'[e]]
    BY <1>3 DEF FlagsAwaited
  <2>1. t \in Thread /\ t \in Ready(rq) /\ on'[t] = e /\ e # "sleep"
    BY <1>1, <2>0, NameAssumption DEF Went, Ready, Base, TypeOK
  <2>2. \A u \in Thread : Contains(waiting'[e], u) <=> u = t \/ Contains(waiting[e], u)
    BY <2>0, <2>1 DEF Went
  <2>3. \A f \in Event \ {e} : waiting'[f] = waiting[f]
    BY <1>1, <2>0
  <2>4. \A f \in Event : ~Contains(waiting[f], t)
    BY <1>1, <2>1 DEF Base, Listed
  <2>5. want'[t] = w /\ \A u \in Thread \ {t} : want'[u] = want[u]
    BY <1>1, <2>0, <2>1
  <2>6. \A u \in Thread : Contains(waiting'[e], u) => ~Satisfied(want'[u], set'[e])
    BY <2>0, <2>2, <2>4, <2>5 DEF Unmissed
  <2>7. \A f \in Event \ {e} : \A u \in Thread : Contains(waiting'[f], u) => ~Satisfied(want'[u], set'[f])
    BY <2>0, <2>3, <2>4, <2>5 DEF Unmissed
  <2> QED
    BY <2>6, <2>7 DEF Unmissed
<1> QED
  BY <1>2, <1>3, EventRecvStep

LEMMA UnmissedReset ==
    ASSUME Base, Unmissed, NEW t, NEW e \in Event, EventReset(t, e)
    PROVE  Unmissed'
<1>1. waiting' = [waiting EXCEPT ![e] = <<>>] /\ set' = [set EXCEPT ![e] = {}] /\ want' = want
  BY EventResetStep DEF EventReset
<1>2. waiting \in [Object -> Seq(Thread)] /\ set \in [Event -> SUBSET Flag] /\ Event \subseteq Object
  BY DEF Base, TypeOK, Object
<1>3. \A x : ~Contains(<<>>, x)
  BY DEF Contains
<1>4. \A f \in Event : set'[f] \subseteq set[f] /\ \A u \in Thread : Contains(waiting'[f], u) => Contains(waiting[f], u)
  BY <1>1, <1>2, <1>3
<1> QED
  BY <1>1, <1>4, UnmissedFewer

LEMMA UnmissedStep ==
    ASSUME Base, Unmissed, Step
    PROVE  Unmissed'
<1>u. ASSUME UNCHANGED <<waiting, want, set>> PROVE Unmissed'
  BY <1>u DEF Unmissed
<1>1. ASSUME NEW t, Reschedule(t) /\ Settled /\ Unsynced PROVE Unmissed'
  BY <1>1, <1>u DEF Unsynced, calls
<1>2. ASSUME NEW t, (EnterCritical(t) \/ ExitCritical(t)) /\ UNCHANGED demoted /\ Unsynced PROVE Unmissed'
  BY <1>2, <1>u DEF Unsynced, calls
<1>3. ASSUME NEW t, Sleep(t) PROVE Unmissed'
  BY <1>3, <1>u DEF Sleep
<1>4. ASSUME NEW t \in Thread, Expire(t) PROVE Unmissed'
  BY <1>4, ExpireStep, UnmissedCame DEF Expire
<1>5. ASSUME NEW t, Return(t) PROVE Unmissed'
  <2>1. t \in Thread /\ \A o \in Object : ~Contains(waiting[o], t)
    BY <1>5, Caller DEF Base, Return
  <2>2. want' = [want EXCEPT ![t] = NoRequest] /\ waiting' = waiting /\ set' = set
    BY <1>5 DEF Return
  <2>3. \A u \in Thread \ {t} : want'[u] = want[u]
    BY <2>1, <2>2 DEF Base, TypeOK
  <2> QED
    BY <2>1, <2>2, <2>3, UnmissedFewer DEF Object
<1>6. ASSUME NEW t \in Thread, NEW s \in Sem, NEW wait, SemTake(t, s, wait) PROVE Unmissed'
  <2>1. UNCHANGED <<want, set>>
    BY <1>6 DEF SemTake, calls
  <2>2. waiting' = [waiting EXCEPT ![s] = waiting'[s]] \/ waiting' = waiting
    BY <1>6, SemTakeStep DEF calls
  <2> QED
    BY <2>1, <2>2, UnmissedElsewhere
<1>7. ASSUME NEW t \in Thread, NEW s \in Sem, NEW v \in 0 .. SemMax, SemReset(t, s, v) PROVE Unmissed'
  BY <1>7, SemResetStep, UnmissedElsewhere DEF SemReset
<1>8. ASSUME NEW t \in Thread, NEW m \in Mutex, MutexRelease(t, m) PROVE Unmissed'
  <2>1. UNCHANGED <<want, set>>
    BY <1>8 DEF MutexRelease
  <2>2. waiting' = [waiting EXCEPT ![m] = Tail(waiting[m])] \/ waiting' = waiting
    BY <1>8, MutexReleaseStep DEF MutexLess, MutexHanded, MutexFreed, Kept, calls
  <2> QED
    BY <2>1, <2>2, UnmissedElsewhere
<1>9. ASSUME NEW t \in Thread, NEW m \in Mutex, NEW wait, MutexTake(t, m, wait) PROVE Unmissed'
  <2>1. UNCHANGED <<want, set>>
    BY <1>9 DEF MutexTake, calls
  <2>2. waiting' = [waiting EXCEPT ![m] = waiting'[m]] \/ waiting' = waiting
    BY <1>9, MutexTakeStep DEF MutexAgain, MutexGot, MutexAwaited, calls
  <2> QED
    BY <2>1, <2>2, UnmissedElsewhere
<1>10. ASSUME NEW t \in Thread, NEW e \in Event,
              (\E w \in Requests, wait \in Waits : EventRecv(t, e, w, wait)) \/ EventReset(t, e)
       PROVE  Unmissed'
  BY <1>10, UnmissedRecv, UnmissedReset
<1>11. ASSUME Yield /\ Settled /\ Unsynced PROVE Unmissed'
  BY <1>11, <1>u DEF Unsynced, calls
<1>12. ASSUME NEW c, NEW s \in Sem, SemRelease(c, s) PROVE Unmissed'
  <2>1. UNCHANGED <<want, set>>
    BY <1>12 DEF SemRelease
  <2>2. waiting' = [waiting EXCEPT ![s] = Tail(waiting[s])] \/ waiting' = waiting
    BY <1>12, SemReleaseStep DEF calls
  <2> QED
    BY <2>1, <2>2, UnmissedElsewhere
<1>13. ASSUME NEW c, NEW e \in Event, NEW flags \in SUBSET Flag, EventSend(c, e, flags) PROVE Unmissed'
  BY <1>13, UnmissedSend
<1> QED
  BY <1>1, <1>2, <1>3, <1>4, <1>5, <1>6, <1>7, <1>8, <1>9, <1>10, <1>11, <1>12, <1>13 DEF Step

\* A thread never waits for flags that are set.
THEOREM FlagsKept == Spec => []NoneMissed
<1>1. Init => Unmissed
  BY DEF Init, Unmissed, Contains, Object
<1>2. Base /\ Unmissed /\ [Next]_vars => Unmissed'
  <2>1. CASE UNCHANGED vars
    BY <2>1 DEF vars, calls, Unmissed
  <2> QED
    BY <2>1, UnmissedStep DEF Next
<1>3. Base /\ Unmissed => NoneMissed
  <2> SUFFICES ASSUME Base, Unmissed, NEW e \in Event, NEW t \in ToSet(waiting[e]) PROVE ~Satisfied(want[t], set[e])
    BY DEF NoneMissed
  <2>1. waiting[e] \in Seq(Thread)
    BY DEF Base, TypeOK, Object
  <2>2. t \in Thread /\ Contains(waiting[e], t)
    BY <2>1 DEF ToSet, Contains
  <2> QED
    BY <2>2 DEF Unmissed
<1> QED
  BY <1>1, <1>2, <1>3, BaseAlways, PTL DEF Spec

-----------------------------------------------------------------------------
(* Priorities, and the steps that can change them *)

\* priorities and owners stay, and in the list of a mutex nobody is put or overtakes
Aside ==
    /\ UNCHANGED <<owner, original, held>> /\ rq'.prio = rq.prio
    /\ \A m \in Mutex : InOrder(waiting'[m], waiting[m])
    /\ \A m \in Mutex : \A t \in Thread : Contains(waiting'[m], t) => Contains(waiting[m], t)

\* t has given m away
MutexLost(t, m) == t \in Ready(rq) /\ owner[m] = t /\ (Lifo => Last(held[t]) = m) /\ (MutexHanded(t, m) \/ MutexFreed(t, m))

LEMMA AsideSame ==
    ASSUME UNCHANGED <<owner, original, held>>, rq'.prio = rq.prio, \A m \in Mutex : waiting'[m] = waiting[m]
    PROVE  Aside
<1>1. \A l : InOrder(l, l)
  BY DEF InOrder
<1> QED
  BY <1>1 DEF Aside

LEMMA AsideElsewhere ==
    ASSUME Base, UNCHANGED <<owner, original, held>>, rq'.prio = rq.prio, NEW o \in Sem \cup Event, NEW l,
           waiting' = [waiting EXCEPT ![o] = l] \/ waiting' = waiting
    PROVE  Aside
<1>1. \A m \in Mutex : m # o /\ m \in Object
  BY NameAssumption DEF Object
<1>2. \A m \in Mutex : waiting'[m] = waiting[m]
  BY <1>1 DEF Base, TypeOK
<1> QED
  BY <1>2, AsideSame

LEMMA AsideStep ==
    ASSUME Base, Step
    PROVE  Aside \/ \E t \in Thread, m \in Mutex : MutexGot(t, m) \/ MutexAwaited(t, m) \/ MutexLost(t, m)
<1> DEFINE Inside == \E t \in Thread, m \in Mutex : MutexGot(t, m) \/ MutexAwaited(t, m) \/ MutexLost(t, m)
<1>b. TypeOK /\ Listed /\ Runner
  BY DEF Base
<1>1. ASSUME NEW t \in Thread, Reschedule(t) /\ Settled /\ Unsynced PROVE Aside
  BY <1>1, AsideSame DEF Reschedule, Unsynced, calls, mutexes
<1>2. ASSUME NEW t \in Thread, (EnterCritical(t) \/ ExitCritical(t)) /\ UNCHANGED demoted /\ Unsynced PROVE Aside
  BY <1>2, AsideSame DEF EnterCritical, ExitCritical, Unsynced, calls, mutexes
<1>3. ASSUME NEW t, Sleep(t) PROVE Aside
  BY <1>3, <1>b, SleepFacts, AsideSame DEF Sleep, mutexes
<1>4. ASSUME NEW t \in Thread, Expire(t) PROVE Aside
  <2>1. \A o \in Object : InOrder(waiting'[o], waiting[o])
    BY <1>4, <1>b, ExpireFacts
  <2>2. \A o \in Object : \A u \in Thread : Contains(waiting'[o], u) => Contains(waiting[o], u)
    BY <1>4, ExpireStep DEF Came
  <2>3. rq'.prio = rq.prio /\ UNCHANGED <<owner, original, held>>
    BY <1>4, <1>b, ExpireFacts DEF Expire, mutexes
  <2> QED
    BY <2>1, <2>2, <2>3 DEF Aside, Object
<1>5. ASSUME NEW t, Return(t) PROVE Aside
  BY <1>5, AsideSame DEF Return, sched, mutexes
<1>6. ASSUME NEW t \in Thread, NEW s \in Sem, NEW wait, SemTake(t, s, wait) PROVE Aside
  <2>1. UNCHANGED <<owner, original, held>>
    BY <1>6 DEF SemTake, mutexes
  <2>2. rq'.prio = rq.prio /\ (waiting' = [waiting EXCEPT ![s] = waiting'[s]] \/ waiting' = waiting)
    BY <1>6, SemTakeStep DEF calls, sched
  <2> QED
    BY <2>1, <2>2, AsideElsewhere
<1>7. ASSUME NEW t \in Thread, NEW s \in Sem, NEW v \in 0 .. SemMax, SemReset(t, s, v) PROVE Aside
  BY <1>7, SemResetStep, AsideElsewhere DEF SemReset, mutexes
<1>8. ASSUME NEW t \in Thread, NEW m \in Mutex, MutexRelease(t, m) PROVE Aside \/ Inside
  <2>1. MutexLess(t, m) => Aside
    BY AsideSame DEF MutexLess, sched, calls
  <2> QED
    BY <1>8, <2>1, MutexReleaseStep DEF MutexLost
<1>9. ASSUME NEW t \in Thread, NEW m \in Mutex, NEW wait, MutexTake(t, m, wait) PROVE Aside \/ Inside
  <2>1. MutexAgain(t, m) => Aside
    BY AsideSame DEF MutexAgain, sched, calls
  <2> QED
    BY <1>9, <2>1, MutexTakeStep
<1>10. ASSUME NEW t \in Thread, NEW e \in Event, NEW w \in Requests, NEW wait, EventRecv(t, e, w, wait) PROVE Aside
  <2>1. UNCHANGED <<owner, original, held>>
    BY <1>10 DEF EventRecv, mutexes
  <2>2. rq'.prio = rq.prio /\ (waiting' = [waiting EXCEPT ![e] = waiting'[e]] \/ waiting' = waiting)
    BY <1>10, EventRecvStep DEF FlagsGot, FlagsAwaited, calls, sched
  <2> QED
    BY <2>1, <2>2, AsideElsewhere
<1>11. ASSUME NEW t \in Thread, NEW e \in Event, EventReset(t, e) PROVE Aside
  BY <1>11, EventResetStep, AsideElsewhere DEF EventReset, mutexes
<1>12. ASSUME Yield /\ Settled /\ Unsynced PROVE Aside
  BY <1>12, ScheduleStep, AsideSame DEF Unsynced, calls, mutexes
<1>13. ASSUME NEW c, NEW s \in Sem, SemRelease(c, s) PROVE Aside
  <2>1. UNCHANGED <<owner, original, held>>
    BY <1>13 DEF SemRelease, mutexes
  <2>2. rq'.prio = rq.prio /\ (waiting' = [waiting EXCEPT ![s] = Tail(waiting[s])] \/ waiting' = waiting)
    BY <1>13, SemReleaseStep DEF calls, sched
  <2> QED
    BY <2>1, <2>2, AsideElsewhere
<1>14. ASSUME NEW c, NEW e \in Event, NEW flags \in SUBSET Flag, EventSend(c, e, flags) PROVE Aside
  <2>1. UNCHANGED <<owner, original, held>>
    BY <1>14 DEF EventSend, mutexes
  <2>p. PICK walk : walk = Walk(e, set[e] \cup flags)
    OBVIOUS
  <2>2. waiting' = [waiting EXCEPT ![e] = walk.left] /\ rq'.prio = rq.prio
    BY <1>14, <2>p, EventSendStep
  <2> QED
    BY <2>1, <2>2, AsideElsewhere
<1> HIDE DEF Inside
<1>15. Aside \/ Inside
  BY <1>1, <1>2, <1>3, <1>4, <1>5, <1>6, <1>7, <1>8, <1>9, <1>10, <1>11, <1>12, <1>13, <1>14 DEF Step
<1> QED
  BY <1>15 DEF Inside

LEMMA AppendFirst ==
    ASSUME NEW S, NEW l \in Seq(S), NEW x \in S
    PROVE  /\ Append(l, x) # <<>> /\ Len(Append(l, x)) = Len(l) + 1
           /\ Append(l, x)[1] = IF l = <<>> THEN x ELSE l[1]
<1>1. Append(l, x) # <<>> /\ Len(Append(l, x)) = Len(l) + 1
  BY AppendList DEF Appended
<1>2. l = <<>> => Append(l, x)[1] = x
  OBVIOUS
<1>3. l # <<>> => 1 \in 1 .. Len(l)
  OBVIOUS
<1>4. \A i \in 1 .. Len(l) : Append(l, x)[i] = l[i]
  OBVIOUS
<1> QED
  BY <1>1, <1>2, <1>3, <1>4

\* a list loses its last member
LEMMA UnlinkLast ==
    ASSUME NEW S, NEW l \in Seq(S), Once(l), l # <<>>
    PROVE  LET r == Unlink(l, Last(l))
           IN  IF r = <<>> THEN l[1] = Last(l) ELSE r[1] = l[1] /\ l[1] # Last(l)
<1>p. PICK x, r : x = Last(l) /\ r = Unlink(l, x)
  OBVIOUS
<1> SUFFICES IF r = <<>> THEN l[1] = x ELSE r[1] = l[1] /\ l[1] # x
  BY <1>p
<1>1. Len(l) \in Nat /\ Len(l) >= 1 /\ x = l[Len(l)]
  BY <1>p DEF Last
<1>2. Contains(l, x)
  BY <1>1 DEF Contains
<1>3. r = [i \in 1 .. Len(l) - 1 |-> IF \E k \in 1 .. i : l[k] = x THEN l[i + 1] ELSE l[i]]
  BY <1>2, <1>p DEF Unlink
<1>4. CASE Len(l) = 1
  <2>1. l[1] = x /\ \A y : ~(y # x /\ Contains(l, y))
    BY <1>1, <1>4 DEF Contains
  <2>2. r = <<>>
    BY <1>p, <2>1, UnlinkList, EmptyList
  <2> QED
    BY <2>1, <2>2
<1>5. CASE Len(l) > 1
  <2>1. l[1] # x
    BY <1>1, <1>5 DEF Once
  <2>2. r[1] = l[1] /\ DOMAIN r = 1 .. Len(l) - 1
    BY <1>1, <1>3, <1>5, <2>1
  <2>3. r # <<>>
    BY <1>1, <1>5, <2>2
  <2>4. r[1] = l[1]
    BY <2>2
  <2> QED
    BY ONLY <2>1, <2>3, <2>4
<1>6. PICK k \in Nat : k = Len(l) /\ k >= 1
  BY <1>1
<1>7. k = 1 \/ k > 1
  BY ONLY <1>6
<1> QED
  BY <1>4, <1>5, <1>6, <1>7

\* the first mutex of a thread is its own
LEMMA FirstHeld ==
    ASSUME Base, NEW t \in Thread
    PROVE  /\ held[t] \in Seq(Mutex) /\ Once(held[t])
           /\ held[t] # <<>> => held[t][1] \in Mutex /\ owner[held[t][1]] = t
<1>1. held[t] \in Seq(Mutex) /\ Once(held[t]) /\ \A m \in Mutex : Contains(held[t], m) <=> owner[m] = t
  BY DEF Base, TypeOK, Owned
<1>2. ASSUME held[t] # <<>> PROVE held[t][1] \in Mutex /\ Contains(held[t], held[t][1])
  <2>1. Len(held[t]) \in Nat /\ Len(held[t]) >= 1
    BY <1>1, <1>2
  <2> QED
    BY <1>1, <2>1 DEF Contains
<1> QED
  BY <1>1, <1>2


LEMMA RestorableGot ==
    ASSUME Base, Restorable, NEW t \in Thread, NEW m \in Mutex, MutexGot(t, m)
    PROVE  Restorable'
<1>1. /\ owner[m] = None /\ held \in [Thread -> Seq(Mutex)] /\ original \in [Mutex -> Prio \cup {NoPrio}]
      /\ \A u \in Thread : u # None
  BY NameAssumption DEF Base, TypeOK, MutexGot
<1>2. original'[m] = rq.prio[t] /\ \A x \in Mutex \ {m} : original'[x] = original[x]
  BY <1>1 DEF MutexGot
<1>3. held'[t] = Append(held[t], m) /\ \A u \in Thread \ {t} : held'[u] = held[u]
  BY <1>1 DEF MutexGot
<1>4. rq' = rq
  BY DEF MutexGot, sched
<1>5. ASSUME NEW u \in Thread
      PROVE  IF held'[u] = <<>> THEN rq'.prio[u] = InitPrio[u] ELSE original'[held'[u][1]] = InitPrio[u]
  <2>1. IF held[u] = <<>> THEN rq.prio[u] = InitPrio[u] ELSE original[held[u][1]] = InitPrio[u]
    BY DEF Restorable
  <2>2. held[u] # <<>> => held[u][1] \in Mutex \ {m}
    BY <1>1, FirstHeld
  <2>3. CASE u = t
    <3>1. held'[u] # <<>> /\ held'[u][1] = IF held[u] = <<>> THEN m ELSE held[u][1]
      BY <1>1, <1>3, <2>3, AppendFirst
    <3> QED
      BY <1>2, <2>1, <2>2, <2>3, <3>1
  <2>4. CASE u # t
    BY <1>2, <1>3, <1>4, <2>1, <2>2, <2>4
  <2> QED
    BY <2>3, <2>4
<1> QED
  BY <1>5 DEF Restorable

LEMMA RestorableAwaited ==
    ASSUME Base, Restorable, NEW t \in Thread, NEW m \in Mutex, MutexAwaited(t, m)
    PROVE  Restorable'
<1>1. owner[m] \in Thread /\ held' = held /\ original' = original /\ QueueOK(rq)
  BY DEF Base, Listed, MutexAwaited, mutexes
<1>2. held[owner[m]] # <<>>
  BY <1>1 DEF Base, Owned, Contains
<1>p. PICK q : q = Inheriting(t, m)
  OBVIOUS
<1>3. rq'.prio = q.prio /\ \A u \in Thread \ {owner[m]} : q.prio[u] = rq.prio[u]
  BY <1>1, <1>p, InheritingFacts DEF MutexAwaited
<1> QED
  BY <1>1, <1>2, <1>3 DEF Restorable

\* t has given m away, and q says with which priorities
LEMMA LostFacts ==
    ASSUME Base, NEW t \in Thread, NEW m \in Mutex, owner[m] = t, Last(held[t]) = m
    PROVE  LET r == Unlink(held[t], m)
           IN  IF r = <<>> THEN held[t] # <<>> /\ held[t][1] = m
               ELSE held[t] # <<>> /\ r[1] = held[t][1] /\ held[t][1] # m
<1>1. held[t] \in Seq(Mutex) /\ Once(held[t])
  BY FirstHeld
<1>2. held[t] # <<>>
  BY DEF Base, Owned, Contains
<1> QED
  BY <1>1, <1>2, UnlinkLast

LEMMA RestorableLost ==
    ASSUME Lifo, Base, Restorable, NEW t \in Thread, NEW m \in Mutex, MutexLost(t, m)
    PROVE  Restorable'
<1>1. /\ owner[m] = t /\ held \in [Thread -> Seq(Mutex)] /\ original \in [Mutex -> Prio \cup {NoPrio}]
      /\ rq.prio \in [Thread -> Prio]
  BY DEF Base, TypeOK, MutexLost
<1>p. PICK r : r = Unlink(held[t], m)
  OBVIOUS
<1>2. IF r = <<>> THEN held[t] # <<>> /\ held[t][1] = m
      ELSE held[t] # <<>> /\ r[1] = held[t][1] /\ held[t][1] # m
  BY <1>1, <1>p, LostFacts DEF MutexLost
<1>3. \A u \in Thread : IF held[u] = <<>> THEN rq.prio[u] = InitPrio[u] ELSE original[held[u][1]] = InitPrio[u]
  BY DEF Restorable
<1>4. \A u \in Thread \ {t} : held[u] # <<>> => held[u][1] \in Mutex \ {m}
  BY <1>1, FirstHeld
<1>5. held[t] # <<>> => held[t][1] \in Mutex
  BY FirstHeld
<1>6. rq'.prio = [rq.prio EXCEPT ![t] = original[m]]
  BY DEF MutexLost, MutexHanded, MutexFreed
<1>7. CASE MutexHanded(t, m)
  <2>p. PICK n : n = Head(waiting[m])
    OBVIOUS
  <2>1. /\ n \in Thread \ {t} /\ original' = [original EXCEPT ![m] = rq.prio[n]]
        /\ held' = [held EXCEPT ![t] = r, ![n] = Append(@, m)]
    BY <1>7, <1>p, <2>p DEF MutexHanded
  <2>2. /\ held'[t] = r /\ held'[n] = Append(held[n], m) /\ \A u \in Thread \ {t, n} : held'[u] = held[u]
    BY <1>1, <2>1
  <2>3. original'[m] = rq.prio[n] /\ \A x \in Mutex \ {m} : original'[x] = original[x]
    BY <1>1, <2>1
  <2>4. held'[n] # <<>> /\ held'[n][1] = IF held[n] = <<>> THEN m ELSE held[n][1]
    BY <1>1, <2>1, <2>2, AppendFirst
  <2>5. ASSUME NEW u \in Thread
        PROVE  IF held'[u] = <<>> THEN rq'.prio[u] = InitPrio[u] ELSE original'[held'[u][1]] = InitPrio[u]
    <3>1. CASE u = t
      BY <1>1, <1>2, <1>3, <1>5, <1>6, <2>2, <2>3, <3>1
    <3>2. CASE u = n
      BY <1>3, <1>4, <2>1, <2>3, <2>4, <3>2
    <3>3. CASE u \in Thread \ {t, n}
      BY <1>1, <1>3, <1>4, <1>6, <2>2, <2>3, <3>3
    <3> QED
      BY <3>1, <3>2, <3>3
  <2> QED
    BY <2>5 DEF Restorable
<1>8. CASE MutexFreed(t, m)
  <2>1. original' = [original EXCEPT ![m] = NoPrio] /\ held' = [held EXCEPT ![t] = r]
    BY <1>8, <1>p DEF MutexFreed
  <2>2. held'[t] = r /\ \A u \in Thread \ {t} : held'[u] = held[u]
    BY <1>1, <2>1
  <2>3. \A x \in Mutex \ {m} : original'[x] = original[x]
    BY <1>1, <2>1
  <2>4. ASSUME NEW u \in Thread
        PROVE  IF held'[u] = <<>> THEN rq'.prio[u] = InitPrio[u] ELSE original'[held'[u][1]] = InitPrio[u]
    <3>1. CASE u = t
      BY <1>1, <1>2, <1>3, <1>5, <1>6, <2>2, <2>3, <3>1
    <3>2. CASE u # t
      BY <1>1, <1>3, <1>4, <1>6, <2>2, <2>3, <3>2
    <3> QED
      BY <3>1, <3>2
  <2> QED
    BY <2>4 DEF Restorable
<1> QED
  BY <1>7, <1>8 DEF MutexLost

\* Who owns no mutex has the priority it was created with, provided threads release their
\* mutexes in the reverse order of their acquisition.
THEOREM PriorityGivenBack == ASSUME Lifo PROVE Spec => []PriorityRestored
<1>1. Init => Restorable
  BY DEF Init, InitSched, Restorable
<1>2. Base /\ Restorable /\ [Next]_vars => Restorable'
  <2> SUFFICES ASSUME Base, Restorable, [Next]_vars PROVE Restorable'
    OBVIOUS
  <2>1. CASE UNCHANGED vars
    BY <2>1 DEF vars, sched, mutexes, Restorable
  <2>2. CASE Aside
    BY <2>2 DEF Aside, Restorable
  <2> QED
    BY <2>1, <2>2, AsideStep, RestorableGot, RestorableAwaited, RestorableLost DEF Next
<1>3. Restorable => PriorityRestored
  BY DEF Restorable, PriorityRestored
<1> QED
  BY <1>1, <1>2, <1>3, BaseAlways, PTL DEF Spec

-----------------------------------------------------------------------------
(* Priority inheritance *)

LEMMA PrioTypes ==
    ASSUME Base
    PROVE  /\ \A t \in Thread : rq.prio[t] \in Nat
           /\ \A m \in Mutex : waiting[m] \in Seq(Thread) /\ m \in Object
  BY PrioAssumption DEF Base, TypeOK, Prio, Object

LEMMA PrioFunction ==
    ASSUME Base
    PROVE  rq.prio \in [Thread -> Nat]
<1>1. rq.prio \in [Thread -> Prio]
  BY DEF Base, TypeOK
<1>2. Prio \subseteq Nat
  BY PrioAssumption DEF Prio
<1> QED
  BY <1>1, <1>2

LEMMA PrioTypesNext ==
    ASSUME Base'
    PROVE  \A t \in Thread : rq'.prio[t] \in Nat
<1>1. rq'.prio \in [Thread -> 0 .. Lowest]
  BY DEF Base, TypeOK, Prio
<1> QED
  BY <1>1, PrioAssumption

\* the order of the waiters lasts while they keep their places among each other
LEMMA OrderedKept ==
    ASSUME Base, Base', Ordered, \A m \in Mutex : InOrder(waiting'[m], waiting[m]),
           \A m \in Mutex : \A w \in Thread :
              Contains(waiting[m], w) /\ held'[w] = <<>> => held[w] = <<>> /\ rq'.prio[w] = rq.prio[w],
           \A m \in Mutex : \A w \in Thread : Contains(waiting[m], w) => rq'.prio[w] <= rq.prio[w]
    PROVE  Ordered'
<1> SUFFICES ASSUME NEW m \in Mutex \ Fifo, NEW i \in 1 .. Len(waiting'[m]), NEW j \in 1 .. Len(waiting'[m]),
                    i < j, held'[waiting'[m][j]] = <<>>
             PROVE  rq'.prio[waiting'[m][i]] <= rq'.prio[waiting'[m][j]]
  BY DEF Ordered
<1>1. PICK a, b \in 1 .. Len(waiting[m]) : a < b /\ waiting[m][a] = waiting'[m][i] /\ waiting[m][b] = waiting'[m][j]
  BY DEF InOrder
<1>p. PICK u, w : u = waiting[m][a] /\ w = waiting[m][b]
  OBVIOUS
<1>2. u \in Thread /\ w \in Thread /\ rq.prio[u] \in Nat /\ rq.prio[w] \in Nat
  BY <1>p, PrioTypes
<1>3. Contains(waiting[m], u) /\ Contains(waiting[m], w)
  BY <1>p DEF Contains
<1>4. rq'.prio[u] \in Nat /\ rq'.prio[w] \in Nat
  BY <1>2, PrioTypesNext
<1>5. held[w] = <<>> /\ rq'.prio[w] = rq.prio[w] /\ rq'.prio[u] <= rq.prio[u]
  BY <1>1, <1>2, <1>3, <1>p
<1>6. rq.prio[u] <= rq.prio[w]
  BY <1>1, <1>5, <1>p DEF Ordered
<1>7. rq'.prio[u] <= rq'.prio[w]
  BY <1>2, <1>4, <1>5, <1>6
<1>8. u = waiting'[m][i] /\ w = waiting'[m][j]
  BY <1>1, <1>p
<1> QED
  BY ONLY <1>7, <1>8

\* the place in which a thread is put keeps the order
LEMMA OrderedInsert ==
    ASSUME NEW l \in Seq(Thread), NEW prio \in [Thread -> Nat], NEW t \in Thread, NEW i \in 1 .. Len(l) + 1, NEW r,
           NEW H, Inserted(l, i, t, r), i <= Len(l) => prio[t] < prio[l[i]],
           \A k \in 1 .. i - 1 : prio[l[k]] <= prio[t],
           \A a, b \in 1 .. Len(l) : a < b /\ l[b] \in H => prio[l[a]] <= prio[l[b]]
    PROVE  \A a, b \in 1 .. Len(r) : a < b /\ r[b] \in H => prio[r[a]] <= prio[r[b]]
<1>1. PICK n \in Nat : n = Len(l)
  OBVIOUS
<1>2. /\ Len(r) = n + 1 /\ i \in Nat
      /\ \A k \in 1 .. n + 1 : r[k] = IF k < i THEN l[k] ELSE IF k = i THEN t ELSE l[k - 1]
  BY <1>1 DEF Inserted
<1>3. \A k \in 1 .. n : l[k] \in Thread /\ prio[l[k]] \in Nat
  BY <1>1
<1>4. prio[t] \in Nat
  OBVIOUS
<1> SUFFICES ASSUME NEW a \in 1 .. n + 1, NEW b \in 1 .. n + 1, a < b, r[b] \in H
             PROVE  prio[r[a]] <= prio[r[b]]
  BY <1>2
<1>5. CASE b < i
  <2>1. r[a] = l[a] /\ r[b] = l[b] /\ a \in 1 .. n /\ b \in 1 .. n
    BY <1>1, <1>2, <1>5
  <2> QED
    BY <1>1, <2>1
<1>6. CASE b = i
  <2>1. r[a] = l[a] /\ r[b] = t /\ a \in 1 .. i - 1
    BY <1>2, <1>6
  <2> QED
    BY <2>1
<1>7. CASE a < i /\ i < b
  <2>1. r[a] = l[a] /\ r[b] = l[b - 1] /\ a \in 1 .. n /\ b - 1 \in 1 .. n /\ a < b - 1
    BY <1>1, <1>2, <1>7
  <2> QED
    BY <1>1, <2>1
<1>8. CASE a = i
  <2>1. r[a] = t /\ r[b] = l[b - 1] /\ i \in 1 .. n /\ b - 1 \in 1 .. n /\ i <= b - 1
    BY <1>1, <1>2, <1>8
  <2>2. prio[t] < prio[l[i]] /\ prio[l[i]] \in Nat /\ prio[l[b - 1]] \in Nat
    BY <1>1, <1>3, <2>1
  <2>3. prio[l[i]] <= prio[l[b - 1]]
    <3>1. CASE i = b - 1
      BY <2>2, <3>1
    <3>2. CASE i < b - 1
      BY <1>1, <2>1, <3>2
    <3> QED
      BY <2>1, <3>1, <3>2
  <2> QED
    BY <1>4, <2>1, <2>2, <2>3
<1>9. CASE a > i
  <2>1. r[a] = l[a - 1] /\ r[b] = l[b - 1] /\ a - 1 \in 1 .. n /\ b - 1 \in 1 .. n /\ a - 1 < b - 1
    BY <1>1, <1>2, <1>9
  <2> QED
    BY <1>1, <2>1
<1> QED
  BY <1>2, <1>5, <1>6, <1>7, <1>8, <1>9

\* who owns two mutexes is in nested
LEMMA TwoHeld ==
    ASSUME Base, NEW t \in Thread, NEW m \in Mutex, NEW x \in Mutex \ {m}, owner[m] = t, owner[x] = t
    PROVE  Len(held[t]) > 1
<1>1. held[t] \in Seq(Mutex) /\ Contains(held[t], m) /\ Contains(held[t], x)
  BY DEF Base, TypeOK, Owned
<1>2. PICK i, j \in 1 .. Len(held[t]) : held[t][i] = m /\ held[t][j] = x
  BY <1>1 DEF Contains
<1>3. Len(held[t]) \in Nat /\ i # j
  BY <1>1, <1>2
<1> QED
  BY <1>3

\* the owner of a mutex that somebody waits for
LEMMA WaitedFor ==
    ASSUME Base, NEW m \in Mutex, NEW w \in Thread, Contains(waiting[m], w)
    PROVE  owner[m] \in Thread /\ held[owner[m]] # <<>> /\ on[w] = m /\ w \notin Ready(rq)
<1>1. waiting[m] # <<>> /\ m \in Object
  BY DEF Contains, Object
<1>2. owner[m] \in Thread
  BY <1>1 DEF Base, TypeOK, Owned
<1>3. Contains(held[owner[m]], m)
  BY <1>2 DEF Base, Owned
<1> QED
  BY <1>1, <1>2, <1>3 DEF Base, Listed, Contains

\* a mutex that stays with its owner
LEMMA InheritedAt ==
    ASSUME Base, Base', Inherited, nested' = Nested, NEW x \in Mutex \ Fifo, NEW w \in Thread,
           Contains(waiting[x], w), held[w] = <<>>, owner'[x] = owner[x], owner[x] \notin nested',
           Len(held[owner[x]]) <= 1 => rq'.prio[owner[x]] <= rq.prio[owner[x]], rq'.prio[w] = rq.prio[w]
    PROVE  rq'.prio[owner'[x]] <= rq'.prio[w]
<1>p. PICK o : o = owner[x]
  OBVIOUS
<1>1. o \in Thread /\ rq.prio[o] \in Nat /\ rq.prio[w] \in Nat /\ rq'.prio[o] \in Nat
  BY <1>p, WaitedFor, PrioTypes, PrioTypesNext
<1>2. held[o] \in Seq(Mutex) /\ Len(held[o]) \in Nat
  BY <1>1 DEF Base, TypeOK
<1>3. held'[o] # <<>>
  <2>1. Contains(held'[o], x)
    BY <1>1, <1>p DEF Base, Owned
  <2> QED
    BY <2>1 DEF Contains
<1>4. o \notin nested
  BY <1>1, <1>3, <1>p DEF Nested
<1>5. Len(held[o]) <= 1
  BY <1>1, <1>2, <1>4 DEF Inherited
<1>6. rq.prio[o] <= rq.prio[w]
  BY <1>4, <1>p DEF Inherited
<1>7. rq'.prio[o] <= rq.prio[o]
  BY <1>5, <1>p
<1> QED
  BY <1>1, <1>6, <1>7, <1>p

LEMMA NestedKept ==
    ASSUME Base', nested' = Nested
    PROVE  \A t \in Thread : Len(held'[t]) > 1 => t \in nested'
<1>1. \A t \in Thread : Len(held'[t]) > 1 => held'[t] # <<>>
  BY DEF Base, TypeOK
<1> QED
  BY <1>1 DEF Nested

LEMMA RankedAside ==
    ASSUME Base, Base', Ordered, Inherited, nested' = Nested, Aside
    PROVE  Ordered' /\ Inherited'
<1>1. /\ owner' = owner /\ held' = held /\ rq'.prio = rq.prio
      /\ \A m \in Mutex : InOrder(waiting'[m], waiting[m])
      /\ \A m \in Mutex : \A w \in Thread : Contains(waiting'[m], w) => Contains(waiting[m], w)
  BY DEF Aside
<1>2. \A w \in Thread : rq'.prio[w] = rq.prio[w] /\ rq'.prio[w] <= rq.prio[w]
  BY <1>1, PrioTypes
<1>3. Ordered'
  BY <1>1, <1>2, OrderedKept
<1>4. ASSUME NEW x \in Mutex \ Fifo, NEW w \in Thread,
             Contains(waiting'[x], w), held'[w] = <<>>, owner'[x] \notin nested'
      PROVE  rq'.prio[owner'[x]] <= rq'.prio[w]
  <2>1. Contains(waiting[x], w) /\ held[w] = <<>> /\ owner'[x] = owner[x]
    BY <1>1, <1>4
  <2>2. owner[x] \in Thread
    BY <2>1, WaitedFor
  <2> QED
    BY <1>2, <1>4, <2>1, <2>2, InheritedAt
<1>5. Inherited'
  BY <1>4, NestedKept DEF Inherited
<1> QED
  BY <1>3, <1>5

LEMMA RankedGot ==
    ASSUME Base, Base', Ordered, Inherited, nested' = Nested, NEW t \in Thread, NEW m \in Mutex, MutexGot(t, m)
    PROVE  Ordered' /\ Inherited'
<1>1. /\ owner[m] = None /\ owner \in [Mutex -> Thread \cup {None}] /\ held \in [Thread -> Seq(Mutex)]
      /\ rq' = rq /\ waiting' = waiting
  BY DEF Base, TypeOK, MutexGot, sched, calls
<1>2. \A x \in Mutex \ {m} : owner'[x] = owner[x]
  BY <1>1 DEF MutexGot
<1>3. \A w \in Thread : held'[w] = <<>> => held[w] = <<>>
  <2>1. held'[t] = Append(held[t], m) /\ \A u \in Thread \ {t} : held'[u] = held[u]
    BY <1>1 DEF MutexGot
  <2>2. held'[t] # <<>>
    BY <1>1, <2>1, AppendFirst
  <2> QED
    BY <2>1, <2>2
<1>4. \A w \in Thread : rq'.prio[w] = rq.prio[w] /\ rq'.prio[w] <= rq.prio[w]
  BY <1>1, PrioTypes
<1>5. Ordered'
  <2>1. \A x \in Mutex : InOrder(waiting'[x], waiting[x])
    BY <1>1 DEF InOrder
  <2> QED
    BY <1>3, <1>4, <2>1, OrderedKept
<1>6. ASSUME NEW x \in Mutex \ Fifo, NEW w \in Thread,
             Contains(waiting'[x], w), held'[w] = <<>>, owner'[x] \notin nested'
      PROVE  rq'.prio[owner'[x]] <= rq'.prio[w]
  <2>1. Contains(waiting[x], w) /\ held[w] = <<>>
    BY <1>1, <1>3, <1>6
  <2>2. owner[x] \in Thread /\ x # m
    BY <1>1, <2>1, WaitedFor, NameAssumption
  <2>3. owner'[x] = owner[x]
    BY <1>2, <2>2
  <2> QED
    BY <1>4, <1>6, <2>1, <2>2, <2>3, InheritedAt
<1>7. Inherited'
  BY <1>6, NestedKept DEF Inherited
<1> QED
  BY <1>5, <1>7

LEMMA RankedAwaited ==
    ASSUME Base, Base', Ordered, Inherited, nested' = Nested, NEW t \in Thread, NEW m \in Mutex, MutexAwaited(t, m)
    PROVE  Ordered' /\ Inherited'
<1>p. PICK q, o, l, r : q = Inheriting(t, m) /\ o = owner[m] /\ l = waiting[m] /\ r = waiting'[m]
  OBVIOUS
<1>1. /\ o \in Thread \ {t} /\ owner' = owner /\ held' = held /\ QueueOK(rq) /\ m \in Object
      /\ waiting \in [Object -> Seq(Thread)] /\ l \in Seq(Thread)
  BY <1>p DEF Base, TypeOK, Listed, MutexAwaited, mutexes, Object
<1>2. /\ QueueOK(q) /\ rq'.prio = q.prio /\ q.prio[o] <= rq.prio[t] /\ q.prio[o] <= rq.prio[o]
      /\ \A u \in Thread \ {o} : q.prio[u] = rq.prio[u]
  BY <1>1, <1>p, InheritingFacts DEF MutexAwaited
<1>3. PICK i \in Turn(l, m, t, q) :
        i \in 1 .. Len(l) + 1 /\ waiting' = [waiting EXCEPT ![m] = r] /\ Inserted(l, i, t, r)
  BY <1>p DEF MutexAwaited
<1>4. t \in Ready(rq) /\ held[o] # <<>>
  <2>1. Contains(held[o], m)
    BY <1>1, <1>p DEF Base, Owned
  <2> QED
    BY <2>1 DEF MutexAwaited, Went, Contains
<1>5. \A w \in Thread : rq'.prio[w] <= rq.prio[w] /\ (held[w] = <<>> => rq'.prio[w] = rq.prio[w])
  BY <1>1, <1>2, <1>4, PrioTypes
<1>6. \A x \in Mutex \ {m} : waiting'[x] = waiting[x]
  BY <1>1, <1>3 DEF Object
<1>t. rq.prio \in [Thread -> Nat] /\ q.prio \in [Thread -> Nat]
  <2>1. q.prio \in [Thread -> Prio]
    BY <1>2 DEF QueueOK, Queue
  <2>2. Prio \subseteq Nat
    BY PrioAssumption DEF Prio
  <2> QED
    BY <2>1, <2>2, PrioFunction
<1>7. ASSUME m \notin Fifo
      PROVE  \A a, b \in 1 .. Len(r) : a < b /\ held[r[b]] = <<>> => q.prio[r[a]] <= q.prio[r[b]]
  <2> DEFINE H == {u \in Thread : held[u] = <<>>}
  <2>1. ASSUME NEW a \in 1 .. Len(l), NEW b \in 1 .. Len(l), a < b, l[b] \in H
        PROVE  q.prio[l[a]] <= q.prio[l[b]]
    <3>p. PICK u, w : u = l[a] /\ w = l[b]
      OBVIOUS
    <3>1. u \in Thread /\ w \in Thread /\ held[w] = <<>>
      BY <1>1, <2>1, <3>p
    <3>2. rq.prio[u] <= rq.prio[w]
      BY <1>7, <1>p, <2>1, <3>1, <3>p DEF Ordered
    <3>3. q.prio[u] <= rq.prio[u] /\ q.prio[w] = rq.prio[w]
      BY <1>2, <1>5, <3>1
    <3> QED
      BY <1>t, <3>1, <3>2, <3>3, <3>p
  <2>2. /\ i <= Len(l) => q.prio[t] < q.prio[l[i]]
        /\ \A k \in 1 .. i - 1 : q.prio[l[k]] <= q.prio[t]
    BY <1>3, <1>7 DEF Turn
  <2> HIDE DEF H
  <2>3. \A a, b \in 1 .. Len(r) : a < b /\ r[b] \in H => q.prio[r[a]] <= q.prio[r[b]]
    BY <1>1, <1>3, <1>t, <2>1, <2>2, OrderedInsert
  <2>4. \A b \in 1 .. Len(r) : r[b] \in Thread
    BY <1>1, <1>p DEF Base, TypeOK
  <2> QED
    BY <2>3, <2>4 DEF H
<1>8. Ordered'
  <2> SUFFICES ASSUME NEW x \in Mutex \ Fifo, NEW a \in 1 .. Len(waiting'[x]), NEW b \in 1 .. Len(waiting'[x]),
                      a < b, held'[waiting'[x][b]] = <<>>
               PROVE  rq'.prio[waiting'[x][a]] <= rq'.prio[waiting'[x][b]]
    BY DEF Ordered
  <2>1. CASE x = m
    BY <1>1, <1>2, <1>7, <1>p, <2>1
  <2>2. CASE x # m
    <3>p. PICK u, w : u = waiting'[x][a] /\ w = waiting'[x][b]
      OBVIOUS
    <3>1. waiting'[x] = waiting[x] /\ waiting[x] \in Seq(Thread)
      BY <1>6, <2>2, PrioTypes
    <3>2. u \in Thread /\ w \in Thread /\ held[w] = <<>>
      BY <1>1, <3>1, <3>p
    <3>3. rq.prio[u] <= rq.prio[w]
      BY <3>1, <3>2, <3>p DEF Ordered
    <3>4. rq'.prio[u] <= rq.prio[u] /\ rq'.prio[w] = rq.prio[w] /\ rq'.prio[u] \in Nat
      BY <1>5, <3>2, PrioTypesNext
    <3> QED
      BY <1>t, <3>2, <3>3, <3>4, <3>p
  <2> QED
    BY <2>1, <2>2
<1>9. ASSUME NEW x \in Mutex \ Fifo, NEW w \in Thread,
             Contains(waiting'[x], w), held'[w] = <<>>, owner'[x] \notin nested'
      PROVE  rq'.prio[owner'[x]] <= rq'.prio[w]
  <2>1. CASE Contains(waiting[x], w)
    <3>1. held[w] = <<>> /\ owner'[x] = owner[x] /\ owner[x] \in Thread
      BY <1>1, <1>9, <2>1, WaitedFor
    <3> QED
      BY <1>5, <1>9, <2>1, <3>1, InheritedAt
  <2>2. CASE x = m /\ w = t
    <3>1. q.prio[o] <= rq.prio[t] /\ q.prio[t] = rq.prio[t]
      BY <1>1, <1>2
    <3> QED
      BY <1>1, <1>2, <1>p, <2>2, <3>1
  <2>3. Contains(waiting'[x], w) => Contains(waiting[x], w) \/ (x = m /\ w = t)
    BY <1>3, <1>6, <1>p DEF Inserted
  <2> QED
    BY <1>9, <2>1, <2>2, <2>3
<1>10. Inherited'
  BY <1>9, NestedKept DEF Inherited
<1> QED
  BY <1>8, <1>10

LEMMA RankedHanded ==
    ASSUME Base, Base', Ordered, Inherited, nested' = Nested, NEW t \in Thread, NEW m \in Mutex,
           t \in Ready(rq), owner[m] = t, MutexHanded(t, m)
    PROVE  Ordered' /\ Inherited'
<1>p. PICK n, l : n = Head(waiting[m]) /\ l = waiting[m]
  OBVIOUS
<1>1. /\ owner \in [Mutex -> Thread \cup {None}] /\ held \in [Thread -> Seq(Mutex)] /\ m \in Object
      /\ rq.prio \in [Thread -> Nat] /\ waiting \in [Object -> Seq(Thread)] /\ l \in Seq(Thread) /\ l # <<>>
  BY <1>p, PrioFunction DEF Base, TypeOK, MutexHanded, Object
<1>2. /\ n \in Thread \ {t} /\ Contains(l, n) /\ waiting' = [waiting EXCEPT ![m] = Tail(l)]
      /\ rq'.prio = [rq.prio EXCEPT ![t] = original[m]] /\ owner' = [owner EXCEPT ![m] = n]
      /\ held' = [held EXCEPT ![t] = Unlink(@, m), ![n] = Append(@, m)]
  BY <1>p DEF MutexHanded
<1>3. Once(l)
  BY <1>1, <1>p DEF Base, Listed
<1>4. /\ n = l[1] /\ InOrder(Tail(l), l) /\ \A y : Contains(Tail(l), y) <=> y # n /\ Contains(l, y)
  BY <1>1, <1>3, <1>p, TailList
<1>5. waiting'[m] = Tail(l) /\ \A x \in Mutex \ {m} : waiting'[x] = waiting[x]
  BY <1>1, <1>2 DEF Object
<1>6. \A x \in Mutex : InOrder(waiting'[x], waiting[x])
  <2>1. \A k : InOrder(k, k)
    BY DEF InOrder
  <2> QED
    BY <1>4, <1>5, <1>p, <2>1
<1>7. \A w \in Thread \ {t} : rq'.prio[w] = rq.prio[w] /\ rq'.prio[w] <= rq.prio[w]
  BY <1>1, <1>2
<1>8. \A w \in Thread \ {t} : held'[w] = <<>> => w # n /\ held[w] = <<>>
  <2>1. held'[n] = Append(held[n], m) /\ \A w \in Thread \ {t, n} : held'[w] = held[w]
    BY <1>1, <1>2
  <2>k. held[n] \in Seq(Mutex) /\ m \in Mutex
    BY <1>1, <1>2
  <2>2. held'[n] # <<>>
    BY <2>1, <2>k, AppendFirst
  <2> QED
    BY <2>1, <2>2
<1>9. \A x \in Mutex : \A w \in Thread : Contains(waiting[x], w) => w # t
  BY WaitedFor
<1>10. Ordered'
  BY <1>6, <1>7, <1>8, <1>9, OrderedKept
<1>11. ASSUME NEW x \in Mutex \ Fifo, NEW w \in Thread,
             Contains(waiting'[x], w), held'[w] = <<>>, owner'[x] \notin nested'
      PROVE  rq'.prio[owner'[x]] <= rq'.prio[w]
  <2>1. Contains(waiting[x], w)
    BY <1>4, <1>5, <1>11, <1>p
  <2>2. w # t /\ w # n /\ held[w] = <<>>
    BY <1>8, <1>9, <1>11, <2>1
  <2>3. rq'.prio[w] = rq.prio[w]
    BY <1>7, <2>2
  <2>4. CASE x = m
    <3>1. owner'[x] = n /\ rq'.prio[n] = rq.prio[n]
      BY <1>1, <1>2, <1>7, <2>4
    <3>2. PICK j \in 1 .. Len(l) : l[j] = w
      BY <1>p, <2>1, <2>4 DEF Contains
    <3>3. Len(l) \in Nat /\ 1 \in 1 .. Len(l) /\ 1 < j
      BY <1>1, <1>4, <2>2, <3>2
    <3>4. rq.prio[n] <= rq.prio[w]
      BY <1>4, <1>p, <2>2, <2>4, <3>2, <3>3 DEF Ordered
    <3> QED
      BY <2>3, <3>1, <3>4
  <2>5. CASE x # m
    <3>1. owner'[x] = owner[x] /\ owner[x] \in Thread
      BY <1>1, <1>2, <2>1, <2>5, WaitedFor
    <3>2. CASE owner[x] = t
      <4>1. Len(held[t]) > 1 /\ Len(held[t]) \in Nat
        BY <1>1, <2>5, <3>2, TwoHeld
      <4>2. ~(Len(held[owner[x]]) <= 1)
        BY <3>2, <4>1
      <4> QED
        BY <1>11, <2>1, <2>2, <2>3, <3>1, <4>2, InheritedAt
    <3>3. CASE owner[x] # t
      <4>1. rq'.prio[owner[x]] <= rq.prio[owner[x]]
        BY <1>7, <3>1, <3>3
      <4> QED
        BY <1>11, <2>1, <2>2, <2>3, <3>1, <4>1, InheritedAt
    <3> QED
      BY <3>2, <3>3
  <2> QED
    BY <2>4, <2>5
<1>12. Inherited'
  BY <1>11, NestedKept DEF Inherited
<1> QED
  BY <1>10, <1>12

LEMMA RankedFreed ==
    ASSUME Base, Base', Ordered, Inherited, nested' = Nested, NEW t \in Thread, NEW m \in Mutex,
           t \in Ready(rq), owner[m] = t, MutexFreed(t, m)
    PROVE  Ordered' /\ Inherited'
<1>1. /\ owner \in [Mutex -> Thread \cup {None}] /\ held \in [Thread -> Seq(Mutex)]
      /\ rq.prio \in [Thread -> Nat]
  BY PrioFunction DEF Base, TypeOK
<1>2. /\ waiting[m] = <<>> /\ waiting' = waiting /\ rq'.prio = [rq.prio EXCEPT ![t] = original[m]]
      /\ owner' = [owner EXCEPT ![m] = None] /\ held' = [held EXCEPT ![t] = Unlink(@, m)]
  BY DEF MutexFreed, Kept
<1>3. \A w \in Thread \ {t} : rq'.prio[w] = rq.prio[w] /\ rq'.prio[w] <= rq.prio[w] /\ held'[w] = held[w]
  BY <1>1, <1>2
<1>4. \A x \in Mutex : \A w \in Thread : Contains(waiting[x], w) => w # t
  BY WaitedFor
<1>5. \A x \in Mutex : InOrder(waiting'[x], waiting[x])
  BY <1>2 DEF InOrder
<1>6. Ordered'
  BY <1>3, <1>4, <1>5, OrderedKept
<1>7. ASSUME NEW x \in Mutex \ Fifo, NEW w \in Thread,
             Contains(waiting'[x], w), held'[w] = <<>>, owner'[x] \notin nested'
      PROVE  rq'.prio[owner'[x]] <= rq'.prio[w]
  <2>1. Contains(waiting[x], w) /\ w # t
    BY <1>2, <1>4, <1>7
  <2>2. x # m
    BY <1>2, <2>1 DEF Contains
  <2>3. owner'[x] = owner[x] /\ owner[x] \in Thread
    BY <1>1, <1>2, <2>1, <2>2, WaitedFor
  <2>4. held[w] = <<>> /\ rq'.prio[w] = rq.prio[w]
    BY <1>3, <1>7, <2>1
  <2>5. CASE owner[x] = t
    <3>1. Len(held[t]) > 1 /\ Len(held[t]) \in Nat
      BY <1>1, <2>2, <2>5, TwoHeld
    <3>2. ~(Len(held[owner[x]]) <= 1)
      BY <2>5, <3>1
    <3> QED
      BY <1>7, <2>1, <2>3, <2>4, <3>2, InheritedAt
  <2>6. CASE owner[x] # t
    <3>1. rq'.prio[owner[x]] <= rq.prio[owner[x]]
      BY <1>3, <2>3, <2>6
    <3> QED
      BY <1>7, <2>1, <2>3, <2>4, <3>1, InheritedAt
  <2> QED
    BY <2>5, <2>6
<1>8. Inherited'
  BY <1>7, NestedKept DEF Inherited
<1> QED
  BY <1>6, <1>8

\* The owner of a mutex runs at least as high as every waiter of it that owns none itself, as
\* long as the owner has not held two mutexes at once since it last held none.
THEOREM PriorityInherited == Spec => []Inherits
<1>1. Init => Ordered /\ Inherited
  BY DEF Init, Ordered, Inherited, Object, Contains
<1>2. Base /\ Base' /\ Ordered /\ Inherited /\ [Next]_vars => Ordered' /\ Inherited'
  <2> SUFFICES ASSUME Base, Base', Ordered, Inherited, [Next]_vars PROVE Ordered' /\ Inherited'
    OBVIOUS
  <2>1. CASE UNCHANGED vars
    BY <2>1 DEF vars, sched, calls, mutexes, Ordered, Inherited
  <2>2. CASE Step /\ nested' = Nested
    <3>1. Aside \/ \E t \in Thread, m \in Mutex : MutexGot(t, m) \/ MutexAwaited(t, m) \/ MutexLost(t, m)
      BY <2>2, AsideStep
    <3>2. CASE Aside
      BY <2>2, <3>2, RankedAside
    <3>3. ASSUME NEW t \in Thread, NEW m \in Mutex, MutexGot(t, m) PROVE Ordered' /\ Inherited'
      BY <2>2, <3>3, RankedGot
    <3>4. ASSUME NEW t \in Thread, NEW m \in Mutex, MutexAwaited(t, m) PROVE Ordered' /\ Inherited'
      BY <2>2, <3>4, RankedAwaited
    <3>5. ASSUME NEW t \in Thread, NEW m \in Mutex, MutexLost(t, m) PROVE Ordered' /\ Inherited'
      BY <2>2, <3>5, RankedHanded, RankedFreed DEF MutexLost
    <3> QED
      BY <3>1, <3>2, <3>3, <3>4, <3>5
  <2> QED
    BY <2>1, <2>2 DEF Next
<1>3. Base /\ Inherited => Inherits
  <2> SUFFICES ASSUME Base, Inherited, NEW m \in Mutex \ Fifo, NEW w \in ToSet(waiting[m])
               PROVE  /\ owner[m] # None
                      /\ owner[m] \notin nested /\ held[w] = <<>> => rq.prio[owner[m]] <= rq.prio[w]
    BY DEF Inherits
  <2>1. waiting[m] \in Seq(Thread)
    BY PrioTypes
  <2>2. w \in Thread /\ Contains(waiting[m], w)
    BY <2>1 DEF ToSet, Contains
  <2>3. owner[m] # None
    BY <2>2, WaitedFor, NameAssumption
  <2> QED
    BY <2>2, <2>3 DEF Inherited
<1> QED
  BY <1>1, <1>2, <1>3, BaseAlways, PTL DEF Spec
=============================================================================
