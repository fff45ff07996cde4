--------------------------- MODULE MsgQueueProofs ---------------------------
(* What holds of the message queue for any pool, any threads and any order of *)
(* their steps.  Where a block of the pool is depends on who is awake: a list  *)
(* that named a thread twice, or one that works on a message, would make the   *)
(* next wake-up tear that thread away from its block.  So the invariant is     *)
(* SlotsPartitioned together with SleepersListed.                              *)
EXTENDS MsgQueue, SequenceTheorems, FiniteSetTheorems, TLAPS

-----------------------------------------------------------------------------
(* The lists *)

LEMMA AppendList ==
    ASSUME NEW S, NEW list \in Seq(S), NEW x \in S, Once(list), ~In(list, x)
    PROVE  /\ Append(list, x) \in Seq(S) /\ Len(Append(list, x)) = Len(list) + 1
           /\ Once(Append(list, x))
           /\ \A y : In(Append(list, x), y) <=> y = x \/ In(list, y)
  BY DEF Once, In

LEMMA PrependList ==
    ASSUME NEW S, NEW list \in Seq(S), NEW x \in S, Once(list), ~In(list, x)
    PROVE  /\ <<x>> \o list \in Seq(S) /\ Len(<<x>> \o list) = Len(list) + 1
           /\ Once(<<x>> \o list)
           /\ \A y : In(<<x>> \o list, y) <=> y = x \/ In(list, y)
<1> DEFINE r == <<x>> \o list
<1>1. r \in Seq(S) /\ Len(r) = Len(list) + 1
  OBVIOUS
<1>2. \A i \in 1 .. Len(r) : r[i] = IF i = 1 THEN x ELSE list[i - 1]
  OBVIOUS
<1>3. \A i \in 1 .. Len(list) : r[i + 1] = list[i]
  BY <1>1, <1>2
<1>4. Once(r)
  BY <1>1, <1>2 DEF Once, In
<1>5. \A y : In(r, y) => y = x \/ In(list, y)
  BY <1>1, <1>2 DEF In
<1>6. \A y : y = x \/ In(list, y) => In(r, y)
  <2>1. 1 \in 1 .. Len(r) /\ \A i \in 1 .. Len(list) : i + 1 \in 1 .. Len(r)
    BY <1>1
  <2> QED
    BY <2>1, <1>2, <1>3 DEF In
<1> QED
  BY <1>1, <1>4, <1>5, <1>6

LEMMA TailList ==
    ASSUME NEW S, NEW list \in Seq(S), Once(list), list # <<>>
    PROVE  /\ Head(list) \in S /\ In(list, Head(list))
           /\ Tail(list) \in Seq(S) /\ Len(Tail(list)) = Len(list) - 1
           /\ \A j \in 1 .. Len(list) - 1 : Tail(list)[j] = list[j + 1]
           /\ Once(Tail(list))
           /\ \A y : In(Tail(list), y) <=> y # Head(list) /\ In(list, y)
<1> DEFINE r == Tail(list)
<1>1. Len(list) > 0 /\ Head(list) = list[1] /\ Head(list) \in S
  OBVIOUS
<1>2. r \in Seq(S) /\ Len(r) = Len(list) - 1
  OBVIOUS
<1>3. \A i \in 1 .. Len(r) : r[i] = list[i + 1]
  OBVIOUS
<1>4. Once(r)
  BY <1>1, <1>2, <1>3 DEF Once
<1>5. \A y : In(r, y) => y # Head(list) /\ In(list, y)
  BY <1>1, <1>2, <1>3 DEF Once, In
<1>6. \A y : y # Head(list) /\ In(list, y) => In(r, y)
  <2> SUFFICES ASSUME NEW y, y # Head(list), NEW i \in 1 .. Len(list), list[i] = y
               PROVE  In(r, y)
    BY DEF In
  <2>1. i - 1 \in 1 .. Len(r) /\ r[i - 1] = y
    BY <1>1, <1>2, <1>3
  <2> QED
    BY <2>1 DEF In
<1> QED
  BY <1>1, <1>2, <1>3, <1>4, <1>5, <1>6 DEF In

LEMMA InsertedList ==
    ASSUME NEW S, NEW list \in Seq(S), NEW x \in S, Once(list), ~In(list, x),
           NEW i \in 1 .. Len(list) + 1
    PROVE  /\ Inserted(list, i, x) \in Seq(S) /\ Len(Inserted(list, i, x)) = Len(list) + 1
           /\ \A j \in 1 .. Len(list) + 1 :
                 Inserted(list, i, x)[j] = IF j < i THEN list[j] ELSE IF j = i THEN x ELSE list[j - 1]
           /\ Once(Inserted(list, i, x))
           /\ \A y : In(Inserted(list, i, x), y) <=> y = x \/ In(list, y)
<1> DEFINE r == Inserted(list, i, x)
<1> DEFINE a == SubSeq(list, 1, i - 1)
           b == SubSeq(list, i, Len(list))
<1>a. /\ a \in Seq(S) /\ Len(a) = i - 1
      /\ \A j \in 1 .. i - 1 : a[j] = list[j]
  <2>1. \A j \in 1 .. i - 1 : list[j] \in S
    OBVIOUS
  <2> QED
    BY <2>1, SubSeqProperties
<1>b. /\ b \in Seq(S) /\ Len(b) = Len(list) - i + 1
      /\ \A j \in 1 .. Len(list) - i + 1 : b[j] = list[i + j - 1]
  <2>1. \A j \in i .. Len(list) : list[j] \in S
    OBVIOUS
  <2> QED
    BY <2>1, SubSeqProperties
<1> DEFINE c == a \o <<x>>
<1>r. r = c \o b
  BY DEF Inserted
<1> HIDE DEF r, a, b
<1>c. /\ c \in Seq(S) /\ Len(c) = i
      /\ \A j \in 1 .. i : c[j] = IF j < i THEN list[j] ELSE x
  BY <1>a
<1> HIDE DEF c
<1>1. r \in Seq(S) /\ Len(r) = Len(list) + 1
  BY <1>b, <1>c, <1>r, ConcatProperties
<1>2. \A j \in 1 .. Len(r) : r[j] = IF j < i THEN list[j] ELSE IF j = i THEN x ELSE list[j - 1]
  <2> TAKE j \in 1 .. Len(r)
  <2>1. r[j] = IF j <= i THEN c[j] ELSE b[j - i]
    BY <1>1, <1>b, <1>c, <1>r, ConcatProperties
  <2>2. CASE j <= i
    BY <2>1, <2>2, <1>c
  <2>3. CASE j > i
    <3>1. j - i \in 1 .. Len(list) - i + 1 /\ i + (j - i) - 1 = j - 1
      BY <2>3, <1>1
    <3> QED
      BY <2>1, <2>3, <3>1, <1>b
  <2> QED
    BY <2>2, <2>3, <1>1
<1>3. \A j \in 1 .. Len(list) : list[j] = IF j < i THEN r[j] ELSE r[j + 1]
  BY <1>1, <1>2
<1>4. Once(r)
  <2> SUFFICES ASSUME NEW j \in 1 .. Len(r), NEW k \in 1 .. Len(r), j < k
               PROVE  r[j] # r[k]
    BY <1>1 DEF Once
  <2>1. \A m, n \in 1 .. Len(list) : m # n => list[m] # list[n]
    BY DEF Once
  <2>2. \A m \in 1 .. Len(list) : list[m] # x
    BY DEF In
  <2>3. CASE k < i
    BY <2>1, <2>3, <1>1, <1>2
  <2>4. CASE k = i
    BY <2>2, <2>4, <1>1, <1>2
  <2>5. CASE j = i
    BY <2>2, <2>5, <1>1, <1>2
  <2>6. CASE j < i /\ i < k
    <3>1. r[j] = list[j] /\ r[k] = list[k - 1]
      BY <2>6, <1>1, <1>2
    <3>2. j \in 1 .. Len(list) /\ k - 1 \in 1 .. Len(list) /\ j # k - 1
      BY <2>6, <1>1
    <3> QED
      BY <2>1, <3>1, <3>2
  <2>7. CASE i < j
    <3>1. r[j] = list[j - 1] /\ r[k] = list[k - 1]
      BY <2>7, <1>1, <1>2
    <3>2. j - 1 \in 1 .. Len(list) /\ k - 1 \in 1 .. Len(list) /\ j - 1 # k - 1
      BY <2>7, <1>1
    <3> QED
      BY <2>1, <3>1, <3>2
  <2> QED
    BY <2>3, <2>4, <2>5, <2>6, <2>7
<1>5. r[i] = x /\ i \in 1 .. Len(r)
  BY <1>1, <1>2
<1>6. \A y : In(r, y) => y = x \/ In(list, y)
  BY <1>1, <1>2 DEF In
<1>7. \A y : y = x \/ In(list, y) => In(r, y)
  BY <1>1, <1>3, <1>5 DEF In
<1> QED
  BY <1>1, <1>2, <1>4, <1>6, <1>7 DEF r

LEMMA RemovedList ==
    ASSUME NEW S, NEW list \in Seq(S), Once(list), NEW i \in 1 .. Len(list)
    PROVE  /\ Removed(list, i) \in Seq(S) /\ Len(Removed(list, i)) = Len(list) - 1
           /\ \A j \in 1 .. Len(list) - 1 :
                 Removed(list, i)[j] = IF j < i THEN list[j] ELSE list[j + 1]
           /\ Once(Removed(list, i))
           /\ \A y : In(Removed(list, i), y) <=> y # list[i] /\ In(list, y)
<1> DEFINE r == Removed(list, i)
<1> DEFINE a == SubSeq(list, 1, i - 1)
           b == SubSeq(list, i + 1, Len(list))
<1>a. /\ a \in Seq(S) /\ Len(a) = i - 1
      /\ \A j \in 1 .. i - 1 : a[j] = list[j]
  <2>1. \A j \in 1 .. i - 1 : list[j] \in S
    OBVIOUS
  <2> QED
    BY <2>1, SubSeqProperties
<1>b. /\ b \in Seq(S) /\ Len(b) = Len(list) - i
      /\ \A j \in 1 .. Len(list) - i : b[j] = list[i + j]
  <2>1. \A j \in i + 1 .. Len(list) : list[j] \in S
    OBVIOUS
  <2> QED
    BY <2>1, SubSeqProperties
<1>r. r = a \o b
  BY DEF Removed
<1> HIDE DEF r, a, b
<1>1. r \in Seq(S) /\ Len(r) = Len(list) - 1
  BY <1>a, <1>b, <1>r
<1>2. \A j \in 1 .. Len(r) : r[j] = IF j < i THEN list[j] ELSE list[j + 1]
  <2> TAKE j \in 1 .. Len(r)
  <2>1. r[j] = IF j <= i - 1 THEN a[j] ELSE b[j - (i - 1)]
    BY <1>1, <1>a, <1>b, <1>r, ConcatProperties
  <2>2. CASE j < i
    BY <2>1, <2>2, <1>a
  <2>3. CASE j >= i
    <3>1. j - (i - 1) \in 1 .. Len(list) - i /\ i + (j - (i - 1)) = j + 1
      BY <2>3, <1>1
    <3> QED
      BY <2>1, <2>3, <3>1, <1>b
  <2> QED
    BY <2>2, <2>3, <1>1
<1>3. \A j \in 1 .. Len(list) : j # i => list[j] = IF j < i THEN r[j] ELSE r[j - 1]
  BY <1>1, <1>2
<1>4. Once(r)
  BY <1>1, <1>2 DEF Once
<1>5. \A y : In(r, y) => y # list[i] /\ In(list, y)
  BY <1>1, <1>2 DEF In, Once
<1>6. \A y : y # list[i] /\ In(list, y) => In(r, y)
  BY <1>1, <1>3 DEF In
<1> QED
  BY <1>1, <1>2, <1>4, <1>5, <1>6 DEF r

\* a queue that does not hold one of the blocks is shorter than the pool
LEMMA RoomForOneMore ==
    ASSUME NEW list \in Seq(Slot), Once(list), NEW s \in Slot, ~In(list, s)
    PROVE  Len(list) < Cardinality(Slot)
<1> DEFINE r == Append(list, s)
           n == Len(list) + 1
<1>1. r \in Seq(Slot) /\ Len(r) = n /\ Once(r)
  BY AppendList
<1>2. r \in Injection(1 .. n, Slot)
  <2>1. r \in [1 .. n -> Slot]
    BY <1>1, LenProperties
  <2>2. IsInjective(r)
    BY <1>1, <2>1 DEF IsInjective, Once
  <2> QED
    BY <2>1, <2>2 DEF Injection
<1>3. IsFiniteSet(Slot)
  BY PoolAssumption
<1>4. Cardinality(1 .. n) <= Cardinality(Slot)
  BY <1>2, <1>3, FS_Injection
<1>5. Cardinality(1 .. n) = n
  BY FS_Interval
<1>6. Cardinality(Slot) \in Nat
  BY <1>3, FS_CardinalityType
<1> QED
  BY <1>4, <1>5, <1>6

-----------------------------------------------------------------------------
(* The invariant *)

Sends == {"send", "sleepsend", "resend", "urgent", "link", "linkfirst"}

\* a sender has a message, and interrupt handlers do not wait
LocalsOK ==
    \A c \in Caller :
        /\ pc[c] \in Sends => msg[c] \in Message
        /\ c \in Isr => wait[c] = "no"

PoolInv == TypeOK /\ SlotsPartitioned /\ EntryCounts /\ SleepersListed /\ LocalsOK

\* Where the blocks and the threads are, at every moment.
LEMMA PoolInvariant == Spec => []PoolInv
<1>1. Init => PoolInv
  <2> SUFFICES ASSUME Init PROVE PoolInv
    OBVIOUS
  <2>1. TypeOK
    BY MessageAssumption DEF Init, TypeOK, Pcs, Waits
  <2>2. SlotsPartitioned
    BY DEF Init, SlotsPartitioned, Once, In, Holding
  <2>3. EntryCounts /\ LocalsOK
    BY DEF Init, EntryCounts, LocalsOK, Sends
  <2>4. SleepersListed
    BY DEF Init, SleepersListed, Sleeps, Once, In
  <2> QED
    BY <2>1, <2>2, <2>3, <2>4 DEF PoolInv
<1>2. PoolInv /\ [Next]_vars => PoolInv'
  <2> SUFFICES ASSUME PoolInv, [Next]_vars PROVE PoolInv'
    OBVIOUS
  <2> TypeOK /\ SlotsPartitioned /\ EntryCounts /\ SleepersListed /\ LocalsOK
    BY DEF PoolInv
  <2> Thread \subseteq Caller
    BY DEF Caller
  <2>1. ASSUME NEW c \in Caller, NEW m \in Message, NEW w \in Waits, CallSend(c, m, w) PROVE PoolInv'
    <3>1. TypeOK'
      BY <2>1 DEF CallSend, TypeOK, Pcs, Waits, lists, waiting
    <3>2. Holding' = Holding /\ \A d \in Holding : slot'[d] = slot[d]
      BY <2>1 DEF CallSend, TypeOK, Holding, lists, waiting
    <3>3. SlotsPartitioned' /\ EntryCounts'
      BY <2>1, <3>2 DEF CallSend, SlotsPartitioned, EntryCounts, Once, In, lists
    <3>4. SleepersListed'
      BY <2>1 DEF CallSend, TypeOK, SleepersListed, Sleeps, lists, waiting
    <3>5. LocalsOK'
      BY <2>1, CallersAssumption DEF CallSend, TypeOK, LocalsOK, Sends, lists, waiting
    <3> QED
      BY <3>1, <3>2, <3>3, <3>4, <3>5 DEF PoolInv
  <2>2. ASSUME NEW c \in Caller, NEW m \in Message, CallUrgent(c, m) PROVE PoolInv'
    <3>1. TypeOK'
      BY <2>2 DEF CallUrgent, TypeOK, Pcs, Waits, lists, waiting
    <3>2. Holding' = Holding /\ \A d \in Holding : slot'[d] = slot[d]
      BY <2>2 DEF CallUrgent, TypeOK, Holding, lists, waiting
    <3>3. SlotsPartitioned' /\ EntryCounts'
      BY <2>2, <3>2 DEF CallUrgent, SlotsPartitioned, EntryCounts, Once, In, lists
    <3>4. SleepersListed'
      BY <2>2 DEF CallUrgent, TypeOK, SleepersListed, Sleeps, lists, waiting
    <3>5. LocalsOK'
      BY <2>2, CallersAssumption DEF CallUrgent, TypeOK, LocalsOK, Sends, lists, waiting
    <3> QED
      BY <3>1, <3>2, <3>3, <3>4, <3>5 DEF PoolInv
  <2>3. ASSUME NEW c \in Caller, SendFull(c) PROVE PoolInv'
    <3>1. TypeOK'
      BY <2>3 DEF SendFull, Return, TypeOK, Pcs, Waits, lists, waiting
    <3>2. Holding' = Holding /\ \A d \in Holding : slot'[d] = slot[d]
      BY <2>3 DEF SendFull, Return, TypeOK, Holding, lists, waiting
    <3>3. SlotsPartitioned' /\ EntryCounts'
      BY <2>3, <3>2 DEF SendFull, Return, SlotsPartitioned, EntryCounts, Once, In, lists
    <3>4. SleepersListed'
      BY <2>3 DEF SendFull, Return, TypeOK, SleepersListed, Sleeps, lists, waiting
    <3>5. LocalsOK'
      BY <2>3, CallersAssumption DEF SendFull, Return, TypeOK, LocalsOK, Sends, lists, waiting
    <3> QED
      BY <3>1, <3>2, <3>3, <3>4, <3>5 DEF PoolInv
  <2>4. ASSUME NEW t \in Thread, NEW w \in Waits, CallRecv(t, w) PROVE PoolInv'
    <3>1. TypeOK'
      BY <2>4 DEF CallRecv, TypeOK, Pcs, Waits, lists, waiting
    <3>2. Holding' = Holding /\ \A d \in Holding : slot'[d] = slot[d]
      BY <2>4 DEF CallRecv, TypeOK, Holding, lists, waiting
    <3>3. SlotsPartitioned' /\ EntryCounts'
      BY <2>4, <3>2 DEF CallRecv, SlotsPartitioned, EntryCounts, Once, In, lists
    <3>4. SleepersListed'
      BY <2>4 DEF CallRecv, TypeOK, SleepersListed, Sleeps, lists, waiting
    <3>5. LocalsOK'
      BY <2>4, CallersAssumption DEF CallRecv, TypeOK, LocalsOK, Sends, lists, waiting
    <3> QED
      BY <3>1, <3>2, <3>3, <3>4, <3>5 DEF PoolInv
  <2>5. ASSUME NEW t \in Thread, RecvEmpty(t) PROVE PoolInv'
    <3>1. TypeOK'
      BY <2>5 DEF RecvEmpty, Return, TypeOK, Pcs, Waits, lists, waiting
    <3>2. Holding' = Holding /\ \A d \in Holding : slot'[d] = slot[d]
      BY <2>5 DEF RecvEmpty, Return, TypeOK, Holding, lists, waiting
    <3>3. SlotsPartitioned' /\ EntryCounts'
      BY <2>5, <3>2 DEF RecvEmpty, Return, SlotsPartitioned, EntryCounts, Once, In, lists
    <3>4. SleepersListed'
      BY <2>5 DEF RecvEmpty, Return, TypeOK, SleepersListed, Sleeps, lists, waiting
    <3>5. LocalsOK'
      BY <2>5, CallersAssumption DEF RecvEmpty, Return, TypeOK, LocalsOK, Sends, lists, waiting
    <3> QED
      BY <3>1, <3>2, <3>3, <3>4, <3>5 DEF PoolInv
  <2>6. ASSUME NEW t \in Thread, Recompute(t) PROVE PoolInv'
    <3>1. TypeOK'
      BY <2>6 DEF Recompute, TypeOK, Pcs, Waits, lists, waiting
    <3>2. Holding' = Holding /\ \A d \in Holding : slot'[d] = slot[d]
      BY <2>6 DEF Recompute, TypeOK, Holding, lists, waiting
    <3>3. SlotsPartitioned' /\ EntryCounts'
      BY <2>6, <3>2 DEF Recompute, SlotsPartitioned, EntryCounts, Once, In, lists
    <3>4. SleepersListed'
      BY <2>6 DEF Recompute, TypeOK, SleepersListed, Sleeps, lists, waiting
    <3>5. LocalsOK'
      BY <2>6, CallersAssumption DEF Recompute, TypeOK, LocalsOK, Sends, lists, waiting
    <3> QED
      BY <3>1, <3>2, <3>3, <3>4, <3>5 DEF PoolInv
  <2>7. ASSUME NEW c \in Caller, Claim(c) PROVE PoolInv'
    <3>0. PICK s \in free : free' = free \ {s} /\ slot' = [slot EXCEPT ![c] = s]
      BY <2>7 DEF Claim
    <3>1. TypeOK'
      BY <2>7, <3>0 DEF Claim, TypeOK, Pcs, waiting
    <3>2. /\ Holding' = Holding \cup {c} /\ c \notin Holding
          /\ slot'[c] = s /\ \A d \in Holding : slot'[d] = slot[d]
      BY <2>7, <3>0 DEF Claim, TypeOK, Holding
    <3>3. SlotsPartitioned'
      <4>0. queue' = queue /\ s \in Slot
        BY <2>7 DEF Claim, TypeOK
      <4> USE <3>0, <3>2, <4>0 DEF SlotsPartitioned
      <4>1. Once(queue') /\ \A r \in free' : ~In(queue', r)
        OBVIOUS
      <4>2. \A d \in Holding' : slot'[d] \in Slot \ free' /\ ~In(queue', slot'[d])
        OBVIOUS
      <4>3. \A d, e \in Holding' : slot'[d] = slot'[e] => d = e
        OBVIOUS
      <4>4. \A r \in Slot : r \in free' \/ In(queue', r) \/ \E d \in Holding' : slot'[d] = r
        OBVIOUS
      <4> QED
        BY <4>1, <4>2, <4>3, <4>4
    <3>4. SleepersListed'
      BY <2>7 DEF Claim, TypeOK, SleepersListed, Sleeps, Once, In, waiting
    <3>5. EntryCounts' /\ LocalsOK'
      BY <2>7 DEF Claim, TypeOK, EntryCounts, LocalsOK, Sends
    <3> QED
      BY <3>1, <3>3, <3>4, <3>5 DEF PoolInv
  <2>8. ASSUME NEW c \in Caller, SendSuspend(c) PROVE PoolInv'
    <3>0. PICK i \in 1 .. Len(senders) + 1 : senders' = Inserted(senders, i, c)
      BY <2>8 DEF SendSuspend, Places
    <3>1. c \in Thread
      BY <2>8 DEF SendSuspend, LocalsOK, Caller
    <3>2. /\ senders \in Seq(Thread) /\ Once(senders) /\ ~In(senders, c)
      BY <2>8 DEF SendSuspend, TypeOK, SleepersListed, Sleeps
    <3>3. /\ senders' \in Seq(Thread) /\ Once(senders')
          /\ \A d : In(senders', d) <=> d = c \/ In(senders, d)
      BY <3>0, <3>1, <3>2, InsertedList
    <3>4. TypeOK'
      BY <2>8, <3>3 DEF SendSuspend, TypeOK, Pcs, lists
    <3>5. Holding' = Holding
      BY <2>8 DEF SendSuspend, TypeOK, Holding
    <3>6. SlotsPartitioned' /\ EntryCounts'
      BY <2>8, <3>5 DEF SendSuspend, SlotsPartitioned, EntryCounts, Once, In, lists
    <3>7. Sleeps(senders, "sleepsend")'
      BY <2>8, <3>3 DEF SendSuspend, TypeOK, SleepersListed, Sleeps
    <3>8. Sleeps(receivers, "sleeprecv")'
      BY <2>8 DEF SendSuspend, TypeOK, SleepersListed, Sleeps, Once, In
    <3>9. LocalsOK'
      BY <2>8 DEF SendSuspend, TypeOK, LocalsOK, Sends
    <3> QED
      BY <3>4, <3>6, <3>7, <3>8, <3>9 DEF PoolInv, SleepersListed
  <2>9. ASSUME NEW t \in Thread, RecvSuspend(t) PROVE PoolInv'
    <3>0. PICK i \in 1 .. Len(receivers) + 1 : receivers' = Inserted(receivers, i, t)
      BY <2>9 DEF RecvSuspend, Places
    <3>1. t \in Thread
      BY <2>9 DEF RecvSuspend, LocalsOK, Caller
    <3>2. /\ receivers \in Seq(Thread) /\ Once(receivers) /\ ~In(receivers, t)
      BY <2>9 DEF RecvSuspend, TypeOK, SleepersListed, Sleeps
    <3>3. /\ receivers' \in Seq(Thread) /\ Once(receivers')
          /\ \A d : In(receivers', d) <=> d = t \/ In(receivers, d)
      BY <3>0, <3>1, <3>2, InsertedList
    <3>4. TypeOK'
      BY <2>9, <3>3 DEF RecvSuspend, TypeOK, Pcs, lists
    <3>5. Holding' = Holding
      BY <2>9 DEF RecvSuspend, TypeOK, Holding
    <3>6. SlotsPartitioned' /\ EntryCounts'
      BY <2>9, <3>5 DEF RecvSuspend, SlotsPartitioned, EntryCounts, Once, In, lists
    <3>7. Sleeps(receivers, "sleeprecv")'
      BY <2>9, <3>3 DEF RecvSuspend, TypeOK, SleepersListed, Sleeps
    <3>8. Sleeps(senders, "sleepsend")'
      BY <2>9 DEF RecvSuspend, TypeOK, SleepersListed, Sleeps, Once, In
    <3>9. LocalsOK'
      BY <2>9 DEF RecvSuspend, TypeOK, LocalsOK, Sends
    <3> QED
      BY <3>4, <3>6, <3>7, <3>8, <3>9 DEF PoolInv, SleepersListed
  <2>10. ASSUME NEW c \in Caller, Link(c) PROVE PoolInv'
    <3>0. /\ c \in Holding /\ slot[c] \in Slot \ free /\ ~In(queue, slot[c])
          /\ pc[c] \notin {"sleepsend", "sleeprecv"} /\ msg[c] \in Message
      BY <2>10 DEF Link, Holding, SlotsPartitioned, LocalsOK, Sends
    <3>1. entry < EntryMax
      <4>1. Len(queue) < Cardinality(Slot)
        BY <3>0, RoomForOneMore DEF TypeOK, SlotsPartitioned
      <4>2. Cardinality(Slot) \in Nat
        BY PoolAssumption, FS_CardinalityType
      <4> QED
        BY <4>1, <4>2, EntryAssumption DEF EntryCounts, TypeOK
    <3>2. /\ entry' = entry + 1 /\ receivers' = Rest(receivers)
          /\ pc' = Resumed([pc EXCEPT ![c] = "idle"], receivers, "rerecv")
      BY <2>10, <3>1 DEF Link, CountAndResume
    <3>3. /\ queue' \in Seq(Slot) /\ Len(queue') = Len(queue) + 1 /\ Once(queue')
          /\ \A s : In(queue', s) <=> s = slot[c] \/ In(queue, s)
      BY <2>10, <3>0, AppendList DEF Link, TypeOK, SlotsPartitioned
    <3>4. /\ pc' \in [Caller -> Pcs]
          /\ pc'[c] = "idle"
          /\ \A d \in Caller \ {c} : pc'[d] = pc[d] \/ (pc[d] = "sleeprecv" /\ pc'[d] = "rerecv")
          /\ receivers' \in Seq(Thread)
          /\ Sleeps(receivers, "sleeprecv")'
      <4>1. CASE receivers = <<>>
        BY <3>0, <3>2, <4>1 DEF Rest, Resumed, TypeOK, Pcs, SleepersListed, Sleeps, Once, In
      <4>2. CASE receivers # <<>>
        <5>1. /\ Head(receivers) \in Thread /\ receivers' \in Seq(Thread) /\ Once(receivers')
              /\ In(receivers, Head(receivers))
              /\ \A d : In(receivers', d) <=> d # Head(receivers) /\ In(receivers, d)
          BY <3>2, <4>2, TailList DEF Rest, TypeOK, SleepersListed, Sleeps
        <5>2. pc[Head(receivers)] = "sleeprecv" /\ Head(receivers) # c
          BY <3>0, <5>1 DEF SleepersListed, Sleeps
        <5>3. pc' = [[pc EXCEPT ![c] = "idle"] EXCEPT ![Head(receivers)] = "rerecv"]
          BY <3>2, <4>2 DEF Resumed
        <5>4. \A d \in Caller : pc'[d] = IF d = c THEN "idle"
                                         ELSE IF d = Head(receivers) THEN "rerecv" ELSE pc[d]
          BY <5>1, <5>2, <5>3 DEF TypeOK
        <5>5. pc' \in [Caller -> Pcs]
          BY <5>1, <5>3 DEF TypeOK, Pcs
        <5>6. Sleeps(receivers, "sleeprecv")'
          BY <3>0, <5>1, <5>2, <5>4 DEF SleepersListed, Sleeps
        <5> QED
          BY <5>1, <5>2, <5>4, <5>5, <5>6
      <4> QED
        BY <4>1, <4>2
    <3>5. TypeOK'
      <4>1. free' \subseteq Slot /\ senders' \in Seq(Thread) /\ content' \in [Slot -> Message]
        BY <2>10, <3>0 DEF Link, TypeOK
      <4>2. /\ slot' \in [Caller -> Slot \cup {None}] /\ msg' \in [Caller -> Message \cup {None}]
            /\ wait' \in [Caller -> Waits]
        BY <2>10 DEF Link, TypeOK, Waits
      <4>3. entry' \in Nat
        BY <3>2 DEF TypeOK
      <4>4. queue' \in Seq(Slot) /\ pc' \in [Caller -> Pcs] /\ receivers' \in Seq(Thread)
        BY <3>3, <3>4
      <4> QED
        BY <4>1, <4>2, <4>3, <4>4 DEF TypeOK
    <3>6. Holding' = Holding \ {c} /\ \A d \in Holding' : slot'[d] = slot[d]
      <4>1. Holding' = Holding \ {c}
        BY <3>4 DEF Holding
      <4> QED
        BY <2>10, <4>1 DEF Link, TypeOK, Holding
    <3>7. SlotsPartitioned'
      <4> USE <3>0, <3>3, <3>6 DEF SlotsPartitioned
      <4>0. free' = free
        BY <2>10 DEF Link
      <4>1. Once(queue') /\ \A s \in free' : ~In(queue', s)
        BY <4>0
      <4>2. \A d \in Holding' : slot'[d] \in Slot \ free' /\ ~In(queue', slot'[d])
        BY <4>0
      <4>3. \A d, e \in Holding' : slot'[d] = slot'[e] => d = e
        OBVIOUS
      <4>4. \A s \in Slot : s \in free' \/ In(queue', s) \/ \E d \in Holding' : slot'[d] = s
        BY <4>0
      <4> QED
        BY <4>1, <4>2, <4>3, <4>4
    <3>8. EntryCounts'
      BY <3>2, <3>3 DEF EntryCounts
    <3>9. Sleeps(senders, "sleepsend")'
      BY <2>10, <3>0, <3>4 DEF Link, SleepersListed, Sleeps, Once, In
    <3>10. LocalsOK'
      BY <2>10, <3>4 DEF Link, LocalsOK, Sends, TypeOK
    <3> QED
      BY <3>4, <3>5, <3>7, <3>8, <3>9, <3>10 DEF PoolInv, SleepersListed
  <2>11. ASSUME NEW c \in Caller, LinkFirst(c) PROVE PoolInv'
    <3>0. /\ c \in Holding /\ slot[c] \in Slot \ free /\ ~In(queue, slot[c])
          /\ pc[c] \notin {"sleepsend", "sleeprecv"} /\ msg[c] \in Message
      BY <2>11 DEF LinkFirst, Holding, SlotsPartitioned, LocalsOK, Sends
    <3>1. entry < EntryMax
      <4>1. Len(queue) < Cardinality(Slot)
        BY <3>0, RoomForOneMore DEF TypeOK, SlotsPartitioned
      <4>2. Cardinality(Slot) \in Nat
        BY PoolAssumption, FS_CardinalityType
      <4> QED
        BY <4>1, <4>2, EntryAssumption DEF EntryCounts, TypeOK
    <3>2. /\ entry' = entry + 1 /\ receivers' = Rest(receivers)
          /\ pc' = Resumed([pc EXCEPT ![c] = "idle"], receivers, "rerecv")
      BY <2>11, <3>1 DEF LinkFirst, CountAndResume
    <3>3. /\ queue' \in Seq(Slot) /\ Len(queue') = Len(queue) + 1 /\ Once(queue')
          /\ \A s : In(queue', s) <=> s = slot[c] \/ In(queue, s)
      BY <2>11, <3>0, PrependList DEF LinkFirst, TypeOK, SlotsPartitioned
    <3>4. /\ pc' \in [Caller -> Pcs]
          /\ pc'[c] = "idle"
          /\ \A d \in Caller \ {c} : pc'[d] = pc[d] \/ (pc[d] = "sleeprecv" /\ pc'[d] = "rerecv")
          /\ receivers' \in Seq(Thread)
          /\ Sleeps(receivers, "sleeprecv")'
      <4>1. CASE receivers = <<>>
        BY <3>0, <3>2, <4>1 DEF Rest, Resumed, TypeOK, Pcs, SleepersListed, Sleeps, Once, In
      <4>2. CASE receivers # <<>>
        <5>1. /\ Head(receivers) \in Thread /\ receivers' \in Seq(Thread) /\ Once(receivers')
              /\ In(receivers, Head(receivers))
              /\ \A d : In(receivers', d) <=> d # Head(receivers) /\ In(receivers, d)
          BY <3>2, <4>2, TailList DEF Rest, TypeOK, SleepersListed, Sleeps
        <5>2. pc[Head(receivers)] = "sleeprecv" /\ Head(receivers) # c
          BY <3>0, <5>1 DEF SleepersListed, Sleeps
        <5>3. pc' = [[pc EXCEPT ![c] = "idle"] EXCEPT ![Head(receivers)] = "rerecv"]
          BY <3>2, <4>2 DEF Resumed
        <5>4. \A d \in Caller : pc'[d] = IF d = c THEN "idle"
                                         ELSE IF d = Head(receivers) THEN "rerecv" ELSE pc[d]
          BY <5>1, <5>2, <5>3 DEF TypeOK
        <5>5. pc' \in [Caller -> Pcs]
          BY <5>1, <5>3 DEF TypeOK, Pcs
        <5>6. Sleeps(receivers, "sleeprecv")'
          BY <3>0, <5>1, <5>2, <5>4 DEF SleepersListed, Sleeps
        <5> QED
          BY <5>1, <5>2, <5>4, <5>5, <5>6
      <4> QED
        BY <4>1, <4>2
    <3>5. TypeOK'
      <4>1. free' \subseteq Slot /\ senders' \in Seq(Thread) /\ content' \in [Slot -> Message]
        BY <2>11, <3>0 DEF LinkFirst, TypeOK
      <4>2. /\ slot' \in [Caller -> Slot \cup {None}] /\ msg' \in [Caller -> Message \cup {None}]
            /\ wait' \in [Caller -> Waits]
        BY <2>11 DEF LinkFirst, TypeOK, Waits
      <4>3. entry' \in Nat
        BY <3>2 DEF TypeOK
      <4>4. queue' \in Seq(Slot) /\ pc' \in [Caller -> Pcs] /\ receivers' \in Seq(Thread)
        BY <3>3, <3>4
      <4> QED
        BY <4>1, <4>2, <4>3, <4>4 DEF TypeOK
    <3>6. Holding' = Holding \ {c} /\ \A d \in Holding' : slot'[d] = slot[d]
      <4>1. Holding' = Holding \ {c}
        BY <3>4 DEF Holding
      <4> QED
        BY <2>11, <4>1 DEF LinkFirst, TypeOK, Holding
    <3>7. SlotsPartitioned'
      <4> USE <3>0, <3>3, <3>6 DEF SlotsPartitioned
      <4>0. free' = free
        BY <2>11 DEF LinkFirst
      <4>1. Once(queue') /\ \A s \in free' : ~In(queue', s)
        BY <4>0
      <4>2. \A d \in Holding' : slot'[d] \in Slot \ free' /\ ~In(queue', slot'[d])
        BY <4>0
      <4>3. \A d, e \in Holding' : slot'[d] = slot'[e] => d = e
        OBVIOUS
      <4>4. \A s \in Slot : s \in free' \/ In(queue', s) \/ \E d \in Holding' : slot'[d] = s
        BY <4>0
      <4> QED
        BY <4>1, <4>2, <4>3, <4>4
    <3>8. EntryCounts'
      BY <3>2, <3>3 DEF EntryCounts
    <3>9. Sleeps(senders, "sleepsend")'
      BY <2>11, <3>0, <3>4 DEF LinkFirst, SleepersListed, Sleeps, Once, In
    <3>10. LocalsOK'
      BY <2>11, <3>4 DEF LinkFirst, LocalsOK, Sends, TypeOK
    <3> QED
      BY <3>4, <3>5, <3>7, <3>8, <3>9, <3>10 DEF PoolInv, SleepersListed
  <2>12. ASSUME NEW t \in Thread, Pop(t) PROVE PoolInv'
    <3>0. /\ queue # <<>> /\ slot' = [slot EXCEPT ![t] = Head(queue)] /\ queue' = Tail(queue)
          /\ entry' = entry - 1 /\ free' = free /\ pc' = [pc EXCEPT ![t] = "copy"]
      BY <2>12 DEF Pop, Kept, EntryCounts
    <3>1. /\ Head(queue) \in Slot /\ In(queue, Head(queue))
          /\ queue' \in Seq(Slot) /\ Len(queue') = Len(queue) - 1 /\ Once(queue')
          /\ \A s : In(queue', s) <=> s # Head(queue) /\ In(queue, s)
      BY <3>0, TailList DEF TypeOK, SlotsPartitioned
    <3>2. TypeOK'
      BY <2>12, <3>0, <3>1 DEF Pop, TypeOK, Pcs, waiting
    <3>3. /\ Holding' = Holding \cup {t} /\ t \notin Holding
          /\ slot'[t] = Head(queue) /\ \A d \in Holding : slot'[d] = slot[d]
      BY <2>12, <3>0 DEF Pop, TypeOK, Holding
    <3>4. SlotsPartitioned'
      <4> USE <3>0, <3>1, <3>3 DEF SlotsPartitioned
      <4>1. Once(queue') /\ \A r \in free' : ~In(queue', r)
        OBVIOUS
      <4>2. \A d \in Holding' : slot'[d] \in Slot \ free' /\ ~In(queue', slot'[d])
        OBVIOUS
      <4>3. \A d, e \in Holding' : slot'[d] = slot'[e] => d = e
        OBVIOUS
      <4>4. \A r \in Slot : r \in free' \/ In(queue', r) \/ \E d \in Holding' : slot'[d] = r
        OBVIOUS
      <4> QED
        BY <4>1, <4>2, <4>3, <4>4
    <3>5. EntryCounts'
      BY <3>0, <3>1 DEF EntryCounts
    <3>6. SleepersListed'
      BY <2>12, <3>0 DEF Pop, TypeOK, SleepersListed, Sleeps, waiting
    <3>7. LocalsOK'
      BY <2>12, <3>0 DEF Pop, TypeOK, LocalsOK, Sends
    <3> QED
      BY <3>2, <3>4, <3>5, <3>6, <3>7 DEF PoolInv
  <2>13. ASSUME NEW t \in Thread, Release(t) PROVE PoolInv'
    <3>0. /\ t \in Holding /\ slot[t] \in Slot \ free /\ ~In(queue, slot[t])
          /\ pc[t] = "copy" /\ free' = free \cup {slot[t]} /\ senders' = Rest(senders)
          /\ pc' = Resumed([pc EXCEPT ![t] = "idle"], senders, "resend")
      BY <2>13 DEF Release, WakeSender, Holding, SlotsPartitioned
    <3>1. /\ pc' \in [Caller -> Pcs]
          /\ pc'[t] = "idle"
          /\ \A d \in Caller \ {t} : pc'[d] = pc[d] \/ (pc[d] = "sleepsend" /\ pc'[d] = "resend")
          /\ senders' \in Seq(Thread)
          /\ Sleeps(senders, "sleepsend")'
      <4>1. CASE senders = <<>>
        BY <3>0, <4>1 DEF Rest, Resumed, TypeOK, Pcs, SleepersListed, Sleeps, Once, In
      <4>2. CASE senders # <<>>
        <5>1. /\ Head(senders) \in Thread /\ senders' \in Seq(Thread) /\ Once(senders')
              /\ In(senders, Head(senders))
              /\ \A d : In(senders', d) <=> d # Head(senders) /\ In(senders, d)
          BY <3>0, <4>2, TailList DEF Rest, TypeOK, SleepersListed, Sleeps
        <5>2. pc[Head(senders)] = "sleepsend" /\ Head(senders) # t
          BY <3>0, <5>1 DEF SleepersListed, Sleeps
        <5>3. pc' = [[pc EXCEPT ![t] = "idle"] EXCEPT ![Head(senders)] = "resend"]
          BY <3>0, <4>2 DEF Resumed
        <5>4. \A d \in Caller : pc'[d] = IF d = t THEN "idle"
                                         ELSE IF d = Head(senders) THEN "resend" ELSE pc[d]
          BY <5>1, <5>2, <5>3 DEF TypeOK
        <5>5. pc' \in [Caller -> Pcs]
          BY <5>1, <5>3 DEF TypeOK, Pcs
        <5>6. Sleeps(senders, "sleepsend")'
          BY <3>0, <5>1, <5>2, <5>4 DEF SleepersListed, Sleeps
        <5> QED
          BY <5>1, <5>2, <5>4, <5>5, <5>6
      <4> QED
        BY <4>1, <4>2
    <3>2. TypeOK'
      BY <2>13, <3>0, <3>1 DEF Release, TypeOK, Waits
    <3>3. Holding' = Holding \ {t} /\ \A d \in Holding' : slot'[d] = slot[d]
      <4>1. Holding' = Holding \ {t}
        BY <3>1 DEF Holding
      <4> QED
        BY <2>13, <4>1 DEF Release, TypeOK, Holding
    <3>4. SlotsPartitioned'
      <4>0. queue' = queue
        BY <2>13 DEF Release
      <4> USE <3>0, <3>3, <4>0 DEF SlotsPartitioned
      <4>1. Once(queue') /\ \A r \in free' : ~In(queue', r)
        OBVIOUS
      <4>2. \A d \in Holding' : slot'[d] \in Slot \ free' /\ ~In(queue', slot'[d])
        OBVIOUS
      <4>3. \A d, e \in Holding' : slot'[d] = slot'[e] => d = e
        OBVIOUS
      <4>4. \A r \in Slot : r \in free' \/ In(queue', r) \/ \E d \in Holding' : slot'[d] = r
        OBVIOUS
      <4> QED
        BY <4>1, <4>2, <4>3, <4>4
    <3>5. EntryCounts'
      BY <2>13 DEF Release, EntryCounts
    <3>6. Sleeps(receivers, "sleeprecv")'
      BY <2>13, <3>0, <3>1 DEF Release, SleepersListed, Sleeps
    <3>7. LocalsOK'
      BY <2>13, <3>1 DEF Release, LocalsOK, Sends, TypeOK
    <3> QED
      BY <3>1, <3>2, <3>4, <3>5, <3>6, <3>7 DEF PoolInv, SleepersListed
  <2>14. ASSUME NEW t \in Thread, Timeout(t) PROVE PoolInv'
    <3>1. /\ pc' = [pc EXCEPT ![t] = "idle"] /\ pc[t] \in {"sleepsend", "sleeprecv"}
          /\ UNCHANGED <<free, queue, entry, content, slot>>
      BY <2>14 DEF Timeout, Return, lists
    <3>2. Holding' = Holding
      BY <3>1 DEF TypeOK, Holding
    <3>3. SlotsPartitioned' /\ EntryCounts'
      BY <3>1, <3>2 DEF SlotsPartitioned, EntryCounts
    <3>4. senders' \in Seq(Thread) /\ receivers' \in Seq(Thread) /\ SleepersListed'
      <4>1. CASE pc[t] = "sleepsend"
        <5>1. PICK i \in 1 .. Len(senders) : senders[i] = t /\ senders' = Removed(senders, i)
          BY <2>14, <4>1 DEF Timeout
        <5>2. /\ senders' \in Seq(Thread) /\ Once(senders')
              /\ \A d : In(senders', d) <=> d # t /\ In(senders, d)
          BY <5>1, RemovedList DEF TypeOK, SleepersListed, Sleeps
        <5>3. receivers' = receivers
          BY <2>14, <4>1 DEF Timeout
        <5> QED
          BY <3>1, <4>1, <5>2, <5>3 DEF TypeOK, SleepersListed, Sleeps
      <4>2. CASE pc[t] = "sleeprecv"
        <5>1. PICK i \in 1 .. Len(receivers) :
                  receivers[i] = t /\ receivers' = Removed(receivers, i)
          BY <2>14, <4>2 DEF Timeout
        <5>2. /\ receivers' \in Seq(Thread) /\ Once(receivers')
              /\ \A d : In(receivers', d) <=> d # t /\ In(receivers, d)
          BY <5>1, RemovedList DEF TypeOK, SleepersListed, Sleeps
        <5>3. senders' = senders
          BY <2>14, <4>2 DEF Timeout
        <5> QED
          BY <3>1, <4>2, <5>2, <5>3 DEF TypeOK, SleepersListed, Sleeps
      <4> QED
        BY <3>1, <4>1, <4>2
    <3>5. TypeOK'
      BY <2>14, <3>1, <3>4 DEF Timeout, Return, TypeOK, Pcs, Waits
    <3>6. LocalsOK'
      BY <2>14, <3>1 DEF Timeout, Return, TypeOK, LocalsOK, Sends
    <3> QED
      BY <3>3, <3>4, <3>5, <3>6 DEF PoolInv
  <2>15. ASSUME Reset PROVE PoolInv'
    <3>0. /\ pc' = [c \in Caller |-> IF c \in Woken THEN "idle" ELSE pc[c]]
          /\ senders' = <<>> /\ receivers' = <<>> /\ queue' = <<>> /\ entry' = 0
          /\ free' = free \cup Returned /\ slot' = slot /\ content' = content
          /\ msg' = [c \in Caller |-> IF c \in Woken THEN None ELSE msg[c]]
          /\ wait' = [c \in Caller |-> IF c \in Woken THEN "no" ELSE wait[c]]
      BY <2>15 DEF Reset
    <3>1. TypeOK'
      BY <3>0 DEF TypeOK, Pcs, Waits, Returned
    <3>2. Holding' = Holding /\ ~\E s : In(queue', s)
      BY <3>0 DEF Holding, Woken, In
    <3>3. SlotsPartitioned'
      BY <3>0, <3>2 DEF SlotsPartitioned, Returned, Once
    <3>4. EntryCounts'
      BY <3>0 DEF EntryCounts
    <3>5. \A c \in Caller : pc'[c] \notin {"sleepsend", "sleeprecv"}
      <4> TAKE c \in Caller
      <4>1. pc[c] \in {"sleepsend", "sleeprecv"} => c \in Thread
        BY DEF SleepersListed, Sleeps, In, TypeOK
      <4> QED
        BY <3>0, <4>1 DEF Woken
    <3>6. SleepersListed'
      BY <3>0, <3>5 DEF SleepersListed, Sleeps, Once, In
    <3>7. LocalsOK'
      BY <3>0 DEF LocalsOK, Sends, Woken
    <3> QED
      BY <3>1, <3>3, <3>4, <3>6, <3>7 DEF PoolInv
  <2>16. CASE UNCHANGED vars
    BY <2>16 DEF vars, lists, waiting, callers, PoolInv, TypeOK, SlotsPartitioned, EntryCounts,
       SleepersListed, Sleeps, LocalsOK, Holding, Once, In
  <2> QED
    BY <2>1, <2>2, <2>3, <2>4, <2>5, <2>6, <2>7, <2>8, <2>9, <2>10, <2>11, <2>12, <2>13, <2>14,
       <2>15, <2>16 DEF Next, Send, Receive, RecvCall
<1> QED
  BY <1>1, <1>2, PTL DEF Spec

\* The blocks of the pool are never lost nor used twice, the count is the length of the
\* queue, and the lists name exactly the sleeping threads, for any pool and any callers.
THEOREM PoolSafe == Spec => []PoolKept
<1>1. PoolInv => PoolKept
  BY DEF PoolInv, PoolKept
<1> QED
  BY <1>1, PoolInvariant, PTL

-----------------------------------------------------------------------------
(* Wake-ups.  A resumed thread has left its list, so what keeps a wake-up from *)
(* being lost is a count: as long as a thread sleeps, there are as many awake  *)
(* threads about to look as there are messages (free blocks).                  *)

Looking == {t \in Thread : pc[t] \in {"recv", "rerecv"}}
Trying == {c \in Caller : pc[c] \in {"send", "resend", "urgent"}}

LEMMA FiniteParts ==
    ASSUME NEW A
    PROVE  /\ A \subseteq Caller => IsFiniteSet(A) /\ Cardinality(A) \in Nat
           /\ A \subseteq Slot => IsFiniteSet(A) /\ Cardinality(A) \in Nat
  BY CallersAssumption, PoolAssumption, FS_Subset, FS_CardinalityType

\* a step that adds to the awake threads and takes no one from a list loses no wake-up
LEMMA MoreAwake ==
    ASSUME TypeOK, TypeOK', NoLostWakeup,
           Looking \subseteq Looking', Trying \subseteq Trying',
           queue' = queue, free' = free,
           receivers' # <<>> => receivers # <<>>, senders' # <<>> => senders # <<>>
    PROVE  NoLostWakeup'
<1>1. /\ IsFiniteSet(Looking') /\ Cardinality(Looking') \in Nat
      /\ IsFiniteSet(Trying') /\ Cardinality(Trying') \in Nat
  BY FiniteParts DEF Looking, Trying, Caller
<1>2. Cardinality(Looking) <= Cardinality(Looking') /\ Cardinality(Trying) <= Cardinality(Trying')
  BY <1>1, FS_Subset
<1>3. Cardinality(free) \in Nat /\ Cardinality(Looking) \in Nat /\ Cardinality(Trying) \in Nat
  BY FiniteParts DEF TypeOK, Looking, Trying, Caller
<1>4. Len(queue) \in Nat
  BY DEF TypeOK
<1> QED
  BY <1>1, <1>2, <1>3, <1>4 DEF NoLostWakeup, Looking, Trying

\* No receiver sleeps over a message and no sender over free memory, for any pool, any threads
\* and interrupt handlers, and any timeouts and resets.
THEOREM WakeupKept == Spec => []NoLostWakeup
<1>1. Init => NoLostWakeup
  BY DEF Init, NoLostWakeup
<1>2. PoolInv /\ PoolInv' /\ NoLostWakeup /\ [Next]_vars => NoLostWakeup'
  <2> SUFFICES ASSUME PoolInv, PoolInv', NoLostWakeup, [Next]_vars PROVE NoLostWakeup'
    OBVIOUS
  <2> TypeOK /\ TypeOK' /\ SlotsPartitioned /\ EntryCounts /\ SleepersListed /\ SleepersListed'
    BY DEF PoolInv
  <2> Thread \subseteq Caller
    BY DEF Caller
  <2>f. /\ IsFiniteSet(Looking) /\ Cardinality(Looking) \in Nat
        /\ IsFiniteSet(Trying) /\ Cardinality(Trying) \in Nat
        /\ IsFiniteSet(free) /\ Cardinality(free) \in Nat
        /\ Len(queue) \in Nat
    BY FiniteParts DEF TypeOK, Looking, Trying, Caller
  <2>g. /\ IsFiniteSet(Looking') /\ Cardinality(Looking') \in Nat
        /\ IsFiniteSet(Trying') /\ Cardinality(Trying') \in Nat
    BY FiniteParts DEF Looking, Trying, Caller
  <2>h. \/ ~(/\ receivers' # <<>> => Len(queue') <= Cardinality(Looking')
             /\ senders' # <<>> => Cardinality(free') <= Cardinality(Trying'))
        \/ NoLostWakeup'
    BY DEF NoLostWakeup, Looking, Trying
  <2>i. /\ receivers # <<>> => Len(queue) <= Cardinality(Looking)
        /\ senders # <<>> => Cardinality(free) <= Cardinality(Trying)
    BY DEF NoLostWakeup, Looking, Trying
  <2>1. ASSUME NEW c \in Caller, NEW m \in Message, NEW w \in Waits, CallSend(c, m, w)
        PROVE  NoLostWakeup'
    <3>1. Looking \subseteq Looking' /\ Trying \subseteq Trying'
      BY <2>1 DEF CallSend, TypeOK, Looking, Trying
    <3> QED
      BY <2>1, <3>1, MoreAwake DEF CallSend, lists, waiting
  <2>2. ASSUME NEW c \in Caller, NEW m \in Message, CallUrgent(c, m) PROVE NoLostWakeup'
    <3>1. Looking \subseteq Looking' /\ Trying \subseteq Trying'
      BY <2>2 DEF CallUrgent, TypeOK, Looking, Trying
    <3> QED
      BY <2>2, <3>1, MoreAwake DEF CallUrgent, lists, waiting
  <2>3. ASSUME NEW t \in Thread, NEW w \in Waits, CallRecv(t, w) PROVE NoLostWakeup'
    <3>1. Looking \subseteq Looking' /\ Trying \subseteq Trying'
      BY <2>3 DEF CallRecv, TypeOK, Looking, Trying
    <3> QED
      BY <2>3, <3>1, MoreAwake DEF CallRecv, lists, waiting
  <2>4. ASSUME NEW t \in Thread, Recompute(t) PROVE NoLostWakeup'
    <3>1. Looking \subseteq Looking' /\ Trying \subseteq Trying'
      BY <2>4 DEF Recompute, TypeOK, Looking, Trying
    <3> QED
      BY <2>4, <3>1, MoreAwake DEF Recompute, lists, waiting
  <2>5. ASSUME NEW t \in Thread, Timeout(t) PROVE NoLostWakeup'
    <3>1. Looking \subseteq Looking' /\ Trying \subseteq Trying'
      BY <2>5 DEF Timeout, Return, TypeOK, Looking, Trying
    <3>2. /\ senders' # <<>> => senders # <<>>
          /\ receivers' # <<>> => receivers # <<>>
      <4>1. CASE pc[t] = "sleepsend"
        BY <2>5, <4>1 DEF Timeout, TypeOK
      <4>2. CASE pc[t] # "sleepsend"
        BY <2>5, <4>2 DEF Timeout, TypeOK
      <4> QED
        BY <4>1, <4>2
    <3> QED
      BY <2>5, <3>1, <3>2, MoreAwake DEF Timeout, lists
  \* a call that finds nothing leaves: there is nothing a sleeping thread could have
  <2>6. ASSUME NEW c \in Caller, SendFull(c) PROVE NoLostWakeup'
    <3>1. free' = {} /\ Looking \subseteq Looking' /\ queue' = queue /\ receivers' = receivers
      BY <2>6 DEF SendFull, Return, TypeOK, Looking, lists, waiting
    <3>2. Cardinality(free') = 0
      BY <3>1, FS_EmptySet
    <3>3. Cardinality(Looking) <= Cardinality(Looking')
      BY <3>1, <2>g, FS_Subset
    <3> QED
      BY <3>1, <3>2, <3>3, <2>f, <2>g DEF NoLostWakeup, Looking, Trying
  <2>7. ASSUME NEW c \in Caller, SendSuspend(c) PROVE NoLostWakeup'
    <3>1. free' = {} /\ Looking \subseteq Looking' /\ queue' = queue /\ receivers' = receivers
      BY <2>7 DEF SendSuspend, TypeOK, Looking, lists
    <3>2. Cardinality(free') = 0
      BY <3>1, FS_EmptySet
    <3>3. Cardinality(Looking) <= Cardinality(Looking')
      BY <3>1, <2>g, FS_Subset
    <3> QED
      BY <3>1, <3>2, <3>3, <2>f, <2>g DEF NoLostWakeup, Looking, Trying
  <2>8. ASSUME NEW t \in Thread, RecvEmpty(t) PROVE NoLostWakeup'
    <3>1. /\ Len(queue') = 0 /\ Trying \subseteq Trying' /\ free' = free /\ senders' = senders
      BY <2>8 DEF RecvEmpty, Return, EntryCounts, TypeOK, Trying, lists, waiting
    <3>2. Cardinality(Trying) <= Cardinality(Trying')
      BY <3>1, <2>g, FS_Subset
    <3>3. Len(queue') <= Cardinality(Looking')
      BY <3>1, <2>g
    <3>4. senders' # <<>> => Cardinality(free') <= Cardinality(Trying')
      BY <3>1, <3>2, <2>f, <2>g DEF NoLostWakeup, Trying
    <3> QED
      BY <3>3, <3>4, <2>h
  <2>9. ASSUME NEW t \in Thread, RecvSuspend(t) PROVE NoLostWakeup'
    <3>1. /\ Len(queue') = 0 /\ Trying \subseteq Trying' /\ free' = free /\ senders' = senders
      BY <2>9 DEF RecvSuspend, EntryCounts, TypeOK, Trying, lists
    <3>2. Cardinality(Trying) <= Cardinality(Trying')
      BY <3>1, <2>g, FS_Subset
    <3>3. Len(queue') <= Cardinality(Looking')
      BY <3>1, <2>g
    <3>4. senders' # <<>> => Cardinality(free') <= Cardinality(Trying')
      BY <3>1, <3>2, <2>f, <2>g DEF NoLostWakeup, Trying
    <3> QED
      BY <3>3, <3>4, <2>h
  \* a caller that finds a block takes one and is no longer about to look
  <2>10. ASSUME NEW c \in Caller, Claim(c) PROVE NoLostWakeup'
    <3>1. PICK s \in free : free' = free \ {s}
      BY <2>10 DEF Claim
    <3>2. /\ c \in Trying /\ Trying' = Trying \ {c} /\ Looking' = Looking
          /\ queue' = queue /\ UNCHANGED waiting
      BY <2>10 DEF Claim, TypeOK, Trying, Looking
    <3>3. Cardinality(free') = Cardinality(free) - 1
      BY <3>1, <2>f, FS_RemoveElement
    <3>4. Cardinality(Trying') = Cardinality(Trying) - 1
      BY <3>2, <2>f, FS_RemoveElement
    <3> QED
      BY <3>2, <3>3, <3>4, <2>f, <2>h, <2>i DEF waiting
  <2>11. ASSUME NEW t \in Thread, Pop(t) PROVE NoLostWakeup'
    <3>1. /\ t \in Looking /\ Looking' = Looking \ {t} /\ Trying' = Trying
          /\ free' = free /\ UNCHANGED waiting
      BY <2>11 DEF Pop, Kept, TypeOK, Trying, Looking
    <3>2. Len(queue') = Len(queue) - 1
      BY <2>11 DEF Pop, EntryCounts, TypeOK
    <3>3. Cardinality(Looking') = Cardinality(Looking) - 1
      BY <3>1, <2>f, FS_RemoveElement
    <3> QED
      BY <3>1, <3>2, <3>3, <2>f, <2>h, <2>i DEF waiting
  \* a message that is linked, a block that is released wakes the first who waits for it
  <2>12. ASSUME NEW c \in Caller, Link(c) \/ LinkFirst(c) PROVE NoLostWakeup'
    <3>1. /\ c \in Holding /\ slot[c] \in Slot /\ ~In(queue, slot[c])
          /\ pc[c] \notin {"recv", "rerecv", "send", "resend", "urgent", "sleeprecv"}
      BY <2>12 DEF Link, LinkFirst, Holding, SlotsPartitioned
    <3>2. entry < EntryMax
      <4>1. Len(queue) < Cardinality(Slot)
        BY <3>1, RoomForOneMore DEF TypeOK, SlotsPartitioned
      <4>2. Cardinality(Slot) \in Nat
        BY PoolAssumption, FS_CardinalityType
      <4> QED
        BY <4>1, <4>2, EntryAssumption DEF EntryCounts, TypeOK
    <3>3. /\ pc' = Resumed([pc EXCEPT ![c] = "idle"], receivers, "rerecv")
          /\ receivers' = Rest(receivers) /\ free' = free /\ senders' = senders
      BY <2>12, <3>2 DEF Link, LinkFirst, CountAndResume
    <3>4. Len(queue') = Len(queue) + 1
      BY <2>12, <3>1, AppendList, PrependList DEF Link, LinkFirst, TypeOK, SlotsPartitioned
    <3>5. CASE receivers = <<>>
      <4>1. Trying \subseteq Trying' /\ receivers' = <<>>
        BY <3>1, <3>3, <3>5 DEF Resumed, Rest, TypeOK, Trying
      <4>2. Cardinality(Trying) <= Cardinality(Trying')
        BY <4>1, <2>g, FS_Subset
      <4> QED
        BY <3>3, <4>1, <4>2, <2>f, <2>g DEF NoLostWakeup, Trying
    <3>6. CASE receivers # <<>>
      <4> DEFINE h == Head(receivers)
      <4>1. h \in Thread /\ In(receivers, h)
        BY <3>6, TailList DEF TypeOK, SleepersListed, Sleeps
      <4>2. pc[h] = "sleeprecv" /\ h # c
        BY <3>1, <4>1 DEF SleepersListed, Sleeps
      <4>3. \A d \in Caller : pc'[d] = IF d = c THEN "idle" ELSE IF d = h THEN "rerecv" ELSE pc[d]
        BY <3>3, <3>6, <4>1, <4>2 DEF Resumed, TypeOK
      <4> HIDE DEF h
      <4>4. h \notin Looking /\ Looking \cup {h} \subseteq Looking' /\ Trying \subseteq Trying'
        BY <3>1, <4>1, <4>2, <4>3 DEF Looking, Trying
      <4>5. Cardinality(Looking \cup {h}) = Cardinality(Looking) + 1 /\ IsFiniteSet(Looking \cup {h})
        BY <4>4, <2>f, FS_AddElement
      <4>6. Cardinality(Looking \cup {h}) <= Cardinality(Looking')
            /\ Cardinality(Trying) <= Cardinality(Trying')
        BY <4>4, <2>g, FS_Subset
      <4>7. Len(queue) <= Cardinality(Looking)
        BY <3>6 DEF NoLostWakeup, Looking
      <4>8. Len(queue') <= Cardinality(Looking')
        BY <3>4, <4>5, <4>6, <4>7, <2>f, <2>g
      <4>9. senders' # <<>> => Cardinality(free') <= Cardinality(Trying')
        BY <3>3, <4>6, <2>f, <2>g DEF NoLostWakeup, Trying
      <4> QED
        BY <4>8, <4>9 DEF NoLostWakeup, Looking, Trying
    <3> QED
      BY <3>5, <3>6
  <2>13. ASSUME NEW t \in Thread, Release(t) PROVE NoLostWakeup'
    <3>1. /\ t \in Holding /\ slot[t] \in Slot \ free /\ free' = free \cup {slot[t]}
          /\ pc[t] = "copy" /\ queue' = queue /\ receivers' = receivers
          /\ pc' = Resumed([pc EXCEPT ![t] = "idle"], senders, "resend")
          /\ senders' = Rest(senders)
      BY <2>13 DEF Release, WakeSender, Holding, SlotsPartitioned
    <3>2. Cardinality(free') = Cardinality(free) + 1
      BY <3>1, <2>f, FS_AddElement
    <3>3. CASE senders = <<>>
      <4>1. Looking \subseteq Looking' /\ senders' = <<>>
        BY <3>1, <3>3 DEF Resumed, Rest, TypeOK, Looking
      <4>2. Cardinality(Looking) <= Cardinality(Looking')
        BY <4>1, <2>g, FS_Subset
      <4> QED
        BY <3>1, <4>1, <4>2, <2>f, <2>g DEF NoLostWakeup, Looking
    <3>4. CASE senders # <<>>
      <4> DEFINE h == Head(senders)
      <4>1. h \in Thread /\ In(senders, h)
        BY <3>4, TailList DEF TypeOK, SleepersListed, Sleeps
      <4>2. pc[h] = "sleepsend" /\ h # t
        BY <3>1, <4>1 DEF SleepersListed, Sleeps
      <4>3. \A d \in Caller : pc'[d] = IF d = t THEN "idle" ELSE IF d = h THEN "resend" ELSE pc[d]
        BY <3>1, <3>4, <4>1, <4>2 DEF Resumed, TypeOK
      <4> HIDE DEF h
      <4>4. h \notin Trying /\ Trying \cup {h} \subseteq Trying' /\ Looking \subseteq Looking'
        BY <3>1, <4>1, <4>2, <4>3 DEF Looking, Trying
      <4>5. Cardinality(Trying \cup {h}) = Cardinality(Trying) + 1 /\ IsFiniteSet(Trying \cup {h})
        BY <4>4, <2>f, FS_AddElement
      <4>6. Cardinality(Trying \cup {h}) <= Cardinality(Trying')
            /\ Cardinality(Looking) <= Cardinality(Looking')
        BY <4>4, <2>g, FS_Subset
      <4>7. Cardinality(free) <= Cardinality(Trying)
        BY <3>4 DEF NoLostWakeup, Trying
      <4>8. Cardinality(free') <= Cardinality(Trying')
        BY <3>2, <4>5, <4>6, <4>7, <2>f, <2>g
      <4>9. receivers' # <<>> => Len(queue') <= Cardinality(Looking')
        BY <3>1, <4>6, <2>f, <2>g DEF NoLostWakeup, Looking
      <4> QED
        BY <4>8, <4>9 DEF NoLostWakeup, Looking, Trying
    <3> QED
      BY <3>3, <3>4
  <2>14. ASSUME Reset PROVE NoLostWakeup'
    BY <2>14 DEF Reset, NoLostWakeup
  <2>15. CASE UNCHANGED vars
    BY <2>15 DEF vars, lists, waiting, callers, NoLostWakeup
  <2> QED
    BY <2>1, <2>2, <2>3, <2>4, <2>5, <2>6, <2>7, <2>8, <2>9, <2>10, <2>11, <2>12, <2>13, <2>14, <2>15
    DEF Next, Send, Receive, RecvCall
<1> QED
  BY <1>1, <1>2, PoolInvariant, PTL DEF Spec

-----------------------------------------------------------------------------
(* Turns.  The place of a newcomer is searched from the head of the list, and  *)
(* it is the right one only because the list is already in order: a list that  *)
(* lost its order, by a timeout in the middle for example, would let threads   *)
(* of one priority overtake each other.                                        *)

Ordered(list) ==
    ByPriority => \A i, j \in 1 .. Len(list) : i < j => Priority[list[i]] <= Priority[list[j]]

\* what the kernel does to a list of waiting threads in one critical section
Moves(list, next) ==
    \/ next = list
    \/ next = <<>>
    \/ list # <<>> /\ next = Tail(list)
    \/ \E t \in Thread : \E i \in Places(list, t) : ~In(list, t) /\ next = Inserted(list, i, t)
    \/ \E i \in 1 .. Len(list) : next = Removed(list, i)

LEMMA NobodyNew ==
    ASSUME NEW list, NEW next, \A y : In(next, y) => In(list, y)
    PROVE  NotOvertaken(list, next)
  BY DEF NotOvertaken

\* a newcomer goes behind those of its own priority
LEMMA NewcomerLast ==
    ASSUME NEW list \in Seq(Thread), Once(list), Ordered(list),
           NEW x \in Thread, ~In(list, x), NEW i \in Places(list, x)
    PROVE  Ordered(Inserted(list, i, x)) /\ NotOvertaken(list, Inserted(list, i, x))
<1> DEFINE r == Inserted(list, i, x)
<1>1. /\ i \in 1 .. Len(list) + 1
      /\ ByPriority => /\ i <= Len(list) => Priority[x] < Priority[list[i]]
                       /\ \A j \in 1 .. i - 1 : Priority[x] >= Priority[list[j]]
      /\ ~ByPriority => i = Len(list) + 1
  BY DEF Places
<1>2. /\ Len(r) = Len(list) + 1
      /\ \A j \in 1 .. Len(list) + 1 :
            r[j] = IF j < i THEN list[j] ELSE IF j = i THEN x ELSE list[j - 1]
      /\ \A y : In(r, y) <=> y = x \/ In(list, y)
  BY <1>1, InsertedList
<1> HIDE DEF r
<1>3. \A t \in Thread : Priority[t] \in Nat
  BY PriorityAssumption
<1>4. Len(list) \in Nat /\ \A j \in 1 .. Len(list) : list[j] \in Thread
  OBVIOUS
<1>5. ASSUME ByPriority PROVE \A j \in i .. Len(list) : Priority[x] < Priority[list[j]]
  <2> TAKE j \in i .. Len(list)
  <2>1. Priority[list[i]] <= Priority[list[j]]
    BY <1>1, <1>3, <1>4, <1>5 DEF Ordered
  <2>2. Priority[x] < Priority[list[i]]
    BY <1>1, <1>5
  <2> QED
    BY <1>1, <1>3, <1>4, <2>1, <2>2
<1>6. Ordered(r)
  <2> SUFFICES ASSUME ByPriority, NEW j \in 1 .. Len(r), NEW k \in 1 .. Len(r), j < k
               PROVE  Priority[r[j]] <= Priority[r[k]]
    BY DEF Ordered
  <2>1. \A m, n \in 1 .. Len(list) : m < n => Priority[list[m]] <= Priority[list[n]]
    BY DEF Ordered
  <2>2. CASE k < i
    BY <2>1, <2>2, <1>1, <1>2
  <2>3. CASE k = i
    BY <2>3, <1>1, <1>2, <1>3, <1>4
  <2>4. CASE i = j
    <3>1. r[j] = x /\ r[k] = list[k - 1] /\ k - 1 \in i .. Len(list)
      BY <2>4, <1>1, <1>2
    <3> QED
      BY <3>1, <1>1, <1>3, <1>4, <1>5
  <2>5. CASE j < i /\ i < k
    <3>1. r[j] = list[j] /\ r[k] = list[k - 1] /\ j < k - 1
          /\ j \in 1 .. Len(list) /\ k - 1 \in 1 .. Len(list)
      BY <2>5, <1>1, <1>2
    <3> QED
      BY <3>1, <2>1
  <2>6. CASE i < j
    <3>1. r[j] = list[j - 1] /\ r[k] = list[k - 1] /\ j - 1 < k - 1
          /\ j - 1 \in 1 .. Len(list) /\ k - 1 \in 1 .. Len(list)
      BY <2>6, <1>1, <1>2
    <3> QED
      BY <3>1, <2>1
  <2> QED
    BY <2>2, <2>3, <2>4, <2>5, <2>6, <1>1
<1>7. NotOvertaken(list, r)
  <2> SUFFICES ASSUME NEW t \in Thread, NEW u \in Thread, In(list, t), ~In(list, u), In(r, u),
                      ByPriority => Priority[t] <= Priority[u]
               PROVE  Precedes(r, t, u)
    BY DEF NotOvertaken
  <2>1. u = x
    BY <1>2
  <2>2. PICK k \in 1 .. Len(list) : list[k] = t
    BY DEF In
  <2>3. k < i
    BY <2>1, <2>2, <1>1, <1>3, <1>4, <1>5
  <2>4. r[k] = t /\ r[i] = x /\ k \in 1 .. Len(r) /\ i \in 1 .. Len(r)
    BY <2>2, <2>3, <1>1, <1>2
  <2> QED
    BY <2>1, <2>3, <2>4 DEF Precedes
<1> QED
  BY <1>6, <1>7 DEF r

LEMMA MovesKeepOrder ==
    ASSUME NEW list \in Seq(Thread), Once(list), Ordered(list), NEW next, Moves(list, next)
    PROVE  Ordered(next) /\ NotOvertaken(list, next)
<1>0. Len(list) \in Nat
  OBVIOUS
<1>1. CASE next = list
  BY <1>1, NobodyNew
<1>2. CASE next = <<>>
  BY <1>2, NobodyNew DEF Ordered, In
<1>3. CASE list # <<>> /\ next = Tail(list)
  <2>1. /\ Len(next) = Len(list) - 1
        /\ \A j \in 1 .. Len(list) - 1 : next[j] = list[j + 1]
        /\ \A y : In(next, y) => In(list, y)
    BY <1>3, TailList
  <2>2. Ordered(next)
    BY <2>1, <1>0 DEF Ordered
  <2> QED
    BY <2>1, <2>2, NobodyNew
<1>4. ASSUME NEW t \in Thread, NEW i \in Places(list, t), ~In(list, t), next = Inserted(list, i, t)
      PROVE  Ordered(next) /\ NotOvertaken(list, next)
  BY <1>4, NewcomerLast
<1>5. ASSUME NEW i \in 1 .. Len(list), next = Removed(list, i)
      PROVE  Ordered(next) /\ NotOvertaken(list, next)
  <2>1. /\ Len(next) = Len(list) - 1
        /\ \A j \in 1 .. Len(list) - 1 : next[j] = IF j < i THEN list[j] ELSE list[j + 1]
        /\ \A y : In(next, y) => In(list, y)
    BY <1>5, RemovedList
  <2>2. Ordered(next)
    BY <2>1, <1>0 DEF Ordered
  <2> QED
    BY <2>1, <2>2, NobodyNew
<1> QED
  BY <1>1, <1>2, <1>3, <1>4, <1>5 DEF Moves

\* each step does one of these things to each list
LEMMA ListsMove ==
    ASSUME PoolInv, [Next]_vars
    PROVE  Moves(senders, senders') /\ Moves(receivers, receivers')
<1> TypeOK /\ SleepersListed
  BY DEF PoolInv
<1>r. \A list : Moves(list, list) /\ Moves(list, Rest(list)) /\ Moves(list, <<>>)
  BY DEF Moves, Rest
<1>1. ASSUME NEW c \in Caller, SendSuspend(c)
      PROVE  Moves(senders, senders') /\ receivers' = receivers
  <2>1. PICK i \in Places(senders, c) : senders' = Inserted(senders, i, c)
    BY <1>1 DEF SendSuspend
  <2>2. c \in Thread /\ ~In(senders, c)
    BY <1>1, CallersAssumption DEF SendSuspend, SleepersListed, Sleeps, PoolInv, LocalsOK, Caller
  <2> QED
    BY <1>1, <2>1, <2>2 DEF SendSuspend, Moves
<1>2. ASSUME NEW t \in Thread, RecvSuspend(t)
      PROVE  Moves(receivers, receivers') /\ senders' = senders
  <2>1. PICK i \in Places(receivers, t) : receivers' = Inserted(receivers, i, t)
    BY <1>2 DEF RecvSuspend
  <2>2. ~In(receivers, t)
    BY <1>2 DEF RecvSuspend, SleepersListed, Sleeps, Caller
  <2> QED
    BY <1>2, <2>1, <2>2 DEF RecvSuspend, Moves
<1>3. ASSUME NEW t \in Thread, Timeout(t)
      PROVE  Moves(receivers, receivers') /\ Moves(senders, senders')
  <2>1. CASE \E i \in 1 .. Len(senders) : senders' = Removed(senders, i) /\ receivers' = receivers
    BY <2>1, <1>r DEF Moves
  <2>2. CASE \E i \in 1 .. Len(receivers) : receivers' = Removed(receivers, i) /\ senders' = senders
    BY <2>2, <1>r DEF Moves
  <2> QED
    BY <1>3, <2>1, <2>2 DEF Timeout
<1>4. ASSUME NEW c \in Caller, Link(c) \/ LinkFirst(c)
      PROVE  Moves(receivers, receivers') /\ senders' = senders
  BY <1>4, <1>r DEF Link, LinkFirst, CountAndResume
<1>5. ASSUME NEW t \in Thread, Release(t)
      PROVE  Moves(senders, senders') /\ receivers' = receivers
  BY <1>5, <1>r DEF Release, WakeSender
<1>6. ASSUME Reset PROVE Moves(senders, senders') /\ Moves(receivers, receivers')
  BY <1>6, <1>r DEF Reset
<1>7. ASSUME NEW c \in Caller, Claim(c) \/ SendFull(c) PROVE UNCHANGED waiting
  BY <1>7 DEF Claim, SendFull, waiting
<1>8. ASSUME NEW t \in Thread, RecvCall(t) \/ RecvEmpty(t) \/ Pop(t) \/ Recompute(t)
      PROVE  UNCHANGED waiting
  BY <1>8 DEF RecvCall, CallRecv, RecvEmpty, Pop, Recompute, waiting
<1>9. ASSUME NEW c \in Caller, NEW m \in Message, NEW w \in Waits, CallSend(c, m, w)
      PROVE  UNCHANGED waiting
  BY <1>9 DEF CallSend, waiting
<1>10. ASSUME NEW c \in Caller, NEW m \in Message, CallUrgent(c, m) PROVE UNCHANGED waiting
  BY <1>10 DEF CallUrgent, waiting
<1>11. CASE UNCHANGED vars
  BY <1>11, <1>r DEF vars, waiting
<1>12. UNCHANGED waiting => Moves(senders, senders') /\ Moves(receivers, receivers')
  BY <1>r DEF waiting
<1> QED
  BY <1>1, <1>2, <1>3, <1>4, <1>5, <1>6, <1>7, <1>8, <1>9, <1>10, <1>11, <1>12, <1>r
  DEF Next, Send, Receive

\* Nobody who waits is overtaken by a thread that comes later, but for one of a higher
\* priority, whatever threads are woken, time out or are reset in between.
THEOREM InTurn == Spec => WaitInTurn
<1> DEFINE OrderInv == Ordered(senders) /\ Ordered(receivers)
           Turn == NotOvertaken(senders, senders') /\ NotOvertaken(receivers, receivers')
<1>1. Init => OrderInv
  BY DEF Init, Ordered
<1>2. PoolInv /\ OrderInv /\ [Next]_vars => OrderInv' /\ Turn
  <2> SUFFICES ASSUME PoolInv, OrderInv, [Next]_vars PROVE OrderInv' /\ Turn
    OBVIOUS
  <2>1. /\ senders \in Seq(Thread) /\ Once(senders)
        /\ receivers \in Seq(Thread) /\ Once(receivers)
    BY DEF PoolInv, TypeOK, SleepersListed, Sleeps
  <2>2. Moves(senders, senders') /\ Moves(receivers, receivers')
    BY ListsMove
  <2>3. Ordered(senders') /\ NotOvertaken(senders, senders')
    BY <2>1, <2>2, MovesKeepOrder
  <2>4. Ordered(receivers') /\ NotOvertaken(receivers, receivers')
    BY <2>1, <2>2, MovesKeepOrder
  <2>5. Ordered(senders)' /\ Ordered(receivers)'
    BY <2>3, <2>4 DEF Ordered
  <2> QED
    BY <2>3, <2>4, <2>5
<1>3. Spec => [][Turn]_vars
  <2> HIDE DEF OrderInv, Turn
  <2> QED
    BY <1>1, <1>2, PoolInvariant, PTL DEF Spec
<1> QED
  BY <1>3 DEF WaitInTurn

-----------------------------------------------------------------------------
(* The refinement of BoundedFifo.  The memory of a message is reused, so what  *)
(* a block holds counts only while the block is in the queue or with a         *)
(* receiver that copies it; that no sender writes to it then is where the      *)
(* partition of the pool comes in, and so does the room for one more message.  *)

FifoBar == [i \in 1 .. Len(queue) |-> content[queue[i]]]
HandBar == [t \in Thread |-> IF pc[t] = "copy" THEN content[slot[t]] ELSE None]
Copying == {t \in Thread : pc[t] = "copy"}

LEMMA ImageSize ==
    ASSUME NEW S, IsFiniteSet(S), NEW T, NEW f \in [S -> T], \A x, y \in S : f[x] = f[y] => x = y,
           NEW image, image = {f[x] : x \in S}
    PROVE  IsFiniteSet(image) /\ Cardinality(image) = Cardinality(S)
<1>1. f \in Bijection(S, image)
  BY DEF Bijection, Injection, Surjection, IsInjective
<1>2. ExistsBijection(S, image)
  BY <1>1 DEF ExistsBijection
<1> QED
  BY <1>2, FS_Bijection

\* what the abstract queue shows
LEMMA BarType ==
    ASSUME TypeOK, SlotsPartitioned
    PROVE  /\ FifoBar \in Seq(Message) /\ Len(FifoBar) = Len(queue)
           /\ \A i \in 1 .. Len(queue) :
                 queue[i] \in Slot /\ In(queue, queue[i]) /\ FifoBar[i] = content[queue[i]]
           /\ \A t \in Copying :
                 slot[t] \in Slot /\ content[slot[t]] \in Message /\ content[slot[t]] # None
<1>1. Len(queue) \in Nat /\ \A i \in 1 .. Len(queue) : queue[i] \in Slot
  BY DEF TypeOK
<1>2. \A i \in 1 .. Len(queue) : content[queue[i]] \in Message
  BY <1>1 DEF TypeOK
<1>3. FifoBar \in Seq(Message) /\ Len(FifoBar) = Len(queue)
  <2>1. FifoBar \in [1 .. Len(queue) -> Message]
    BY <1>2 DEF FifoBar
  <2>2. FifoBar \in Seq(Message)
    BY <1>1, <2>1, SeqDef
  <2> QED
    BY <1>1, <2>1, <2>2, LenProperties
<1>4. \A t \in Copying : slot[t] \in Slot
  BY DEF Copying, SlotsPartitioned, Holding, Caller
<1> QED
  BY <1>1, <1>3, <1>4, MessageAssumption DEF TypeOK, FifoBar, In

\* a caller that works on a block finds room for its message
LEMMA RoomForMine ==
    ASSUME TypeOK, SlotsPartitioned, NEW c \in Holding, c \notin Copying
    PROVE  /\ IsFiniteSet(Copying) /\ Cardinality(Copying) \in Nat
           /\ Len(queue) + Cardinality(Copying) < Cardinality(Slot)
<1> DEFINE n == Len(queue)
           place == [i \in 1 .. n |-> queue[i]]
           held == [t \in Copying |-> slot[t]]
           queued == {place[i] : i \in 1 .. n}
           copied == {held[t] : t \in Copying}
           all == (queued \cup copied) \cup {slot[c]}
<1>1. n \in Nat /\ \A i \in 1 .. n : queue[i] \in Slot
  BY DEF TypeOK
<1>2. /\ Copying \subseteq Holding
      /\ \A t \in Holding : slot[t] \in Slot /\ ~In(queue, slot[t])
      /\ \A t, u \in Holding : slot[t] = slot[u] => t = u
  BY DEF Copying, SlotsPartitioned, Holding, Caller
<1>3. IsFiniteSet(Copying) /\ Cardinality(Copying) \in Nat
  BY FiniteParts DEF Copying, Caller
<1>4. IsFiniteSet(queued) /\ Cardinality(queued) = n
  <2> DEFINE places == 1 .. n
  <2>1. place \in [places -> Slot]
    BY <1>1
  <2>2. \A i, j \in places : place[i] = place[j] => i = j
    BY DEF SlotsPartitioned, Once
  <2>3. IsFiniteSet(places) /\ Cardinality(places) = n
    BY <1>1, FS_Interval
  <2>4. queued = {place[i] : i \in places}
    OBVIOUS
  <2> HIDE DEF place, queued, places, n
  <2>5. \A I : I = {place[i] : i \in places} =>
           IsFiniteSet(I) /\ Cardinality(I) = Cardinality(places)
    <3> TAKE I
    <3> HAVE I = {place[i] : i \in places}
    <3> QED
      BY <2>1, <2>2, <2>3, ImageSize
  <2> QED
    BY <2>3, <2>4, <2>5
<1>5. IsFiniteSet(copied) /\ Cardinality(copied) = Cardinality(Copying)
  <2>1. held \in [Copying -> Slot]
    BY <1>2
  <2>2. \A t, u \in Copying : held[t] = held[u] => t = u
    BY <1>2
  <2> HIDE DEF held
  <2> QED
    BY <1>3, <2>1, <2>2, ImageSize
<1>6. queued \subseteq Slot /\ copied \subseteq Slot /\ slot[c] \in Slot
  BY <1>1, <1>2
<1>7. \A s \in queued : In(queue, s)
  BY <1>1 DEF In
<1>8. \A s \in copied : ~In(queue, s) /\ s # slot[c]
  BY <1>2
<1>9. ~In(queue, slot[c])
  BY <1>2
<1> HIDE DEF queued, copied
<1>10. queued \cap copied = {} /\ slot[c] \notin queued \cup copied
  BY <1>7, <1>8, <1>9
<1>11. /\ IsFiniteSet(queued \cup copied)
       /\ Cardinality(queued \cup copied) = n + Cardinality(Copying)
  <2>1. Cardinality(queued \cap copied) = 0
    BY <1>10, FS_EmptySet
  <2> QED
    <3>1. /\ IsFiniteSet(queued \cup copied)
          /\ Cardinality(queued \cup copied)
                = Cardinality(queued) + Cardinality(copied) - Cardinality(queued \cap copied)
      BY <1>4, <1>5, FS_Union
    <3> HIDE DEF n
    <3> QED
      BY <1>1, <1>3, <1>4, <1>5, <2>1, <3>1
<1>12. Cardinality(all) = n + Cardinality(Copying) + 1
  BY <1>10, <1>11, FS_AddElement
<1>13. Cardinality(all) <= Cardinality(Slot) /\ Cardinality(Slot) \in Nat
  BY <1>6, PoolAssumption, FS_Subset, FS_CardinalityType
<1> QED
  BY <1>1, <1>3, <1>12, <1>13

\* of the threads, only the caller and the first of the list change their step
LEMMA OneResumed ==
    ASSUME pc \in [Caller -> Pcs], NEW list \in Seq(Thread), NEW st, Sleeps(list, st),
           NEW c \in Caller, pc[c] # st, NEW step,
           pc' = Resumed([pc EXCEPT ![c] = "idle"], list, step)
    PROVE  /\ pc'[c] = "idle"
           /\ \A d \in Caller \ {c} : pc'[d] = pc[d] \/ (pc[d] = st /\ pc'[d] = step)
<1>1. CASE list = <<>>
  BY <1>1 DEF Resumed
<1>2. CASE list # <<>>
  <2>1. Head(list) \in Caller /\ pc[Head(list)] = st
    BY <1>2, TailList DEF Sleeps, Caller
  <2> QED
    BY <1>2, <2>1 DEF Resumed
<1> QED
  BY <1>1, <1>2

\* a step that touches neither the queue nor a block that is copied shows nothing
LEMMA Unseen ==
    ASSUME TypeOK, UNCHANGED <<queue, content>>, Copying' = Copying,
           \A t \in Copying : slot'[t] = slot[t]
    PROVE  UNCHANGED <<FifoBar, HandBar>>
<1>1. FifoBar' = FifoBar
  BY DEF FifoBar
<1>2. \A t \in Thread :
         (IF pc'[t] = "copy" THEN content'[slot'[t]] ELSE None)
           = (IF pc[t] = "copy" THEN content[slot[t]] ELSE None)
  BY DEF Copying
<1>3. HandBar' = HandBar
  BY <1>2 DEF HandBar
<1> QED
  BY <1>1, <1>3

\* what the abstract queue looks like from here
LEMMA BarDefs ==
    /\ Fifo!Room <=> Len(FifoBar) + Cardinality({t \in Thread : HandBar[t] # None}) < Cardinality(Slot)
    /\ \A m : Fifo!Put(m) <=> Fifo!Room /\ FifoBar' = Append(FifoBar, m) /\ UNCHANGED HandBar
    /\ \A m : Fifo!PutFirst(m) <=> Fifo!Room /\ FifoBar' = <<m>> \o FifoBar /\ UNCHANGED HandBar
    /\ \A t : Fifo!Take(t) <=> /\ FifoBar # <<>> /\ HandBar[t] = None
                               /\ HandBar' = [HandBar EXCEPT ![t] = Head(FifoBar)]
                               /\ FifoBar' = Tail(FifoBar)
    /\ \A t : Fifo!Finish(t) <=> /\ HandBar[t] # None
                                 /\ HandBar' = [HandBar EXCEPT ![t] = None] /\ UNCHANGED FifoBar
    /\ Fifo!Clear <=> FifoBar' = <<>> /\ UNCHANGED HandBar
<1>1. Fifo!Room <=> Len(FifoBar) + Cardinality({t \in Thread : HandBar[t] # None}) < Cardinality(Slot)
  BY DEF Fifo!Room, Fifo!InHand, FifoBar, HandBar, Fifo!Cardinality, Cardinality
<1>2. \A m : Fifo!Put(m) <=> Fifo!Room /\ FifoBar' = Append(FifoBar, m) /\ UNCHANGED HandBar
  BY DEF Fifo!Put, FifoBar, HandBar
<1>3. \A m : Fifo!PutFirst(m) <=> Fifo!Room /\ FifoBar' = <<m>> \o FifoBar /\ UNCHANGED HandBar
  BY DEF Fifo!PutFirst, FifoBar, HandBar
<1>4. \A t : Fifo!Take(t) <=> /\ FifoBar # <<>> /\ HandBar[t] = None
                               /\ HandBar' = [HandBar EXCEPT ![t] = Head(FifoBar)]
                               /\ FifoBar' = Tail(FifoBar)
  BY DEF Fifo!Take, FifoBar, HandBar
<1>5. \A t : Fifo!Finish(t) <=> /\ HandBar[t] # None
                                 /\ HandBar' = [HandBar EXCEPT ![t] = None] /\ UNCHANGED FifoBar
  BY DEF Fifo!Finish, FifoBar, HandBar
<1>6. Fifo!Clear <=> FifoBar' = <<>> /\ UNCHANGED HandBar
  BY DEF Fifo!Clear, FifoBar, HandBar
<1> QED
  BY <1>1, <1>2, <1>3, <1>4, <1>5, <1>6

\* Every step of the kernel's queue is a step of the bounded FIFO or shows nothing of it.
LEMMA StepMaps ==
    ASSUME PoolInv, PoolInv', [Next]_vars
    PROVE  Fifo!Next \/ UNCHANGED <<FifoBar, HandBar>>
<1> /\ TypeOK /\ SlotsPartitioned /\ EntryCounts /\ SleepersListed /\ LocalsOK
    /\ TypeOK' /\ SlotsPartitioned'
  BY DEF PoolInv
<1> Thread \subseteq Caller
  BY DEF Caller
<1>b. /\ FifoBar \in Seq(Message) /\ Len(FifoBar) = Len(queue) /\ Len(queue) \in Nat
      /\ \A i \in 1 .. Len(queue) :
            queue[i] \in Slot /\ In(queue, queue[i]) /\ FifoBar[i] = content[queue[i]]
      /\ \A t \in Copying :
            slot[t] \in Slot /\ content[slot[t]] \in Message /\ content[slot[t]] # None
  BY BarType DEF TypeOK
<1>c. /\ FifoBar' \in Seq(Message) /\ Len(FifoBar') = Len(queue')
      /\ \A i \in 1 .. Len(queue') : FifoBar'[i] = content'[queue'[i]]
  <2>1. FifoBar' \in Seq(Message) /\ Len(FifoBar') = Len(queue')
    <3>1. Len(queue') \in Nat /\ \A i \in 1 .. Len(queue') : content'[queue'[i]] \in Message
      BY DEF TypeOK
    <3>2. FifoBar' \in [1 .. Len(queue') -> Message]
      BY <3>1 DEF FifoBar
    <3>3. FifoBar' \in Seq(Message)
      BY <3>1, <3>2, SeqDef
    <3> QED
      BY <3>1, <3>2, <3>3, LenProperties
  <2> QED
    BY <2>1 DEF FifoBar, TypeOK
<1>d. \A t \in Thread : HandBar[t] = IF t \in Copying THEN content[slot[t]] ELSE None
  BY DEF HandBar, Copying
<1>e. \A t \in Thread : HandBar'[t] = IF t \in Copying' THEN content'[slot'[t]] ELSE None
  BY DEF HandBar, Copying
<1>f. {t \in Thread : HandBar[t] # None} = Copying
  BY <1>b, <1>d DEF Copying
\* the message is put at the end or, if it is urgent, at the beginning
<1>1. ASSUME NEW c \in Caller, Link(c) \/ LinkFirst(c) PROVE Fifo!Next
  <2>1. /\ c \in Holding /\ c \notin Copying /\ slot[c] \in Slot /\ ~In(queue, slot[c])
        /\ pc[c] # "sleeprecv" /\ msg[c] \in Message
        /\ content' = [content EXCEPT ![slot[c]] = msg[c]]
        /\ slot' = [slot EXCEPT ![c] = None]
    BY <1>1 DEF Link, LinkFirst, Holding, Copying, SlotsPartitioned, LocalsOK, Sends
  <2>0. PICK m \in Message : m = msg[c]
    BY <2>1
  <2>2. Fifo!Room
    BY <2>1, <1>b, <1>f, RoomForMine, BarDefs
  <2>3. entry < EntryMax
    <3>1. Len(queue) < Cardinality(Slot)
      BY <2>1, RoomForOneMore DEF TypeOK, SlotsPartitioned
    <3>2. Cardinality(Slot) \in Nat
      BY PoolAssumption, FS_CardinalityType
    <3> QED
      BY <3>1, <3>2, EntryAssumption DEF EntryCounts, TypeOK
  <2>4. /\ pc'[c] = "idle"
        /\ \A d \in Caller \ {c} : pc'[d] = pc[d] \/ (pc[d] = "sleeprecv" /\ pc'[d] = "rerecv")
    <3>1. pc' = Resumed([pc EXCEPT ![c] = "idle"], receivers, "rerecv")
      BY <1>1, <2>3 DEF Link, LinkFirst, CountAndResume
    <3>2. pc \in [Caller -> Pcs] /\ receivers \in Seq(Thread) /\ Sleeps(receivers, "sleeprecv")
      BY DEF TypeOK, SleepersListed
    <3>3. pc[c] # "sleeprecv" /\ c \in Caller
      BY <2>1
    <3>4. CASE receivers = <<>>
      BY <3>1, <3>2, <3>3, <3>4 DEF Resumed
    <3>5. CASE receivers # <<>>
      <4>1. Head(receivers) \in Caller /\ pc[Head(receivers)] = "sleeprecv"
        BY <3>2, <3>5, TailList DEF Sleeps
      <4> QED
        BY <3>1, <3>2, <3>3, <3>5, <4>1 DEF Resumed
    <3> QED
      BY <3>4, <3>5
  <2>5. Copying' = Copying
    BY <2>1, <2>4 DEF Copying
  <2>6. \A t \in Copying : slot'[t] = slot[t] /\ slot[t] # slot[c]
    BY <2>1 DEF Copying, SlotsPartitioned, Holding, TypeOK
  <2>7. HandBar' = HandBar
    <3>1. ASSUME NEW t \in Thread PROVE HandBar'[t] = HandBar[t]
      <4>1. CASE t \in Copying
        <5>1. content'[slot'[t]] = content[slot[t]]
          BY <4>1, <2>1, <2>6, <1>b DEF TypeOK
        <5> QED
          BY <4>1, <5>1, <2>5, <1>d, <1>e
      <4>2. CASE t \notin Copying
        BY <4>2, <2>5, <1>d, <1>e
      <4> QED
        BY <4>1, <4>2
    <3> QED
      BY <3>1 DEF HandBar
  <2>8. /\ content'[slot[c]] = m
        /\ \A i \in 1 .. Len(queue) : content'[queue[i]] = FifoBar[i]
    BY <2>0, <2>1, <1>b DEF TypeOK
  <2>9. CASE Link(c)
    <3>1. queue' = Append(queue, slot[c])
      BY <2>9 DEF Link
    <3>2. /\ Len(queue') = Len(queue) + 1
          /\ \A i \in 1 .. Len(queue) + 1 :
                queue'[i] = IF i <= Len(queue) THEN queue[i] ELSE slot[c]
      BY <2>1, <3>1 DEF TypeOK
    <3>3. /\ Append(FifoBar, m) \in Seq(Message)
          /\ Len(Append(FifoBar, m)) = Len(queue) + 1
          /\ \A i \in 1 .. Len(queue) + 1 :
                Append(FifoBar, m)[i] = IF i <= Len(queue) THEN FifoBar[i] ELSE m
      BY <1>b, AppendProperties
    <3>4. \A i \in 1 .. Len(queue) + 1 : FifoBar'[i] = Append(FifoBar, m)[i]
      BY <2>8, <3>2, <3>3, <1>b, <1>c
    <3>5. FifoBar' = Append(FifoBar, m)
      BY <3>2, <3>3, <3>4, <1>c, SeqEqual
    <3>6. Fifo!Put(m)
      BY <2>2, <2>7, <3>5, BarDefs
    <3> QED
      BY <3>6 DEF Fifo!Next
  <2>10. CASE LinkFirst(c)
    <3>1. queue' = <<slot[c]>> \o queue
      BY <2>10 DEF LinkFirst
    <3>2. /\ Len(queue') = Len(queue) + 1
          /\ \A i \in 1 .. Len(queue) + 1 :
                queue'[i] = IF i = 1 THEN slot[c] ELSE queue[i - 1]
      BY <2>1, <3>1 DEF TypeOK
    <3>3. /\ <<m>> \o FifoBar \in Seq(Message)
          /\ Len(<<m>> \o FifoBar) = Len(queue) + 1
          /\ \A i \in 1 .. Len(queue) + 1 :
                (<<m>> \o FifoBar)[i] = IF i = 1 THEN m ELSE FifoBar[i - 1]
      BY <1>b
    <3>4. \A i \in 1 .. Len(queue) + 1 : FifoBar'[i] = (<<m>> \o FifoBar)[i]
      <4> TAKE i \in 1 .. Len(queue) + 1
      <4>1. FifoBar'[i] = content'[queue'[i]]
        BY <3>2, <1>c
      <4>2. CASE i = 1
        BY <4>1, <4>2, <2>8, <3>2, <3>3
      <4>3. CASE i # 1
        <5>1. i - 1 \in 1 .. Len(queue)
          BY <4>3, <1>b
        <5>2. content'[queue[i - 1]] = FifoBar[i - 1]
          BY <5>1, <2>8
        <5>3. queue'[i] = queue[i - 1] /\ (<<m>> \o FifoBar)[i] = FifoBar[i - 1]
          BY <4>3, <3>2, <3>3
        <5> QED
          BY <4>1, <5>2, <5>3
      <4> QED
        BY <4>2, <4>3
    <3>5. FifoBar' = <<m>> \o FifoBar
      <4> DEFINE r == <<m>> \o FifoBar
      <4>1. r \in Seq(Message) /\ Len(r) = Len(FifoBar')
        BY <3>2, <3>3, <1>c
      <4>2. \A i \in 1 .. Len(FifoBar') : FifoBar'[i] = r[i]
        BY <3>2, <3>4, <1>c
      <4> HIDE DEF r
      <4>3. FifoBar' = r
        BY <4>1, <4>2, <1>c, SeqEqual
      <4> QED
        BY <4>3 DEF r
    <3>6. Fifo!PutFirst(m)
      BY <2>2, <2>7, <3>5, BarDefs
    <3> QED
      BY <3>6 DEF Fifo!Next
  <2> QED
    BY <1>1, <2>9, <2>10
\* a receiver has the first message in hand while it copies it
<1>2. ASSUME NEW t \in Thread, Pop(t) PROVE Fifo!Next
  <2>1. /\ queue # <<>> /\ queue' = Tail(queue) /\ slot' = [slot EXCEPT ![t] = Head(queue)]
        /\ pc[t] = "recv" /\ pc' = [pc EXCEPT ![t] = "copy"] /\ content' = content
    BY <1>2 DEF Pop, EntryCounts
  <2>2. /\ Len(queue) > 0 /\ Head(queue) = queue[1] /\ Len(queue') = Len(queue) - 1
        /\ \A i \in 1 .. Len(queue) - 1 : queue'[i] = queue[i + 1]
    BY <2>1, TailList DEF TypeOK, SlotsPartitioned
  <2>3. /\ FifoBar # <<>> /\ Head(FifoBar) = FifoBar[1]
        /\ Tail(FifoBar) \in Seq(Message) /\ Len(Tail(FifoBar)) = Len(queue) - 1
        /\ \A i \in 1 .. Len(queue) - 1 : Tail(FifoBar)[i] = FifoBar[i + 1]
    BY <2>2, <1>b
  <2>4. \A i \in 1 .. Len(queue) - 1 : FifoBar'[i] = Tail(FifoBar)[i]
    <3> TAKE i \in 1 .. Len(queue) - 1
    <3>1. FifoBar'[i] = content[queue[i + 1]]
      BY <2>1, <2>2, <1>c
    <3>2. i + 1 \in 1 .. Len(queue)
      BY <1>b
    <3> QED
      BY <3>1, <3>2, <2>3, <1>b
  <2>5. FifoBar' = Tail(FifoBar)
    BY <2>2, <2>3, <2>4, <1>b, <1>c, SeqEqual
  <2>6. t \notin Copying /\ Copying' = Copying \cup {t}
    BY <2>1 DEF Copying, TypeOK
  <2>7. HandBar' = [HandBar EXCEPT ![t] = Head(FifoBar)]
    <3>1. \A u \in Thread : HandBar'[u] = IF u = t THEN Head(FifoBar) ELSE HandBar[u]
      BY <2>1, <2>2, <2>3, <2>6, <1>b, <1>d, <1>e DEF TypeOK
    <3> QED
      BY <3>1 DEF HandBar
  <2>8. HandBar[t] = None
    BY <2>6, <1>d
  <2>9. Fifo!Take(t)
    BY <2>3, <2>5, <2>7, <2>8, BarDefs
  <2> QED
    BY <2>9 DEF Fifo!Next
<1>3. ASSUME NEW t \in Thread, Release(t) PROVE Fifo!Next
  <2>1. /\ queue' = queue /\ content' = content /\ slot' = [slot EXCEPT ![t] = None]
        /\ pc[t] = "copy" /\ t \in Copying
        /\ pc' = Resumed([pc EXCEPT ![t] = "idle"], senders, "resend")
    BY <1>3 DEF Release, WakeSender, Copying
  <2>2. /\ pc'[t] = "idle"
        /\ \A d \in Caller \ {t} : pc'[d] = pc[d] \/ (pc[d] = "sleepsend" /\ pc'[d] = "resend")
    <3>1. pc \in [Caller -> Pcs] /\ senders \in Seq(Thread) /\ Sleeps(senders, "sleepsend")
      BY DEF TypeOK, SleepersListed
    <3>2. pc[t] # "sleepsend" /\ t \in Caller
      BY <2>1
    <3> QED
      BY <2>1, <3>1, <3>2, OneResumed
  <2>3. Copying' = Copying \ {t}
    BY <2>2 DEF Copying
  <2>4. HandBar' = [HandBar EXCEPT ![t] = None]
    <3>1. \A u \in Thread : HandBar'[u] = IF u = t THEN None ELSE HandBar[u]
      BY <2>1, <2>3, <1>d, <1>e DEF TypeOK
    <3> QED
      BY <3>1 DEF HandBar
  <2>5. FifoBar' = FifoBar
    BY <2>1 DEF FifoBar
  <2>6. HandBar[t] # None
    BY <2>1, <1>b, <1>d
  <2>7. Fifo!Finish(t)
    BY <2>4, <2>5, <2>6, BarDefs
  <2> QED
    BY <2>7 DEF Fifo!Next
\* a reset takes what is queued, not what a receiver already has in hand
<1>4. ASSUME Reset PROVE Fifo!Next
  <2>1. /\ queue' = <<>> /\ content' = content /\ slot' = slot
        /\ pc' = [c \in Caller |-> IF c \in Woken THEN "idle" ELSE pc[c]]
    BY <1>4 DEF Reset
  <2>2. Copying' = Copying
    BY <2>1 DEF Copying, Woken
  <2>3. HandBar' = HandBar
    <3>1. \A u \in Thread : HandBar'[u] = HandBar[u]
      BY <2>1, <2>2, <1>d, <1>e
    <3> QED
      BY <3>1 DEF HandBar
  <2>4. FifoBar' = <<>>
    BY <2>1, <1>c
  <2>5. Fifo!Clear
    BY <2>3, <2>4, BarDefs
  <2> QED
    BY <2>5 DEF Fifo!Next
\* nothing else is seen
<1>5. ASSUME NEW c \in Caller, NEW m \in Message, NEW w \in Waits, CallSend(c, m, w)
      PROVE  UNCHANGED <<FifoBar, HandBar>>
  <2>1. Copying' = Copying /\ slot' = slot
    BY <1>5 DEF CallSend, TypeOK, Copying
  <2> QED
    BY <1>5, <2>1, Unseen DEF CallSend, lists
<1>6. ASSUME NEW c \in Caller, NEW m \in Message, CallUrgent(c, m)
      PROVE  UNCHANGED <<FifoBar, HandBar>>
  <2>1. Copying' = Copying /\ slot' = slot
    BY <1>6 DEF CallUrgent, TypeOK, Copying
  <2> QED
    BY <1>6, <2>1, Unseen DEF CallUrgent, lists
<1>7. ASSUME NEW c \in Caller, Claim(c) PROVE UNCHANGED <<FifoBar, HandBar>>
  <2>1. Copying' = Copying /\ \A t \in Copying : slot'[t] = slot[t]
    BY <1>7 DEF Claim, TypeOK, Copying
  <2> QED
    BY <1>7, <2>1, Unseen DEF Claim
<1>8. ASSUME NEW c \in Caller, SendFull(c) PROVE UNCHANGED <<FifoBar, HandBar>>
  <2>1. Copying' = Copying /\ slot' = slot
    BY <1>8 DEF SendFull, Return, TypeOK, Copying
  <2> QED
    BY <1>8, <2>1, Unseen DEF SendFull, lists
<1>9. ASSUME NEW c \in Caller, SendSuspend(c) PROVE UNCHANGED <<FifoBar, HandBar>>
  <2>1. Copying' = Copying /\ slot' = slot
    BY <1>9 DEF SendSuspend, TypeOK, Copying
  <2> QED
    BY <1>9, <2>1, Unseen DEF SendSuspend, lists
<1>10. ASSUME NEW t \in Thread, RecvCall(t) PROVE UNCHANGED <<FifoBar, HandBar>>
  <2>1. Copying' = Copying /\ slot' = slot
    BY <1>10 DEF RecvCall, CallRecv, TypeOK, Copying
  <2> QED
    BY <1>10, <2>1, Unseen DEF RecvCall, CallRecv, lists
<1>11. ASSUME NEW t \in Thread, RecvEmpty(t) PROVE UNCHANGED <<FifoBar, HandBar>>
  <2>1. Copying' = Copying /\ slot' = slot
    BY <1>11 DEF RecvEmpty, Return, TypeOK, Copying
  <2> QED
    BY <1>11, <2>1, Unseen DEF RecvEmpty, lists
<1>12. ASSUME NEW t \in Thread, RecvSuspend(t) PROVE UNCHANGED <<FifoBar, HandBar>>
  <2>1. Copying' = Copying /\ slot' = slot
    BY <1>12 DEF RecvSuspend, TypeOK, Copying
  <2> QED
    BY <1>12, <2>1, Unseen DEF RecvSuspend, lists
<1>13. ASSUME NEW t \in Thread, Recompute(t) PROVE UNCHANGED <<FifoBar, HandBar>>
  <2>1. Copying' = Copying /\ slot' = slot
    BY <1>13 DEF Recompute, TypeOK, Copying
  <2> QED
    BY <1>13, <2>1, Unseen DEF Recompute, lists
<1>14. ASSUME NEW t \in Thread, Timeout(t) PROVE UNCHANGED <<FifoBar, HandBar>>
  <2>1. pc[t] # "copy" /\ pc' = [pc EXCEPT ![t] = "idle"] /\ UNCHANGED <<lists, slot>>
    BY <1>14 DEF Timeout, Return
  <2>2. Copying' = Copying
    BY <2>1 DEF TypeOK, Copying
  <2> QED
    BY <2>1, <2>2, Unseen DEF lists
<1>15. CASE UNCHANGED vars
  <2>1. Copying' = Copying /\ slot' = slot
    BY <1>15 DEF vars, callers, Copying
  <2> QED
    BY <1>15, <2>1, Unseen DEF vars, lists
<1> QED
  BY <1>1, <1>2, <1>3, <1>4, <1>5, <1>6, <1>7, <1>8, <1>9, <1>10, <1>11, <1>12, <1>13, <1>14, <1>15
  DEF Next, Send, Receive

\* The queue of the kernel implements the bounded FIFO, for any pool, any callers and messages:
\* what a receiver copies while interrupts are enabled is the message that was first when it was
\* taken, and queue and receivers together never hold more than the pool has blocks.
THEOREM Refines == Spec => IsFifo
<1>1. Init => Fifo!Init
  <2> SUFFICES ASSUME Init PROVE Fifo!Init
    OBVIOUS
  <2>1. FifoBar = <<>>
    BY DEF Init, FifoBar
  <2>2. HandBar = [t \in Thread |-> None]
    BY DEF Init, HandBar, Caller
  <2> QED
    BY <2>1, <2>2 DEF Fifo!Init, FifoBar, HandBar
<1>2. PoolInv /\ PoolInv' /\ [Next]_vars => Fifo!Next \/ UNCHANGED <<FifoBar, HandBar>>
  BY StepMaps
<1> QED
  BY <1>1, <1>2, PoolInvariant, PTL DEF Spec, IsFifo, Fifo!Spec, FifoBar, HandBar
=============================================================================
