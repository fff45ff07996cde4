---------------------------- MODULE DriverProofs ----------------------------
(***************************************************************************)
(* Proofs about two drivers that share nothing: the way of the frames from *)
(* the panel (PanelRx) and the converter of the temperatures               *)
(* (Temperature).                                                          *)
(*                                                                         *)
(* PanelRx, for any length of frames, buffers and queues: what lcd_command *)
(* gets are whole frames in order.  FramesKept is not inductive, since it  *)
(* says nothing of the bytes that are still on their way.  The invariant   *)
(* IInv says that the buffer and each message are runs of bytes that came  *)
(* one after the other (Received, Shaped), and that four numbers part the  *)
(* line: what was handled, what was cut into frames, the rest of the       *)
(* message in work, the messages in the queue and what is in the buffer    *)
(* each lie behind the one before (Parts).  A frame that is cut off from a *)
(* run cannot be longer than the distance of two headers.                  *)
(*                                                                         *)
(* Temperature, for any length of the waits: the readings are never        *)
(* exchanged.  NeverSwapped needs that a wrong reading of one channel      *)
(* leaves the converter at the input that is right for the other one.      *)
(***************************************************************************)
EXTENDS PanelRx, Temperature, SequenceTheorems, TLAPS

-----------------------------------------------------------------------------
(* PanelRx: bytes and frames *)

LEMMA Multiples ==
    ASSUME NEW F \in Nat \ {0}, NEW j \in Nat, NEW k \in Nat
    PROVE  /\ F * k \in Nat
           /\ j < k => F * j + F <= F * k
<1>1. CASE j < k
  <2>1. PICK n \in Nat : k = j + 1 + n
    <3>1. k - (j + 1) \in Nat
      BY <1>1
    <3> QED
      BY <3>1
  <2>2. F * k = F * j + F + F * n /\ F * n \in Nat /\ F * k \in Nat /\ F * j \in Nat
    BY <2>1
  <2> QED
    BY <2>2
<1>2. F * k \in Nat
  OBVIOUS
<1> QED
  BY <1>1, <1>2

LEMMA Division ==
    ASSUME NEW F \in Nat \ {0}, NEW b \in Nat
    PROVE  \E k \in Nat, r \in Nat : b = F * k + r /\ r < F /\ b % F = r /\ b \div F = k
OBVIOUS

\* quotient and remainder are determined
LEMMA Unique ==
    ASSUME NEW F \in Nat \ {0}, NEW j \in Nat, NEW k \in Nat, NEW r \in Nat, NEW s \in Nat,
           F * j + r = F * k + s, r < F, s < F
    PROVE  j = k /\ r = s
<1>1. ~(j < k)
  BY Multiples
<1>2. ~(k < j)
  BY Multiples
<1>3. j = k
  BY <1>1, <1>2
<1>4. F * j \in Nat
  BY Multiples
<1> QED
  BY <1>3, <1>4

LEMMA Lengths ==
    /\ FrameLen \in Nat \ {0} /\ FrameLen >= 3 /\ CmdSize \in Nat /\ FrameLen + 1 <= CmdSize /\ MinLen \in Nat /\ MinLen >= 1
    /\ MaxFrames \in Nat /\ RxDepth \in Nat /\ CmdDepth \in Nat /\ Bytes \in Nat /\ Bytes = FrameLen * MaxFrames
<1>1. FrameLen \in Nat /\ CmdSize \in Nat /\ FrameLen >= 3 /\ FrameLen < CmdSize /\ MinLen \in Nat /\ MinLen >= 1
  BY LengthAssumption
<1>2. MaxFrames \in Nat /\ RxDepth \in Nat /\ CmdDepth \in Nat
  BY DepthAssumption
<1>3. MaxFrames * FrameLen \in Nat /\ MaxFrames * FrameLen = FrameLen * MaxFrames
  BY <1>1, <1>2
<1> QED
  BY <1>1, <1>2, <1>3 DEF Bytes

\* headers follow each other at the distance of a frame
LEMMA NextHeader ==
    ASSUME NEW b \in Nat PROVE (IsEE(b + FrameLen) <=> IsEE(b)) /\ (IsB1(b + FrameLen) <=> IsB1(b))
<1>f. PICK F \in Nat \ {0} : F = FrameLen
  BY Lengths
<1>1. PICK k \in Nat, r \in Nat : b = F * k + r /\ r < F /\ b % F = r
  BY Division
<1>2. PICK j \in Nat, s \in Nat : b + F = F * j + s /\ s < F /\ (b + F) % F = s
  BY Division
<1>3. F * (k + 1) = F * k + F
  OBVIOUS
<1>4. r = s
  BY <1>1, <1>2, <1>3, Unique
<1> QED
  BY <1>1, <1>2, <1>4, <1>f DEF IsEE, IsB1

LEMMA OneKind == ASSUME NEW b \in Nat PROVE ~(IsEE(b) /\ IsB1(b))
BY DEF IsEE, IsB1

\* of two frames the one that begins later has the higher number
LEMMA FrameOrder ==
    ASSUME NEW a \in Nat \ {0}, NEW b \in Nat \ {0}, a < b, IsEE(a), IsEE(b)
    PROVE  FrameOf(a) \in Nat /\ FrameOf(b) \in Nat /\ FrameOf(a) < FrameOf(b)
<1>f. PICK F \in Nat \ {0} : F = FrameLen /\ F >= 3
  BY Lengths
<1>p. PICK x \in Nat, y \in Nat : x = a - 1 /\ y = b - 1
  OBVIOUS
<1>1. PICK j \in Nat, r \in Nat : x = F * j + r /\ r < F /\ x \div F = j
  BY Division
<1>2. PICK k \in Nat, s \in Nat : y = F * k + s /\ s < F /\ y \div F = k
  BY Division
<1>3. r = 0
  <2>1. PICK i \in Nat, u \in Nat : a = F * i + u /\ u < F /\ a % F = u
    BY Division
  <2>2. u = 1
    BY <2>1, <1>f DEF IsEE
  <2>3. F * i + 0 = F * j + r
    BY <1>1, <1>p, <2>1, <2>2, Multiples
  <2> QED
    BY <1>1, <1>f, <2>3, Unique
<1>4. s = 0
  <2>1. PICK i \in Nat, u \in Nat : b = F * i + u /\ u < F /\ b % F = u
    BY Division
  <2>2. u = 1
    BY <2>1, <1>f DEF IsEE
  <2>3. F * i + 0 = F * k + s
    BY <1>2, <1>p, <2>1, <2>2, Multiples
  <2> QED
    BY <1>2, <1>f, <2>3, Unique
<1>5. j < k
  <2>1. F * j < F * k
    BY <1>1, <1>2, <1>3, <1>4, <1>p, Multiples
  <2>2. ~(k < j) /\ j # k
    BY <2>1, Multiples, <1>f
  <2> QED
    BY <2>2
<1> QED
  BY <1>1, <1>2, <1>5, <1>f, <1>p DEF FrameOf

LEMMA FrameRange ==
    ASSUME NEW b \in 1 .. Bytes PROVE FrameOf(b) \in 1 .. MaxFrames
<1>f. PICK F \in Nat \ {0} : F = FrameLen
  BY Lengths
<1>0. b \in Nat /\ b >= 1 /\ b <= F * MaxFrames /\ MaxFrames \in Nat
  BY <1>f, Lengths
<1>p. PICK x \in Nat : x = b - 1
  BY <1>0
<1>1. PICK j \in Nat, r \in Nat : x = F * j + r /\ r < F /\ x \div F = j
  BY Division
<1>2. j < MaxFrames
  <2>1. F * j < F * MaxFrames /\ F * j \in Nat /\ F * MaxFrames \in Nat
    BY <1>0, <1>1, <1>p, Multiples
  <2>2. ~(MaxFrames < j) /\ j # MaxFrames
    BY <1>0, <2>1, Multiples
  <2> QED
    BY <1>0, <2>2
<1> QED
  BY <1>0, <1>1, <1>2, <1>f, <1>p DEF FrameOf

-----------------------------------------------------------------------------
(* PanelRx: the invariant *)

Byte == 1 .. Bytes

\* the bytes of c have come one after the other
Run(c) == \A i \in 1 .. Len(c) : c[i] = c[1] + (i - 1)

\* what lcd_receive passes on
Frame(c) == IsHeader(c, 1) /\ Run(c) /\ Len(c) <= FrameLen + 1

\* the receiver, as long as it is armed, is at the end of what has come
Received ==
    /\ Run(buf) /\ dr <= line
    /\ armed => /\ Len(buf) < BufSize
                /\ dr = 0 => ~ore
                /\ dr # 0 /\ ~ore => dr = line
                /\ buf # <<>> => buf[Len(buf)] + 1 = IF dr = 0 THEN line + 1 ELSE dr

Shaped ==
    /\ \A i \in 1 .. Len(rxq) : Run(rxq[i])
    /\ pos # 0 => Run(msg) /\ IsHeader(msg, pos)
    /\ \A i \in 1 .. Len(cmdq) : Frame(cmdq[i])

\* each part of the way holds bytes of its own part of the line
HandledTo(a) == \A i \in 1 .. Len(handled) : \E b \in 1 .. a : IsEE(b) /\ handled[i] = FrameOf(b)
CutTo(a, b) ==
    /\ \A i \in 1 .. Len(cmdq) : a < cmdq[i][1] /\ cmdq[i][1] <= b
    /\ \A i, j \in 1 .. Len(cmdq) : i < j => cmdq[i][1] < cmdq[j][1]
TakenTo(a, b) == pos # 0 => \A i \in pos .. Len(msg) : a < msg[i] /\ msg[i] <= b
SentTo(a, b) ==
    /\ \A i \in 1 .. Len(rxq) : \A k \in 1 .. Len(rxq[i]) : a < rxq[i][k] /\ rxq[i][k] <= b
    /\ \A i, j \in 1 .. Len(rxq) : i < j =>
         \A k \in 1 .. Len(rxq[i]), n \in 1 .. Len(rxq[j]) : rxq[i][k] < rxq[j][n]
StoredTo(a) ==
    /\ \A k \in 1 .. Len(buf) : a < buf[k] /\ buf[k] <= line
    /\ dr # 0 => a < dr

Parted(a, b, c, d) ==
    /\ a <= b /\ b <= c /\ c <= d /\ d <= line
    /\ HandledTo(a) /\ CutTo(a, b) /\ TakenTo(b, c) /\ SentTo(c, d) /\ StoredTo(d)
Parts == \E a, b, c, d \in 0 .. Bytes : Parted(a, b, c, d)

IInv == TypeOK /\ Received /\ Shaped /\ InOrder /\ Parts

LEMMA RunFacts ==
    ASSUME NEW c \in Seq(Byte), Run(c)
    PROVE  /\ \A i, j \in 1 .. Len(c) : c[i] + (j - i) = c[j] /\ (i < j => c[i] < c[j])
           /\ Consecutive(c)
<1>1. Len(c) \in Nat /\ (\A i \in 1 .. Len(c) : i \in Nat /\ c[i] \in Nat)
  BY Lengths DEF Byte
<1>2. \A i \in 1 .. Len(c) : 1 \in 1 .. Len(c) /\ c[i] = c[1] + (i - 1)
  BY <1>1 DEF Run
<1>3. ASSUME NEW i \in 1 .. Len(c), NEW j \in 1 .. Len(c) PROVE c[i] + (j - i) = c[j] /\ (i < j => c[i] < c[j])
  <2>p. PICK x \in Nat, y \in Nat, z \in Nat : x = c[i] /\ y = c[j] /\ z = c[1]
    BY <1>1, <1>2
  <2>1. x = z + (i - 1) /\ y = z + (j - 1) /\ i \in Nat /\ j \in Nat
    BY <1>1, <1>2, <2>p
  <2> QED
    BY <2>p, <2>1
<1>4. \A k \in 1 .. Len(c) - 1 : k \in 1 .. Len(c) /\ k + 1 \in 1 .. Len(c)
  BY <1>1
<1>5. Consecutive(c)
  <2> SUFFICES ASSUME NEW k \in 1 .. Len(c) - 1 PROVE c[k + 1] = c[k] + 1
    BY DEF Consecutive
  <2>p. PICK x \in Nat, y \in Nat : x = c[k] /\ y = c[k + 1]
    BY <1>1, <1>4
  <2>1. c[k] + ((k + 1) - k) = c[k + 1] /\ k \in Nat
    BY <1>1, <1>3, <1>4
  <2> QED
    BY <2>p, <2>1
<1> QED
  BY <1>3, <1>5

-----------------------------------------------------------------------------
(* PanelRx: the steps *)

LEMMA Elements ==
    ASSUME NEW s \in Seq(Byte) PROVE Len(s) \in Nat /\ \A k \in 1 .. Len(s) : s[k] \in Byte /\ s[k] \in Nat
<1>1. Byte \subseteq Nat
  BY DEF Byte
<1>2. \A k \in 1 .. Len(s) : s[k] \in Byte
  OBVIOUS
<1>3. Len(s) \in Nat
  OBVIOUS
<1> HIDE DEF Byte
<1> QED
  BY <1>1, <1>2, <1>3, Zenon

LEMMA PartsNext ==
    ASSUME NEW a \in 0 .. Bytes, NEW b \in 0 .. Bytes, NEW c \in 0 .. Bytes, NEW d \in 0 .. Bytes, Parted(a, b, c, d)'
    PROVE  Parts'
BY DEF Parts, Parted, HandledTo, CutTo, TakenTo, SentTo, StoredTo

LEMMA PartsSame ==
    ASSUME Parts, UNCHANGED <<line, dr, buf, rxq, msg, pos, cmdq, handled>> PROVE Parts'
<1>1. PICK a \in 0 .. Bytes, b \in 0 .. Bytes, c \in 0 .. Bytes, d \in 0 .. Bytes : Parted(a, b, c, d)
  BY DEF Parts
<1>2. Parted(a, b, c, d)'
  BY <1>1 DEF Parted, HandledTo, CutTo, TakenTo, SentTo, StoredTo
<1> QED
  BY <1>1, <1>2, PartsNext

LEMMA InitInv == Init => IInv
<1> SUFFICES ASSUME Init PROVE IInv
  OBVIOUS
<1>0. 0 \in 0 .. Bytes /\ 0 \in 0 .. Len(<<>>) /\ Len(<<>>) = 0 /\ BufSize \in Nat /\ BufSize > 0
  BY Lengths, LengthAssumption
<1>e. \A S : <<>> \in Seq(S)
  OBVIOUS
<1>s. /\ buf = <<>> /\ rxq = <<>> /\ msg = <<>> /\ cmdq = <<>> /\ handled = <<>>
      /\ gap \in BOOLEAN /\ ore \in BOOLEAN /\ idle \in BOOLEAN /\ armed \in BOOLEAN /\ clean \in BOOLEAN
      /\ line = 0 /\ dr = 0 /\ pos = 0 /\ isr \in {"out", "idle"}
  BY DEF Init
<1>q. /\ buf \in Seq(1 .. Bytes) /\ rxq \in Seq(Seq(1 .. Bytes)) /\ msg \in Seq(1 .. Bytes)
      /\ cmdq \in Seq(Seq(1 .. Bytes)) /\ handled \in Seq(1 .. MaxFrames)
  BY <1>e, <1>s
<1>1. TypeOK
  BY <1>0, <1>q, <1>s, Lengths DEF TypeOK
<1>2. Received /\ Shaped /\ InOrder
  BY <1>0, Lengths DEF Init, Received, Shaped, InOrder, Run
<1>3. 0 \in 0 .. Bytes
  BY Lengths
<1>4. Parted(0, 0, 0, 0)
  BY DEF Init, Parted, HandledTo, CutTo, TakenTo, SentTo, StoredTo
<1> QED
  BY <1>1, <1>2, <1>3, <1>4 DEF IInv, Parts

LEMMA ByteArrivesStep ==
    ASSUME IInv, ByteArrives PROVE IInv'
<1>1. /\ line < Bytes /\ line' = line + 1 /\ ~gap' /\ gap' \in BOOLEAN
      /\ \/ dr = 0 /\ dr' = line + 1 /\ ore' = ore /\ clean' = clean
         \/ dr # 0 /\ dr' = dr /\ ore' /\ ore' \in BOOLEAN /\ clean' \in BOOLEAN
      /\ UNCHANGED <<idle, armed, buf, isr, rxq, msg, pos, cmdq, handled>>
  BY DEF ByteArrives, thread
<1>2. TypeOK /\ Received /\ Shaped /\ InOrder /\ Parts /\ line \in Nat /\ dr \in Nat /\ Bytes \in Nat
  BY Lengths DEF IInv, TypeOK
<1>3. line' \in 0 .. Bytes /\ dr' \in 0 .. Bytes
  BY <1>1, <1>2 DEF TypeOK
<1>4. TypeOK'
  BY <1>1, <1>2, <1>3 DEF TypeOK
<1>5. Received'
  BY <1>1, <1>2 DEF Received, Run
<1>6. Shaped' /\ InOrder'
  BY <1>1, <1>2 DEF Shaped, InOrder, Run, Frame, IsHeader
<1>7. Parts'
  <2>1. PICK a \in 0 .. Bytes, b \in 0 .. Bytes, c \in 0 .. Bytes, d \in 0 .. Bytes : Parted(a, b, c, d)
    BY <1>2 DEF Parts
  <2>2. a \in Nat /\ b \in Nat /\ c \in Nat /\ d \in Nat /\ d <= line
    BY <2>1, <1>2 DEF Parted
  <2>3. \A k \in 1 .. Len(buf) : buf[k] \in Nat
    BY <1>2 DEF TypeOK
  <2>4. StoredTo(d)'
    BY <1>1, <1>2, <2>1, <2>2, <2>3 DEF Parted, StoredTo
  <2>5. Parted(a, b, c, d)'
    BY <1>1, <1>2, <2>1, <2>2, <2>4 DEF Parted, HandledTo, CutTo, TakenTo, SentTo
  <2> QED
    BY <2>1, <2>5, PartsNext
<1> QED
  BY <1>4, <1>5, <1>6, <1>7 DEF IInv

LEMMA LineIdleStep ==
    ASSUME IInv, LineIdle PROVE IInv'
<1>1. /\ gap' \in BOOLEAN /\ idle' \in BOOLEAN
      /\ UNCHANGED <<line, dr, ore, armed, buf, isr, rxq, msg, pos, cmdq, handled, clean>>
  BY DEF LineIdle, thread
<1>2. TypeOK'
  BY <1>1 DEF IInv, TypeOK
<1>3. Received' /\ Shaped' /\ InOrder'
  BY <1>1 DEF IInv, Received, Shaped, InOrder, Run, Frame, IsHeader
<1>4. Parts'
  BY <1>1, PartsSame DEF IInv
<1> QED
  BY <1>2, <1>3, <1>4 DEF IInv

LEMMA InterruptStep ==
    ASSUME IInv, Interrupt PROVE IInv'
<1>1. /\ \/ armed /\ dr # 0 /\ Store
         \/ ~(armed /\ dr # 0) /\ UNCHANGED <<buf, dr, armed, clean>>
      /\ ore' = (ore /\ ~armed) /\ isr' = "idle"
      /\ UNCHANGED <<line, gap, idle, rxq, msg, pos, cmdq, handled>>
  BY DEF Interrupt, thread
<1>2. /\ TypeOK /\ Received /\ Shaped /\ InOrder /\ Parts /\ line \in Nat /\ dr \in 0 .. Bytes /\ Bytes \in Nat
      /\ buf \in Seq(Byte) /\ Len(buf) \in Nat /\ BufSize \in Nat /\ Len(buf) <= BufSize /\ 0 < BufSize
  BY Lengths, LengthAssumption DEF IInv, TypeOK, Byte
<1>3. Shaped' /\ InOrder'
  BY <1>1, <1>2 DEF Shaped, InOrder, Run, Frame, IsHeader
<1>4. ore' \in BOOLEAN
  BY <1>1
<1>5. CASE ~(armed /\ dr # 0)
  <2>1. UNCHANGED <<buf, dr, armed, clean>>
    BY <1>1, <1>5
  <2>2. TypeOK'
    BY <1>1, <1>2, <1>4, <2>1 DEF TypeOK
  <2>3. Received'
    BY <1>1, <1>2, <1>5, <2>1 DEF Received, Run
  <2>4. Parts'
    BY <1>1, <1>2, <2>1, PartsSame
  <2> QED
    BY <1>3, <2>2, <2>3, <2>4 DEF IInv
<1>6. CASE armed /\ dr # 0
  <2>1. buf' = Append(buf, dr) /\ dr' = 0 /\ armed' = (~ore /\ Len(buf) + 1 < BufSize) /\ clean' = (clean /\ armed')
    BY <1>1, <1>6 DEF Store
  <2>2. ~ore' /\ armed' \in BOOLEAN /\ clean' \in BOOLEAN
    BY <1>1, <1>6, <2>1
  <2>3. dr \in Byte /\ dr \in Nat
    BY <1>2, <1>6 DEF Byte
  <2>4. /\ buf' \in Seq(Byte) /\ Len(buf') = Len(buf) + 1 /\ buf'[Len(buf) + 1] = dr
        /\ \A i \in 1 .. Len(buf) : buf'[i] = buf[i] /\ buf[i] \in Nat
    BY <1>2, <2>1, <2>3 DEF Byte
  <2>5. Len(buf) < BufSize /\ (buf # <<>> => buf[Len(buf)] + 1 = dr)
    BY <1>2, <1>6 DEF Received
  <2>6. TypeOK'
    <3>1. dr' \in 0 .. Bytes /\ Len(buf') <= BufSize
      BY <1>2, <2>1, <2>4, <2>5
    <3> QED
      BY <1>1, <1>2, <1>4, <2>2, <2>4, <3>1 DEF TypeOK, Byte
  <2>7. Run(buf')
    <3>1. CASE buf = <<>>
      <4>1. Len(buf') = 1 /\ dr \in Nat /\ buf'[1] = dr
        BY <1>2, <2>3, <2>4, <3>1
      <4> QED
        BY <4>1 DEF Run
    <3>2. CASE buf # <<>>
      <4>1. Len(buf) \in 1 .. Len(buf) /\ 1 \in 1 .. Len(buf)
        BY <1>2, <3>2
      <4>2. \A i \in 1 .. Len(buf) : buf'[i] = buf'[1] + (i - 1)
        BY <1>2, <2>4, <4>1 DEF Received, Run
      <4>p. PICK x \in Nat, n \in Nat : x = buf[1] /\ n = Len(buf)
        BY <1>2, <2>4, <4>1
      <4>3. buf[Len(buf)] = x + (n - 1) /\ buf'[1] = x
        BY <1>2, <2>4, <4>1, <4>p DEF Received, Run
      <4>4. buf'[n + 1] = x + n
        BY <2>3, <2>4, <2>5, <3>2, <4>3, <4>p
      <4> SUFFICES ASSUME NEW i \in 1 .. Len(buf') PROVE buf'[i] = buf'[1] + (i - 1)
        BY DEF Run
      <4>5. i \in 1 .. Len(buf) \/ i = n + 1
        BY <1>2, <2>4, <4>p
      <4> QED
        BY <4>2, <4>3, <4>4, <4>5, <4>p
    <3> QED
      BY <3>1, <3>2
  <2>8. Received'
    <3>1. dr' <= line'
      BY <1>1, <1>2, <2>1
    <3>2. armed' => ~ore /\ Len(buf') < BufSize
      BY <1>2, <2>1, <2>4
    <3>3. ~ore => dr = line
      BY <1>2, <1>6 DEF Received
    <3> QED
      BY <1>1, <2>1, <2>2, <2>4, <2>7, <3>1, <3>2, <3>3 DEF Received
  <2>9. Parts'
    <3>1. PICK a \in 0 .. Bytes, b \in 0 .. Bytes, c \in 0 .. Bytes, d \in 0 .. Bytes : Parted(a, b, c, d)
      BY <1>2 DEF Parts
    <3>2. d < dr /\ dr <= line
      BY <1>2, <1>6, <3>1 DEF Parted, StoredTo, Received
    <3>3. StoredTo(d)'
      <4> SUFFICES ASSUME NEW k \in 1 .. Len(buf') PROVE d < buf'[k] /\ buf'[k] <= line
        BY <1>1, <2>1 DEF StoredTo
      <4>1. k \in 1 .. Len(buf) \/ k = Len(buf) + 1
        BY <1>2, <2>4
      <4> QED
        BY <2>4, <3>1, <3>2, <4>1 DEF Parted, StoredTo
    <3>4. Parted(a, b, c, d)'
      BY <1>1, <3>1, <3>3 DEF Parted, HandledTo, CutTo, TakenTo, SentTo
    <3> QED
      BY <3>1, <3>4, PartsNext
  <2> QED
    BY <1>3, <2>6, <2>8, <2>9 DEF IInv
<1> QED
  BY <1>5, <1>6

LEMMA TestIdleStep ==
    ASSUME IInv, TestIdle PROVE IInv'
<1>1. /\ isr' = "out" /\ UNCHANGED <<line, gap, armed, msg, pos, cmdq, handled>>
      /\ \/ /\ ~idle' /\ idle' \in BOOLEAN /\ dr' = 0 /\ ~ore' /\ ore' \in BOOLEAN /\ buf' = <<>> /\ clean' \in BOOLEAN
            /\ rxq' = IF Len(rxq) < RxDepth THEN Append(rxq, buf) ELSE rxq
         \/ UNCHANGED <<idle, dr, ore, rxq, buf, clean>>
  BY DEF TestIdle, thread
<1>2. /\ TypeOK /\ Received /\ Shaped /\ InOrder /\ Parts /\ line \in Nat /\ Bytes \in Nat
      /\ buf \in Seq(Byte) /\ Len(buf) \in Nat /\ rxq \in Seq(Seq(Byte)) /\ Len(rxq) \in Nat /\ RxDepth \in Nat
      /\ 0 < BufSize /\ BufSize \in Nat /\ Len(rxq) <= RxDepth
  BY Lengths, LengthAssumption DEF IInv, TypeOK, Byte
<1>3. CASE UNCHANGED <<idle, dr, ore, rxq, buf, clean>>
  <2>1. TypeOK'
    BY <1>1, <1>2, <1>3 DEF TypeOK
  <2>2. Received' /\ Shaped' /\ InOrder'
    BY <1>1, <1>2, <1>3 DEF Received, Shaped, InOrder, Run, Frame, IsHeader
  <2>3. Parts'
    BY <1>1, <1>2, <1>3, PartsSame
  <2> QED
    BY <2>1, <2>2, <2>3 DEF IInv
<1>4. CASE /\ ~idle' /\ idle' \in BOOLEAN /\ dr' = 0 /\ ~ore' /\ ore' \in BOOLEAN /\ buf' = <<>> /\ clean' \in BOOLEAN
           /\ rxq' = IF Len(rxq) < RxDepth THEN Append(rxq, buf) ELSE rxq
  <2>1. rxq' \in Seq(Seq(Byte)) /\ Len(rxq') <= RxDepth
    BY <1>2, <1>4
  <2>2. TypeOK'
    <3>1. buf' \in Seq(1 .. Bytes) /\ Len(buf') = 0 /\ dr' \in 0 .. Bytes
      BY <1>2, <1>4
    <3> QED
      BY <1>1, <1>2, <1>4, <2>1, <3>1 DEF TypeOK, Byte
  <2>3. Received'
    BY <1>1, <1>2, <1>4 DEF Received, Run
  \* the messages, with the one of this interrupt
  <2>4. /\ Len(rxq) <= Len(rxq') /\ Len(rxq') <= Len(rxq) + 1 /\ Len(rxq') \in Nat
        /\ \A i \in 1 .. Len(rxq) : rxq'[i] = rxq[i]
        /\ \A i \in 1 .. Len(rxq') : i \notin 1 .. Len(rxq) => i = Len(rxq) + 1 /\ rxq'[i] = buf
    BY <1>2, <1>4
  <2>5. Shaped' /\ InOrder'
    <3>1. \A i \in 1 .. Len(rxq') : Run(rxq'[i])
      BY <1>2, <2>4 DEF Shaped, Received
    <3> QED
      BY <1>1, <1>2, <3>1 DEF Shaped, InOrder, Run, Frame, IsHeader
  <2>6. Parts'
    <3>1. PICK a \in 0 .. Bytes, b \in 0 .. Bytes, c \in 0 .. Bytes, d \in 0 .. Bytes : Parted(a, b, c, d)
      BY <1>2 DEF Parts
    <3>2. line \in 0 .. Bytes /\ c \in Nat /\ d \in Nat /\ c <= d /\ d <= line
      BY <1>2, <3>1 DEF TypeOK, Parted
    <3>3. SentTo(c, line)'
      <4>1. ASSUME NEW i \in 1 .. Len(rxq'), NEW k \in 1 .. Len(rxq'[i])
            PROVE  /\ c < rxq'[i][k] /\ rxq'[i][k] <= line
                   /\ i \in 1 .. Len(rxq) => rxq'[i][k] <= d
                   /\ i \notin 1 .. Len(rxq) => d < rxq'[i][k]
        <5>m. PICK m \in Seq(Byte) : m = rxq'[i]
          BY <2>1
        <5>1. m[k] \in Nat /\ k \in 1 .. Len(m)
          BY <5>m, Elements
        <5>2. CASE i \in 1 .. Len(rxq)
          <6>1. m = rxq[i] /\ c < m[k] /\ m[k] <= d
            BY <2>4, <3>1, <5>1, <5>2, <5>m DEF Parted, SentTo
          <6> QED
            BY <1>2, <3>2, <5>1, <5>2, <5>m, <6>1
        <5>3. CASE i \notin 1 .. Len(rxq)
          <6>1. m = buf /\ d < m[k] /\ m[k] <= line
            BY <2>4, <3>1, <5>1, <5>3, <5>m DEF Parted, StoredTo
          <6> QED
            BY <1>2, <3>2, <5>1, <5>3, <5>m, <6>1
        <5> QED
          BY <5>2, <5>3
      <4>2. ASSUME NEW i \in 1 .. Len(rxq'), NEW j \in 1 .. Len(rxq'), i < j,
                   NEW k \in 1 .. Len(rxq'[i]), NEW n \in 1 .. Len(rxq'[j])
            PROVE  rxq'[i][k] < rxq'[j][n]
        <5>m. PICK m \in Seq(Byte), o \in Seq(Byte) : m = rxq'[i] /\ o = rxq'[j]
          BY <2>1
        <5>p. PICK x \in Nat, y \in Nat : x = rxq'[i][k] /\ y = rxq'[j][n]
          BY <5>m, Elements
        <5>1. i \in 1 .. Len(rxq)
          BY <1>2, <2>4, <4>2
        <5>2. CASE j \in 1 .. Len(rxq)
          <6>1. m = rxq[i] /\ o = rxq[j] /\ k \in 1 .. Len(m) /\ n \in 1 .. Len(o)
            BY <2>4, <5>1, <5>2, <5>m
          <6>2. m[k] < o[n]
            BY <3>1, <4>2, <5>1, <5>2, <6>1 DEF Parted, SentTo
          <6> QED
            BY <5>m, <6>2
        <5>3. CASE j \notin 1 .. Len(rxq)
          <6>1. x <= d
            BY <4>1, <5>1, <5>p
          <6>2. d < y
            BY <4>1, <5>3, <5>p
          <6>3. x < y
            BY <3>2, <6>1, <6>2
          <6> QED
            BY <5>p, <6>3
        <5> QED
          BY <5>2, <5>3
      <4> QED
        BY <1>1, <4>1, <4>2 DEF SentTo
    <3>4. StoredTo(line)'
      BY <1>1, <1>4 DEF StoredTo
    <3>5. c <= line
      BY <1>2, <3>2
    <3>6. Parted(a, b, c, line)'
      BY <1>1, <1>2, <3>1, <3>3, <3>4, <3>5 DEF Parted, HandledTo, CutTo, TakenTo
    <3>7. PICK e \in 0 .. Bytes : e = line /\ e = line'
      BY <1>1, <3>2
    <3>8. Parted(a, b, c, e)'
      BY <3>6, <3>7 DEF Parted, SentTo, StoredTo, HandledTo, CutTo, TakenTo
    <3> QED
      BY <3>1, <3>8, PartsNext
  <2> QED
    BY <2>2, <2>3, <2>5, <2>6 DEF IInv
<1> QED
  BY <1>1, <1>3, <1>4

\* lcd_receive takes the next message
LEMMA ReceiveStep ==
    ASSUME IInv, Receive PROVE IInv'
<1>h. PICK h : h = Head(rxq)
  OBVIOUS
<1>1. /\ pos = 0 /\ rxq # <<>> /\ rxq' = Tail(rxq)
      /\ UNCHANGED <<line, gap, dr, ore, idle, armed, buf, isr, cmdq, handled, clean>>
      /\ \/ Accepted(h) /\ msg' = h /\ pos' = 1
         \/ msg' = msg /\ pos' = pos
  BY <1>h DEF Receive, receiver, thread
<1>2. /\ TypeOK /\ Received /\ Shaped /\ InOrder /\ Parts /\ line \in Nat /\ Bytes \in Nat
      /\ rxq \in Seq(Seq(Byte)) /\ Len(rxq) \in Nat /\ RxDepth \in Nat /\ Len(rxq) <= RxDepth /\ MinLen \in Nat
  BY Lengths DEF IInv, TypeOK, Byte
<1>3. h \in Seq(Byte) /\ h = rxq[1] /\ 1 \in 1 .. Len(rxq) /\ Len(h) \in Nat
  BY <1>1, <1>2, <1>h
<1>4. /\ rxq' \in Seq(Seq(Byte)) /\ Len(rxq') = Len(rxq) - 1
      /\ \A i \in 1 .. Len(rxq') : i + 1 \in 1 .. Len(rxq) /\ rxq'[i] = rxq[i + 1]
  BY <1>1, <1>2
<1>5. pos' # 0 => pos' = 1 /\ msg' = h /\ IsHeader(h, 1) /\ 1 <= Len(h)
  BY <1>1, <1>2, <1>3 DEF Accepted, IsHeader
<1>6. TypeOK'
  <2>1. msg' \in Seq(1 .. Bytes) /\ pos' \in 0 .. Len(msg')
    <3>1. CASE pos' = 0
      <4>1. msg' = msg \/ msg' = h
        BY <1>1
      <4>2. msg \in Seq(Byte) /\ msg' \in Seq(Byte)
        BY <1>2, <1>3, <4>1 DEF TypeOK, Byte
      <4>3. Len(msg') \in Nat
        BY <4>2
      <4> QED
        BY <3>1, <4>2, <4>3 DEF Byte
    <3>2. CASE pos' # 0
      BY <1>3, <1>5, <3>2 DEF Byte
    <3> QED
      BY <3>1, <3>2
  <2>2. Len(rxq') <= RxDepth
    BY <1>2, <1>4
  <2> QED
    BY <1>1, <1>2, <1>4, <2>1, <2>2 DEF TypeOK, Byte
<1>7. Received' /\ InOrder'
  BY <1>1, <1>2 DEF Received, InOrder, Run
<1>8. Shaped'
  <2>1. \A i \in 1 .. Len(rxq') : Run(rxq'[i])
    BY <1>2, <1>4 DEF Shaped
  <2>2. pos' # 0 => Run(msg') /\ IsHeader(msg', pos')
    BY <1>2, <1>3, <1>5 DEF Shaped
  <2> QED
    BY <1>1, <1>2, <2>1, <2>2 DEF Shaped, Run, Frame, IsHeader
<1>9. Parts'
  <2>1. PICK a \in 0 .. Bytes, b \in 0 .. Bytes, c \in 0 .. Bytes, d \in 0 .. Bytes : Parted(a, b, c, d)
    BY <1>2 DEF Parts
  <2>2. c \in Nat /\ d \in Nat /\ c <= d /\ d <= Bytes
    BY <2>1 DEF Parted
  \* the last byte of the message parts what lcd_receive has from what is in the queue
  <2>3. PICK e \in 0 .. Bytes : /\ c <= e /\ e <= d
                                /\ \A k \in 1 .. Len(h) : c < h[k] /\ h[k] <= e
                                /\ \A i \in 1 .. Len(rxq') : \A k \in 1 .. Len(rxq'[i]) : e < rxq'[i][k]
    <3>1. \A k \in 1 .. Len(h) : c < h[k] /\ h[k] <= d /\ h[k] \in Byte
      BY <1>3, <2>1, Elements DEF Parted, SentTo
    <3>2. CASE Len(h) = 0
      <4>1. \A i \in 1 .. Len(rxq') : \A k \in 1 .. Len(rxq'[i]) : c < rxq'[i][k]
        BY <1>4, <2>1 DEF Parted, SentTo
      <4> QED
        BY <2>2, <3>2, <4>1
    <3>3. CASE Len(h) # 0
      <4>1. Len(h) \in 1 .. Len(h)
        BY <1>3, <3>3
      <4>e. PICK e \in Nat : e = h[Len(h)]
        BY <1>3, <4>1, Elements
      <4>2. e \in 0 .. Bytes /\ c <= e /\ e <= d
        <5>1. c < e /\ e <= d
          BY <3>1, <4>1, <4>e
        <5> QED
          BY <1>2, <2>2, <4>e, <5>1
      <4>3. \A k \in 1 .. Len(h) : c < h[k] /\ h[k] <= e
        <5>1. Run(h)
          BY <1>2, <1>3 DEF Shaped
        <5> SUFFICES ASSUME NEW k \in 1 .. Len(h) PROVE h[k] <= e
          BY <3>1
        <5>2. h[k] \in Nat
          BY <1>3, Elements
        <5>3. k < Len(h) => h[k] < h[Len(h)]
          BY <1>3, <4>1, <5>1, RunFacts
        <5>4. k < Len(h) \/ k = Len(h)
          BY <1>3
        <5> QED
          BY <4>e, <5>2, <5>3, <5>4
      <4>4. ASSUME NEW i \in 1 .. Len(rxq'), NEW k \in 1 .. Len(rxq'[i]) PROVE e < rxq'[i][k]
        <5>1. i + 1 \in 1 .. Len(rxq) /\ rxq'[i] = rxq[i + 1] /\ 1 < i + 1
          BY <1>4
        <5> QED
          BY <1>3, <2>1, <4>1, <4>e, <5>1 DEF Parted, SentTo
      <4> QED
        BY <4>2, <4>3, <4>4
    <3> QED
      BY <1>3, <3>2, <3>3
  <2>4. TakenTo(b, e)'
    <3> SUFFICES ASSUME pos' # 0, NEW i \in 1 .. Len(h) PROVE b < h[i] /\ h[i] <= e
      BY <1>5 DEF TakenTo
    <3>1. b \in Nat /\ b <= c /\ h[i] \in Nat
      BY <1>3, <2>1, Elements DEF Parted
    <3> QED
      BY <2>2, <2>3, <3>1
  <2>5. SentTo(e, d)'
    <3>1. \A i \in 1 .. Len(rxq') : \A k \in 1 .. Len(rxq'[i]) : rxq'[i][k] <= d
      BY <1>4, <2>1 DEF Parted, SentTo
    <3>2. ASSUME NEW i \in 1 .. Len(rxq'), NEW j \in 1 .. Len(rxq'), i < j,
                 NEW k \in 1 .. Len(rxq'[i]), NEW n \in 1 .. Len(rxq'[j])
          PROVE  rxq'[i][k] < rxq'[j][n]
      <4>0. i \in Nat /\ j \in Nat
        BY <1>2, <1>4
      <4>1. i + 1 < j + 1
        BY <3>2, <4>0
      <4>2. i + 1 \in 1 .. Len(rxq) /\ rxq'[i] = rxq[i + 1]
        BY <1>4
      <4>3. j + 1 \in 1 .. Len(rxq) /\ rxq'[j] = rxq[j + 1]
        BY <1>4
      <4> QED
        BY <2>1, <4>1, <4>2, <4>3 DEF Parted, SentTo
    <3> QED
      BY <2>3, <3>1, <3>2 DEF SentTo
  <2>6. a <= b /\ b <= e /\ e <= d /\ d <= line
    BY <2>1, <2>2, <2>3 DEF Parted
  <2>7. Parted(a, b, e, d)'
    BY <1>1, <2>1, <2>4, <2>5, <2>6 DEF Parted, HandledTo, CutTo, StoredTo
  <2> QED
    BY <2>1, <2>3, <2>7, PartsNext
<1> QED
  BY <1>6, <1>7, <1>8, <1>9 DEF IInv

\* the frame that begins at i and ends at j is one frame
LEMMA CutFacts ==
    ASSUME NEW m \in Seq(Byte), Run(m), NEW i \in 1 .. Len(m), NEW j \in i .. Len(m), IsHeader(m, i),
           j = Len(m) \/ IsHeader(m, j + 1),
           \A k \in i .. j - 1 : ~(k = Len(m) \/ IsHeader(m, k + 1))
    PROVE  /\ SubSeq(m, i, j) \in Seq(Byte) /\ Frame(SubSeq(m, i, j)) /\ SubSeq(m, i, j)[1] = m[i]
           /\ j # Len(m) => IsHeader(m, j + 1)
<1>0. /\ Len(m) \in Nat /\ i \in Nat /\ j \in Nat /\ 1 <= i /\ i <= j /\ j <= Len(m) /\ i + 1 <= Len(m)
      /\ \A k \in 1 .. Len(m) : m[k] \in Nat
  BY Elements DEF IsHeader
<1>c. PICK c : c = SubSeq(m, i, j)
  OBVIOUS
<1>1. c \in Seq(Byte) /\ Len(c) = j - i + 1 /\ \A k \in 1 .. j - i + 1 : c[k] = m[i + k - 1]
  <2>1. \A k \in i .. j : m[k] \in Byte
    BY <1>0, Elements
  <2> QED
    BY <1>0, <1>c, <2>1, SubSeqProperties
\* the byte after the header is not a header
<1>2. i < j
  <2> SUFFICES ASSUME i = j PROVE FALSE
    BY <1>0
  <2>1. IsHeader(m, i + 1)
    BY <1>0
  <2>2. IsB1(m[i + 1]) /\ IsEE(m[i + 1]) /\ m[i + 1] \in Nat
    BY <1>0, <2>1 DEF IsHeader
  <2> QED
    BY <2>2, OneKind
<1>3. c[1] = m[i] /\ c[2] = m[i + 1] /\ Len(c) >= 2
  BY <1>0, <1>1, <1>2
<1>4. IsHeader(c, 1)
  BY <1>1, <1>3 DEF IsHeader
<1>5. Run(c)
  <2> SUFFICES ASSUME NEW k \in 1 .. Len(c) PROVE c[k] = c[1] + (k - 1)
    BY DEF Run
  <2>1. k \in Nat /\ i + k - 1 \in 1 .. Len(m) /\ c[k] = m[i + k - 1]
    BY <1>0, <1>1
  <2>p. PICK x \in Nat, y \in Nat, n \in 1 .. Len(m) : x = m[i] /\ n = i + k - 1 /\ y = m[n]
    BY <1>0, <2>1
  <2>2. m[i] + (n - i) = m[n]
    BY <2>p, RunFacts
  <2> QED
    BY <1>0, <1>3, <2>1, <2>2, <2>p
\* the next header is a frame further on, if the message is that long
<1>6. Len(c) <= FrameLen + 1
  <2> SUFFICES ASSUME i + FrameLen < j PROVE FALSE
    BY <1>0, <1>1, Lengths
  <2>n. PICK n \in 1 .. Len(m) : n = i + FrameLen /\ n < j /\ n + 1 \in 1 .. Len(m) /\ i + 1 \in 1 .. Len(m) /\ n - 1 \in i .. j - 1
    BY <1>0, Lengths
  <2>1. m[i] + (n - i) = m[n] /\ m[i + 1] + ((n + 1) - (i + 1)) = m[n + 1]
    BY <2>n, RunFacts
  <2>2. m[n] = m[i] + FrameLen /\ m[n + 1] = m[i + 1] + FrameLen /\ m[i] \in Nat /\ m[i + 1] \in Nat
    BY <1>0, <2>1, <2>n, Lengths
  <2>3. IsEE(m[n]) /\ IsB1(m[n + 1])
    BY <2>2, NextHeader DEF IsHeader
  <2>4. IsHeader(m, n)
    BY <1>0, <2>3, <2>n DEF IsHeader
  <2>5. (n - 1) + 1 = n
    BY <2>n
  <2> QED
    BY <2>4, <2>5, <2>n
<1> QED
  BY <1>c, <1>1, <1>3, <1>4, <1>5, <1>6 DEF Frame

LEMMA FirstByte ==
    ASSUME NEW m \in Seq(Byte), Frame(m) PROVE 1 \in 1 .. Len(m) /\ m[1] \in Byte /\ m[1] \in Nat /\ IsEE(m[1])
<1>1. 1 + 1 <= Len(m) /\ IsEE(m[1])
  BY DEF Frame, IsHeader
<1>2. Len(m) \in Nat /\ \A k \in 1 .. Len(m) : m[k] \in Byte /\ m[k] \in Nat
  BY Elements
<1>3. 1 \in 1 .. Len(m)
  BY <1>1, <1>2
<1> QED
  BY <1>1, <1>2, <1>3

\* lcd_receive cuts off the next frame
LEMMA SplitStep ==
    ASSUME IInv, Split PROVE IInv'
<1>p. PICK e \in pos .. Len(msg) :
        /\ CutAt(e) /\ \A d \in pos .. e - 1 : ~CutAt(d)
        /\ cmdq' = IF Len(cmdq) < CmdDepth THEN Append(cmdq, SubSeq(msg, pos, e)) ELSE cmdq
        /\ clean' = (clean /\ Len(cmdq) < CmdDepth)
        /\ pos' = NextPos(e)
        /\ msg' = IF pos' = 0 THEN <<>> ELSE msg
  BY DEF Split
<1>f. PICK f : f = SubSeq(msg, pos, e)
  OBVIOUS
<1>1. /\ pos # 0
      /\ UNCHANGED <<line, gap, dr, ore, idle, armed, buf, isr, rxq, handled>>
  BY DEF Split, receiver
<1>2. /\ TypeOK /\ Received /\ Shaped /\ InOrder /\ Parts /\ line \in Nat /\ Bytes \in Nat
      /\ msg \in Seq(Byte) /\ Len(msg) \in Nat /\ pos \in 1 .. Len(msg) /\ e \in Nat /\ pos <= e /\ e <= Len(msg)
      /\ cmdq \in Seq(Seq(Byte)) /\ Len(cmdq) \in Nat /\ CmdDepth \in Nat /\ Len(cmdq) <= CmdDepth
  BY <1>1, Lengths DEF IInv, TypeOK, Byte
<1>3. /\ f \in Seq(Byte) /\ Frame(f) /\ f[1] = msg[pos]
      /\ e # Len(msg) => IsHeader(msg, e + 1)
  BY <1>1, <1>2, <1>f, <1>p, CutFacts DEF Shaped, CutAt
<1>4. /\ clean' \in BOOLEAN /\ cmdq' \in Seq(Seq(Byte)) /\ Len(cmdq') \in Nat /\ Len(cmdq') <= CmdDepth
      /\ Len(cmdq) <= Len(cmdq') /\ Len(cmdq') <= Len(cmdq) + 1
      /\ \A i \in 1 .. Len(cmdq) : cmdq'[i] = cmdq[i]
      /\ \A i \in 1 .. Len(cmdq') : i \notin 1 .. Len(cmdq) => i = Len(cmdq) + 1 /\ cmdq'[i] = f
  <2>0. clean' \in BOOLEAN
    BY <1>p
  <2>1. CASE Len(cmdq) < CmdDepth
    <3>1. cmdq' = Append(cmdq, f)
      BY <1>f, <1>p, <2>1
    <3>2. cmdq' \in Seq(Seq(Byte)) /\ Len(cmdq') = Len(cmdq) + 1 /\ cmdq'[Len(cmdq) + 1] = f
      BY <1>2, <1>3, <3>1
    <3>3. \A i \in 1 .. Len(cmdq) : cmdq'[i] = cmdq[i]
      BY <1>2, <1>3, <3>1
    <3>4. \A i \in 1 .. Len(cmdq) + 1 : i \notin 1 .. Len(cmdq) => i = Len(cmdq) + 1
      BY <1>2
    <3> QED
      BY <1>2, <2>0, <2>1, <3>2, <3>3, <3>4
  <2>2. CASE ~(Len(cmdq) < CmdDepth)
    <3>1. cmdq' = cmdq
      BY <1>p, <2>2
    <3> QED
      BY <1>2, <2>0, <3>1
  <2> QED
    BY <2>1, <2>2
<1>5. \/ pos' = 0 /\ msg' = <<>>
      \/ pos' = e + 1 /\ msg' = msg /\ e + 1 \in 1 .. Len(msg) /\ e # Len(msg)
  BY <1>2, <1>p DEF NextPos
<1>6. TypeOK'
  <2>1. msg' \in Seq(Byte) /\ pos' \in 0 .. Len(msg')
    <3>1. CASE pos' = 0 /\ msg' = <<>>
      <4>1. msg' \in Seq(Byte) /\ Len(msg') = 0
        BY <3>1
      <4> QED
        BY <3>1, <4>1
    <3>2. CASE pos' = e + 1 /\ msg' = msg /\ e + 1 \in 1 .. Len(msg)
      BY <1>2, <3>2
    <3> QED
      BY <1>5, <3>1, <3>2
  <2> QED
    BY <1>1, <1>2, <1>4, <2>1 DEF TypeOK, Byte
<1>7. Received' /\ InOrder'
  BY <1>1, <1>2 DEF Received, InOrder, Run
<1>8. Shaped'
  <2>1. \A i \in 1 .. Len(cmdq') : Frame(cmdq'[i])
    BY <1>2, <1>3, <1>4 DEF Shaped
  <2>2. pos' # 0 => Run(msg') /\ IsHeader(msg', pos')
    BY <1>1, <1>2, <1>3, <1>5 DEF Shaped
  <2> QED
    BY <1>1, <1>2, <2>1, <2>2 DEF Shaped, Run, Frame, IsHeader
<1>9. Parts'
  <2>1. PICK a \in 0 .. Bytes, b \in 0 .. Bytes, c \in 0 .. Bytes, d \in 0 .. Bytes : Parted(a, b, c, d)
    BY <1>2 DEF Parts
  <2>2. a \in Nat /\ b \in Nat /\ c \in Nat /\ d \in Nat /\ a <= b /\ b <= c /\ c <= d /\ d <= line /\ c <= Bytes
    BY <2>1 DEF Parted
  \* the last byte of the frame parts the frames from the rest of the message
  <2>v. PICK v \in Nat : v = msg[e]
    BY <1>2, Elements
  <2>u. PICK u \in Nat : u = msg[pos]
    BY <1>2, Elements
  <2>3. b < u /\ u <= v /\ v <= c
    <3>1. b < msg[pos] /\ msg[e] <= c
      BY <1>1, <1>2, <2>1 DEF Parted, TakenTo
    <3>2. Run(msg) /\ pos \in 1 .. Len(msg) /\ e \in 1 .. Len(msg)
      BY <1>1, <1>2 DEF Shaped
    <3>3. pos < e => msg[pos] < msg[e]
      BY <1>2, <3>2, RunFacts
    <3>4. pos = e \/ pos < e
      BY <1>2
    <3> QED
      BY <2>u, <2>v, <3>1, <3>3, <3>4
  <2>4. v \in 0 .. Bytes /\ a <= v /\ b <= v
    BY <2>2, <2>3, <1>2
  <2>5. ASSUME NEW i \in 1 .. Len(cmdq')
        PROVE  /\ a < cmdq'[i][1] /\ cmdq'[i][1] <= v
               /\ i \in 1 .. Len(cmdq) => cmdq'[i][1] <= b
               /\ i \notin 1 .. Len(cmdq) => cmdq'[i][1] = u
    <3>1. CASE i \in 1 .. Len(cmdq)
      <4>1. a < cmdq[i][1] /\ cmdq[i][1] <= b
        BY <2>1, <3>1 DEF Parted, CutTo
      <4>m. PICK m \in Seq(Byte) : m = cmdq[i]
        BY <1>2, <3>1
      <4>2. m[1] \in Nat
        <5>1. Frame(m)
          BY <1>2, <3>1, <4>m DEF Shaped
        <5> QED
          BY <5>1, FirstByte
      <4>x. PICK x \in Nat : x = cmdq[i][1]
        BY <4>2, <4>m
      <4>3. cmdq'[i] = cmdq[i]
        BY <1>4, <3>1
      <4>4. x <= v
        BY <2>2, <2>4, <4>1, <4>x
      <4> QED
        BY <3>1, <4>1, <4>3, <4>4, <4>x
    <3>2. CASE i \notin 1 .. Len(cmdq)
      <4>1. cmdq'[i] = f /\ f[1] = u
        BY <1>3, <1>4, <2>u, <3>2
      <4>2. a < u
        BY <2>2, <2>3
      <4> QED
        BY <2>3, <3>2, <4>1, <4>2
    <3> QED
      BY <3>1, <3>2
  <2>6. ASSUME NEW i \in 1 .. Len(cmdq'), NEW j \in 1 .. Len(cmdq'), i < j
        PROVE  cmdq'[i][1] < cmdq'[j][1]
    <3>1. i \in 1 .. Len(cmdq)
      BY <1>2, <1>4, <2>6
    <3>2. CASE j \in 1 .. Len(cmdq)
      <4>1. cmdq[i][1] < cmdq[j][1]
        BY <2>1, <2>6, <3>1, <3>2 DEF Parted, CutTo
      <4> QED
        BY <1>4, <3>1, <3>2, <4>1
    <3>3. CASE j \notin 1 .. Len(cmdq)
      <4>1. cmdq'[j][1] = u
        BY <2>5, <3>3
      <4>2. cmdq'[i][1] <= b
        BY <2>5, <3>1
      <4>m. PICK m \in Seq(Byte) : m = cmdq[i]
        BY <1>2, <3>1
      <4>3. m[1] \in Nat
        <5>1. Frame(m)
          BY <1>2, <3>1, <4>m DEF Shaped
        <5> QED
          BY <5>1, FirstByte
      <4>x. PICK x \in Nat : x = cmdq'[i][1]
        BY <1>4, <3>1, <4>3, <4>m
      <4>4. x < u
        BY <2>2, <2>3, <4>2, <4>x
      <4> QED
        BY <4>1, <4>4, <4>x
    <3> QED
      BY <3>2, <3>3
  <2>7. CutTo(a, v)'
    BY <2>5, <2>6 DEF CutTo
  <2>8. TakenTo(v, c)'
    <3> SUFFICES ASSUME pos' # 0, NEW i \in pos' .. Len(msg') PROVE v < msg'[i] /\ msg'[i] <= c
      BY DEF TakenTo
    <3>1. msg' = msg /\ i \in pos .. Len(msg) /\ i \in 1 .. Len(msg) /\ e \in 1 .. Len(msg) /\ e < i
      BY <1>2, <1>5
    <3>2. msg[e] < msg[i]
      BY <1>1, <1>2, <3>1, RunFacts DEF Shaped
    <3>3. msg[i] <= c
      BY <1>1, <2>1, <3>1 DEF Parted, TakenTo
    <3> QED
      BY <2>v, <3>1, <3>2, <3>3
  <2>9. Parted(a, v, c, d)'
    <3>1. HandledTo(a)' /\ SentTo(c, d)' /\ StoredTo(d)'
      <4>1. HandledTo(a) /\ SentTo(c, d) /\ StoredTo(d)
        BY <2>1 DEF Parted
      <4>2. HandledTo(a)'
        BY <1>1, <4>1 DEF HandledTo
      <4>3. SentTo(c, d)'
        BY <1>1, <4>1 DEF SentTo
      <4>4. StoredTo(d)'
        BY <1>1, <4>1 DEF StoredTo
      <4> QED
        BY <4>2, <4>3, <4>4
    <3>2. d <= line'
      BY <1>1, <2>2
    <3> QED
      BY <2>2, <2>3, <2>4, <2>7, <2>8, <3>1, <3>2 DEF Parted
  <2> QED
    BY <2>1, <2>4, <2>9, PartsNext
<1> QED
  BY <1>6, <1>7, <1>8, <1>9 DEF IInv

\* lcd_command takes the next frame
LEMMA HandleStep ==
    ASSUME IInv, Handle PROVE IInv'
<1>1. /\ cmdq # <<>> /\ cmdq' = Tail(cmdq) /\ handled' = Append(handled, FrameOf(Head(cmdq)[1]))
      /\ UNCHANGED <<line, gap, dr, ore, idle, armed, buf, isr, rxq, msg, pos, clean>>
  BY DEF Handle, receiver, thread
<1>2. /\ TypeOK /\ Received /\ Shaped /\ InOrder /\ Parts /\ line \in Nat /\ Bytes \in Nat
      /\ cmdq \in Seq(Seq(Byte)) /\ Len(cmdq) \in Nat /\ CmdDepth \in Nat /\ Len(cmdq) <= CmdDepth
      /\ handled \in Seq(1 .. MaxFrames) /\ Len(handled) \in Nat
  BY Lengths DEF IInv, TypeOK, Byte
<1>m. PICK m \in Seq(Byte) : m = cmdq[1] /\ m = Head(cmdq)
  BY <1>1, <1>2
<1>3. /\ cmdq' \in Seq(Seq(Byte)) /\ Len(cmdq') = Len(cmdq) - 1 /\ 1 \in 1 .. Len(cmdq)
      /\ \A i \in 1 .. Len(cmdq') : i + 1 \in 1 .. Len(cmdq) /\ cmdq'[i] = cmdq[i + 1] /\ i \in Nat /\ 1 < i + 1
  BY <1>1, <1>2
<1>4. Frame(m)
  BY <1>2, <1>3, <1>m DEF Shaped
<1>v. PICK v \in Nat : v = m[1] /\ v \in Byte /\ IsEE(v)
  BY <1>4, FirstByte
<1>5. FrameOf(v) \in 1 .. MaxFrames
  BY <1>v, FrameRange DEF Byte
<1>6. /\ handled' \in Seq(1 .. MaxFrames) /\ Len(handled') = Len(handled) + 1
      /\ handled'[Len(handled) + 1] = FrameOf(v)
      /\ \A i \in 1 .. Len(handled) : handled'[i] = handled[i]
  BY <1>1, <1>2, <1>5, <1>m, <1>v
<1>7. TypeOK'
  <2>1. Len(cmdq') <= CmdDepth
    BY <1>2, <1>3
  <2> QED
    BY <1>1, <1>2, <1>3, <1>6, <2>1 DEF TypeOK, Byte
<1>8. Received'
  BY <1>1, <1>2 DEF Received, Run
<1>9. Shaped'
  <2>1. \A i \in 1 .. Len(cmdq') : Frame(cmdq'[i])
    BY <1>2, <1>3 DEF Shaped
  <2> QED
    BY <1>1, <1>2, <2>1 DEF Shaped, Run, Frame, IsHeader
<1>10. PICK a \in 0 .. Bytes, b \in 0 .. Bytes, c \in 0 .. Bytes, d \in 0 .. Bytes : Parted(a, b, c, d)
  BY <1>2 DEF Parts
<1>11. a \in Nat /\ b \in Nat /\ c \in Nat /\ d \in Nat /\ a <= b /\ b <= c /\ c <= d /\ d <= line
  BY <1>10 DEF Parted
<1>12. a < v /\ v <= b /\ v \in 0 .. Bytes
  <2>1. a < cmdq[1][1] /\ cmdq[1][1] <= b
    BY <1>3, <1>10 DEF Parted, CutTo
  <2> QED
    BY <1>2, <1>m, <1>v, <2>1 DEF Byte
<1>13. InOrder'
  <2> SUFFICES ASSUME NEW q \in 1 .. Len(handled') - 1 PROVE handled'[q] < handled'[q + 1]
    BY DEF InOrder
  <2>1. q \in 1 .. Len(handled) /\ (q = Len(handled) \/ q \in 1 .. Len(handled) - 1)
    BY <1>2, <1>6
  <2>2. CASE q \in 1 .. Len(handled) - 1
    <3>1. q + 1 \in 1 .. Len(handled) /\ handled[q] < handled[q + 1]
      BY <1>2, <2>2 DEF InOrder
    <3> QED
      BY <1>6, <2>1, <3>1
  <2>3. CASE q = Len(handled)
    <3>1. PICK x \in 1 .. a : IsEE(x) /\ handled[q] = FrameOf(x)
      BY <1>10, <2>1 DEF Parted, HandledTo
    <3>2. x \in Nat \ {0} /\ v \in Nat \ {0} /\ x < v
      BY <1>11, <1>12, <3>1
    <3>3. FrameOf(x) < FrameOf(v)
      BY <1>v, <3>1, <3>2, FrameOrder
    <3> QED
      BY <1>6, <2>1, <2>3, <3>1, <3>3
  <2> QED
    BY <2>1, <2>2, <2>3
<1>14. HandledTo(v)'
  <2> SUFFICES ASSUME NEW i \in 1 .. Len(handled') PROVE \E x \in 1 .. v : IsEE(x) /\ handled'[i] = FrameOf(x)
    BY DEF HandledTo
  <2>1. CASE i \in 1 .. Len(handled)
    <3>1. PICK x \in 1 .. a : IsEE(x) /\ handled[i] = FrameOf(x)
      BY <1>10, <2>1 DEF Parted, HandledTo
    <3>2. x \in 1 .. v
      BY <1>11, <1>12
    <3> QED
      BY <1>6, <2>1, <3>1, <3>2
  <2>2. CASE i = Len(handled) + 1
    <3>1. v \in 1 .. v
      BY <1>11, <1>12
    <3> QED
      BY <1>6, <1>v, <2>2, <3>1
  <2> QED
    BY <1>2, <1>6, <2>1, <2>2
<1>15. CutTo(v, b)'
  <2>1. ASSUME NEW i \in 1 .. Len(cmdq') PROVE v < cmdq'[i][1] /\ cmdq'[i][1] <= b
    <3>1. cmdq[1][1] < cmdq[i + 1][1] /\ cmdq[i + 1][1] <= b
      BY <1>3, <1>10 DEF Parted, CutTo
    <3> QED
      BY <1>3, <1>m, <1>v, <3>1
  <2>2. ASSUME NEW i \in 1 .. Len(cmdq'), NEW j \in 1 .. Len(cmdq'), i < j PROVE cmdq'[i][1] < cmdq'[j][1]
    <3>1. i \in Nat /\ j \in Nat
      BY <1>3
    <3>2. i + 1 < j + 1
      BY <2>2, <3>1
    <3>3. i + 1 \in 1 .. Len(cmdq) /\ cmdq'[i] = cmdq[i + 1]
      BY <1>3
    <3>4. j + 1 \in 1 .. Len(cmdq) /\ cmdq'[j] = cmdq[j + 1]
      BY <1>3
    <3> QED
      BY <1>10, <3>2, <3>3, <3>4 DEF Parted, CutTo
  <2> QED
    BY <2>1, <2>2 DEF CutTo
<1>16. Parted(v, b, c, d)'
  BY <1>1, <1>10, <1>11, <1>12, <1>14, <1>15 DEF Parted, TakenTo, SentTo, StoredTo
<1>17. Parts'
  BY <1>10, <1>12, <1>16, PartsNext
<1> QED
  BY <1>7, <1>8, <1>9, <1>13, <1>17 DEF IInv

LEMMA NextInv == IInv /\ [Next]_vars => IInv'
<1> SUFFICES ASSUME IInv, [Next]_vars PROVE IInv'
  OBVIOUS
<1>1. CASE ByteArrives
  BY <1>1, ByteArrivesStep
<1>2. CASE LineIdle
  BY <1>2, LineIdleStep
<1>3. CASE Interrupt
  BY <1>3, InterruptStep
<1>4. CASE TestIdle
  BY <1>4, TestIdleStep
<1>5. CASE Receive
  BY <1>5, ReceiveStep
<1>6. CASE Split
  BY <1>6, SplitStep
<1>7. CASE Handle
  BY <1>7, HandleStep
<1>8. CASE UNCHANGED vars
  <2>1. UNCHANGED <<line, gap, dr, ore, idle, armed, buf, isr, rxq, msg, pos, cmdq, handled, clean>>
    BY <1>8 DEF vars, receiver, thread
  <2>2. TypeOK' /\ Received' /\ Shaped' /\ InOrder'
    BY <2>1 DEF IInv, TypeOK, Received, Shaped, InOrder, Run, Frame, IsHeader
  <2>3. Parts'
    BY <2>1, PartsSame DEF IInv
  <2> QED
    BY <2>2, <2>3 DEF IInv
<1> QED
  BY <1>1, <1>2, <1>3, <1>4, <1>5, <1>6, <1>7, <1>8 DEF Next, Firmware

LEMMA InvHolds == Spec => []IInv
BY InitInv, NextInv, PTL DEF Spec

-----------------------------------------------------------------------------
(* PanelRx: theorems *)

\* The queues, the buffer and the position in the message keep their types and bounds: no
\* byte is stored behind lcd_rx_buf, no message is split past its end.
THEOREM TypeCorrect == Spec => []TypeOK
<1>1. IInv => TypeOK
  BY DEF IInv
<1> QED
  BY <1>1, InvHolds, PTL

\* Frames stay whole and in order on their way from the line to lcd_command, whatever is
\* lost and however late the interrupts are: every message of lcd_command_mq is one frame
\* from its header on, fits the buffer of lcd_receive and is handled after all earlier ones.
THEOREM FramesStayWhole == Spec => []FramesKept
<1>1. IInv => FramesKept
  <2> SUFFICES ASSUME IInv PROVE OneFrame /\ InOrder
    BY DEF FramesKept
  <2>1. ASSUME NEW q \in 1 .. Len(cmdq)
        PROVE  /\ IsHeader(cmdq[q], 1) /\ Consecutive(cmdq[q])
               /\ Len(cmdq[q]) <= FrameLen + 1 /\ Len(cmdq[q]) <= CmdSize
    <3>m. PICK m \in Seq(Byte) : m = cmdq[q]
      BY DEF IInv, TypeOK, Byte
    <3>1. Frame(m)
      BY <3>m DEF IInv, Shaped
    <3>2. IsHeader(m, 1) /\ Run(m) /\ Len(m) <= FrameLen + 1
      BY <3>1 DEF Frame
    <3>3. Consecutive(m)
      BY <3>2, RunFacts
    <3>4. Len(m) <= CmdSize
      BY <3>2, Lengths, Elements
    <3> QED
      BY <3>2, <3>3, <3>4, <3>m
  <2> QED
    BY <2>1 DEF OneFrame, IInv
<1> QED
  BY <1>1, InvHolds, PTL

-----------------------------------------------------------------------------
(* Temperature *)

\* The variables keep their types.
THEOREM TempTypeCorrect == TempSpec => []TempTypeOK
<1> USE PollsAssumption DEF Channel, TempTypeOK
<1>1. TempInit => TempTypeOK
    BY DEF TempInit
<1>2. TempTypeOK /\ [TempNext]_tempVars => TempTypeOK'
    <2> SUFFICES ASSUME TempTypeOK, [TempNext]_tempVars PROVE TempTypeOK'
        OBVIOUS
    <2>1. CASE Poll
        BY <2>1 DEF Poll
    <2>2. ASSUME NEW c \in Channel, Configure(c) PROVE TempTypeOK'
        BY <2>2 DEF Configure, Selected
    <2>3. ASSUME NEW c \in Channel, ConfigureTimeout(c) PROVE TempTypeOK'
        BY <2>3 DEF ConfigureTimeout
    <2>4. ASSUME NEW c \in Channel, Read(c) PROVE TempTypeOK'
        BY <2>4 DEF Read
    <2>5. ASSUME NEW c \in Channel, ReadTimeout(c) PROVE TempTypeOK'
        BY <2>5 DEF ReadTimeout
    <2>6. CASE UNCHANGED tempVars
        BY <2>6 DEF tempVars
    <2>7. QED BY <2>1, <2>2, <2>3, <2>4, <2>5, <2>6 DEF TempNext
<1>3. QED BY <1>1, <1>2, PTL DEF TempSpec

\* While one channel has its turn, a wrong reading of the other one says what the converter measures.
SwapInv ==
    /\ NeverSwapped
    /\ task[2] = 2 /\ Temp[1] = 2 => conf = 2
    /\ task[2] = 1 /\ Temp[2] = 1 => conf = 1

LEMMA SwapStep == TempTypeOK /\ SwapInv /\ [TempNext]_tempVars => SwapInv'
<1> SUFFICES ASSUME TempTypeOK, SwapInv, [TempNext]_tempVars PROVE SwapInv'
    OBVIOUS
<1> USE DEF Channel, TempTypeOK, SwapInv, NeverSwapped
<1>1. CASE Poll
    BY <1>1 DEF Poll
<1>2. ASSUME NEW c \in Channel, Configure(c) PROVE SwapInv'
    BY <1>2 DEF Configure, Selected
<1>3. ASSUME NEW c \in Channel, ConfigureTimeout(c) PROVE SwapInv'
    BY <1>3 DEF ConfigureTimeout
<1>4. ASSUME NEW c \in Channel, Read(c) PROVE SwapInv'
    <2>1. PICK t \in {conf, 0} : Temp' = [Temp EXCEPT ![c] = t]
        BY <1>4 DEF Read
    <2>2. CASE c = 1
        BY <1>4, <2>1, <2>2 DEF Read
    <2>3. CASE c = 2
        BY <1>4, <2>1, <2>3 DEF Read
    <2>4. QED BY <2>2, <2>3
<1>5. ASSUME NEW c \in Channel, ReadTimeout(c) PROVE SwapInv'
    BY <1>5 DEF ReadTimeout
<1>6. CASE UNCHANGED tempVars
    BY <1>6 DEF tempVars
<1>7. QED BY <1>1, <1>2, <1>3, <1>4, <1>5, <1>6 DEF TempNext

\* The two readings are never exchanged, whatever times out and however long the waits are.
THEOREM Unswapped == TempSpec => []NeverSwapped
<1>1. TempInit => SwapInv
    BY DEF TempInit, SwapInv, NeverSwapped, Channel
<1>2. SwapInv => NeverSwapped
    BY DEF SwapInv
<1>3. QED BY <1>1, <1>2, SwapStep, TempTypeCorrect, PTL DEF TempSpec
=============================================================================
