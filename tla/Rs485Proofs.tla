---------------------------- MODULE Rs485Proofs ----------------------------
(* What holds of the RS485 slave for any requests of the master, any pauses    *)
(* and losses on the line, and any values of the panel.  Two arguments do not  *)
(* meet: that requests are carried out whole and in turn follows from the      *)
(* numbers of the bytes on their way, what a register reads back from the      *)
(* settings and usRegHoldingBuf.                                               *)
EXTENDS Rs485, SequenceTheorems, TLAPS

\* the first bytes of a message, as the interrupt handler leaves them
Message == [1 .. 8 -> Nat]

TypeInv ==
    /\ sent \in Seq(Requests) /\ wire \in Seq(Nat) /\ rx \in Seq(Nat)
    /\ msg_uart1 \in Message /\ rxq \in Seq(Message)
    /\ done \in Seq(Requests) /\ clean \in BOOLEAN

\* the number of the byte that comes after all that has been delivered in messages
Rest == 8 * Len(sent) - Len(wire) - Len(rx)

\* no request is sent twice, the bytes that are still on their way are the last that were sent
LineInv ==
    /\ \A k, l \in 1 .. Len(sent) : sent[k] = sent[l] => k = l
    /\ \A i \in 1 .. Len(done) : \E k \in 1 .. Len(sent) : done[i] = sent[k]
    /\ clean => /\ Len(wire) + Len(rx) <= 8 * Len(sent)
                /\ \A i \in 1 .. Len(rx) : rx[i] = Rest + i
                /\ \A i \in 1 .. Len(wire) : wire[i] = 8 * Len(sent) - Len(wire) + i

\* what is in the queue are whole requests in turn, and later ones than those that were answered
TurnInv ==
    clean =>
        /\ \A i \in 1 .. Len(rxq) : \E k \in 1 .. Len(sent) : rxq[i] = Frame(k) /\ 8 * k <= Rest
        /\ \A i, j \in 1 .. Len(rxq) : \A k, l \in 1 .. Len(sent) :
              i < j /\ rxq[i] = Frame(k) /\ rxq[j] = Frame(l) => k < l
        /\ \A i \in 1 .. Len(done) : \A k \in 1 .. Len(sent) : done[i] = sent[k] => 8 * k <= Rest
        /\ \A i \in 1 .. Len(done) : \A j \in 1 .. Len(rxq) : \A k, l \in 1 .. Len(sent) :
              done[i] = sent[k] /\ rxq[j] = Frame(l) => k < l
        /\ \A i, j \in 1 .. Len(done) : \A k, l \in 1 .. Len(sent) :
              i < j /\ done[i] = sent[k] /\ done[j] = sent[l] => k < l

RegisterInv ==
    /\ setting \in [Names -> Nat] /\ buf \in [Register -> Byte]
    /\ wrote \in [Register -> 0 .. Unknown]
    /\ pending \in Seq(Requests)
    /\ stored = setting
    /\ pending # <<>> => buf[pending[1].reg] = (pending[1].hi * 256 + pending[1].lo) % 256

\* what was written to a register is in the setting it shows or, if it shows none, in
\* usRegHoldingBuf, unless a newer request is about to change it there
BackInv ==
    wrote[18] = Unknown =>
        /\ \A r \in Register : wrote[r] # Unknown =>
              IF r \in DOMAIN ReadFrom THEN setting[ReadFrom[r]] % 256 = wrote[r]
              ELSE buf[r] = wrote[r] \/ (pending # <<>> /\ pending[1].reg = r)
        /\ \A r \in DOMAIN reply : r \in Register /\ (wrote[r] # Unknown => reply[r] = wrote[r])

-----------------------------------------------------------------------------
(* Requests on the line *)

LEMMA FrameBytes ==
    ASSUME NEW k \in Nat \ {0}
    PROVE  /\ Frame(k) \in Message /\ \A i \in 1 .. 8 : Frame(k)[i] = 8 * (k - 1) + i
           /\ \A l \in Nat \ {0} : Frame(k) = Frame(l) => k = l
<1>1. Frame(k) \in Message /\ \A i \in 1 .. 8 : Frame(k)[i] = 8 * (k - 1) + i
  BY DEF Frame, Message
<1>2. ASSUME NEW l \in Nat \ {0}, Frame(k) = Frame(l) PROVE k = l
  <2>1. Frame(l)[1] = 8 * (l - 1) + 1 /\ Frame(k)[1] = 8 * (k - 1) + 1
    BY DEF Frame
  <2> QED
    BY <1>2, <2>1
<1> QED
  BY <1>1, <1>2

\* the numbers of the bytes of a request lead back to it
LEMMA FrameValues ==
    ASSUME TypeInv, NEW k \in 1 .. Len(sent)
    PROVE  LET r == sent[k]
               f == Frame(k)
           IN  /\ Value(f[1]) = r.to /\ Value(f[2]) = r.fn /\ Value(f[4]) = r.reg
               /\ Value(f[5]) = r.hi /\ Value(f[6]) = r.lo
<1>1. k \in Nat \ {0}
  BY DEF TypeInv
<1>2. \A i \in 1 .. 8 : Frame(k)[i] = 8 * (k - 1) + i
  BY <1>1, FrameBytes
<1>3. ASSUME NEW i \in 1 .. 8
      PROVE  LET r == sent[k]
             IN  Value(Frame(k)[i]) = <<r.to, r.fn, 0, r.reg, r.hi, r.lo, 256, 256>>[i]
  <2> DEFINE b == Frame(k)[i]
  <2>1. b = 8 * (k - 1) + i
    BY <1>2
  <2>2. b # 0 /\ (b - 1) \div 8 + 1 = k /\ ((b - 1) % 8) + 1 = i
    BY <1>1, <2>1
  <2> HIDE DEF b
  <2> QED
    BY <2>2 DEF Value, b
<1> QED
  BY <1>3

\* A message whose CRC fits is the request the CRC was made for.
LEMMA IntactRequest ==
    ASSUME TypeInv, NEW m, Intact(m)
    PROVE  \E k \in 1 .. Len(sent) : Request(m) = sent[k]
<1>1. PICK k \in 1 .. Len(sent) : \A i \in 1 .. 6 : Value(m[i]) = Value(Frame(k)[i])
  BY DEF Intact
<1>2. sent[k] \in [to : Byte, fn : {3, 6}, reg : Register, hi : Byte, lo : Byte]
  BY RequestsAssumption DEF TypeInv
<1>3. Request(m) = [to |-> sent[k].to, fn |-> sent[k].fn, reg |-> sent[k].reg,
                    hi |-> sent[k].hi, lo |-> sent[k].lo]
  BY <1>1, FrameValues DEF Request
<1>4. Request(m) = sent[k]
  BY <1>2, <1>3
<1> QED
  BY <1>4

LEMMA WholeRequest ==
    ASSUME TypeInv, NEW k \in 1 .. Len(sent)
    PROVE  Request(Frame(k)) = sent[k]
<1>1. sent[k] \in [to : Byte, fn : {3, 6}, reg : Register, hi : Byte, lo : Byte]
  BY RequestsAssumption DEF TypeInv
<1>2. Request(Frame(k)) = [to |-> sent[k].to, fn |-> sent[k].fn, reg |-> sent[k].reg,
                           hi |-> sent[k].hi, lo |-> sent[k].lo]
  BY FrameValues DEF Request
<1> QED
  BY <1>1, <1>2

-----------------------------------------------------------------------------
(* What the steps do to the bytes and the requests *)

LEMMA Cut ==
    ASSUME NEW l \in Seq(Nat), NEW k \in 0 .. Len(l)
    PROVE  /\ SubSeq(l, 1, k) \in Seq(Nat) /\ Len(SubSeq(l, 1, k)) = k
           /\ \A i \in 1 .. k : SubSeq(l, 1, k)[i] = l[i]
           /\ SubSeq(l, k + 1, Len(l)) \in Seq(Nat) /\ Len(SubSeq(l, k + 1, Len(l))) = Len(l) - k
           /\ \A i \in 1 .. Len(l) - k : SubSeq(l, k + 1, Len(l))[i] = l[k + i]
<1>1. \A i \in 1 .. Len(l) : l[i] \in Nat
  OBVIOUS
<1>2. Len(l) \in Nat
  OBVIOUS
<1>3. /\ SubSeq(l, 1, k) \in Seq(Nat) /\ Len(SubSeq(l, 1, k)) = k
      /\ \A i \in 1 .. k : SubSeq(l, 1, k)[i] = l[i]
  BY <1>1, <1>2, SubSeqProperties
<1>4. /\ SubSeq(l, k + 1, Len(l)) \in Seq(Nat) /\ Len(SubSeq(l, k + 1, Len(l))) = Len(l) - k
      /\ \A i \in 1 .. Len(l) - k : SubSeq(l, k + 1, Len(l))[i] = l[k + i]
  BY <1>1, <1>2, SubSeqProperties
<1> QED
  BY <1>3, <1>4

\* the bytes of a request that the master sends
LEMMA Sending ==
    ASSUME TypeInv, NEW r \in Requests, Sends(r)
    PROVE  /\ sent' \in Seq(Requests) /\ Len(sent') = Len(sent) + 1
           /\ \A k \in 1 .. Len(sent) : sent'[k] = sent[k] /\ sent[k] # r
           /\ sent'[Len(sent) + 1] = r
           /\ wire = <<>> /\ wire' = Frame(Len(sent) + 1) /\ wire' \in Seq(Nat) /\ Len(wire') = 8
           /\ \A i \in 1 .. 8 : wire'[i] = 8 * Len(sent) + i
<1>1. /\ sent' \in Seq(Requests) /\ Len(sent') = Len(sent) + 1
      /\ \A k \in 1 .. Len(sent) : sent'[k] = sent[k]
      /\ sent'[Len(sent) + 1] = r
  BY DEF Sends, TypeInv
<1>2. \A k \in 1 .. Len(sent) : sent[k] # r
  BY DEF Sends, Range, TypeInv
<1>3. wire = <<>> /\ wire' = Frame(Len(sent) + 1)
  BY <1>1 DEF Sends
<1>4. Len(sent) + 1 \in Nat \ {0} /\ Len(sent) \in Nat
  BY DEF TypeInv
<1>5. wire' \in [1 .. 8 -> Nat] /\ \A i \in 1 .. 8 : wire'[i] = 8 * Len(sent) + i
  BY <1>3, <1>4 DEF Frame
<1>6. wire' \in Seq(Nat)
  BY <1>5, SeqDef
<1>7. Len(wire') = 8
  BY <1>5, <1>6, LenProperties
<1> QED
  BY <1>1, <1>2, <1>3, <1>5, <1>6, <1>7

LEMMA Arriving ==
    ASSUME TypeInv, NEW k \in 1 .. 8, Arrive(k)
    PROVE  /\ k <= Len(wire) /\ Len(wire) \in Nat /\ Len(rx) \in Nat
           /\ rx' \in Seq(Nat) /\ Len(rx') = Len(rx) + k
           /\ \A i \in 1 .. Len(rx) + k : rx'[i] = IF i <= Len(rx) THEN rx[i] ELSE wire[i - Len(rx)]
           /\ wire' \in Seq(Nat) /\ Len(wire') = Len(wire) - k
           /\ \A i \in 1 .. Len(wire) - k : wire'[i] = wire[k + i]
           /\ UNCHANGED <<sent, msg_uart1, rxq, done, clean>>
<1> DEFINE a == SubSeq(wire, 1, k)
           b == SubSeq(wire, k + 1, Len(wire))
<1>1. /\ k \in 0 .. Len(wire) /\ rx' = rx \o a /\ wire' = b
      /\ UNCHANGED <<sent, msg_uart1, rxq, done, clean>>
  BY DEF Arrive
<1>2. wire \in Seq(Nat) /\ rx \in Seq(Nat) /\ Len(wire) \in Nat /\ Len(rx) \in Nat
  BY DEF TypeInv
<1>3. /\ a \in Seq(Nat) /\ Len(a) = k /\ \A i \in 1 .. k : a[i] = wire[i]
      /\ b \in Seq(Nat) /\ Len(b) = Len(wire) - k /\ \A i \in 1 .. Len(wire) - k : b[i] = wire[k + i]
  BY <1>1, <1>2, Cut
<1> HIDE DEF a, b
<1>4. rx' \in Seq(Nat) /\ Len(rx') = Len(rx) + k
  <2>1. rx' = rx \o a /\ a \in Seq(Nat) /\ Len(a) = k
    BY <1>1, <1>3
  <2> QED
    BY <1>2, <2>1, ConcatProperties
<1>5. \A i \in 1 .. Len(rx) + k : rx'[i] = IF i <= Len(rx) THEN rx[i] ELSE wire[i - Len(rx)]
  <2> TAKE i \in 1 .. Len(rx) + k
  <2>1. rx'[i] = IF i <= Len(rx) THEN rx[i] ELSE a[i - Len(rx)]
    BY <1>1, <1>2, <1>3, ConcatProperties
  <2>2. i > Len(rx) => i - Len(rx) \in 1 .. k
    BY <1>2
  <2> QED
    BY <2>1, <2>2, <1>3
<1> QED
  BY <1>1, <1>2, <1>3, <1>4, <1>5

\* the end of a message
LEMMA Ending ==
    ASSUME TypeInv, NEW gone \in 0 .. 1, Idle(gone)
    PROVE  /\ wire' \in Seq(Nat) /\ rx' = <<>> /\ msg_uart1' \in Message /\ rxq' \in Seq(Message)
           /\ \/ rxq' = rxq
              \/ rxq' = Append(rxq, msg_uart1')
           /\ clean' \in BOOLEAN /\ UNCHANGED <<sent, done>>
           /\ clean' => /\ clean /\ wire = <<>> /\ wire' = <<>> /\ Len(rx) = 8
                        /\ rxq' = Append(rxq, msg_uart1') /\ \A i \in 1 .. 8 : msg_uart1'[i] = rx[i]
<1>1. /\ gone <= Len(wire) /\ wire' = SubSeq(wire, gone + 1, Len(wire)) /\ rx' = <<>>
      /\ msg_uart1' = Copied(msg_uart1, rx)
      /\ rxq' = IF Len(rxq) < RxDepth THEN Append(rxq, msg_uart1') ELSE rxq
      /\ clean' = (clean /\ gone = 0 /\ wire = <<>> /\ Len(rx) = 8 /\ Len(rxq) < RxDepth)
      /\ UNCHANGED <<sent, done>>
  BY DEF Idle
<1>2. wire \in Seq(Nat) /\ rx \in Seq(Nat) /\ Len(wire) \in Nat /\ Len(rx) \in Nat
  BY DEF TypeInv
<1>3. wire' \in Seq(Nat) /\ Len(wire') = Len(wire) - gone
  <2>1. gone \in 0 .. Len(wire)
    BY <1>1, <1>2
  <2> QED
    BY <1>1, <1>2, <2>1, Cut
<1>4. msg_uart1' \in Message /\ \A i \in 1 .. 8 : i <= Len(rx) => msg_uart1'[i] = rx[i]
  <2>1. \A i \in 1 .. 8 : i <= Len(rx) => rx[i] \in Nat
    BY <1>2
  <2>2. \A i \in 1 .. 8 : msg_uart1[i] \in Nat
    BY DEF TypeInv, Message
  <2>3. msg_uart1' = [i \in 1 .. 8 |-> IF i <= Len(rx) THEN rx[i] ELSE msg_uart1[i]]
    BY <1>1 DEF Copied
  <2> QED
    BY <2>1, <2>2, <2>3 DEF Message
<1>5. rxq' \in Seq(Message)
  BY <1>1, <1>4 DEF TypeInv
<1>6. clean' => clean /\ gone = 0 /\ wire = <<>> /\ Len(rx) = 8 /\ Len(rxq) < RxDepth
  BY <1>1
<1>7. clean' => wire' = <<>>
  <2> SUFFICES ASSUME clean' PROVE wire' = <<>>
    OBVIOUS
  <2>1. Len(wire) = 0 /\ gone = 0
    BY <1>6
  <2>2. Len(wire') = 0
    BY <1>3, <2>1
  <2> QED
    BY <1>3, <2>2, EmptySeq
<1>8. clean' => rxq' = Append(rxq, msg_uart1') /\ \A i \in 1 .. 8 : msg_uart1'[i] = rx[i]
  BY <1>1, <1>4, <1>6
<1>9. clean' \in BOOLEAN
  BY <1>1
<1> QED
  BY <1>1, <1>3, <1>4, <1>5, <1>6, <1>7, <1>8, <1>9

LEMMA Taking ==
    ASSUME TypeInv, Ignore \/ AnswerRead \/ AnswerWrite
    PROVE  /\ rxq # <<>> /\ rxq' \in Seq(Message) /\ Len(rxq') = Len(rxq) - 1
           /\ \A i \in 1 .. Len(rxq) - 1 : rxq'[i] = rxq[i + 1]
           /\ Head(rxq) = rxq[1] /\ Len(rxq) \in Nat
           /\ UNCHANGED <<line, clean>>
<1>1. rxq # <<>> /\ rxq' = Tail(rxq) /\ UNCHANGED <<line, clean>>
  BY DEF Ignore, AnswerRead, AnswerWrite
<1>2. rxq \in Seq(Message)
  BY DEF TypeInv
<1> QED
  BY <1>1, <1>2

LEMMA Answering ==
    ASSUME TypeInv, AnswerRead \/ AnswerWrite
    PROVE  /\ Request(Head(rxq)) \in Requests
           /\ \E k \in 1 .. Len(sent) : Request(Head(rxq)) = sent[k]
           /\ done' \in Seq(Requests) /\ Len(done') = Len(done) + 1 /\ Len(done) \in Nat
           /\ \A i \in 1 .. Len(done) : done'[i] = done[i]
           /\ done'[Len(done) + 1] = Request(Head(rxq))
<1>1. Intact(Head(rxq)) /\ done' = Append(done, Request(Head(rxq)))
  BY DEF AnswerRead, AnswerWrite, Accepted
<1>2. PICK k \in 1 .. Len(sent) : Request(Head(rxq)) = sent[k]
  BY <1>1, IntactRequest
<1>3. Request(Head(rxq)) \in Requests
  BY <1>2 DEF TypeInv
<1> QED
  BY <1>1, <1>2, <1>3 DEF TypeInv

-----------------------------------------------------------------------------
(* The invariants of the line and the turn *)

LEMMA TypeStep == TypeInv /\ [Next]_vars => TypeInv'
<1> SUFFICES ASSUME TypeInv, [Next]_vars PROVE TypeInv'
  OBVIOUS
<1>1. ASSUME NEW r \in Requests, Sends(r) PROVE TypeInv'
  BY <1>1, Sending DEF TypeInv, Sends
<1>2. ASSUME NEW k \in 1 .. 8, Arrive(k) PROVE TypeInv'
  BY <1>2, Arriving DEF TypeInv
<1>3. ASSUME NEW gone \in 0 .. 1, Idle(gone) PROVE TypeInv'
  <2>1. rx' = <<>> /\ rx' \in Seq(Nat)
    BY <1>3, Ending, EmptySeq
  <2> QED
    BY <1>3, <2>1, Ending DEF TypeInv
<1>4. CASE Ignore
  <2>1. rxq' \in Seq(Message) /\ UNCHANGED <<line, clean, done>>
    BY <1>4, Taking DEF Ignore
  <2> QED
    BY <2>1 DEF TypeInv, line
<1>5. CASE AnswerRead \/ AnswerWrite
  <2>1. rxq' \in Seq(Message) /\ UNCHANGED <<line, clean>> /\ done' \in Seq(Requests)
    BY <1>5, Taking, Answering
  <2> QED
    BY <2>1 DEF TypeInv, line
<1>6. CASE CarryOut
  BY <1>6 DEF CarryOut, TypeInv, line
<1>7. ASSUME NEW p \in PanelSettings, PanelSets(p) PROVE TypeInv'
  BY <1>7 DEF PanelSets, TypeInv, line
<1>8. CASE Restart
  <2>1. msg_uart1' \in Message /\ rxq' = <<>> /\ rx' = <<>> /\ clean' = FALSE /\ UNCHANGED <<sent, wire, done>>
    BY <1>8 DEF Restart, Message
  <2>2. <<>> \in Seq(Message) /\ <<>> \in Seq(Nat)
    BY EmptySeq
  <2> QED
    BY <2>1, <2>2 DEF TypeInv
<1>9. CASE UNCHANGED vars
  BY <1>9 DEF vars, line, TypeInv
<1> QED
  BY <1>1, <1>2, <1>3, <1>4, <1>5, <1>6, <1>7, <1>8, <1>9 DEF Next

\* steps that are not seen on the line
LEMMA Elsewhere ==
    ASSUME UNCHANGED <<sent, wire, rx, rxq, done, clean>>
    PROVE  (LineInv => LineInv') /\ (TurnInv => TurnInv')
  BY DEF LineInv, TurnInv, Rest

LEMMA LineStep == TypeInv /\ LineInv /\ [Next]_vars => LineInv'
<1> SUFFICES ASSUME TypeInv, LineInv, [Next]_vars PROVE LineInv'
  OBVIOUS
<1>t. Len(sent) \in Nat /\ Len(wire) \in Nat /\ Len(rx) \in Nat /\ Len(done) \in Nat
  BY DEF TypeInv
<1>1. ASSUME NEW r \in Requests, Sends(r) PROVE LineInv'
  <2>0. UNCHANGED <<rx, done, clean>>
    BY <1>1 DEF Sends
  <2>s. /\ Len(sent') = Len(sent) + 1 /\ sent'[Len(sent) + 1] = r
        /\ \A k \in 1 .. Len(sent) : sent'[k] = sent[k] /\ sent[k] # r
        /\ Len(wire) = 0 /\ Len(wire') = 8 /\ \A i \in 1 .. 8 : wire'[i] = 8 * Len(sent) + i
    <3>1. /\ sent' \in Seq(Requests) /\ Len(sent') = Len(sent) + 1
          /\ \A k \in 1 .. Len(sent) : sent'[k] = sent[k] /\ sent[k] # r
          /\ sent'[Len(sent) + 1] = r
          /\ wire = <<>> /\ wire' = Frame(Len(sent) + 1) /\ wire' \in Seq(Nat) /\ Len(wire') = 8
          /\ \A i \in 1 .. 8 : wire'[i] = 8 * Len(sent) + i
      BY <1>1, Sending
    <3>2. Len(wire) = 0
      BY <3>1
    <3> QED
      BY <3>1, <3>2
  <2>n. Len(sent') = Len(sent) + 1 /\ Len(wire) = 0 /\ Len(wire') = 8 /\ Len(rx') = Len(rx)
    BY <2>0, <2>s
  <2>1. \A k, l \in 1 .. Len(sent') : sent'[k] = sent'[l] => k = l
    <3> SUFFICES ASSUME NEW k \in 1 .. Len(sent'), NEW l \in 1 .. Len(sent'), sent'[k] = sent'[l]
                 PROVE  k = l
      OBVIOUS
    <3>1. \A i \in 1 .. Len(sent') : i \in 1 .. Len(sent) \/ i = Len(sent) + 1
      BY <1>t, <2>n
    <3>2. k \in 1 .. Len(sent) \/ k = Len(sent) + 1
      BY <3>1
    <3>3. l \in 1 .. Len(sent) \/ l = Len(sent) + 1
      BY <3>1
    <3>4. CASE k \in 1 .. Len(sent) /\ l \in 1 .. Len(sent)
      BY <2>s, <3>4 DEF LineInv
    <3>5. CASE k = Len(sent) + 1 \/ l = Len(sent) + 1
      BY <2>s, <3>2, <3>3, <3>5
    <3> QED
      BY <3>2, <3>3, <3>4, <3>5
  <2>2. \A i \in 1 .. Len(done') : \E k \in 1 .. Len(sent') : done'[i] = sent'[k]
    <3> TAKE i \in 1 .. Len(done')
    <3>1. PICK k \in 1 .. Len(sent) : done[i] = sent[k]
      BY <2>0 DEF LineInv
    <3>2. k \in 1 .. Len(sent') /\ done'[i] = sent'[k]
      BY <1>t, <2>0, <2>s, <3>1
    <3> QED
      BY <3>2
  <2>3. clean' => /\ Len(wire') + Len(rx') <= 8 * Len(sent')
                  /\ \A i \in 1 .. Len(rx') : rx'[i] = Rest' + i
                  /\ \A i \in 1 .. Len(wire') : wire'[i] = 8 * Len(sent') - Len(wire') + i
    <3> SUFFICES ASSUME clean PROVE /\ Len(wire') + Len(rx') <= 8 * Len(sent')
                                    /\ \A i \in 1 .. Len(rx') : rx'[i] = Rest' + i
                                    /\ \A i \in 1 .. Len(wire') : wire'[i] = 8 * Len(sent') - Len(wire') + i
      BY <2>0
    <3>0. Len(wire) + Len(rx) <= 8 * Len(sent) /\ \A i \in 1 .. Len(rx) : rx[i] = Rest + i
      BY DEF LineInv
    <3>1. Len(rx) <= 8 * Len(sent) /\ \A i \in 1 .. Len(rx) : rx[i] = Rest + i
      BY <1>t, <2>n, <3>0
    <3>2. Rest' = Rest
      BY <1>t, <2>n DEF Rest
    <3>3. Len(wire') + Len(rx') <= 8 * Len(sent')
      BY <1>t, <2>n, <3>1
    <3>4. \A i \in 1 .. Len(wire') : wire'[i] = 8 * Len(sent') - Len(wire') + i
      <4> TAKE i \in 1 .. Len(wire')
      <4>1. i \in 1 .. 8
        BY <2>n
      <4>2. wire'[i] = 8 * Len(sent) + i
        BY <2>s, <4>1
      <4> QED
        BY <1>t, <2>n, <4>1, <4>2
    <3> QED
      BY <2>0, <3>1, <3>2, <3>3, <3>4
  <2> QED
    BY <2>1, <2>2, <2>3 DEF LineInv
<1>2. ASSUME NEW k \in 1 .. 8, Arrive(k) PROVE LineInv'
  <2>0. UNCHANGED <<sent, done, clean>>
    BY <1>2, Arriving
  <2>s. k <= Len(wire) /\ Len(wire') = Len(wire) - k /\ Len(rx') = Len(rx) + k
    BY <1>2, Arriving
  <2>1. Rest' = Rest
    BY <1>t, <2>0, <2>s DEF Rest
  <2>2. clean => /\ Len(wire') + Len(rx') <= 8 * Len(sent)
                 /\ \A i \in 1 .. Len(rx') : rx'[i] = Rest + i
                 /\ \A i \in 1 .. Len(wire') : wire'[i] = 8 * Len(sent) - Len(wire') + i
    <3> SUFFICES ASSUME clean PROVE /\ Len(wire') + Len(rx') <= 8 * Len(sent)
                                    /\ \A i \in 1 .. Len(rx') : rx'[i] = Rest + i
                                    /\ \A i \in 1 .. Len(wire') :
                                          wire'[i] = 8 * Len(sent) - Len(wire') + i
      OBVIOUS
    <3>1. /\ Len(wire) + Len(rx) <= 8 * Len(sent) /\ \A i \in 1 .. Len(rx) : rx[i] = Rest + i
          /\ \A i \in 1 .. Len(wire) : wire[i] = 8 * Len(sent) - Len(wire) + i
      BY DEF LineInv
    <3>2. k <= Len(wire) /\ Len(wire') = Len(wire) - k /\ Len(rx') = Len(rx) + k
      BY <1>2, Arriving
    <3>3. \A i \in 1 .. Len(rx') : rx'[i] = Rest + i
      <4> TAKE i \in 1 .. Len(rx')
      <4>1. rx'[i] = IF i <= Len(rx) THEN rx[i] ELSE wire[i - Len(rx)]
        BY <1>2, <3>2, Arriving
      <4>2. CASE i <= Len(rx)
        BY <3>1, <4>1, <4>2
      <4>3. CASE i > Len(rx)
        <5>1. i - Len(rx) \in 1 .. Len(wire)
          BY <1>t, <3>2, <4>3
        <5>2. wire[i - Len(rx)] = 8 * Len(sent) - Len(wire) + (i - Len(rx))
          BY <3>1, <5>1
        <5> QED
          BY <1>t, <4>1, <4>3, <5>2 DEF Rest
      <4> QED
        BY <1>t, <3>2, <4>2, <4>3
    <3>4. \A i \in 1 .. Len(wire') : wire'[i] = 8 * Len(sent) - Len(wire') + i
      <4> TAKE i \in 1 .. Len(wire')
      <4>0. i \in 1 .. Len(wire) - k /\ k + i \in 1 .. Len(wire)
        BY <1>t, <3>2
      <4>1. wire'[i] = wire[k + i] /\ k + i \in 1 .. Len(wire)
        BY <1>2, <4>0, Arriving
      <4>2. wire[k + i] = 8 * Len(sent) - Len(wire) + (k + i)
        BY <3>1, <4>1
      <4> QED
        BY <1>t, <3>2, <4>1, <4>2
    <3> QED
      BY <1>t, <3>1, <3>2, <3>3, <3>4
  <2> QED
    BY <2>0, <2>1, <2>2 DEF LineInv
<1>3. ASSUME NEW gone \in 0 .. 1, Idle(gone) PROVE LineInv'
  <2>0. UNCHANGED <<sent, done>>
    BY <1>3, Ending
  <2>1. clean' => Len(wire') = 0 /\ Len(rx') = 0
    BY <1>3, Ending
  <2> QED
    BY <1>t, <2>0, <2>1 DEF LineInv
<1>4. CASE Ignore
  <2>1. UNCHANGED <<sent, wire, rx, done, clean>>
    BY <1>4 DEF Ignore, line
  <2> QED
    BY <2>1 DEF LineInv, Rest
<1>5. CASE AnswerRead \/ AnswerWrite
  <2>1. UNCHANGED <<sent, wire, rx, clean>>
    BY <1>5, Taking DEF line
  <2>2. \A i \in 1 .. Len(done') : \E k \in 1 .. Len(sent) : done'[i] = sent[k]
    <3> TAKE i \in 1 .. Len(done')
    <3>1. CASE i \in 1 .. Len(done)
      <4>1. done'[i] = done[i]
        BY <1>5, <3>1, Answering
      <4> QED
        BY <3>1, <4>1 DEF LineInv
    <3>2. CASE i = Len(done) + 1
      BY <1>5, <3>2, Answering
    <3> QED
      BY <1>5, <3>1, <3>2, Answering
  <2> QED
    BY <2>1, <2>2 DEF LineInv, Rest
<1>6. CASE CarryOut
  BY <1>6, Elsewhere DEF CarryOut, line
<1>7. ASSUME NEW p \in PanelSettings, PanelSets(p) PROVE LineInv'
  BY <1>7, Elsewhere DEF PanelSets, line
<1>8. CASE Restart
  <2>1. clean' = FALSE /\ UNCHANGED <<sent, done>>
    BY <1>8 DEF Restart
  <2> QED
    BY <2>1 DEF LineInv
<1>9. CASE UNCHANGED vars
  BY <1>9, Elsewhere DEF vars, line
<1> QED
  BY <1>1, <1>2, <1>3, <1>4, <1>5, <1>6, <1>7, <1>8, <1>9 DEF Next

LEMMA TurnStep == TypeInv /\ LineInv /\ TurnInv /\ [Next]_vars => TurnInv'
<1> SUFFICES ASSUME TypeInv, LineInv, TurnInv, [Next]_vars, clean' PROVE TurnInv'
  BY DEF TurnInv
<1>t. /\ Len(sent) \in Nat /\ Len(wire) \in Nat /\ Len(rx) \in Nat /\ Len(done) \in Nat
      /\ Len(rxq) \in Nat
  BY DEF TypeInv
<1>l. \A k, l \in 1 .. Len(sent) : sent[k] = sent[l] => k = l
  BY DEF LineInv
\* the parts of TurnInv
<1>a. ASSUME clean PROVE \A i \in 1 .. Len(rxq) : \E k \in 1 .. Len(sent) : rxq[i] = Frame(k) /\ 8 * k <= Rest
  BY <1>a DEF TurnInv
<1>b. ASSUME clean PROVE \A i, j \in 1 .. Len(rxq) : \A k, l \in 1 .. Len(sent) :
                            i < j /\ rxq[i] = Frame(k) /\ rxq[j] = Frame(l) => k < l
  BY <1>b DEF TurnInv
<1>c. ASSUME clean PROVE \A i \in 1 .. Len(done) : \A k \in 1 .. Len(sent) :
                            done[i] = sent[k] => 8 * k <= Rest
  BY <1>c DEF TurnInv
<1>d. ASSUME clean PROVE \A i \in 1 .. Len(done) : \A j \in 1 .. Len(rxq) : \A k, l \in 1 .. Len(sent) :
                            done[i] = sent[k] /\ rxq[j] = Frame(l) => k < l
  BY <1>d DEF TurnInv
<1>e. ASSUME clean PROVE \A i, j \in 1 .. Len(done) : \A k, l \in 1 .. Len(sent) :
                            i < j /\ done[i] = sent[k] /\ done[j] = sent[l] => k < l
  BY <1>e DEF TurnInv
<1>f. \A k, l \in 1 .. Len(sent) + 1 : Frame(k) = Frame(l) => k = l
  <2> TAKE k, l \in 1 .. Len(sent) + 1
  <2>1. k \in Nat \ {0} /\ l \in Nat \ {0}
    BY <1>t
  <2> QED
    BY <2>1, FrameBytes
<1>1. ASSUME NEW r \in Requests, Sends(r) PROVE TurnInv'
  <2>0. UNCHANGED <<rx, rxq, done, clean>> /\ clean
    BY <1>1 DEF Sends
  <2>s. /\ Len(sent') = Len(sent) + 1 /\ sent'[Len(sent) + 1] = r /\ Len(wire) = 0 /\ Len(wire') = 8
        /\ \A k \in 1 .. Len(sent) : sent'[k] = sent[k] /\ sent[k] # r
    BY <1>1, Sending
  <2>1. Rest' = Rest
    BY <1>t, <2>0, <2>s DEF Rest
  <2>2. \A i \in 1 .. Len(rxq) : \A k \in 1 .. Len(sent') :
           rxq[i] = Frame(k) => k \in 1 .. Len(sent)
    <3> SUFFICES ASSUME NEW i \in 1 .. Len(rxq), NEW k \in 1 .. Len(sent'), rxq[i] = Frame(k)
                 PROVE  k \in 1 .. Len(sent)
      OBVIOUS
    <3>1. PICK l \in 1 .. Len(sent) : rxq[i] = Frame(l)
      BY <1>a, <2>0
    <3>2. k \in 1 .. Len(sent) + 1 /\ l \in 1 .. Len(sent) + 1
      BY <1>t, <2>s
    <3> QED
      BY <1>f, <3>1, <3>2
  <2>3. \A i \in 1 .. Len(done) : \A k \in 1 .. Len(sent') :
           done[i] = sent'[k] => k \in 1 .. Len(sent) /\ done[i] = sent[k]
    <3> TAKE i \in 1 .. Len(done)
    <3> TAKE k \in 1 .. Len(sent')
    <3>1. PICK l \in 1 .. Len(sent) : done[i] = sent[l]
      BY DEF LineInv
    <3>2. CASE k = Len(sent) + 1
      BY <2>s, <3>1, <3>2
    <3>3. CASE k # Len(sent) + 1
      <4>1. k \in 1 .. Len(sent)
        BY <1>t, <2>s, <3>3
      <4> QED
        BY <2>s, <4>1
    <3> QED
      BY <3>2, <3>3
  <2>4. \A i \in 1 .. Len(rxq) : \E k \in 1 .. Len(sent') : rxq[i] = Frame(k) /\ 8 * k <= Rest
    <3> TAKE i \in 1 .. Len(rxq)
    <3>1. PICK k \in 1 .. Len(sent) : rxq[i] = Frame(k) /\ 8 * k <= Rest
      BY <1>a, <2>0
    <3>2. k \in 1 .. Len(sent')
      BY <1>t, <2>s
    <3> QED
      BY <3>1, <3>2
  <2> QED
    BY <1>b, <1>c, <1>d, <1>e, <2>0, <2>1, <2>2, <2>3, <2>4 DEF TurnInv
<1>2. ASSUME NEW k \in 1 .. 8, Arrive(k) PROVE TurnInv'
  <2>0. UNCHANGED <<sent, rxq, done, clean>>
    BY <1>2, Arriving
  <2>s. k <= Len(wire) /\ Len(wire') = Len(wire) - k /\ Len(rx') = Len(rx) + k
    BY <1>2, Arriving
  <2>1. Rest' = Rest
    BY <1>t, <2>0, <2>s DEF Rest
  <2> QED
    BY <2>0, <2>1 DEF TurnInv
<1>3. ASSUME NEW gone \in 0 .. 1, Idle(gone) PROVE TurnInv'
  <2> DEFINE n == Len(sent)
  <2>0. /\ clean /\ Len(wire) = 0 /\ Len(wire') = 0 /\ Len(rx) = 8 /\ Len(rx') = 0
        /\ rxq' = Append(rxq, msg_uart1') /\ UNCHANGED <<sent, done>>
    BY <1>3, Ending
  <2>r. /\ Len(wire) + Len(rx) <= 8 * Len(sent) /\ \A i \in 1 .. Len(rx) : rx[i] = Rest + i
    BY <2>0 DEF LineInv
  <2>1. n \in 1 .. n /\ n \in Nat \ {0} /\ Rest' = 8 * n /\ Rest = 8 * n - 8
    BY <1>t, <2>0, <2>r DEF Rest
  <2>2. msg_uart1' = Frame(n)
    <3>1. \A i \in 1 .. 8 : msg_uart1'[i] = 8 * (n - 1) + i
      <4>1. \A i \in 1 .. 8 : msg_uart1'[i] = rx[i]
        BY <1>3, Ending
      <4> TAKE i \in 1 .. 8
      <4>2. rx[i] = Rest + i
        BY <2>0, <2>r
      <4>3. Rest = 8 * (n - 1)
        BY <2>1
      <4> QED
        BY <4>1, <4>2, <4>3
    <3>2. msg_uart1' \in Message
      BY <1>3, Ending
    <3>3. Frame(n) \in Message /\ \A i \in 1 .. 8 : Frame(n)[i] = 8 * (n - 1) + i
      BY <2>1, FrameBytes
    <3> DEFINE x == msg_uart1'
               y == Frame(n)
    <3>4. x \in Message /\ y \in Message /\ \A i \in 1 .. 8 : x[i] = y[i]
      BY <3>1, <3>2, <3>3
    <3> HIDE DEF x, y
    <3>5. x = y
      BY <3>4 DEF Message
    <3> QED
      BY <3>5 DEF x, y
  <2>3. /\ Len(rxq') = Len(rxq) + 1 /\ rxq'[Len(rxq) + 1] = Frame(n)
        /\ \A i \in 1 .. Len(rxq) : rxq'[i] = rxq[i]
    BY <1>3, <2>0, <2>2, Ending DEF TypeInv
  <2>a. \A i \in 1 .. Len(rxq) : \E k \in 1 .. n : rxq[i] = Frame(k) /\ 8 * k <= Rest
    BY <1>a, <2>0
  <2>f. \A k, l \in 1 .. n : Frame(k) = Frame(l) => k = l
    BY <1>t, <1>f
  <2> HIDE DEF n
  <2>4. \A i \in 1 .. Len(rxq) : \A k \in 1 .. n : rxq'[i] = Frame(k) => k < n
    <3> SUFFICES ASSUME NEW i \in 1 .. Len(rxq), NEW k \in 1 .. n, rxq'[i] = Frame(k) PROVE k < n
      OBVIOUS
    <3>1. PICK l \in 1 .. n : rxq[i] = Frame(l) /\ 8 * l <= Rest
      BY <2>a
    <3>2. k = l
      BY <2>3, <2>f, <3>1
    <3> QED
      BY <2>1, <3>1, <3>2
  <2>5. \A i \in 1 .. Len(done) : \A k \in 1 .. n : done[i] = sent[k] => k < n
    BY <1>t, <1>c, <2>0, <2>1 DEF n
  <2>6. \A i \in 1 .. Len(rxq') : \E k \in 1 .. n : rxq'[i] = Frame(k) /\ 8 * k <= 8 * n
    <3> TAKE i \in 1 .. Len(rxq')
    <3>1. CASE i = Len(rxq) + 1
      BY <2>1, <2>3, <3>1
    <3>2. CASE i # Len(rxq) + 1
      <4>0. i \in 1 .. Len(rxq)
        BY <1>t, <2>3, <3>2
      <4>1. PICK k \in 1 .. n : rxq[i] = Frame(k)
        BY <2>a, <4>0
      <4>2. rxq'[i] = Frame(k) /\ 8 * k <= 8 * n
        BY <2>1, <2>3, <4>0, <4>1
      <4> QED
        BY <4>2
    <3> QED
      BY <3>1, <3>2
  <2>7. \A i, j \in 1 .. Len(rxq') : \A k, l \in 1 .. n :
           i < j /\ rxq'[i] = Frame(k) /\ rxq'[j] = Frame(l) => k < l
    <3> SUFFICES ASSUME NEW i \in 1 .. Len(rxq'), NEW j \in 1 .. Len(rxq'), NEW k \in 1 .. n,
                        NEW l \in 1 .. n, i < j, rxq'[i] = Frame(k), rxq'[j] = Frame(l)
                 PROVE  k < l
      OBVIOUS
    <3>1. CASE j = Len(rxq) + 1
      <4>1. l = n
        BY <2>f, <2>1, <2>3, <3>1
      <4> QED
        BY <1>t, <2>3, <2>4, <3>1, <4>1
    <3>2. CASE j # Len(rxq) + 1
      BY <1>t, <1>b, <2>0, <2>3, <3>2 DEF n
    <3> QED
      BY <3>1, <3>2
  <2>8. \A i \in 1 .. Len(done) : \A j \in 1 .. Len(rxq') : \A k, l \in 1 .. n :
           done[i] = sent[k] /\ rxq'[j] = Frame(l) => k < l
    <3> SUFFICES ASSUME NEW i \in 1 .. Len(done), NEW j \in 1 .. Len(rxq'), NEW k \in 1 .. n,
                        NEW l \in 1 .. n, done[i] = sent[k], rxq'[j] = Frame(l)
                 PROVE  k < l
      OBVIOUS
    <3>1. CASE j = Len(rxq) + 1
      <4>1. l = n
        BY <2>f, <2>1, <2>3, <3>1
      <4> QED
        BY <2>5, <4>1
    <3>2. CASE j # Len(rxq) + 1
      BY <1>t, <1>d, <2>0, <2>3, <3>2 DEF n
    <3> QED
      BY <3>1, <3>2
  <2>9. /\ \A i \in 1 .. Len(done) : \A k \in 1 .. Len(sent) : done[i] = sent[k] => 8 * k <= 8 * n
        /\ Rest' = 8 * n /\ Len(sent) = n
    BY <1>t, <1>c, <2>0, <2>1 DEF n
  <2>10. /\ \A i \in 1 .. Len(rxq') : \E k \in 1 .. Len(sent') : rxq'[i] = Frame(k) /\ 8 * k <= Rest'
         /\ \A i, j \in 1 .. Len(rxq') : \A k, l \in 1 .. Len(sent') :
              i < j /\ rxq'[i] = Frame(k) /\ rxq'[j] = Frame(l) => k < l
    BY <2>0, <2>9, <2>6, <2>7
  <2>11. /\ \A i \in 1 .. Len(done') : \A k \in 1 .. Len(sent') : done'[i] = sent'[k] => 8 * k <= Rest'
         /\ \A i \in 1 .. Len(done') : \A j \in 1 .. Len(rxq') : \A k, l \in 1 .. Len(sent') :
              done'[i] = sent'[k] /\ rxq'[j] = Frame(l) => k < l
    BY <2>0, <2>9, <2>8
  <2>12. \A i, j \in 1 .. Len(done') : \A k, l \in 1 .. Len(sent') :
              i < j /\ done'[i] = sent'[k] /\ done'[j] = sent'[l] => k < l
    BY <1>e, <2>0
  <2> QED
    BY <2>10, <2>11, <2>12 DEF TurnInv
<1>4. CASE Ignore
  <2>1. UNCHANGED <<sent, wire, rx, done, clean>> /\ clean
    BY <1>4 DEF Ignore, line
  <2>2. /\ Len(rxq') = Len(rxq) - 1 /\ \A i \in 1 .. Len(rxq) - 1 : rxq'[i] = rxq[i + 1]
    BY <1>4, Taking
  <2>3. Rest' = Rest
    BY <2>1 DEF Rest
  <2>4. \A i \in 1 .. Len(rxq') : i \in 1 .. Len(rxq) /\ i + 1 \in 1 .. Len(rxq)
    BY <1>t, <2>2
  <2>5. \A i \in 1 .. Len(rxq') : \E k \in 1 .. Len(sent) : rxq'[i] = Frame(k) /\ 8 * k <= Rest
    BY <1>a, <2>1, <2>2, <2>4
  <2>6. \A i, j \in 1 .. Len(rxq') : \A k, l \in 1 .. Len(sent) :
           i < j /\ rxq'[i] = Frame(k) /\ rxq'[j] = Frame(l) => k < l
    <3> SUFFICES ASSUME NEW i \in 1 .. Len(rxq'), NEW j \in 1 .. Len(rxq'), NEW k \in 1 .. Len(sent),
                        NEW l \in 1 .. Len(sent), i < j, rxq'[i] = Frame(k), rxq'[j] = Frame(l)
                 PROVE  k < l
      OBVIOUS
    <3>1. i + 1 \in 1 .. Len(rxq) /\ j + 1 \in 1 .. Len(rxq) /\ i + 1 < j + 1
      BY <2>4
    <3>2. rxq[i + 1] = Frame(k) /\ rxq[j + 1] = Frame(l)
      BY <1>t, <2>2
    <3> QED
      BY <1>b, <2>1, <3>1, <3>2
  <2>7. \A i \in 1 .. Len(done) : \A j \in 1 .. Len(rxq') : \A k, l \in 1 .. Len(sent) :
           done[i] = sent[k] /\ rxq'[j] = Frame(l) => k < l
    BY <1>d, <2>1, <2>2, <2>4
  <2> QED
    BY <1>c, <1>e, <2>1, <2>3, <2>5, <2>6, <2>7 DEF TurnInv
<1>5. CASE AnswerRead \/ AnswerWrite
  <2>1. UNCHANGED <<sent, wire, rx, clean>> /\ clean
    BY <1>5, Taking DEF line
  <2>2. /\ Len(rxq') = Len(rxq) - 1 /\ \A i \in 1 .. Len(rxq) - 1 : rxq'[i] = rxq[i + 1]
        /\ Head(rxq) = rxq[1] /\ rxq # <<>>
    BY <1>5, Taking
  <2>n. 1 \in 1 .. Len(rxq) /\ \A i \in 1 .. Len(rxq') : i \in 1 .. Len(rxq) /\ i + 1 \in 1 .. Len(rxq)
    <3>1. Len(rxq) # 0
      BY <2>2, EmptySeq DEF TypeInv
    <3> QED
      BY <1>t, <2>2, <3>1
  <2>3. Rest' = Rest
    BY <2>1 DEF Rest
  <2>4. PICK m \in 1 .. Len(sent) : rxq[1] = Frame(m) /\ 8 * m <= Rest
    BY <1>a, <2>1, <2>n
  <2>5. /\ Len(done') = Len(done) + 1 /\ \A i \in 1 .. Len(done) : done'[i] = done[i]
        /\ done'[Len(done) + 1] = sent[m]
    BY <1>5, <2>2, <2>4, Answering, WholeRequest
  <2>6. \A j \in 1 .. Len(rxq') : \A l \in 1 .. Len(sent) : rxq'[j] = Frame(l) => m < l
    BY <1>t, <1>b, <2>1, <2>2, <2>n, <2>4
  <2>7. \A i \in 1 .. Len(done) : \A k \in 1 .. Len(sent) : done[i] = sent[k] => k < m
    BY <1>d, <2>1, <2>2, <2>4
  <2>8. \A i \in 1 .. Len(rxq') : \E k \in 1 .. Len(sent) : rxq'[i] = Frame(k) /\ 8 * k <= Rest
    BY <1>a, <2>1, <2>2, <2>n
  <2>9. \A i, j \in 1 .. Len(rxq') : \A k, l \in 1 .. Len(sent) :
           i < j /\ rxq'[i] = Frame(k) /\ rxq'[j] = Frame(l) => k < l
    <3> SUFFICES ASSUME NEW i \in 1 .. Len(rxq'), NEW j \in 1 .. Len(rxq'), NEW k \in 1 .. Len(sent),
                        NEW l \in 1 .. Len(sent), i < j, rxq'[i] = Frame(k), rxq'[j] = Frame(l)
                 PROVE  k < l
      OBVIOUS
    <3>1. i + 1 \in 1 .. Len(rxq) /\ j + 1 \in 1 .. Len(rxq) /\ i + 1 < j + 1
      BY <2>n
    <3>2. rxq[i + 1] = Frame(k) /\ rxq[j + 1] = Frame(l)
      BY <1>t, <2>2
    <3> QED
      BY <1>b, <2>1, <3>1, <3>2
  <2>10. \A i \in 1 .. Len(done') : \A k \in 1 .. Len(sent) : done'[i] = sent[k] => 8 * k <= Rest
    <3> SUFFICES ASSUME NEW i \in 1 .. Len(done'), NEW k \in 1 .. Len(sent), done'[i] = sent[k]
                 PROVE  8 * k <= Rest
      OBVIOUS
    <3>1. CASE i = Len(done) + 1
      <4>1. k = m
        BY <1>l, <2>5, <3>1
      <4> QED
        BY <2>4, <4>1
    <3>2. CASE i # Len(done) + 1
      <4>1. i \in 1 .. Len(done)
        BY <1>t, <2>5, <3>2
      <4> QED
        BY <1>c, <2>1, <2>5, <4>1
    <3> QED
      BY <3>1, <3>2
  <2>11. \A i \in 1 .. Len(done') : \A j \in 1 .. Len(rxq') : \A k, l \in 1 .. Len(sent) :
            done'[i] = sent[k] /\ rxq'[j] = Frame(l) => k < l
    <3> SUFFICES ASSUME NEW i \in 1 .. Len(done'), NEW j \in 1 .. Len(rxq'), NEW k \in 1 .. Len(sent),
                        NEW l \in 1 .. Len(sent), done'[i] = sent[k], rxq'[j] = Frame(l)
                 PROVE  k < l
      OBVIOUS
    <3>1. m < l
      BY <2>6
    <3>2. k <= m
      BY <1>t, <1>l, <2>5, <2>7
    <3> QED
      BY <3>1, <3>2
  <2>12. \A i, j \in 1 .. Len(done') : \A k, l \in 1 .. Len(sent) :
            i < j /\ done'[i] = sent[k] /\ done'[j] = sent[l] => k < l
    <3> SUFFICES ASSUME NEW i \in 1 .. Len(done'), NEW j \in 1 .. Len(done'), NEW k \in 1 .. Len(sent),
                        NEW l \in 1 .. Len(sent), i < j, done'[i] = sent[k], done'[j] = sent[l]
                 PROVE  k < l
      OBVIOUS
    <3>1. CASE j = Len(done) + 1
      <4>1. l = m
        BY <1>l, <2>5, <3>1
      <4> QED
        BY <1>t, <2>5, <2>7, <3>1, <4>1
    <3>2. CASE j # Len(done) + 1
      BY <1>t, <1>e, <2>1, <2>5, <3>2
    <3> QED
      BY <3>1, <3>2
  <2> QED
    BY <2>1, <2>3, <2>8, <2>9, <2>10, <2>11, <2>12 DEF TurnInv
<1>6. CASE CarryOut
  BY <1>6, Elsewhere DEF CarryOut, line
<1>7. ASSUME NEW p \in PanelSettings, PanelSets(p) PROVE TurnInv'
  BY <1>7, Elsewhere DEF PanelSets, line
<1>8. CASE Restart
  BY <1>8 DEF Restart
<1>9. CASE UNCHANGED vars
  BY <1>9, Elsewhere DEF vars, line
<1> QED
  BY <1>1, <1>2, <1>3, <1>4, <1>5, <1>6, <1>7, <1>8, <1>9 DEF Next

-----------------------------------------------------------------------------
(* The registers *)

\* each register of a setting shows and changes one; they differ for register 18 only
LEMMA Registers ==
    /\ DOMAIN ReadFrom \subseteq Register /\ DOMAIN WriteTo = DOMAIN ReadFrom
    /\ \A r \in DOMAIN ReadFrom : ReadFrom[r] \in Names /\ WriteTo[r] \in Names
    /\ \A r \in DOMAIN ReadFrom : r # 18 => WriteTo[r] = ReadFrom[r]
<1>1. DOMAIN ReadFrom = {1, 2, 3, 4, 9, 10, 11, 12, 13, 14, 18, 19}
  BY DEF ReadFrom
<1>2. \A r \in DOMAIN ReadFrom : ReadFrom[r] \in Names
  BY DEF Names, Range
<1>3. ReadFrom[11] = "power2" /\ 11 \in DOMAIN ReadFrom
  BY DEF ReadFrom
<1>4. DOMAIN WriteTo = DOMAIN ReadFrom
  BY DEF WriteTo
<1>5. \A r \in DOMAIN ReadFrom : WriteTo[r] = IF r = 18 THEN "power2" ELSE ReadFrom[r]
  <2>1. ReadFrom = [r \in DOMAIN ReadFrom |-> ReadFrom[r]]
    BY DEF ReadFrom
  <2> QED
    BY <2>1 DEF WriteTo
<1>6. DOMAIN ReadFrom \subseteq Register
  BY <1>1 DEF Register
<1> QED
  BY <1>2, <1>3, <1>4, <1>5, <1>6

LEMMA RegisterStep == TypeInv /\ RegisterInv /\ [Next]_vars => RegisterInv'
<1> SUFFICES ASSUME TypeInv, RegisterInv, [Next]_vars PROVE RegisterInv'
  OBVIOUS
<1>r. /\ setting \in [Names -> Nat] /\ buf \in [Register -> Byte]
      /\ wrote \in [Register -> 0 .. Unknown] /\ pending \in Seq(Requests) /\ stored = setting
      /\ pending # <<>> => buf[pending[1].reg] = (pending[1].hi * 256 + pending[1].lo) % 256
  BY DEF RegisterInv
<1>b. \A v \in Nat : v % 256 \in Byte /\ v % 256 \in 0 .. Unknown
  BY DEF Byte, Unknown
<1>q. \A q \in Requests : q.reg \in Register /\ q.hi * 256 + q.lo \in Nat
  <2> TAKE q \in Requests
  <2>1. q \in [to : Byte, fn : {3, 6}, reg : Register, hi : Byte, lo : Byte]
    BY RequestsAssumption
  <2>2. q.reg \in Register /\ q.hi \in Nat /\ q.lo \in Nat
    BY <2>1 DEF Byte
  <2> QED
    BY <2>2
<1>1. ASSUME NEW r \in Requests, Sends(r) PROVE RegisterInv'
  BY <1>1 DEF Sends, RegisterInv
<1>2. ASSUME NEW k \in 1 .. 8, Arrive(k) PROVE RegisterInv'
  BY <1>2 DEF Arrive, RegisterInv
<1>3. ASSUME NEW gone \in 0 .. 1, Idle(gone) PROVE RegisterInv'
  BY <1>3 DEF Idle, RegisterInv
<1>4. CASE Ignore
  BY <1>4 DEF Ignore, RegisterInv
<1>5. CASE AnswerRead
  <2>1. UNCHANGED <<setting, wrote, pending, stored>> /\ pending = <<>> /\ buf' = Refreshed
    BY <1>5 DEF AnswerRead
  <2>2. Refreshed \in [Register -> Byte]
    BY <1>r, <1>b, Registers DEF Refreshed
  <2> QED
    BY <1>r, <2>1, <2>2 DEF RegisterInv
<1>6. CASE AnswerWrite
  <2> DEFINE q == Request(Head(rxq))
  <2>1. /\ UNCHANGED <<setting, wrote, stored>> /\ pending' = <<q>>
        /\ buf' = [buf EXCEPT ![q.reg] = (q.hi * 256 + q.lo) % 256]
    BY <1>6 DEF AnswerWrite
  <2>2. q \in Requests
    BY <1>6, Answering
  <2> HIDE DEF q
  <2>3. buf' \in [Register -> Byte] /\ buf'[q.reg] = (q.hi * 256 + q.lo) % 256
    BY <1>r, <1>b, <1>q, <2>1, <2>2
  <2>4. pending' \in Seq(Requests) /\ pending'[1] = q
    BY <2>1, <2>2
  <2> QED
    BY <1>r, <2>1, <2>3, <2>4 DEF RegisterInv
<1>7. CASE CarryOut
  <2> DEFINE q == pending[1]
  <2>1. /\ pending # <<>> /\ pending' = <<>> /\ UNCHANGED buf
        /\ setting' = IF q.reg \in DOMAIN WriteTo THEN [setting EXCEPT ![WriteTo[q.reg]] = buf[q.reg]] ELSE setting
        /\ stored' = Saved(q.reg, setting')
        /\ wrote' = [r \in Register |-> IF r \in Shows(q.reg) THEN (q.hi * 256 + q.lo) % 256 ELSE wrote[r]]
    BY <1>7 DEF CarryOut
  <2>2. q \in Requests
    BY <1>r, <2>1
  <2> HIDE DEF q
  <2>3. buf[q.reg] \in Nat
    <3>1. buf[q.reg] \in Byte
      BY <1>r, <1>q, <2>2
    <3> QED
      BY <3>1 DEF Byte
  <2>4. setting' \in [Names -> Nat]
    BY <1>r, <2>1, <2>3, Registers
  <2>5. stored' = setting'
    BY <1>r, <2>1 DEF Saved
  <2>6. wrote' \in [Register -> 0 .. Unknown]
    BY <1>r, <1>b, <1>q, <2>1, <2>2
  <2>7. pending' \in Seq(Requests)
    BY <2>1
  <2> QED
    BY <1>r, <2>1, <2>4, <2>5, <2>6, <2>7 DEF RegisterInv
<1>8. ASSUME NEW p \in PanelSettings, PanelSets(p) PROVE RegisterInv'
  <2>0. p.name \in Names /\ p.val \in Nat
    BY PanelAssumption
  <2>1. /\ UNCHANGED <<buf, pending>> /\ setting' = [setting EXCEPT ![p.name] = p.val] /\ stored' = setting'
        /\ wrote' = [r \in Register |-> IF r \in DOMAIN ReadFrom /\ ReadFrom[r] = p.name THEN p.val % 256 ELSE wrote[r]]
    BY <1>8 DEF PanelSets
  <2>2. setting' \in [Names -> Nat]
    BY <1>r, <2>0, <2>1
  <2>3. wrote' \in [Register -> 0 .. Unknown]
    BY <1>r, <1>b, <2>0, <2>1
  <2> QED
    BY <1>r, <2>1, <2>2, <2>3 DEF RegisterInv
<1>9. CASE Restart
  <2>1. /\ UNCHANGED stored /\ setting' = stored /\ buf' = [r \in Register |-> 0] /\ pending' = <<>>
        /\ wrote' = [r \in Register |-> IF r \in DOMAIN ReadFrom THEN wrote[r] ELSE Unknown]
    BY <1>9 DEF Restart
  <2>2. buf' \in [Register -> Byte] /\ wrote' \in [Register -> 0 .. Unknown]
    BY <1>r, <2>1 DEF Byte, Unknown
  <2>3. pending' \in Seq(Requests)
    BY <2>1
  <2> QED
    BY <1>r, <2>1, <2>2, <2>3 DEF RegisterInv
<1>10. CASE UNCHANGED vars
  BY <1>10 DEF vars, RegisterInv
<1> QED
  BY <1>1, <1>2, <1>3, <1>4, <1>5, <1>6, <1>7, <1>8, <1>9, <1>10 DEF Next

LEMMA BackStep == TypeInv /\ RegisterInv /\ BackInv /\ [Next]_vars => BackInv'
<1> SUFFICES ASSUME TypeInv, RegisterInv, BackInv, [Next]_vars, wrote'[18] = Unknown PROVE BackInv'
  BY DEF BackInv
<1>r. /\ setting \in [Names -> Nat] /\ buf \in [Register -> Byte]
      /\ wrote \in [Register -> 0 .. Unknown] /\ pending \in Seq(Requests) /\ stored = setting
      /\ pending # <<>> => buf[pending[1].reg] = (pending[1].hi * 256 + pending[1].lo) % 256
  BY DEF RegisterInv
<1>m. \A v \in Nat : v % 256 # Unknown /\ (v % 256) % 256 = v % 256
  BY DEF Unknown
<1>q. \A q \in Requests : q.reg \in Register /\ q.hi * 256 + q.lo \in Nat
  <2> TAKE q \in Requests
  <2>1. q \in [to : Byte, fn : {3, 6}, reg : Register, hi : Byte, lo : Byte]
    BY RequestsAssumption
  <2>2. q.reg \in Register /\ q.hi \in Nat /\ q.lo \in Nat
    BY <2>1 DEF Byte
  <2> QED
    BY <2>2
<1>18. 18 \in Register /\ 18 \in DOMAIN ReadFrom
  BY DEF Register, ReadFrom
\* the two parts of BackInv
<1>a. ASSUME wrote[18] = Unknown, NEW r \in Register, wrote[r] # Unknown
      PROVE  IF r \in DOMAIN ReadFrom THEN setting[ReadFrom[r]] % 256 = wrote[r]
             ELSE buf[r] = wrote[r] \/ (pending # <<>> /\ pending[1].reg = r)
  BY <1>a DEF BackInv
<1>b. ASSUME wrote[18] = Unknown, NEW r \in DOMAIN reply
      PROVE  r \in Register /\ (wrote[r] # Unknown => reply[r] = wrote[r])
  BY <1>b DEF BackInv
<1>n. DOMAIN NoReply = {}
  BY DEF NoReply
<1>u. ASSUME UNCHANGED <<setting, buf, wrote, pending, reply>> PROVE BackInv'
  BY <1>u DEF BackInv
<1>1. ASSUME NEW r \in Requests, Sends(r) PROVE BackInv'
  BY <1>1, <1>u DEF Sends
<1>2. ASSUME NEW k \in 1 .. 8, Arrive(k) PROVE BackInv'
  BY <1>2, <1>u DEF Arrive
<1>3. ASSUME NEW gone \in 0 .. 1, Idle(gone) PROVE BackInv'
  BY <1>3, <1>u DEF Idle
<1>4. CASE Ignore
  BY <1>4, <1>u DEF Ignore
<1>5. CASE AnswerRead
  <2> DEFINE q == Request(Head(rxq))
  <2>1. /\ UNCHANGED <<setting, wrote, pending, stored>> /\ pending = <<>> /\ buf' = Refreshed
        /\ q.fn = 3 /\ reply' = [r \in q.reg .. q.reg + q.lo - 1 |-> Refreshed[r]]
    BY <1>5 DEF AnswerRead
  <2>2. q \in Requests
    BY <1>5, Answering
  <2> HIDE DEF q
  <2>3. \A r \in Register : wrote[r] # Unknown => Refreshed[r] = wrote[r]
    <3> SUFFICES ASSUME NEW r \in Register, wrote[r] # Unknown PROVE Refreshed[r] = wrote[r]
      OBVIOUS
    <3>1. Refreshed[r] = IF r \in DOMAIN ReadFrom THEN setting[ReadFrom[r]] % 256 ELSE buf[r]
      BY DEF Refreshed
    <3> QED
      BY <1>a, <2>1, <3>1
  <2>4. DOMAIN reply' \subseteq Register
    <3>1. q \in [to : Byte, fn : {3, 6}, reg : Register, hi : Byte, lo : Byte] /\ q.reg + q.lo <= 30
      BY <2>1, <2>2, RequestsAssumption
    <3>2. q.reg \in 0 .. 29 /\ q.lo \in 0 .. 255
      BY <3>1 DEF Byte, Register
    <3>3. DOMAIN reply' = q.reg .. q.reg + q.lo - 1
      BY <2>1
    <3>4. \A r \in q.reg .. q.reg + q.lo - 1 : r \in 0 .. 29
      BY <3>1, <3>2
    <3> QED
      BY <3>3, <3>4 DEF Register
  <2>5. \A r \in DOMAIN reply' : reply'[r] = Refreshed[r]
    BY <2>1
  <2>6. \A r \in Register : wrote'[r] # Unknown =>
           IF r \in DOMAIN ReadFrom THEN setting'[ReadFrom[r]] % 256 = wrote'[r] ELSE buf'[r] = wrote'[r]
    BY <1>a, <2>1, <2>3
  <2>7. \A r \in DOMAIN reply' : r \in Register /\ (wrote'[r] # Unknown => reply'[r] = wrote'[r])
    BY <2>1, <2>3, <2>4, <2>5
  <2> QED
    BY <2>6, <2>7 DEF BackInv
<1>6. CASE AnswerWrite
  <2> DEFINE q == Request(Head(rxq))
  <2>1. /\ UNCHANGED <<setting, wrote, stored, reply>> /\ pending = <<>> /\ pending' = <<q>>
        /\ buf' = [buf EXCEPT ![q.reg] = (q.hi * 256 + q.lo) % 256]
    BY <1>6 DEF AnswerWrite
  <2> HIDE DEF q
  <2>2. pending' # <<>> /\ pending'[1] = q
    BY <2>1
  <2>3. \A r \in Register : wrote'[r] # Unknown =>
           IF r \in DOMAIN ReadFrom THEN setting'[ReadFrom[r]] % 256 = wrote'[r]
           ELSE buf'[r] = wrote'[r] \/ (pending' # <<>> /\ pending'[1].reg = r)
    <3> SUFFICES ASSUME NEW r \in Register, wrote[r] # Unknown
                 PROVE  IF r \in DOMAIN ReadFrom THEN setting[ReadFrom[r]] % 256 = wrote[r]
                        ELSE buf'[r] = wrote[r] \/ q.reg = r
      BY <2>1, <2>2
    <3>1. q.reg # r => buf'[r] = buf[r]
      BY <1>r, <2>1
    <3> QED
      BY <1>a, <2>1, <3>1
  <2>4. \A r \in DOMAIN reply' : r \in Register /\ (wrote'[r] # Unknown => reply'[r] = wrote'[r])
    BY <1>b, <2>1
  <2> QED
    BY <2>3, <2>4 DEF BackInv
<1>7. CASE CarryOut
  <2> DEFINE q == pending[1]
             v == (q.hi * 256 + q.lo) % 256
  <2>1. /\ pending # <<>> /\ pending' = <<>> /\ UNCHANGED buf /\ reply' = NoReply
        /\ setting' = IF q.reg \in DOMAIN WriteTo THEN [setting EXCEPT ![WriteTo[q.reg]] = buf[q.reg]] ELSE setting
        /\ wrote' = [r \in Register |-> IF r \in Shows(q.reg) THEN v ELSE wrote[r]]
    BY <1>7 DEF CarryOut
  <2>2. q \in Requests /\ buf[q.reg] = v
    BY <1>r, <2>1
  <2>3. v # Unknown /\ v % 256 = v
    BY <1>m, <1>q, <2>2
  <2> HIDE DEF q, v
  <2>4. 18 \notin Shows(q.reg) /\ wrote[18] = Unknown
    BY <1>18, <2>1, <2>3
  <2>5. q.reg # 18
    BY <2>4 DEF Shows
  <2>6. q.reg \in DOMAIN ReadFrom => setting' = [setting EXCEPT ![ReadFrom[q.reg]] = v]
    BY <2>1, <2>2, <2>5, Registers
  <2>7. q.reg \notin DOMAIN ReadFrom => setting' = setting
    BY <2>1, Registers
  <2>8. \A r \in Register : wrote'[r] # Unknown =>
           IF r \in DOMAIN ReadFrom THEN setting'[ReadFrom[r]] % 256 = wrote'[r] ELSE buf'[r] = wrote'[r]
    <3> SUFFICES ASSUME NEW r \in Register, wrote'[r] # Unknown
                 PROVE  IF r \in DOMAIN ReadFrom THEN setting'[ReadFrom[r]] % 256 = wrote'[r]
                        ELSE buf[r] = wrote'[r]
      BY <2>1
    <3>1. wrote'[r] = IF r \in Shows(q.reg) THEN v ELSE wrote[r]
      BY <2>1
    <3>2. CASE r \in DOMAIN ReadFrom /\ r \in Shows(q.reg)
      <4>1. q.reg \in DOMAIN ReadFrom /\ ReadFrom[r] = ReadFrom[q.reg]
        BY <3>2 DEF Shows
      <4>2. ReadFrom[r] \in Names
        BY <3>2, Registers
      <4>3. setting'[ReadFrom[r]] = v
        BY <1>r, <2>6, <4>1, <4>2
      <4> QED
        BY <2>3, <3>1, <3>2, <4>3
    <3>3. CASE r \in DOMAIN ReadFrom /\ r \notin Shows(q.reg)
      <4>1. setting'[ReadFrom[r]] = setting[ReadFrom[r]]
        <5>1. ReadFrom[r] \in Names
          BY <3>3, Registers
        <5>2. q.reg \in DOMAIN ReadFrom => ReadFrom[r] # ReadFrom[q.reg]
          BY <3>3 DEF Shows
        <5> QED
          BY <1>r, <2>6, <2>7, <5>1, <5>2
      <4>2. setting[ReadFrom[r]] % 256 = wrote[r]
        BY <1>a, <2>4, <3>1, <3>3
      <4> QED
        BY <3>1, <3>3, <4>1, <4>2
    <3>4. CASE r \notin DOMAIN ReadFrom /\ r \in Shows(q.reg)
      <4>1. r = q.reg
        BY <3>4 DEF Shows
      <4> QED
        BY <2>2, <3>1, <3>4, <4>1
    <3>5. CASE r \notin DOMAIN ReadFrom /\ r \notin Shows(q.reg)
      <4>1. r # q.reg
        BY <3>5 DEF Shows
      <4> QED
        BY <1>a, <2>4, <3>1, <3>5, <4>1 DEF q
    <3> QED
      BY <3>2, <3>3, <3>4, <3>5
  <2> QED
    BY <1>n, <2>1, <2>8 DEF BackInv
<1>8. ASSUME NEW p \in PanelSettings, PanelSets(p) PROVE BackInv'
  <2>0. p.name \in Names /\ p.val \in Nat
    BY PanelAssumption
  <2>1. /\ UNCHANGED <<buf, pending>> /\ setting' = [setting EXCEPT ![p.name] = p.val] /\ reply' = NoReply
        /\ wrote' = [r \in Register |-> IF r \in DOMAIN ReadFrom /\ ReadFrom[r] = p.name THEN p.val % 256 ELSE wrote[r]]
    BY <1>8 DEF PanelSets
  <2>2. wrote[18] = Unknown
    BY <1>18, <1>m, <2>0, <2>1
  <2>3. \A r \in Register : wrote'[r] # Unknown =>
           IF r \in DOMAIN ReadFrom THEN setting'[ReadFrom[r]] % 256 = wrote'[r]
           ELSE buf'[r] = wrote'[r] \/ (pending' # <<>> /\ pending'[1].reg = r)
    <3> SUFFICES ASSUME NEW r \in Register, wrote'[r] # Unknown
                 PROVE  IF r \in DOMAIN ReadFrom THEN setting'[ReadFrom[r]] % 256 = wrote'[r]
                        ELSE buf[r] = wrote'[r] \/ (pending # <<>> /\ pending[1].reg = r)
      BY <2>1
    <3>1. wrote'[r] = IF r \in DOMAIN ReadFrom /\ ReadFrom[r] = p.name THEN p.val % 256 ELSE wrote[r]
      BY <2>1
    <3>2. CASE r \in DOMAIN ReadFrom
      <4>1. ReadFrom[r] \in Names
        BY <3>2, Registers
      <4>2. setting'[ReadFrom[r]] = IF ReadFrom[r] = p.name THEN p.val ELSE setting[ReadFrom[r]]
        BY <1>r, <2>0, <2>1, <4>1
      <4> QED
        BY <1>a, <2>2, <3>1, <3>2, <4>2
    <3>3. CASE r \notin DOMAIN ReadFrom
      BY <1>a, <2>2, <3>1, <3>3
    <3> QED
      BY <3>2, <3>3
  <2> QED
    BY <1>n, <2>1, <2>3 DEF BackInv
<1>9. CASE Restart
  <2>1. /\ UNCHANGED stored /\ setting' = stored /\ reply' = NoReply
        /\ wrote' = [r \in Register |-> IF r \in DOMAIN ReadFrom THEN wrote[r] ELSE Unknown]
    BY <1>9 DEF Restart
  <2>2. wrote[18] = Unknown /\ setting' = setting
    BY <1>r, <1>18, <2>1
  <2>3. \A r \in Register : wrote'[r] # Unknown =>
           r \in DOMAIN ReadFrom /\ setting'[ReadFrom[r]] % 256 = wrote'[r]
    BY <1>a, <2>1, <2>2
  <2> QED
    BY <1>n, <2>1, <2>3 DEF BackInv
<1>10. CASE UNCHANGED vars
  BY <1>10, <1>u DEF vars
<1> QED
  BY <1>1, <1>2, <1>3, <1>4, <1>5, <1>6, <1>7, <1>8, <1>9, <1>10 DEF Next

-----------------------------------------------------------------------------
(* The theorems *)

LEMMA Start == Init => TypeInv /\ LineInv /\ TurnInv /\ RegisterInv /\ BackInv
<1> SUFFICES ASSUME Init PROVE TypeInv /\ LineInv /\ TurnInv /\ RegisterInv /\ BackInv
  OBVIOUS
<1>1. TypeInv
  BY DEF Init, TypeInv, Message
<1>2. Len(sent) = 0 /\ Len(wire) = 0 /\ Len(rx) = 0 /\ Len(rxq) = 0 /\ Len(done) = 0
  BY DEF Init
<1>3. LineInv /\ TurnInv
  BY <1>2 DEF LineInv, TurnInv
<1>4. RegisterInv
  BY DEF Init, RegisterInv, Byte, Unknown
<1>5. BackInv
  <2>1. /\ wrote = [r \in Register |-> Unknown] /\ DOMAIN reply = {}
    BY DEF Init, NoReply
  <2> QED
    BY <2>1 DEF BackInv
<1> QED
  BY <1>1, <1>3, <1>4, <1>5

\* A request that is answered is one the master has sent, and as long as messages are whole
\* requests they are answered once and in turn, however the line pauses (RS485.c:60, uart.c:161).
THEOREM AnsweredInTurn == Spec => []RightRequests
<1>1. TypeInv /\ LineInv /\ TurnInv => RightRequests
  <2> SUFFICES ASSUME TypeInv, LineInv, TurnInv PROVE RightRequests
    OBVIOUS
  <2>1. \A i \in 1 .. Len(done) : done[i] \in Range(sent)
    <3> TAKE i \in 1 .. Len(done)
    <3>1. PICK k \in 1 .. Len(sent) : done[i] = sent[k]
      BY DEF LineInv
    <3> QED
      BY <3>1 DEF Range, TypeInv
  <2> QED
    BY <2>1 DEF RightRequests, TurnInv
<1>2. TypeInv /\ LineInv /\ TurnInv /\ [Next]_vars => (TypeInv /\ LineInv /\ TurnInv)'
  BY TypeStep, LineStep, TurnStep
<1> QED
  BY <1>1, <1>2, Start, PTL DEF Spec

\* What was written to a register, or set at the panel, is what a later reading shows, also after
\* a restart, until register 18 is written (RS485.c:178).
THEOREM WrittenIsRead == Spec => []ReadBack
<1>1. BackInv => ReadBack
  BY DEF BackInv, ReadBack
<1>2. TypeInv /\ RegisterInv /\ BackInv /\ [Next]_vars => (TypeInv /\ RegisterInv /\ BackInv)'
  BY TypeStep, RegisterStep, BackStep
<1> QED
  BY <1>1, <1>2, Start, PTL DEF Spec
=============================================================================
