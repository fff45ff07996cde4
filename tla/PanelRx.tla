------------------------------ MODULE PanelRx ------------------------------
(***************************************************************************)
(* The way of a frame from the LCD panel to the lcd_command thread: the    *)
(* receiver of USART2, its interrupt handler (drivers/uart.c with          *)
(* HAL_UART_IRQHandler), the queue uart2_rx_mq, the thread lcd_receive     *)
(* that cuts messages into frames (drivers/lcd.c) and lcd_command_mq.      *)
(*                                                                         *)
(* The panel sends frames of FrameLen bytes that begin with EE B1 and have *)
(* no other EE B1 in them.  The bytes are numbered from 1 in the order in  *)
(* which they are sent.  Interrupts can be late (the kernel disables them, *)
(* and the processor stalls while the flash is erased).                    *)
(***************************************************************************)
EXTENDS Naturals, Sequences

CONSTANTS
    FrameLen,   \* bytes of a frame
    MinLen,     \* the length a message must exceed (10 in the code)
    BufSize,    \* size of lcd_rx_buf (64 in the code)
    CmdSize,    \* size of the buffer for one frame (30 in the code)
    RxDepth,    \* messages of uart2_rx_mq (48 in the code)
    CmdDepth,   \* messages of lcd_command_mq (48 in the code)
    MaxFrames   \* bound on the frames the panel sends

ASSUME LengthAssumption ==
    /\ FrameLen \in Nat /\ MinLen \in Nat /\ BufSize \in Nat /\ CmdSize \in Nat
    /\ MinLen >= 1 /\ FrameLen > MinLen /\ FrameLen >= 3
    /\ FrameLen < BufSize /\ FrameLen < CmdSize
ASSUME DepthAssumption == RxDepth \in Nat \ {0} /\ CmdDepth \in Nat \ {0} /\ MaxFrames \in Nat

Bytes == MaxFrames * FrameLen

VARIABLES
    line,       \* bytes the panel has sent
    gap,        \* the line has been idle since the last byte
    dr,         \* USART data register: a byte that was not read (RXNE), or 0
    ore, idle,  \* flags of USART->SR
    armed,      \* RXNE interrupt enabled, RxState is BUSY_RX
    buf,        \* the part of lcd_rx_buf that is filled
    isr,        \* "out", or "idle": between HAL_UART_IRQHandler and the test of IDLE
    rxq,        \* uart2_rx_mq
    msg,        \* the message lcd_receive works on
    pos,        \* the next byte of it, or 0: no message
    cmdq,       \* lcd_command_mq
    handled,    \* history: the frames lcd_command has received
    clean       \* history: nothing has been lost or cut

receiver == <<dr, ore, idle, armed, buf, isr>>
thread == <<msg, pos>>
vars == <<line, gap, receiver, rxq, thread, cmdq, handled, clean>>

TypeOK ==
    /\ line \in 0 .. Bytes /\ gap \in BOOLEAN
    /\ dr \in 0 .. Bytes /\ ore \in BOOLEAN /\ idle \in BOOLEAN /\ armed \in BOOLEAN
    /\ buf \in Seq(1 .. Bytes) /\ Len(buf) <= BufSize
    /\ isr \in {"out", "idle"}
    /\ rxq \in Seq(Seq(1 .. Bytes)) /\ Len(rxq) <= RxDepth
    /\ msg \in Seq(1 .. Bytes) /\ pos \in 0 .. Len(msg)
    /\ cmdq \in Seq(Seq(1 .. Bytes)) /\ Len(cmdq) <= CmdDepth
    /\ handled \in Seq(1 .. MaxFrames) /\ clean \in BOOLEAN

Init ==
    /\ line = 0 /\ gap = TRUE
    /\ dr = 0 /\ ore = FALSE /\ idle = FALSE /\ armed = TRUE /\ buf = <<>> /\ isr = "out"
    /\ rxq = <<>> /\ msg = <<>> /\ pos = 0 /\ cmdq = <<>> /\ handled = <<>> /\ clean = TRUE

FrameOf(b) == (b - 1) \div FrameLen + 1
IsEE(b) == b % FrameLen = 1
IsB1(b) == b % FrameLen = 2
IsLast(b) == b % FrameLen = 0

-----------------------------------------------------------------------------
(* The line and the receiver *)

ByteArrives ==
    /\ line < Bytes
    /\ line' = line + 1 /\ gap' = FALSE
    /\ IF dr = 0 THEN dr' = line + 1 /\ UNCHANGED <<ore, clean>>
                 ELSE ore' = TRUE /\ clean' = FALSE /\ UNCHANGED dr
    /\ UNCHANGED <<idle, armed, buf, isr, rxq, thread, cmdq, handled>>

\* the panel may pause between two frames
LineIdle ==
    /\ ~gap /\ IsLast(line)
    /\ gap' = TRUE /\ idle' = TRUE
    /\ UNCHANGED <<line, dr, ore, armed, buf, isr, rxq, thread, cmdq, handled, clean>>

\* UART_Receive_IT: the byte is stored; with the last place of the buffer reception ends
Store ==
    /\ buf' = Append(buf, dr)
    /\ dr' = 0
    /\ armed' = (~ore /\ Len(buf) + 1 < BufSize)
    /\ clean' = (clean /\ armed')

\* HAL_UART_IRQHandler: after an overrun the byte is stored and reception ends
Interrupt ==
    /\ isr = "out"
    /\ \/ armed /\ dr # 0 /\ Store
       \/ ~(armed /\ dr # 0) /\ idle /\ UNCHANGED <<buf, dr, armed, clean>>
    /\ ore' = (ore /\ ~armed)
    /\ isr' = "idle"
    /\ UNCHANGED <<line, gap, idle, rxq, thread, cmdq, handled>>

\* The handler tests IDLE.  To clear it, SR and DR are read: a byte that has come since is
\* lost.  HAL_UART_RxIdleCpltCallback sends what is in the buffer, if the queue has room.
TestIdle ==
    /\ isr = "idle"
    /\ isr' = "out"
    /\ IF idle
         THEN /\ idle' = FALSE /\ dr' = 0 /\ ore' = FALSE
              /\ rxq' = IF Len(rxq) < RxDepth THEN Append(rxq, buf) ELSE rxq
              /\ buf' = <<>>
              /\ clean' = /\ clean /\ dr = 0 /\ Len(rxq) < RxDepth
                          /\ buf # <<>> /\ IsLast(buf[Len(buf)])
         ELSE UNCHANGED <<idle, dr, ore, rxq, buf, clean>>
    /\ UNCHANGED <<line, gap, armed, thread, cmdq, handled>>

-----------------------------------------------------------------------------
(* The lcd_receive thread *)

IsHeader(m, i) == i + 1 <= Len(m) /\ IsEE(m[i]) /\ IsB1(m[i + 1])

\* mutant: the limit of the length is one byte too long
Accepted_Longer(m) == Len(m) > MinLen + 1 /\ IsHeader(m, 1)
Accepted(m) == Len(m) > MinLen /\ IsHeader(m, 1)

Receive ==
    /\ pos = 0 /\ rxq # <<>>
    /\ rxq' = Tail(rxq)
    /\ IF Accepted(Head(rxq)) THEN msg' = Head(rxq) /\ pos' = 1 ELSE UNCHANGED thread
    /\ UNCHANGED <<line, gap, receiver, cmdq, handled, clean>>

\* mutant: the frame ends one byte early
CutAt_Early(e) == e = Len(msg) \/ IsHeader(msg, e + 2)
\* the frame that begins at pos ends before the next header, or with the message
CutAt(e) == e = Len(msg) \/ IsHeader(msg, e + 1)

NextPos(e) == IF e = Len(msg) THEN 0 ELSE e + 1

Split ==
    /\ pos # 0
    /\ \E e \in pos .. Len(msg) :
         /\ CutAt(e) /\ \A d \in pos .. e - 1 : ~CutAt(d)
         /\ cmdq' = IF Len(cmdq) < CmdDepth THEN Append(cmdq, SubSeq(msg, pos, e)) ELSE cmdq
         /\ clean' = (clean /\ Len(cmdq) < CmdDepth)
         /\ pos' = NextPos(e)
         /\ msg' = IF pos' = 0 THEN <<>> ELSE msg
    /\ UNCHANGED <<line, gap, receiver, rxq, handled>>

\* lcd_command takes the next frame
Handle ==
    /\ cmdq # <<>>
    /\ cmdq' = Tail(cmdq)
    /\ handled' = Append(handled, FrameOf(Head(cmdq)[1]))
    /\ UNCHANGED <<line, gap, receiver, rxq, thread, clean>>

Firmware == Interrupt \/ TestIdle \/ Receive \/ Split \/ Handle

Next == ByteArrives \/ LineIdle \/ Firmware

Spec == Init /\ [][Next]_vars

\* The interrupt and the threads are served in the end; the panel finishes a frame that it
\* has begun and then pauses, if it does not go on with the next frame.
FairSpec ==
    /\ Spec
    /\ WF_vars(Interrupt) /\ WF_vars(TestIdle) /\ WF_vars(Receive) /\ WF_vars(Split)
    /\ WF_vars(Handle)
    /\ WF_vars(ByteArrives /\ ~IsLast(line)) /\ WF_vars(LineIdle)

-----------------------------------------------------------------------------
(* Properties *)

Consecutive(c) == \A k \in 1 .. Len(c) - 1 : c[k + 1] = c[k] + 1

\* What lcd_command gets is one frame from its header on, never bytes of two frames beyond
\* the first byte of the next one, and it fits the buffer it was cut into: however late
\* the interrupts were, whatever was lost.
OneFrame ==
    \A q \in 1 .. Len(cmdq) :
        LET c == cmdq[q] IN
        IsHeader(c, 1) /\ Consecutive(c) /\ Len(c) <= FrameLen + 1 /\ Len(c) <= CmdSize

\* No frame is handled twice or before an earlier one.
InOrder == \A q \in 1 .. Len(handled) - 1 : handled[q] < handled[q + 1]

\* Frames stay whole and in order on their way (uart.c:126, lcd.c:70).
FramesKept == OneFrame /\ InOrder

\* Every frame of the panel reaches lcd_command, as long as no byte was overrun or read
\* away, no buffer or queue was full, and no interrupt was late for the pause.
Delivered ==
    \A f \in 1 .. MaxFrames :
        line >= f * FrameLen ~> (~clean \/ \E q \in 1 .. Len(handled) : handled[q] = f)
=============================================================================
