------------------------------- MODULE Rs485 -------------------------------
(***************************************************************************)
(* The RS485 slave (drivers/RS485.c) with its reception (USART1 in         *)
(* drivers/uart.c): a master reads and writes settings as registers (those *)
(* of the temperatures are left out).  A message ends where the line       *)
(* pauses.  The message buffer msg_uart1 keeps what an earlier message     *)
(* left behind the end of a shorter one, and the slave does not look at    *)
(* the length.                                                             *)
(*                                                                         *)
(* A request is a record; on the line it is 8 bytes, numbered from 1 in    *)
(* the order in which they are sent.  Its CRC, the last two, fits the six  *)
(* before them and no others.  save() is one step here; its inside is the  *)
(* matter of FlashSave.                                                    *)
(***************************************************************************)
EXTENDS Naturals, Sequences, Functions

CONSTANTS
    Requests,       \* what the master may send, each once: [to, fn, reg, hi, lo]
    PanelSettings,  \* what the panel may set: [name, val]
    RxDepth,        \* messages of uart1_rx_mq (48 in the code)
    Pauses,         \* bound: bytes of a request that may be still to come when the line pauses
    MaxRequests, MaxLost, MaxRestart    \* bounds: requests, bytes lost, restarts

Register == 0 .. 29         \* REG_HOLDING_NREGS
MaxCount == 22              \* bound: the registers whose values fit usart3sendbuf

Byte == 0 .. 255

ASSUME PausesAssumption == 0 \in Pauses /\ Pauses \subseteq 0 .. 7
\* the setting a register shows
ReadFrom ==
    [r \in {1, 2, 3, 4, 9, 10, 11, 12, 13, 14, 18, 19} |->
        CASE r = 1 -> "power1" [] r \in {2, 12} -> "control" [] r = 3 -> "time1" [] r = 4 -> "alarm1"
          [] r = 9 -> "hour1" [] r = 10 -> "minutes1" [] r = 11 -> "power2" [] r = 13 -> "time2"
          [] r = 14 -> "alarm2" [] r = 18 -> "hour2" [] r = 19 -> "minutes2"]
\* the setting it changes
WriteTo == [ReadFrom EXCEPT ![18] = "power2"]

Names == Range(ReadFrom)

ASSUME RequestsAssumption ==
    /\ Requests \subseteq [to : Byte, fn : {3, 6}, reg : Register, hi : Byte, lo : Byte]
    /\ \A r \in Requests : r.fn = 3 => r.hi = 0 /\ r.lo <= MaxCount /\ r.reg + r.lo <= 30
ASSUME PanelAssumption == PanelSettings \subseteq [name : Names, val : Nat]

VARIABLES
    sent,       \* the requests the master has sent
    wire,       \* bytes of the last one that are still to come
    active,     \* bytes have come since the line was idle
    rx,         \* rx485_rx_buf, as far as it is filled
    msg_uart1,  \* the first 8 bytes of the message buffer
    rxq,        \* uart1_rx_mq
    pending,    \* the request that is answered and not yet carried out, or none
    address, buf,           \* address, usRegHoldingBuf
    setting, stored,        \* the settings in memory and in the flash
    done,       \* history: the requests that were answered
    reply,      \* history: registers and values the master has read, until something is written
    wrote,      \* history: the value last given to a register, or Unknown
    clean,      \* history: all messages have been single whole requests
    lost, restarts          \* number of bytes lost and restarts

line == <<sent, wire, active, rx, msg_uart1, lost>>
vars == <<line, rxq, pending, address, buf, setting, stored, done, reply, wrote, clean, restarts>>

Unknown == 256
NoReply == [r \in {} |-> 0]

\* the bytes of the k-th request
Frame(k) == [i \in 1 .. 8 |-> 8 * (k - 1) + i]
\* their values; 0 is in a buffer that was never filled, 256 stands for a byte of a CRC
Value(b) ==
    IF b = 0 THEN 0
    ELSE LET r == sent[(b - 1) \div 8 + 1] IN <<r.to, r.fn, 0, r.reg, r.hi, r.lo, 256, 256>>[((b - 1) % 8) + 1]
Request(m) == [to |-> Value(m[1]), fn |-> Value(m[2]), reg |-> Value(m[4]), hi |-> Value(m[5]), lo |-> Value(m[6])]

Init ==
    /\ stored = [n \in Names |-> 0]
    /\ setting = stored /\ address = 1 /\ buf = [r \in Register |-> 0]
    /\ rx = <<>> /\ msg_uart1 = [i \in 1 .. 8 |-> 0] /\ rxq = <<>> /\ pending = <<>>
    /\ reply = NoReply /\ wrote = [r \in Register |-> Unknown]
    /\ sent = <<>> /\ wire = <<>> /\ active = FALSE
    /\ done = <<>> /\ clean = TRUE /\ lost = 0 /\ restarts = 0

-----------------------------------------------------------------------------
(* the line and the interrupt *)

Sends(r) ==
    /\ wire = <<>> /\ Len(sent) < MaxRequests /\ r \notin Range(sent)
    /\ sent' = Append(sent, r) /\ wire' = Frame(Len(sent'))
    /\ UNCHANGED <<active, rx, msg_uart1, lost, rxq, pending, address, buf, setting, stored, done, reply, wrote, clean, restarts>>

\* bytes come one by one, k of them before anything else happens
Arrive(k) ==
    /\ k \in 1 .. Len(wire) /\ Len(wire) - k \in Pauses
    /\ rx' = rx \o SubSeq(wire, 1, k) /\ wire' = SubSeq(wire, k + 1, Len(wire)) /\ active' = TRUE
    /\ UNCHANGED <<sent, msg_uart1, lost, rxq, pending, address, buf, setting, stored, done, reply, wrote, clean, restarts>>

\* memcpy of what has come to the begin of the message buffer
Copied(m, new) == [i \in 1 .. 8 |-> IF i <= Len(new) THEN new[i] ELSE m[i]]

\* USART1_IRQHandler and HAL_UART_RxIdleCpltCallback: a pause between two bytes of a request ends
\* the message, too.  A byte that has come since the receiver was served is read away (gone = 1)
\* when the idle flag is cleared, and the line is idle once more after it.
Idle(gone) ==
    /\ active /\ gone <= Len(wire) /\ lost + gone <= MaxLost
    /\ wire' = SubSeq(wire, gone + 1, Len(wire)) /\ lost' = lost + gone
    /\ active' = (gone = 1) /\ rx' = <<>>
    /\ msg_uart1' = Copied(msg_uart1, rx)
    /\ rxq' = IF Len(rxq) < RxDepth THEN Append(rxq, msg_uart1') ELSE rxq
    /\ clean' = (clean /\ gone = 0 /\ wire = <<>> /\ Len(rx) = 8 /\ Len(rxq) < RxDepth)
    /\ UNCHANGED <<sent, pending, address, buf, setting, stored, done, reply, wrote, restarts>>

-----------------------------------------------------------------------------
(* the thread rs485_receive *)

\* mutant: the slave keeps to the address that it has after a reset
ForUs_First(to) == to \in {1, 0}
ForUs(to) == to \in {address, 0}

\* mutant: the CRC does not cover the value
Intact_Short(m) == \E k \in 1 .. Len(sent) :
    m[7] = Frame(k)[7] /\ m[8] = Frame(k)[8] /\ \A i \in 1 .. 4 : Value(m[i]) = Value(Frame(k)[i])
\* crc16 of the first six bytes is in the last two
Intact(m) == \E k \in 1 .. Len(sent) :
    m[7] = Frame(k)[7] /\ m[8] = Frame(k)[8] /\ \A i \in 1 .. 6 : Value(m[i]) = Value(Frame(k)[i])

Accepted(m) == ForUs(Value(m[1])) /\ Value(m[2]) \in {3, 6} /\ Intact(m)

Ignore ==
    /\ rxq # <<>> /\ pending = <<>> /\ ~Accepted(Head(rxq))
    /\ rxq' = Tail(rxq)
    /\ UNCHANGED <<line, pending, address, buf, setting, stored, done, reply, wrote, clean, restarts>>

\* usRegHoldingBuf is of bytes
Refreshed ==
    [r \in Register |-> IF r \in DOMAIN ReadFrom THEN setting[ReadFrom[r]] % 256 ELSE buf[r]]

\* function 3
AnswerRead ==
    /\ rxq # <<>> /\ pending = <<>> /\ Accepted(Head(rxq))
    /\ LET q == Request(Head(rxq)) IN
        /\ q.fn = 3
        /\ reply' = [r \in q.reg .. q.reg + q.lo - 1 |-> Refreshed[r]]
        /\ done' = Append(done, q)
    /\ buf' = Refreshed
    /\ rxq' = Tail(rxq)
    /\ UNCHANGED <<line, pending, address, setting, stored, wrote, clean, restarts>>

\* function 6: the answer goes out first
AnswerWrite ==
    /\ rxq # <<>> /\ pending = <<>> /\ Accepted(Head(rxq))
    /\ LET q == Request(Head(rxq)) IN
        /\ q.fn = 6
        /\ buf' = [buf EXCEPT ![q.reg] = (q.hi * 256 + q.lo) % 256]
        /\ done' = Append(done, q)
        /\ pending' = <<q>>
    /\ rxq' = Tail(rxq)
    /\ UNCHANGED <<line, address, setting, stored, reply, wrote, clean, restarts>>

\* the registers that show what is written to r
Shows(r) == {r} \cup {q \in DOMAIN ReadFrom : r \in DOMAIN ReadFrom /\ ReadFrom[q] = ReadFrom[r]}

\* mutant: the settings of channel 2 are not saved
Saved_First(r, s) == IF r < 11 THEN s ELSE stored
\* save(), in each case of the switch that changes a setting
Saved(r, s) == IF r \in DOMAIN WriteTo \cup {0} THEN s ELSE stored

\* the switch over the registers
CarryOut ==
    /\ pending # <<>>
    /\ LET q == pending[1] IN
        /\ address' = IF q.reg = 0 THEN buf[0] ELSE address
        /\ setting' = IF q.reg \in DOMAIN WriteTo THEN [setting EXCEPT ![WriteTo[q.reg]] = buf[q.reg]] ELSE setting
        /\ stored' = Saved(q.reg, setting')
        /\ wrote' = [r \in Register |-> IF r \in Shows(q.reg) THEN (q.hi * 256 + q.lo) % 256 ELSE wrote[r]]
    /\ pending' = <<>> /\ reply' = NoReply
    /\ UNCHANGED <<line, rxq, buf, done, clean, restarts>>

-----------------------------------------------------------------------------
(* the rest of the firmware; the slave has a higher priority *)

\* lcd_command
PanelSets(p) ==
    /\ pending = <<>> /\ setting[p.name] # p.val
    /\ setting' = [setting EXCEPT ![p.name] = p.val] /\ stored' = setting'
    /\ wrote' = [r \in Register |-> IF r \in DOMAIN ReadFrom /\ ReadFrom[r] = p.name THEN p.val % 256 ELSE wrote[r]]
    /\ reply' = NoReply
    /\ UNCHANGED <<line, rxq, pending, address, buf, done, clean, restarts>>

\* what is only in memory is gone
Restart ==
    /\ restarts < MaxRestart
    /\ restarts' = restarts + 1 /\ clean' = FALSE
    /\ setting' = stored /\ address' = 1 /\ buf' = [r \in Register |-> 0]
    /\ rx' = <<>> /\ msg_uart1' = [i \in 1 .. 8 |-> 0] /\ rxq' = <<>> /\ pending' = <<>>
    /\ reply' = NoReply
    /\ wrote' = [r \in Register |-> IF r \in DOMAIN ReadFrom THEN wrote[r] ELSE Unknown]
    /\ UNCHANGED <<sent, wire, active, lost, stored, done>>

Next ==
    \/ \E r \in Requests : Sends(r)
    \/ \E k \in 1 .. 8 : Arrive(k)
    \/ \E gone \in 0 .. 1 : Idle(gone)
    \/ Ignore \/ AnswerRead \/ AnswerWrite \/ CarryOut
    \/ \E p \in PanelSettings : PanelSets(p)
    \/ Restart

Spec == Init /\ [][Next]_vars

\* The line goes on, interrupts are served, and the thread runs in the end.
FairSpec ==
    /\ Spec
    /\ WF_vars(\E k \in 1 .. 8 : Arrive(k)) /\ WF_vars(\E gone \in 0 .. 1 : Idle(gone))
    /\ WF_vars(Ignore \/ AnswerRead \/ AnswerWrite) /\ WF_vars(CarryOut)

-----------------------------------------------------------------------------
(* properties *)

\* A request that is answered is one the master has sent, never a mixture of two, and as long
\* as messages are single requests each is answered once and in turn, although the buffer
\* keeps the ends of older ones and the length is not looked at (RS485.c:60, uart.c:161).
RightRequests ==
    /\ \A i \in 1 .. Len(done) : done[i] \in Range(sent)
    /\ clean => \A i, j \in 1 .. Len(done) : \A k, l \in 1 .. Len(sent) :
                    i < j /\ done[i] = sent[k] /\ done[j] = sent[l] => k < l

\* What was written to a register, or set at the panel, is what a later reading shows (its
\* lower byte), also after a restart; until register 18 is written, which shows the hours of
\* channel 2 and changes its power (RS485.c:178).
ReadBack == wrote[18] = Unknown => \A r \in DOMAIN reply : wrote[r] # Unknown => reply[r] = wrote[r]

\* A request to the address of the slave or to all slaves is answered, when all messages are
\* single whole requests (RS485.c:60).
Answered ==
    \A k \in 1 .. MaxRequests :
        (Len(sent) = k /\ wire = <<>> /\ active /\ sent[k].to \in {address, 0} /\ clean)
            ~> (~clean \/ (Len(sent) >= k /\ (sent[k] \in Range(done) \/ sent[k].to \notin {address, 0})))
=============================================================================
