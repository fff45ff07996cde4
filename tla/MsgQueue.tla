------------------------------ MODULE MsgQueue ------------------------------
(***************************************************************************)
(* rt_mq_send_wait, rt_mq_urgent, rt_mq_recv and rt_mq_control of          *)
(* rt-thread/src/ipc.c, with the suspension, the resumption and the        *)
(* timeout of the waiting threads.                                         *)
(*                                                                         *)
(* The kernel disables interrupts around the lists and enables them while  *)
(* a message is copied: one action is one such section, and between two    *)
(* sections any thread and any interrupt handler may run.  Priorities of   *)
(* the ready threads are not modelled, so every interleaving is there.     *)
(***************************************************************************)
EXTENDS Naturals, Sequences, FiniteSets

CONSTANTS
    Thread,     \* threads that use the queue
    Isr,        \* interrupt handlers that send without waiting
    Slot,       \* the memory blocks of the pool, one per message
    Message,    \* what can be sent
    Priority,   \* current_priority of the threads, 0 is the highest
    ByPriority, \* RT_IPC_FLAG_PRIO, else RT_IPC_FLAG_FIFO
    EntryMax,   \* RT_MQ_ENTRY_MAX
    Sender,     \* the callers that send
    Receiver,   \* the threads that receive
    Operations, \* the other operations they use
    None        \* no message

Caller == Thread \cup Isr
AllOperations == {"urgent", "reset"}

ASSUME CallersAssumption ==
    IsFiniteSet(Caller) /\ Thread \cap Isr = {} /\ Sender \subseteq Caller /\ Receiver \subseteq Thread
ASSUME PoolAssumption == IsFiniteSet(Slot) /\ Slot # {}
ASSUME MessageAssumption == Message # {} /\ None \notin Message
ASSUME PriorityAssumption == Priority \in [Thread -> Nat] /\ ByPriority \in BOOLEAN
\* rt_mq_create is called with 48 messages, RT_MQ_ENTRY_MAX is 65535
ASSUME EntryAssumption == EntryMax \in Nat /\ Cardinality(Slot) <= EntryMax
ASSUME OperationsAssumption == Operations \subseteq AllOperations

VARIABLES
    free,     \* msg_queue_free; the order of the list makes no difference
    queue,    \* msg_queue_head ... msg_queue_tail
    entry,    \* the number of messages as the kernel counts them
    content,  \* what the memory of a message holds
    senders,  \* suspend_sender_thread
    receivers,\* parent.suspend_thread
    pc,       \* where each caller is
    slot,     \* msg, the message a caller works on, or None
    msg,      \* the buffer of a sender, or None
    wait      \* timeout: none left, some ticks, RT_WAITING_FOREVER

lists == <<free, queue, entry, content>>
waiting == <<senders, receivers>>
callers == <<pc, slot, msg, wait>>
vars == <<lists, waiting, callers>>

Waits == {"no", "ticks", "forever"}
Pcs == {"idle", "send", "sleepsend", "resend", "urgent", "link", "linkfirst", "recv", "sleeprecv", "rerecv",
        "copy"}

TypeOK ==
    /\ free \subseteq Slot /\ queue \in Seq(Slot) /\ entry \in Nat
    /\ content \in [Slot -> Message]
    /\ senders \in Seq(Thread) /\ receivers \in Seq(Thread)
    /\ pc \in [Caller -> Pcs] /\ slot \in [Caller -> Slot \cup {None}]
    /\ msg \in [Caller -> Message \cup {None}] /\ wait \in [Caller -> Waits]

Init ==
    /\ free = Slot /\ queue = <<>> /\ entry = 0
    /\ content \in [Slot -> Message]
    /\ senders = <<>> /\ receivers = <<>>
    /\ pc = [c \in Caller |-> "idle"] /\ slot = [c \in Caller |-> None]
    /\ msg = [c \in Caller |-> None] /\ wait = [c \in Caller |-> "no"]

-----------------------------------------------------------------------------
(* The lists of waiting threads *)

In(list, x) == \E i \in 1 .. Len(list) : list[i] = x

\* mutant: a thread goes before those of a higher priority
Places_Swapped(list, t) ==
    {i \in 1 .. Len(list) + 1 :
        IF ByPriority
          THEN /\ i <= Len(list) => Priority[t] > Priority[list[i]]
               /\ \A j \in 1 .. i - 1 : Priority[t] <= Priority[list[j]]
          ELSE i = Len(list) + 1}

\* where rt_ipc_list_suspend puts a thread: before the first thread of a lower priority,
\* or at the end
Places(list, t) ==
    {i \in 1 .. Len(list) + 1 :
        IF ByPriority
          THEN /\ i <= Len(list) => Priority[t] < Priority[list[i]]
               /\ \A j \in 1 .. i - 1 : Priority[t] >= Priority[list[j]]
          ELSE i = Len(list) + 1}

Inserted(list, i, t) == SubSeq(list, 1, i - 1) \o <<t>> \o SubSeq(list, i, Len(list))
Removed(list, i) == SubSeq(list, 1, i - 1) \o SubSeq(list, i + 1, Len(list))

\* the first waiting thread, if there is one, goes on at step
Resumed(pcs, list, step) ==
    IF list = <<>> THEN pcs ELSE [pcs EXCEPT ![Head(list)] = step]
Rest(list) == IF list = <<>> THEN list ELSE Tail(list)

\* the locals of a call are gone when it returns
Return(c) ==
    /\ pc' = [pc EXCEPT ![c] = "idle"]
    /\ msg' = [msg EXCEPT ![c] = None]
    /\ wait' = [wait EXCEPT ![c] = "no"]

-----------------------------------------------------------------------------
(* Sending *)

CallSend(c, m, w) ==
    /\ c \in Sender /\ pc[c] = "idle" /\ (c \in Isr => w = "no")
    /\ pc' = [pc EXCEPT ![c] = "send"]
    /\ msg' = [msg EXCEPT ![c] = m]
    /\ wait' = [wait EXCEPT ![c] = w]
    /\ UNCHANGED <<lists, waiting, slot>>

CallUrgent(c, m) ==
    /\ "urgent" \in Operations /\ c \in Sender /\ pc[c] = "idle"
    /\ pc' = [pc EXCEPT ![c] = "urgent"]
    /\ msg' = [msg EXCEPT ![c] = m]
    /\ wait' = [wait EXCEPT ![c] = "no"]
    /\ UNCHANGED <<lists, waiting, slot>>

\* an element of the free list becomes the caller's
Claim(c) ==
    /\ pc[c] \in {"send", "urgent"}
    /\ \E s \in free : free' = free \ {s} /\ slot' = [slot EXCEPT ![c] = s]
    /\ pc' = [pc EXCEPT ![c] = IF pc[c] = "send" THEN "link" ELSE "linkfirst"]
    /\ UNCHANGED <<queue, entry, content, waiting, msg, wait>>

SendFull(c) ==
    /\ pc[c] \in {"send", "urgent"} /\ free = {} /\ wait[c] = "no"
    /\ Return(c)
    /\ UNCHANGED <<lists, waiting, slot>>

SendSuspend(c) ==
    /\ pc[c] = "send" /\ free = {} /\ wait[c] # "no"
    /\ \E i \in Places(senders, c) : senders' = Inserted(senders, i, c)
    /\ pc' = [pc EXCEPT ![c] = "sleepsend"]
    /\ UNCHANGED <<lists, receivers, slot, msg, wait>>

\* mutant: no receiver is resumed
CountAndResume_Silent(c) ==
    /\ entry' = entry + 1
    /\ pc' = [pc EXCEPT ![c] = "idle"]
    /\ UNCHANGED receivers
\* the message is counted and the first receiver resumed, unless the count is at its limit
CountAndResume(c) ==
    IF entry < EntryMax
      THEN /\ entry' = entry + 1
           /\ pc' = Resumed([pc EXCEPT ![c] = "idle"], receivers, "rerecv")
           /\ receivers' = Rest(receivers)
      ELSE /\ pc' = [pc EXCEPT ![c] = "idle"]
           /\ UNCHANGED <<entry, receivers>>

\* the message is copied and put at the end of the queue ...
Link(c) ==
    /\ pc[c] = "link"
    /\ content' = [content EXCEPT ![slot[c]] = msg[c]]
    /\ queue' = Append(queue, slot[c])
    /\ CountAndResume(c)
    /\ slot' = [slot EXCEPT ![c] = None]
    /\ msg' = [msg EXCEPT ![c] = None]
    /\ wait' = [wait EXCEPT ![c] = "no"]
    /\ UNCHANGED <<free, senders>>

\* ... or at its beginning
LinkFirst(c) ==
    /\ pc[c] = "linkfirst"
    /\ content' = [content EXCEPT ![slot[c]] = msg[c]]
    /\ queue' = <<slot[c]>> \o queue
    /\ CountAndResume(c)
    /\ slot' = [slot EXCEPT ![c] = None]
    /\ msg' = [msg EXCEPT ![c] = None]
    /\ wait' = [wait EXCEPT ![c] = "no"]
    /\ UNCHANGED <<free, senders>>

-----------------------------------------------------------------------------
(* Receiving *)

CallRecv(t, w) ==
    /\ t \in Receiver /\ pc[t] = "idle"
    /\ pc' = [pc EXCEPT ![t] = "recv"]
    /\ wait' = [wait EXCEPT ![t] = w]
    /\ UNCHANGED <<lists, waiting, slot, msg>>

RecvEmpty(t) ==
    /\ pc[t] = "recv" /\ entry = 0 /\ wait[t] = "no"
    /\ Return(t)
    /\ UNCHANGED <<lists, waiting, slot>>

RecvSuspend(t) ==
    /\ pc[t] = "recv" /\ entry = 0 /\ wait[t] # "no"
    /\ \E i \in Places(receivers, t) : receivers' = Inserted(receivers, i, t)
    /\ pc' = [pc EXCEPT ![t] = "sleeprecv"]
    /\ UNCHANGED <<lists, senders, slot, msg, wait>>

\* mutant: the memory is given back before the message is copied
Kept_Freed(s) == free' = free \cup {s}
Kept(s) == UNCHANGED free

\* the first message leaves the queue, its memory stays with the receiver
Pop(t) ==
    /\ pc[t] = "recv" /\ entry > 0
    /\ slot' = [slot EXCEPT ![t] = Head(queue)]
    /\ queue' = Tail(queue)
    /\ entry' = entry - 1
    /\ Kept(Head(queue))
    /\ pc' = [pc EXCEPT ![t] = "copy"]
    /\ UNCHANGED <<content, waiting, msg, wait>>

\* mutant: no sender is resumed
WakeSender_None(t) == pc' = [pc EXCEPT ![t] = "idle"] /\ UNCHANGED senders
WakeSender(t) ==
    /\ pc' = Resumed([pc EXCEPT ![t] = "idle"], senders, "resend")
    /\ senders' = Rest(senders)

\* the message has been copied; its memory is free again and the first sender resumed
Release(t) ==
    /\ pc[t] = "copy"
    /\ free' = free \cup {slot[t]}
    /\ WakeSender(t)
    /\ slot' = [slot EXCEPT ![t] = None]
    /\ wait' = [wait EXCEPT ![t] = "no"]
    /\ UNCHANGED <<queue, entry, content, receivers, msg>>

-----------------------------------------------------------------------------
(* Waiting and reset *)

\* the loop after a suspension: of the ticks to wait none may be left
Recompute(t) ==
    /\ pc[t] \in {"resend", "rerecv"}
    /\ pc' = [pc EXCEPT ![t] = IF pc[t] = "resend" THEN "send" ELSE "recv"]
    /\ \E w \in IF wait[t] = "ticks" THEN {"ticks", "no"} ELSE {wait[t]} :
          wait' = [wait EXCEPT ![t] = w]
    /\ UNCHANGED <<lists, waiting, slot, msg>>

\* rt_thread_timeout: the thread leaves the list and the call fails
Timeout(t) ==
    /\ wait[t] = "ticks"
    /\ \/ /\ pc[t] = "sleepsend"
          /\ \E i \in 1 .. Len(senders) : senders[i] = t /\ senders' = Removed(senders, i)
          /\ UNCHANGED receivers
       \/ /\ pc[t] = "sleeprecv"
          /\ \E i \in 1 .. Len(receivers) : receivers[i] = t /\ receivers' = Removed(receivers, i)
          /\ UNCHANGED senders
    /\ Return(t)
    /\ UNCHANGED <<lists, slot>>

\* rt_ipc_list_resume_all of both lists: these calls fail
Woken == {t \in Thread : pc[t] \in {"sleepsend", "sleeprecv"}}

\* mutant: the queue is emptied and its memory forgotten
Returned_None == {}
\* the memory a reset gives back
Returned == {s \in Slot : In(queue, s)}

\* rt_mq_control with RT_IPC_CMD_RESET
Reset ==
    /\ "reset" \in Operations
    /\ pc' = [c \in Caller |-> IF c \in Woken THEN "idle" ELSE pc[c]]
    /\ senders' = <<>> /\ receivers' = <<>>
    /\ free' = free \cup Returned
    /\ queue' = <<>> /\ entry' = 0
    /\ msg' = [c \in Caller |-> IF c \in Woken THEN None ELSE msg[c]]
    /\ wait' = [c \in Caller |-> IF c \in Woken THEN "no" ELSE wait[c]]
    /\ UNCHANGED <<content, slot>>

Send(c) == Claim(c) \/ SendFull(c) \/ SendSuspend(c) \/ Link(c) \/ LinkFirst(c)
Receive(t) == RecvEmpty(t) \/ RecvSuspend(t) \/ Pop(t) \/ Release(t)
RecvCall(t) == \E w \in Waits : CallRecv(t, w)

Next ==
    \/ \E c \in Caller :
         \/ \E m \in Message : CallUrgent(c, m) \/ \E w \in Waits : CallSend(c, m, w)
         \/ Send(c)
    \/ \E t \in Thread :
         \/ RecvCall(t) \/ Receive(t) \/ Recompute(t) \/ Timeout(t)
    \/ Reset

Spec == Init /\ [][Next]_vars

\* A thread that is ready runs in the end; nobody has to send, but the receiving threads
\* of the firmware call rt_mq_recv for ever.
FairSpec ==
    /\ Spec
    /\ \A t \in Receiver : WF_vars(RecvCall(t)) /\ WF_vars(Receive(t)) /\ WF_vars(Recompute(t))

-----------------------------------------------------------------------------
(* Properties *)

Once(list) == \A i, j \in 1 .. Len(list) : list[i] = list[j] => i = j
Holding == {c \in Caller : pc[c] \in {"link", "linkfirst", "copy"}}

\* Every block of the pool is in exactly one place: free, in the queue once, or with one
\* caller.  None is lost by a timeout or a reset, none is used for two messages.
SlotsPartitioned ==
    /\ Once(queue)
    /\ \A s \in free : ~In(queue, s)
    /\ \A c \in Holding : slot[c] \in Slot \ free /\ ~In(queue, slot[c])
    /\ \A c, d \in Holding : slot[c] = slot[d] => c = d
    /\ \A s \in Slot : s \in free \/ In(queue, s) \/ \E c \in Holding : slot[c] = s

\* The count decides whether there is a message to take, so it never differs from the
\* length of the list: with a pool that fits the counter, its limit is never met.
EntryCounts == entry = Len(queue)

\* No receiver sleeps over a message and no sender over free memory: as many threads as
\* there are messages (free blocks) are awake and about to look.
NoLostWakeup ==
    /\ receivers # <<>> =>
         Len(queue) <= Cardinality({t \in Thread : pc[t] \in {"recv", "rerecv"}})
    /\ senders # <<>> =>
         Cardinality(free) <= Cardinality({c \in Caller : pc[c] \in {"send", "resend", "urgent"}})

Sleeps(list, step) == Once(list) /\ \A c \in Caller : pc[c] = step <=> In(list, c)

\* A sleeping thread is in the list that will wake it, once, and only there: after a
\* timeout or a reset no list still names it.
SleepersListed == Sleeps(senders, "sleepsend") /\ Sleeps(receivers, "sleeprecv")

\* The blocks of the pool, the count and the lists of waiting threads fit each other between any
\* two critical sections (ipc.c:2122, ipc.c:2144, ipc.c:2372).
PoolKept == SlotsPartitioned /\ EntryCounts /\ SleepersListed

Precedes(list, t, u) == \E i, j \in 1 .. Len(list) : i < j /\ list[i] = t /\ list[j] = u
NotOvertaken(list, next) ==
    \A t, u \in Thread :
        (/\ In(list, t) /\ In(next, t) /\ ~In(list, u) /\ In(next, u)
         /\ ByPriority => Priority[t] <= Priority[u])
        => Precedes(next, t, u)

\* Nobody is overtaken by a thread that comes later, but for one of a higher priority in
\* a queue with RT_IPC_FLAG_PRIO.
WaitInTurn == [][NotOvertaken(senders, senders') /\ NotOvertaken(receivers, receivers')]_vars

\* With receivers that call again and again every message leaves the queue, unless urgent
\* ones come before it.
Delivered ==
    \A s \in Slot : In(queue, s) ~> (~In(queue, s) \/ \E c \in Caller : pc[c] = "linkfirst")

Fifo == INSTANCE BoundedFifo WITH
    Messages <- Message,
    Receivers <- Thread,
    Capacity <- Cardinality(Slot),
    fifo <- [i \in 1 .. Len(queue) |-> content[queue[i]]],
    hand <- [t \in Thread |-> IF pc[t] = "copy" THEN content[slot[t]] ELSE None]

\* The queue is a bounded FIFO of messages: what a receiver copies, while interrupts are
\* enabled, is the message that was first when it was taken.
IsFifo == Fifo!Spec
=============================================================================
