---------------------------- MODULE BoundedFifo ----------------------------
(***************************************************************************)
(* What a message queue promises: messages leave in the order in which     *)
(* they came, urgent ones first, none is lost, changed or doubled, and     *)
(* the messages in the queue and in the hands of the receivers, who are    *)
(* still copying them, never exceed the capacity.                          *)
(***************************************************************************)
EXTENDS Naturals, Sequences, FiniteSets

CONSTANTS
    Messages,   \* what can be sent
    Receivers,
    Capacity,   \* a natural number
    None        \* not a message

VARIABLES
    fifo,   \* the messages in the queue
    hand    \* the message each receiver is copying, or None

InHand == {r \in Receivers : hand[r] # None}

Init == fifo = <<>> /\ hand = [r \in Receivers |-> None]

Room == Len(fifo) + Cardinality(InHand) < Capacity

Put(m) == Room /\ fifo' = Append(fifo, m) /\ UNCHANGED hand

PutFirst(m) == Room /\ fifo' = <<m>> \o fifo /\ UNCHANGED hand

Take(r) ==
    /\ fifo # <<>> /\ hand[r] = None
    /\ hand' = [hand EXCEPT ![r] = Head(fifo)]
    /\ fifo' = Tail(fifo)

Finish(r) ==
    /\ hand[r] # None
    /\ hand' = [hand EXCEPT ![r] = None]
    /\ UNCHANGED fifo

Clear == fifo' = <<>> /\ UNCHANGED hand

Next ==
    \/ \E m \in Messages : Put(m) \/ PutFirst(m)
    \/ \E r \in Receivers : Take(r) \/ Finish(r)
    \/ Clear

Spec == Init /\ [][Next]_<<fifo, hand>>
=============================================================================
