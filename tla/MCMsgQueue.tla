----------------------------- MODULE MCMsgQueue -----------------------------
(* Instances of MsgQueue for TLC. *)
EXTENDS MsgQueue

CONSTANTS t1, t2, t3, t4, s1, s2, m1, m2

\* t2 is the more important of the receivers
MCPriority == [t \in Thread |-> IF t = t2 THEN 0 ELSE 1]
=============================================================================
