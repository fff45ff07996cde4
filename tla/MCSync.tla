------------------------------- MODULE MCSync -------------------------------
(* Three threads of different priority and the idle thread; one request for all flags, one for any. *)
EXTENDS Sync, TLC

CONSTANTS m, n

MCInitPrio == [t \in Thread |-> CASE t = "high" -> 0 [] t = "mid" -> 1 [] t = "low" -> 2 [] t = "idle" -> 3]
MCRequests == {[set |-> Flag, all |-> TRUE, clear |-> TRUE], [set |-> Flag, all |-> FALSE, clear |-> TRUE],
               [set |-> {"f1"}, all |-> FALSE, clear |-> FALSE]}
MCMixes == {Sem, Event, Mutex}

\* the two mutexes play the same part
Mutexes == Permutations(Mutex)
=============================================================================
