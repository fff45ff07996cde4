------------------------------ MODULE MCShine ------------------------------
(* Instances of Shine for TLC. *)
EXTENDS Shine

\* two stages, the second longer than the first
MCStageTime == [s \in 0 .. NStages - 1 |-> s + 1]
=============================================================================
