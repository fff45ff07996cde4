----------------------------- MODULE Allocator -----------------------------
(***************************************************************************)
(* What a heap promises to the callers of rt_malloc, rt_realloc and        *)
(* rt_free: the memory it hands out lies inside the heap, has at least the *)
(* size asked for, is nobody else's, and stays until it is given back.     *)
(***************************************************************************)
EXTENDS Naturals, FiniteSets

CONSTANT Space      \* the addresses of the heap

VARIABLE live       \* the pieces handed out: [at, to, need]

Apart(x, y) == x.to < y.at \/ y.to < x.at

Proper(x) == x.at \in Space /\ x.to \in Space /\ x.need <= x.to - x.at + 1

Init == live = {}

Give == \E x \in live' : /\ live' = live \cup {x} /\ Proper(x)
                         /\ \A y \in live : Apart(x, y)

Take == \E x \in live : live' = live \ {x}

\* a piece keeps its place and gives back its end
Shrink == \E x \in live : \E y \in live' :
              /\ y.at = x.at /\ y.to <= x.to /\ Proper(y)
              /\ live' = (live \ {x}) \cup {y}

Next == Give \/ Take \/ Shrink

Spec == Init /\ [][Next]_live
=============================================================================
