------------------------------- MODULE MCHeap -------------------------------
(* A thread that may be deleted and one that reclaims; four blocks of the least size fill the heap. *)
EXTENDS Heap
=============================================================================
