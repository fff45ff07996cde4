---------------------------- MODULE MCThreadLife ----------------------------
(* Instances of ThreadLife for TLC. *)
EXTENDS ThreadLife

CONSTANTS b1, b2, b3
=============================================================================
