------------------------------ MODULE MCRs485 ------------------------------
(* Requests that differ in every place, to this slave, to another address and to all. *)
EXTENDS Rs485

Read(to, reg, n) == [to |-> to, fn |-> 3, reg |-> reg, hi |-> 0, lo |-> n]
Write(to, reg, hi, lo) == [to |-> to, fn |-> 6, reg |-> reg, hi |-> hi, lo |-> lo]

MCRequests ==
    {Read(1, 0, 6), Read(0, 11, 9), Write(1, 0, 0, 2), Read(2, 0, 20), Write(1, 13, 1, 44), Write(1, 13, 0, 9), Write(1, 3, 0, 44),
     Write(0, 18, 0, 7)}

MCPanelSettings == {[name |-> "time1", val |-> 300]}
=============================================================================
