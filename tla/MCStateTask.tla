----------------------------- MODULE MCStateTask -----------------------------
(* Small instances of StateTask: all routes belong to group 0.              *)
EXTENDS StateTask

AllInOne == [r \in 0 .. 2 |-> 0]
BothInOne == [r \in 0 .. 1 |-> 0]
=============================================================================
