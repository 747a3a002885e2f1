----------------------------- MODULE MCSplitCopy -----------------------------
(* Instances of SplitCopy: tables that do and do not reach the threshold,   *)
(* plans with and without a remainder, and integers of eight bits.          *)
EXTENDS SplitCopy

MCSizes == {[num |-> 2, shift |-> 0], [num |-> 1, shift |-> 4]}
=============================================================================
