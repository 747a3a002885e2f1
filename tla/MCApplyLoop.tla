----------------------------- MODULE MCApplyLoop -----------------------------
(* Instances of ApplyLoop: a lag of 0, within and above the threshold all   *)
(* occur, and four polls without progress in a row.                         *)
EXTENDS ApplyLoop
=============================================================================
