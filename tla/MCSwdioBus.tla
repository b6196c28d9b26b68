----------------------------- MODULE MCSwdioBus -----------------------------
(***************************************************************************)
(* Instance of SwdioBus for TLC: the shortest and the longest turnaround,  *)
(* with and without idle cycles, and the full 33 bits of a data phase.     *)
(***************************************************************************)
EXTENDS SwdioBus
=============================================================================
