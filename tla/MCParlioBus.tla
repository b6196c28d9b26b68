----------------------------- MODULE MCParlioBus -----------------------------
(***************************************************************************)
(* Instance of ParlioBus for TLC: every order of input and output within   *)
(* two sequences of one command.                                           *)
(***************************************************************************)
EXTENDS ParlioBus

Of(S, k) == [1..k -> S]
UpToTwo  == Of({"din", "dout"}, 1) \union Of({"din", "dout"}, 2)
=============================================================================
