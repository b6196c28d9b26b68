------------------------------ MODULE MCSpiBus -------------------------------
(***************************************************************************)
(* Instance of SpiBus for TLC: every order of input and output within two  *)
(* sequences of one command.                                               *)
(***************************************************************************)
EXTENDS SpiBus

Of(k)   == [1..k -> {"din", "dout"}]
UpToTwo == Of(1) \union Of(2)
=============================================================================
