------------------------------ MODULE BusTurns ------------------------------
(***************************************************************************)
(* What README.md promises of the SWDIO wire between the translator and    *)
(* the target: it has one driver at a time, and between the host's and the *)
(* target's turn it is released ("isolate the translator before DIR").     *)
(***************************************************************************)
VARIABLE driver

Drivers == {"none", "host", "target"}

Init == driver = "none"

Release == driver' = "none"
Drive   == driver = "none" /\ driver' \in Drivers

Next == Release \/ Drive

Spec == Init /\ [][Next]_driver
=============================================================================
