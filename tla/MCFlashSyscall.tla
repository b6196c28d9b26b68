---------------------------- MODULE MCFlashSyscall ----------------------------
(***************************************************************************)
(* Instances of FlashSyscall for TLC.                                       *)
(***************************************************************************)
EXTENDS FlashSyscall
=============================================================================
