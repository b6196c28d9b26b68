---------------------------- MODULE MCSwdSession ----------------------------
(***************************************************************************)
(* Two tasks for the runs of SwdSession.                                   *)
(***************************************************************************)
EXTENDS SwdSession, TLC

CONSTANTS t1, t2, core0, core1

\* A pinned task and one that is not.
OneUnpinned == t1 :> core0 @@ t2 :> NoAffinity
=============================================================================
