--------------------------- MODULE MCJobControl ---------------------------
(***************************************************************************)
(* Small instances of JobControl for TLC.                                  *)
(***************************************************************************)
EXTENDS JobControl

CONSTANTS d1, d2, p1, f1, w1, w2, o1, o2

\* date and parent rows have two required stages, finalize has one.
MCStageCount == [j \in Jobs |-> IF j \in FinalizeJobs THEN 1 ELSE 2]
MCOneStage == [j \in Jobs |-> 1]
=============================================================================
