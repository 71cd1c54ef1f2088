----------------------- MODULE MCSettlementPublication -----------------------
(***************************************************************************)
(* Small instances of SettlementPublication for TLC.                       *)
(***************************************************************************)
EXTENDS SettlementPublication, TLC

CONSTANTS full, month, reviewed, final, compact, w1, w2

\* A full rebuild, a rebuild and a reviewed publication of the first month, a
\* finalize job of the last month.
MCScope == [j \in Jobs |-> IF j \in {month, reviewed} THEN {1}
                           ELSE IF j = final THEN {MaxMonth} ELSE Months]

\* Worker processes are interchangeable.
WorkerSymmetry == Permutations(Workers)
=============================================================================
