------------------------- MODULE MCPriorityScheduler -------------------------
(***************************************************************************)
(* Small instances of PriorityScheduler for TLC.                           *)
(***************************************************************************)
EXTENDS PriorityScheduler, TLC

CONSTANTS base, k1, k2, k3, o1, o2

\* Keys and requests are interchangeable: while ordinals are unique, no tie between
\* generations is left to the order of the digests.
KeyAndRequestSymmetry == Permutations(Keys) \cup Permutations(Operators)
=============================================================================
