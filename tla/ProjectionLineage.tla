-------------------------- MODULE ProjectionLineage --------------------------
(***************************************************************************)
(* The generations of the settlement projection and how a reader resolves  *)
(* a month through them.  A generation either overlays its base with the   *)
(* partitions it rebuilt (kind lineage) or restates every partition of a   *)
(* whole chain by reference (kind compact); the chain of a generation ends *)
(* at a compact generation or at the bootstrapped root.                    *)
(***************************************************************************)
EXTENDS Naturals, Sequences

\* A generation is its position in the sequence of generations.  part[m] is the
\* generation whose rows hold month m, 0 where this generation has no manifest
\* of m; base is 0 for a terminal generation (base_generation_id NULL).
Generation(Months, Versions, Jobs) ==
  [kind : {"root", "lineage", "compact"}, base : Nat, from : Nat, depth : Nat, job : Jobs,
   state : {"captured", "staging", "ready", "published", "failed", "superseded"},
   months : SUBSET Months, part : [Months -> Nat],
   frozen : [Months -> Versions], rows : [Months -> Versions]]

\* lineage_ids: the generation, its base, and so on down to the terminal one.
lineage_ids(gens, g) ==
  LET chain[n \in 1..g] ==
        IF gens[n].base = 0 THEN <<n>> ELSE <<n>> \o chain[gens[n].base]
  IN  chain[g]

\* _sparse_base_chain accepts g as the base of a new overlay.
sparse_base_chain(gens, g, limit) ==
  LET ids == lineage_ids(gens, g)
  IN  /\ gens[g].state = "published"
      /\ gens[g].depth < limit
      /\ \A i \in 1..Len(ids) : gens[ids[i]].state = "published"
      /\ gens[ids[Len(ids)]].kind \in {"root", "compact"}
      /\ gens[g].kind # "compact" => Len(ids) = gens[g].depth + 1

\* resolve_projection_partitions: the nearest generation of the chain of g that
\* has a manifest of month m names the generation that holds its rows.
resolve(gens, g, m) ==
  LET owner[n \in 1..g] ==
        IF gens[n].part[m] # 0 THEN gens[n].part[m]
        ELSE IF gens[n].base = 0 THEN 0 ELSE owner[gens[n].base]
  IN  owner[g]
=============================================================================
