------------------------ MODULE SettlementPublication ------------------------
(***************************************************************************)
(* How settlement figures reach their readers: rebuild jobs, reviewed      *)
(* publications, the finalize stage of the daily pipeline and lineage      *)
(* compaction build generations of the projection and move the one active  *)
(* pointer, each under a lease on the shared heavy slot; stores confirm    *)
(* the bills that a publication writes; other jobs recompute fee results   *)
(* without the slot.  Every step below is one database transaction, or one *)
(* read that a later transaction depends on.                               *)
(***************************************************************************)
EXTENDS ProjectionLineage, Integers, FiniteSets

CONSTANTS
  MaxMonth,      \* the business months are 1..MaxMonth
  Rebuilds,      \* settlement_rebuild jobs that compute fees
  Reviewed,      \* publication-only jobs, admitted on a reviewed preview
  Finalizers,    \* finalize jobs of the daily pipeline
  Compactions,   \* settlement_compaction jobs
  Automatic,     \* those queued by automatic maintenance
  Scope,         \* the months a job may change
  Workers,       \* processes that execute heavy jobs
  NoOne,         \* no job, no claim
  MaxAttempts,   \* attempts of a job
  MaxVersion,    \* bound: versions of a month's fee results
  DepthLimit,    \* lineage depth beyond which no overlay is built
  MaintainDepth, \* lineage depth at which a tick is reserved for compaction
  FeeWriters,    \* months whose fee results also change outside the heavy slot
  Stores,        \* months whose bills get confirmed
  Disputed,      \* months whose bills get disputed
  Closed         \* months that may be locked: no job or request locks one

Months == 1..MaxMonth
Versions == 0..MaxVersion
Publishers == Rebuilds \cup Reviewed \cup Finalizers
Jobs == Publishers \cup Compactions
SettlementJobs == Rebuilds \cup Reviewed   \* job_name settlement_rebuild

ASSUME PublicationAssumption ==
  /\ MaxMonth \in Nat \ {0}
  /\ MaxAttempts \in Nat \ {0}
  /\ MaxVersion \in Nat
  /\ DepthLimit \in Nat \ {0}
  /\ MaintainDepth \in Nat \ {0}
  /\ Automatic \subseteq Compactions
  /\ Rebuilds \cap Reviewed = {}
  /\ SettlementJobs \cap Finalizers = {}
  /\ Publishers \cap Compactions = {}
  /\ Scope \in [Jobs -> (SUBSET Months) \ {{}}]
  /\ NoOne \notin Jobs \cup Workers
  /\ FeeWriters \subseteq Months /\ Stores \subseteq Months
  /\ Disputed \subseteq Months /\ Closed \subseteq Months

VARIABLES
  gens,     \* settlement_projection_generations, oldest first
  active,   \* settlement_projection_active: the generation readers follow
  src,      \* version of the current fee results of each month
  bill,     \* the current statement of each month
  row,      \* the job_runs rows
  order,    \* settlement_rebuild rows by started_at, oldest first
  target,   \* compaction base of each compaction job, 0 before it is queued
  review,   \* what the reviewer of a publication-only job was shown
  run,      \* what each worker process holds in memory
  event     \* jobs with a settlement_projection_published event

vars == <<gens, active, src, bill, row, order, target, review, run, event>>

\* protected_statement_condition: confirmed by its store (an invoice over it, or an
\* accepted dispute, protects it as well), locked, or under an open dispute.
Protected == {"disputed", "confirmed", "locked"}

\* _sparse_authority_relation: a protected bill is the authority for its month,
\* otherwise the current fee results are.
authority(m) == IF bill[m].status \in Protected THEN bill[m].src ELSE src[m]
Authority == [m \in Months |-> authority(m)]

\* What _preview hashes: the base, the sources and the state of the bills.
preview(j) == [base |-> active, sources |-> [m \in Scope[j] |-> authority(m)],
               bills |-> [m \in Scope[j] |-> bill[m]]]

Idle == [job |-> NoOne, pc |-> "idle", base |-> 0, months |-> {}, gen |-> 0, todo |-> {}]
Holding(j) == [Idle EXCEPT !.job = j, !.pc = "claimed"]

Row(status, attempts) == [status |-> status, attempts |-> attempts, claim |-> NoOne, lease |-> "none"]

\* Every variable has its type; a claim and its lease belong to a running row
\* (JobRun, SettlementProjectionGeneration, SettlementStatement).
TypeOK ==
  /\ gens \in Seq(Generation(Months, Versions, Jobs \cup {NoOne}))
  /\ active \in 1..Len(gens)
  /\ src \in [Months -> Versions]
  /\ bill \in [Months -> [src : Versions, status : {"pending"} \cup Protected]]
  /\ row \in [Jobs -> [status : {"absent", "queued", "running", "retry_wait", "success",
                                 "superseded", "failed"},
                       attempts : 0..MaxAttempts, claim : Workers \cup {NoOne},
                       lease : {"none", "live", "expired"}]]
  /\ \A j \in Jobs : (row[j].status = "running") = (row[j].claim # NoOne)
  /\ \A j \in Jobs : (row[j].status = "running") = (row[j].lease # "none")
  /\ order \in Seq(SettlementJobs)
  /\ target \in [Compactions -> Nat]
  /\ event \subseteq Jobs

Root == [kind |-> "root", base |-> 0, from |-> 0, depth |-> 0, job |-> NoOne, state |-> "published",
         months |-> Months, part |-> [m \in Months |-> 1],
         frozen |-> [m \in Months |-> 0], rows |-> [m \in Months |-> 0]]

Init ==
  /\ gens = <<Root>>
  /\ active = 1
  /\ src = [m \in Months |-> 0]
  /\ \E closed \in SUBSET Closed :
       bill = [m \in Months |-> [src |-> 0, status |-> IF m \in closed THEN "locked" ELSE "pending"]]
  /\ row = [j \in Jobs |-> Row("absent", 0)]
  /\ order = <<>>
  /\ target = [c \in Compactions |-> 0]
  /\ review = [j \in Reviewed |-> <<>>]
  /\ run = [w \in Workers |-> Idle]
  /\ event = {}

-----------------------------------------------------------------------------
(* Claims on the heavy slot.                                               *)

\* Mutant: only a compaction keeps others from the slot.
no_other_running_compaction(j) == \A k \in Compactions \ {j} : row[k].status # "running"

no_other_running_heavy_job(j) == \A k \in Jobs \ {j} : row[k].status # "running"

\* The scheduler turns to other heavy work only when process_automatic_settlement_
\* maintenance returns False: nothing pending for the active head, and the head
\* below the maintenance depth.
Reserved ==
  \/ gens[active].kind # "compact" /\ gens[active].depth >= MaintainDepth
  \/ \E c \in Automatic : \/ row[c].status = "running" /\ row[c].lease = "live"
                          \/ row[c].status \in {"queued", "running"} /\ target[c] = active

\* Mutant: the claim is written without its lease.
Claimed_unleased(j, w) == [status |-> "running", attempts |-> row[j].attempts + 1,
                           claim |-> w, lease |-> "none"]

Claimed(j, w) == [status |-> "running", attempts |-> row[j].attempts + 1,
                  claim |-> w, lease |-> "live"]

Position(j) == CHOOSE i \in 1..Len(order) : order[i] = j
MovedLast(j) ==
  Append(SubSeq(order, 1, Position(j) - 1) \o SubSeq(order, Position(j) + 1, Len(order)), j)

\* The live claim that every transaction of worker w re-checks before it commits
\* (_assert_active_settlement_rebuild_claim, _fence_settlement_compaction_commit,
\* _assert_live_fence).
Held(w) ==
  /\ run[w].job # NoOne
  /\ row[run[w].job] = [status |-> "running", attempts |-> row[run[w].job].attempts,
                        claim |-> w, lease |-> "live"]

\* A request queues a rebuild: an administrator's rule change, the close of a
\* month, a completed fee materialization, or a finished daily range.
Enqueue(j) ==
  /\ j \in Rebuilds \cup Finalizers
  /\ row[j].status = "absent"
  /\ row' = [row EXCEPT ![j] = Row("queued", 0)]
  /\ order' = IF j \in Rebuilds THEN Append(order, j) ELSE order
  /\ UNCHANGED <<gens, active, src, bill, target, review, run, event>>

Pending == {j \in SettlementJobs : row[j].status \in {"queued", "retry_wait"}}
Queued == {j \in SettlementJobs : row[j].status = "queued"}
Newest(S) == CHOOSE j \in S : \A k \in S : Position(k) <= Position(j)

Obsolete(j) == {k \in Pending : Position(k) < Position(j)}

\* claim_latest_settlement_rebuild_job: the newest queued row is claimed and the
\* pending rows before it close as superseded, whatever their months.
ClaimLatest(w) ==
  /\ run[w] = Idle
  /\ ~Reserved
  /\ \A j \in SettlementJobs : row[j].status # "running"
  /\ Queued # {}
  /\ LET j == Newest(Queued)
     IN  /\ no_other_running_heavy_job(j)
         /\ row[j].attempts < MaxAttempts
         /\ row' = [k \in Jobs |->
                      IF k = j THEN Claimed(j, w)
                      ELSE IF k \in Obsolete(j) THEN Row("superseded", row[k].attempts)
                      ELSE row[k]]
         /\ order' = MovedLast(j)
         /\ run' = [run EXCEPT ![w] = Holding(j)]
  /\ UNCHANGED <<gens, active, src, bill, target, review, event>>

\* preview_settlement_publication: a reviewer is shown what would be published.
Preview(j) ==
  /\ j \in Reviewed
  /\ row[j].status = "absent"
  /\ review[j] # preview(j)
  /\ \A m \in Scope[j] : bill[m].status # "locked"
  /\ review' = [review EXCEPT ![j] = preview(j)]
  /\ UNCHANGED <<gens, active, src, bill, row, order, target, run, event>>

\* apply_settlement_publication: the row is inserted, claimed and checked against
\* the reviewed preview in one transaction; it has a single attempt.
ApplyReviewed(w, j) ==
  /\ run[w] = Idle
  /\ row[j].status = "absent"
  /\ review[j] = preview(j)
  /\ \A m \in Scope[j] : bill[m].status # "locked"
  /\ no_other_running_heavy_job(j)
  /\ row' = [row EXCEPT ![j] = [status |-> "running", attempts |-> MaxAttempts,
                                claim |-> w, lease |-> "live"]]
  /\ order' = Append(order, j)
  /\ run' = [run EXCEPT ![w] = [Holding(j) EXCEPT !.pc = "plan"]]
  /\ UNCHANGED <<gens, active, src, bill, target, review, event>>

\* The daily worker claims a finalize row, or reclaims one whose lease ran out.
ClaimFinalize(w, j) ==
  /\ run[w] = Idle
  /\ ~Reserved
  /\ \/ row[j].status = "queued"
     \/ row[j].status = "running" /\ row[j].lease = "expired"
  /\ row[j].attempts < MaxAttempts
  /\ no_other_running_heavy_job(j)
  /\ row' = [row EXCEPT ![j] = Claimed(j, w)]
  /\ run' = [run EXCEPT ![w] = [Holding(j) EXCEPT !.pc = "plan"]]
  /\ UNCHANGED <<gens, active, src, bill, order, target, review, event>>

-----------------------------------------------------------------------------
(* Compaction jobs.                                                        *)

\* enqueue_settlement_compaction_job: one job per active, published, deep enough
\* head; automatic maintenance asks only at the maintenance depth.
EnqueueCompaction(c) ==
  /\ row[c].status = "absent"
  /\ gens[active].kind # "compact"
  /\ gens[active].depth >= IF c \in Automatic THEN MaintainDepth ELSE 1
  /\ \A d \in Compactions : target[d] # active
  /\ row' = [row EXCEPT ![c] = Row("queued", 0)]
  /\ target' = [target EXCEPT ![c] = active]
  /\ UNCHANGED <<gens, active, src, bill, order, review, run, event>>

\* claim_settlement_compaction_job.
ClaimCompaction(w, c) ==
  /\ run[w] = Idle
  /\ \/ row[c].status = "queued"
     \/ row[c].status = "running" /\ row[c].lease = "expired"
  /\ row[c].attempts < MaxAttempts
  /\ no_other_running_heavy_job(c)
  /\ row' = [row EXCEPT ![c] = Claimed(c, w)]
  /\ run' = [run EXCEPT ![w] = Holding(c)]
  /\ UNCHANGED <<gens, active, src, bill, order, target, review, event>>

\* Mutant: an expired job with no attempt left is not closed.
ReconcileCompaction_stale(c) ==
  /\ c \in Automatic
  /\ \/ row[c].status = "queued"
     \/ row[c].status = "running" /\ row[c].lease = "expired"
  /\ c \notin event /\ target[c] # active
  /\ row' = [row EXCEPT ![c] = Row("failed", row[c].attempts)]
  /\ UNCHANGED <<gens, active, src, bill, order, target, review, run, event>>

\* _reconcile_pending: an automatic job that is queued, or whose lease ran out,
\* closes when it already published, when its base is no longer the head, or when
\* its attempts are used up.
ReconcileCompaction(c) ==
  /\ c \in Automatic
  /\ \/ row[c].status = "queued"
     \/ row[c].status = "running" /\ row[c].lease = "expired"
  /\ \/ /\ c \in event
        /\ row' = [row EXCEPT ![c] = Row("success", row[c].attempts)]
     \/ /\ c \notin event
        /\ target[c] # active \/ row[c].attempts >= MaxAttempts
        /\ row' = [row EXCEPT ![c] = Row("failed", row[c].attempts)]
  /\ UNCHANGED <<gens, active, src, bill, order, target, review, run, event>>

CompactOf(c) == {g \in 1..Len(gens) : gens[g].kind = "compact" /\ gens[g].from = target[c]}

\* _compact_projection_metadata_locked up to the first page: the deterministic
\* generation is created, resumed, or cleaned up after a failed attempt.
StartCompaction(w) ==
  LET c == run[w].job
      fresh == [Root EXCEPT !.kind = "compact", !.from = target[c], !.state = "staging",
                            !.part = [m \in Months |-> 0]]
      existing == CHOOSE g \in CompactOf(c) : TRUE
  IN  /\ Held(w) /\ c \in Compactions
      /\ run[w].pc = "claimed"
      /\ active = target[c]
      /\ IF CompactOf(c) = {}
         THEN /\ gens' = Append(gens, fresh)
              /\ run' = [run EXCEPT ![w].pc = "page", ![w].gen = Len(gens) + 1, ![w].base = target[c]]
         ELSE /\ gens' = IF gens[existing].state = "failed"
                         THEN [gens EXCEPT ![existing] = fresh] ELSE gens
              /\ run' = [run EXCEPT ![w].pc = IF gens[existing].state = "ready" THEN "publish" ELSE "page",
                                    ![w].gen = existing, ![w].base = target[c]]
      /\ UNCHANGED <<active, src, bill, row, order, target, review, event>>

Unpaged(g) == {m \in Months : gens[g].part[m] = 0}
Least(S) == CHOOSE m \in S : \A n \in S : m <= n

\* Mutant: a compacted page points at the head instead of the owner of its rows.
PageRef_head(g, m) == gens[g].from

PageRef(g, m) == resolve(gens, gens[g].from, m)

\* One page of manifests is copied, in key order, while the base is the head.
CompactPage(w) ==
  LET g == run[w].gen
  IN  /\ Held(w) /\ run[w].job \in Compactions
      /\ run[w].pc = "page"
      /\ active = run[w].base
      /\ gens[g].state = "staging"
      /\ Unpaged(g) # {}
      /\ LET m == Least(Unpaged(g)) IN gens' = [gens EXCEPT ![g].part[m] = PageRef(g, m)]
      /\ UNCHANGED <<active, src, bill, row, order, target, review, run, event>>

\* The last page verified, the generation turns ready.
CompactReady(w) ==
  LET g == run[w].gen
  IN  /\ Held(w) /\ run[w].job \in Compactions
      /\ run[w].pc = "page"
      /\ active = run[w].base
      /\ gens[g].state = "staging"
      /\ Unpaged(g) = {}
      /\ gens' = [gens EXCEPT ![g].state = "ready"]
      /\ run' = [run EXCEPT ![w].pc = "publish"]
      /\ UNCHANGED <<active, src, bill, row, order, target, review, event>>

\* publish_settlement_compaction: the pointer moves and the job succeeds in one
\* transaction.
PublishCompaction(w) ==
  LET c == run[w].job
      g == run[w].gen
  IN  /\ Held(w) /\ c \in Compactions
      /\ run[w].pc = "publish"
      /\ gens[g].state = "ready" /\ active = gens[g].from
      /\ gens' = [gens EXCEPT ![g].state = "published"]
      /\ active' = g
      /\ event' = event \cup {c}
      /\ row' = [row EXCEPT ![c] = Row("success", row[c].attempts)]
      /\ run' = [run EXCEPT ![w] = Idle]
      /\ UNCHANGED <<src, bill, order, target, review>>

\* A failed attempt: the live claim returns to the queue or fails for good
\* (_fail_settlement_compaction_job), and the builder may have failed its generation
\* (_fail_compaction_generation); an expired claim is left for its reclaim.
FailCompaction(w) ==
  LET c == run[w].job
      g == run[w].gen
  IN  /\ c \in Compactions
      /\ \/ UNCHANGED gens
         \/ /\ Held(w) /\ g # 0
            /\ gens[g].state \in {"staging", "ready"}
            /\ gens' = [gens EXCEPT ![g].state = "failed"]
      /\ row' = IF Held(w)
                THEN [row EXCEPT ![c] = Row(IF row[c].attempts < MaxAttempts THEN "queued" ELSE "failed",
                                            row[c].attempts)]
                ELSE row
      /\ run' = [run EXCEPT ![w] = Idle]
      /\ UNCHANGED <<active, src, bill, order, target, review, event>>

\* _defer_automatic_claim: admission changed before the builder started; the
\* attempt is given back.
DeferCompaction(w) ==
  LET c == run[w].job
  IN  /\ Held(w) /\ c \in Automatic
      /\ run[w].pc = "claimed"
      /\ row' = [row EXCEPT ![c] = Row(IF target[c] = active THEN "queued" ELSE "failed",
                                       row[c].attempts - 1)]
      /\ run' = [run EXCEPT ![w] = Idle]
      /\ UNCHANGED <<gens, active, src, bill, order, target, review, event>>

-----------------------------------------------------------------------------
(* Rebuild jobs, reviewed publications and finalize jobs.                  *)

\* Fee results of some months of the job are recomputed and committed under the
\* claim (rebuild_settlement, rebuild_dual_fee_results).
CalculateFees(w) ==
  LET j == run[w].job
  IN  /\ Held(w) /\ j \in Rebuilds
      /\ run[w].pc = "claimed"
      /\ \E changed \in SUBSET {m \in Scope[j] : src[m] < MaxVersion} :
           src' = [m \in Months |-> IF m \in changed THEN src[m] + 1 ELSE src[m]]
      /\ run' = [run EXCEPT ![w].pc = "plan"]
      /\ UNCHANGED <<gens, active, bill, row, order, target, review, event>>

Locked == {m \in Months : bill[m].status = "locked"}
WholeWindow(j) == j \in Rebuilds /\ Scope[j] = Months

\* The generation whose id is derived from the job, its base and its months.
Identity(j, base, months) ==
  {g \in 1..Len(gens) : gens[g].job = j /\ gens[g].base = base /\ gens[g].months = months}

\* _lineage_refresh_plan and _supersede_obsolete_settlement_generations: the head
\* becomes the base, locked months are left out of a full rebuild and refused by
\* a scoped one, and unfinished generations of earlier attempts are retired.
Plan(w) ==
  LET j == run[w].job
      months == Scope[j] \ Locked
  IN  /\ Held(w) /\ j \in Publishers
      /\ run[w].pc = "plan"
      /\ sparse_base_chain(gens, active, DepthLimit)
      /\ months # {}
      /\ WholeWindow(j) \/ months = Scope[j]
      /\ run' = [run EXCEPT ![w].pc = IF j \in Finalizers THEN "start" ELSE "freeze",
                            ![w].base = active, ![w].months = months]
      /\ gens' = IF j \in Finalizers THEN gens
                 ELSE [g \in 1..Len(gens) |->
                         IF /\ gens[g].job = j /\ g \notin Identity(j, active, months)
                            /\ gens[g].state \in {"staging", "ready"}
                         THEN [gens[g] EXCEPT !.state = "superseded"] ELSE gens[g]]
      /\ UNCHANGED <<active, src, bill, row, order, target, review, event>>

\* _record_settlement_projection_noop: every month of a full rebuild is locked.
PlanNothing(w) ==
  LET j == run[w].job
  IN  /\ Held(w) /\ WholeWindow(j)
      /\ run[w].pc = "plan"
      /\ Scope[j] \subseteq Locked
      /\ run' = [run EXCEPT ![w].pc = "finish"]
      /\ UNCHANGED <<gens, active, src, bill, row, order, target, review, event>>

\* Mutant: the new generation keeps the depth of its base.
NewGeneration_flat(j, base, months, state, frozen) ==
  [kind |-> "lineage", base |-> base, from |-> 0, depth |-> gens[base].depth, job |-> j,
   state |-> state, months |-> months, part |-> [m \in Months |-> 0],
   frozen |-> frozen, rows |-> [m \in Months |-> 0]]

NewGeneration(j, base, months, state, frozen) ==
  [kind |-> "lineage", base |-> base, from |-> 0, depth |-> gens[base].depth + 1, job |-> j,
   state |-> state, months |-> months, part |-> [m \in Months |-> 0],
   frozen |-> frozen, rows |-> [m \in Months |-> 0]]

Captured(months) == [m \in Months |-> IF m \in months THEN authority(m) ELSE 0]

\* Mutant: what was frozen is not compared with what is captured now.
NoDrift_unchecked(w) == TRUE

\* The frozen bundle of w's generation, if there is one, is what is captured now.
NoDrift(w) ==
  \A g \in Identity(run[w].job, run[w].base, run[w].months) :
    gens[g].frozen = Captured(run[w].months)

\* Mutant: only the base of a reviewed publication is checked again.
AsReviewed_base(w) == run[w].job \in Reviewed => review[run[w].job].base = active

\* A reviewed publication is still what its reviewer saw (source_guard).
AsReviewed(w) == run[w].job \in Reviewed => review[run[w].job] = preview(run[w].job)

\* collect_billing_sources and freeze_billing_sources, with the base locked: the
\* bundle of the generation is written once and may only be found again.
Freeze(w) ==
  LET j == run[w].job
      mine == Identity(j, run[w].base, run[w].months)
  IN  /\ Held(w)
      /\ run[w].pc = "freeze"
      /\ active = run[w].base
      /\ AsReviewed(w)
      /\ NoDrift(w)
      /\ gens' = IF mine # {} THEN gens
                 ELSE Append(gens, NewGeneration(j, active, run[w].months, "captured",
                                                 Captured(run[w].months)))
      /\ run' = [run EXCEPT ![w].pc = "start",
                            ![w].gen = IF mine # {} THEN CHOOSE g \in mine : TRUE ELSE Len(gens) + 1]
      /\ UNCHANGED <<active, src, bill, row, order, target, review, event>>

\* build_settlement_sparse_overlay up to the first partition (and, for finalize,
\* _ensure_staging_generation): the generation is claimed as staging, or resumed.
StartBuild(w) ==
  LET j == run[w].job
      mine == Identity(j, run[w].base, run[w].months)
      g == IF mine = {} THEN Len(gens) + 1 ELSE CHOOSE x \in mine : TRUE
  IN  /\ Held(w)
      /\ run[w].pc = "start"
      /\ active = run[w].base
      /\ run[w].months \cap Locked = {}
      /\ mine # {} => gens[g].state \in {"captured", "staging", "ready"}
      /\ gens' = IF mine = {}
                 THEN Append(gens, NewGeneration(j, active, run[w].months, "staging", [m \in Months |-> 0]))
                 ELSE IF gens[g].state = "captured" THEN [gens EXCEPT ![g].state = "staging"] ELSE gens
      /\ run' = IF mine # {} /\ gens[g].state = "ready"
                THEN [run EXCEPT ![w].pc = "publish", ![w].gen = g]
                ELSE [run EXCEPT ![w].pc = "build", ![w].gen = g, ![w].todo = run[w].months]
      /\ UNCHANGED <<active, src, bill, row, order, target, review, event>>

\* _sparse_write_monthly_partition, in month order, one transaction each.
WritePartition(w) ==
  LET g == run[w].gen
      m == Least(run[w].todo)
  IN  /\ Held(w)
      /\ run[w].pc = "build"
      /\ run[w].todo # {}
      /\ gens[g].state = "staging" /\ active = run[w].base
      /\ gens' = [gens EXCEPT ![g].rows[m] = authority(m), ![g].part[m] = g]
      /\ run' = [run EXCEPT ![w].todo = @ \ {m}]
      /\ UNCHANGED <<active, src, bill, row, order, target, review, event>>

\* mark_settlement_sparse_overlay_ready, _ready_generation.
MarkReady(w) ==
  LET g == run[w].gen
  IN  /\ Held(w)
      /\ run[w].pc = "build"
      /\ run[w].todo = {}
      /\ gens[g].state = "staging" /\ active = run[w].base
      /\ gens' = [gens EXCEPT ![g].state = "ready"]
      /\ run' = [run EXCEPT ![w].pc = "publish"]
      /\ UNCHANGED <<active, src, bill, row, order, target, review, event>>

\* _validate_projection: the frozen sources of an unprotected bill add up to the
\* rows being published.
Billable(w, m) ==
  bill[m].status \in Protected \/ gens[run[w].gen].frozen[m] = gens[run[w].gen].rows[m]

\* generate_pending_statements: a protected bill is kept, any other is replaced by
\* a pending one over the frozen sources.
Billed(w) ==
  [m \in Months |->
     IF m \in run[w].months /\ bill[m].status \notin Protected
     THEN [src |-> gens[run[w].gen].frozen[m], status |-> "pending"] ELSE bill[m]]

\* The last transaction of refresh_active_settlement_lineage: the sources are
\* captured again and compared, the pointer moves, the event and the bills are
\* written.
Publish(w) ==
  LET j == run[w].job
      g == run[w].gen
  IN  /\ Held(w) /\ j \in SettlementJobs
      /\ run[w].pc = "publish"
      /\ active = run[w].base
      /\ AsReviewed(w)
      /\ NoDrift(w)
      /\ gens[g].state = "ready"
      /\ \A m \in run[w].months : Billable(w, m)
      /\ gens' = [gens EXCEPT ![g].state = "published"]
      /\ active' = g
      /\ event' = event \cup {j}
      /\ bill' = Billed(w)
      /\ run' = [run EXCEPT ![w].pc = "finish"]
      /\ UNCHANGED <<src, row, order, target, review>>

\* _ProjectionPublishMutation, in the transaction that ends the finalize stage: no
\* bill is written.
PublishFinalize(w) ==
  LET j == run[w].job
      g == run[w].gen
  IN  /\ Held(w) /\ j \in Finalizers
      /\ run[w].pc = "publish"
      /\ gens[g].state = "ready" /\ active = run[w].base
      /\ gens' = [gens EXCEPT ![g].state = "published"]
      /\ active' = g
      /\ event' = event \cup {j}
      /\ row' = [row EXCEPT ![j] = Row("success", row[j].attempts)]
      /\ run' = [run EXCEPT ![w] = Idle]
      /\ UNCHANGED <<src, bill, order, target, review>>

\* _finish_claimed_settlement_rebuild.
Finish(w) ==
  /\ Held(w)
  /\ run[w].pc = "finish"
  /\ row' = [row EXCEPT ![run[w].job] = Row("success", row[run[w].job].attempts)]
  /\ run' = [run EXCEPT ![w] = Idle]
  /\ UNCHANGED <<gens, active, src, bill, order, target, review, event>>

\* A step met SettlementMonthLockedError or BillingSourceDriftError, or the job
\* has a single attempt: only a new job may go on.
NewJobRequired(w) ==
  LET j == run[w].job
  IN  \/ j \in Reviewed
      \/ /\ run[w].pc = "plan" /\ j \in Rebuilds
         /\ ~WholeWindow(j) /\ Scope[j] \cap Locked # {}
      \/ run[w].pc \in {"freeze", "publish"} /\ j \in Rebuilds /\ ~NoDrift(w)

\* _fail_claimed_settlement_rebuild, fail_claimed_job of the daily worker: a job
\* that has published closes as a success.
FailedStatus(j, new) ==
  IF j \in event THEN "success"
  ELSE IF new \/ row[j].attempts >= MaxAttempts THEN "failed" ELSE "retry_wait"

\* An exception ends the attempt: anything may fail at any step.  Without the live
\* claim the row is left alone.
Fail(w) ==
  LET j == run[w].job
  IN  /\ j \in Publishers
      /\ row' = IF Held(w) THEN [row EXCEPT ![j] = Row(FailedStatus(j, NewJobRequired(w)), row[j].attempts)]
                ELSE row
      /\ run' = [run EXCEPT ![w] = Idle]
      /\ UNCHANGED <<gens, active, src, bill, order, target, review, event>>

-----------------------------------------------------------------------------
(* Leases, recovery, and the world outside the heavy slot.                 *)

\* The worker process dies.
Die(w) ==
  /\ run[w] # Idle
  /\ run' = [run EXCEPT ![w] = Idle]
  /\ UNCHANGED <<gens, active, src, bill, row, order, target, review, event>>

\* A lease runs out: its holder is dead, or could not renew it in time.
Expire(j) ==
  /\ row[j].lease = "live"
  /\ row' = [row EXCEPT ![j].lease = "expired"]
  /\ UNCHANGED <<gens, active, src, bill, order, target, review, run, event>>

\* _release_due_retries.
ReleaseRetry(j) ==
  /\ row[j].status = "retry_wait"
  /\ row' = [row EXCEPT ![j] = Row("queued", row[j].attempts)]
  /\ UNCHANGED <<gens, active, src, bill, order, target, review, run, event>>

\* Mutant: a stale job is requeued although it has published.
RecoveredStatus_unreconciled(j) ==
  IF row[j].attempts >= MaxAttempts THEN "failed" ELSE "queued"

RecoveredStatus(j) ==
  IF j \in event THEN "success"
  ELSE IF row[j].attempts >= MaxAttempts THEN "failed" ELSE "queued"

\* _recover_stale_settlement_rebuilds; a finalize row is reclaimed instead, and
\* fails once its attempts are used up.
Recover(j) ==
  /\ row[j].status = "running" /\ row[j].lease = "expired"
  /\ \/ j \in SettlementJobs
     \/ j \in Finalizers /\ row[j].attempts >= MaxAttempts
  /\ row' = [row EXCEPT ![j] = Row(RecoveredStatus(j), row[j].attempts)]
  /\ UNCHANGED <<gens, active, src, bill, order, target, review, run, event>>

\* Fee results are recomputed by a job that does not hold the heavy slot: the
\* manual sync, the coupon pipeline, the missing-fee repair.
MaterializeFees(m) ==
  /\ m \in FeeWriters
  /\ src[m] < MaxVersion
  /\ src' = [src EXCEPT ![m] = @ + 1]
  /\ UNCHANGED <<gens, active, bill, row, order, target, review, run, event>>

\* A store confirms its current bill (confirm_settlement_statement).
Confirm(m) ==
  /\ m \in Stores
  /\ bill[m].status = "pending"
  /\ bill' = [bill EXCEPT ![m].status = "confirmed"]
  /\ UNCHANGED <<gens, active, src, row, order, target, review, run, event>>

\* A dispute protects the bill as long as it is open; withdrawn or rejected, the
\* protection lapses.
Dispute(m) ==
  /\ m \in Disputed
  /\ bill[m].status = "pending"
  /\ bill' = [bill EXCEPT ![m].status = "disputed"]
  /\ UNCHANGED <<gens, active, src, row, order, target, review, run, event>>

CloseDispute(m) ==
  /\ bill[m].status = "disputed"
  /\ bill' = [bill EXCEPT ![m].status = "pending"]
  /\ UNCHANGED <<gens, active, src, row, order, target, review, run, event>>

Step(w) ==
  \/ StartCompaction(w) \/ CompactPage(w) \/ CompactReady(w) \/ PublishCompaction(w)
  \/ CalculateFees(w) \/ Plan(w) \/ PlanNothing(w) \/ Freeze(w) \/ StartBuild(w)
  \/ WritePartition(w) \/ MarkReady(w) \/ Publish(w) \/ PublishFinalize(w) \/ Finish(w)

Claim(w) ==
  \/ ClaimLatest(w)
  \/ \E j \in Finalizers : ClaimFinalize(w, j)
  \/ \E c \in Compactions : ClaimCompaction(w, c)

Next ==
  \/ \E w \in Workers : Step(w) \/ Claim(w) \/ Fail(w) \/ FailCompaction(w) \/ DeferCompaction(w) \/ Die(w)
  \/ \E w \in Workers, j \in Reviewed : ApplyReviewed(w, j)
  \/ \E j \in Reviewed : Preview(j)
  \/ \E j \in Jobs : Enqueue(j) \/ Expire(j) \/ ReleaseRetry(j) \/ Recover(j)
  \/ \E c \in Compactions : EnqueueCompaction(c) \/ ReconcileCompaction(c)
  \/ \E m \in Months : MaterializeFees(m) \/ Confirm(m) \/ Dispute(m) \/ CloseDispute(m)

\* A queue tick repeats recovery, release and claiming; a live worker goes on to
\* its next step or fails; the lease of a dead worker runs out.
Fairness ==
  /\ \A w \in Workers : WF_vars(Step(w) \/ Fail(w) \/ FailCompaction(w) \/ DeferCompaction(w))
  /\ WF_vars(\E w \in Workers : Claim(w))
  /\ \A j \in Jobs : WF_vars(ReleaseRetry(j)) /\ WF_vars(Recover(j))
  /\ \A j \in Jobs : WF_vars((\A w \in Workers : run[w].job # j) /\ Expire(j))
  /\ \A c \in Compactions : WF_vars(ReconcileCompaction(c))

Spec == Init /\ [][Next]_vars
FairSpec == Spec /\ Fairness

-----------------------------------------------------------------------------
(* Properties.                                                             *)

Lineage == lineage_ids(gens, active)
Owner(m) == resolve(gens, active, m)
View == [m \in Months |-> gens[Owner(m)].rows[m]]

\* Every reader of the active pointer finds a sound chain: only published
\* generations, a depth that counts them, and for every month a published
\* generation that really holds its rows (_sparse_base_chain and
\* resolve_projection_partitions never refuse the head).
LineageSound ==
  /\ \A i \in 1..Len(Lineage) : gens[Lineage[i]].state = "published"
  /\ gens[active].depth = Len(Lineage) - 1
  /\ \A m \in Months : /\ Owner(m) # 0
                       /\ gens[Owner(m)].state = "published"
                       /\ m \in gens[Owner(m)].months
                       /\ gens[Owner(m)].kind # "compact"

\* The heavy slot alone protects the head: whoever holds a live claim and has
\* chosen a base still finds it active, so the compare-and-set of a publication
\* only ever refuses a worker that has lost its lease.
LiveClaimOwnsHead ==
  \A w \in Workers : Held(w) /\ run[w].base # 0 /\ run[w].pc # "finish" => active = run[w].base

\* What readers see of a month that a rebuild published is what its store is
\* billed (generate_pending_statements against the projection it publishes).
BilledAsPublished ==
  \A m \in Months : gens[Owner(m)].job \in SettlementJobs => bill[m].src = gens[Owner(m)].rows[m]

\* A publication is never reported as anything else: however its worker ended, a
\* job whose event is recorded is still running or has succeeded.
PublicationNotLost ==
  \A j \in event : row[j].status \in {"running", "success"}

\* A reviewed publication puts before the readers exactly the sources its reviewer
\* was shown, whatever happened to fees and bills in between.
ReviewedIsPublished ==
  \A g \in 1..Len(gens) :
    gens[g].state = "published" /\ gens[g].job \in Reviewed =>
      \A m \in gens[g].months : gens[g].rows[m] = review[gens[g].job].sources[m]

\* Readers see what the abstract specification allows: compaction, retries and
\* crashes change nothing, and every job publishes its months once.
Served == INSTANCE SettlementView WITH
            Jobs <- Publishers, view <- View, published <- event \cap Publishers
ServedView == Served!Spec

\* Whatever happens to its worker, a job gives the heavy slot back.
HeavySlotFreed ==
  \A j \in Jobs : row[j].status = "running" ~> row[j].status # "running"
=============================================================================
