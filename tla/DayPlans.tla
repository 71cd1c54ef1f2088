------------------------------ MODULE DayPlans ------------------------------
(***************************************************************************)
(* The plans of business days: every day has a base generation and up to   *)
(* MAX_RECOVERY_GENERATIONS recovery generations, each one a range_sync    *)
(* row with a parent_sync, a date_sync and, later, a finalize row.  This   *)
(* module holds the rows, what reconciliation and a claim by job id make   *)
(* of them, which generation owns a day, and plan_day_recovery.  Leases,   *)
(* attempts and checkpoints of one row are the subject of JobControl; here *)
(* a row is its status, the attempts it used and the state of its lease.   *)
(***************************************************************************)
EXTENDS Naturals, Sequences, FiniteSets

CONSTANTS
  MaxDay,          \* bound: business days 1..MaxDay, a larger one is newer
  Keys,            \* recovery request keys (Idempotency-Key of the request)
  Base,            \* the generation of PRIORITY_CONFIG_VERSION
  MaxAttempts,     \* max_attempts of a row
  MaxGenerations   \* MAX_RECOVERY_GENERATIONS

Days == 1..MaxDay
Gens == Keys \cup {Base}
Kinds == {"parent_sync", "date_sync", "finalize"}
Plans == Days \X Gens
Jobs == Days \X Gens \X Kinds

ASSUME DayAssumption == MaxDay \in Nat \ {0} /\ Base \notin Keys
ASSUME BudgetAssumption == MaxAttempts \in Nat \ {0} /\ MaxGenerations \in Nat

VARIABLES
  range,     \* status of the range_sync row of each plan
  row,       \* its heavy_sync rows
  ordinal,   \* recovery_ordinal in the metadata of each range row, 0 for Base
  ledger     \* recovery_generations in the metadata of each base range row

dayVars == <<range, row, ordinal, ledger>>

Terminal == {"success", "failed", "cancelled"}
RangeStatuses == Terminal \cup {"absent", "pending", "retry_wait"}
Row == [status : Terminal \cup {"absent", "pending", "retry_wait", "running"},
        used : Nat, lease : {"none", "live", "expired"}]
Entry == [ordinal : Nat, key : Keys]

AbsentRow == [status |-> "absent", used |-> 0, lease |-> "none"]
NewRow == [AbsentRow EXCEPT !.status = "pending"]
Closed(r, s) == [r EXCEPT !.status = s, !.lease = "none"]

DayInit ==
  /\ range = [p \in Plans |-> "absent"]
  /\ row = [j \in Jobs |-> AbsentRow]
  /\ ordinal = [p \in Plans |-> 0]
  /\ ledger = [d \in Days |-> <<>>]

-----------------------------------------------------------------------------
(* plan_daily_sync: insert-or-nothing of the range, parent_sync and        *)
(* date_sync rows of a plan.                                               *)

PlannedRange(d, g) ==
  [range EXCEPT ![<<d, g>>] = IF @ = "absent" THEN "pending" ELSE @]

PlannedRows(d, g) ==
  [j \in Jobs |->
     IF j[1] = d /\ j[2] = g /\ j[3] # "finalize" /\ row[j].status = "absent"
     THEN NewRow ELSE row[j]]

-----------------------------------------------------------------------------
(* Reconciliation, at the start of every _start_attempt.                   *)

Collected(rw, d, g) ==
  /\ rw[<<d, g, "parent_sync">>].status = "success"
  /\ rw[<<d, g, "date_sync">>].status = "success"

reconcile_terminal_range_parents(rw, rg) ==
  [p \in Plans |->
     IF /\ rg[p] \in {"pending", "retry_wait"}
        /\ rw[<<p[1], p[2], "date_sync">>].status \in {"failed", "cancelled"}
     THEN "failed" ELSE rg[p]]

enqueue_finalize_if_ready(rw, d, g) ==
  [rw EXCEPT ![<<d, g, "finalize">>] =
     IF @.status = "absent" /\ Collected(rw, d, g) THEN NewRow ELSE @]

reconcile_finalize_queue(rw, rg) ==
  [j \in Jobs |-> IF rg[<<j[1], j[2]>>] \in {"pending", "retry_wait"}
                  THEN enqueue_finalize_if_ready(rw, j[1], j[2])[j]
                  ELSE rw[j]]

promote_range_parent_if_ready(rw, rg) ==
  [p \in Plans |->
     IF /\ rw[<<p[1], p[2], "finalize">>].status = "success"
        /\ Collected(rw, p[1], p[2])
     THEN "success" ELSE rg[p]]

ReconciledRows ==
  reconcile_finalize_queue(row, reconcile_terminal_range_parents(row, range))
ReconciledRange ==
  promote_range_parent_if_ready(ReconciledRows,
                                reconcile_terminal_range_parents(row, range))

-----------------------------------------------------------------------------
(* Which generation owns a day.                                            *)

\* winning_generation: the planned generation with the greatest ordinal; the
\* request digest, an arbitrary order, breaks ties.
winning_generation(rg, d) ==
  LET planned == {g \in Gens : rg[<<d, g>>] # "absent"}
  IN  CHOOSE g \in planned : \A h \in planned : ordinal[<<d, h>>] <= ordinal[<<d, g>>]

\* The rows of the generation that owns day d.
OwnedJobs(rg, rw, d) ==
  {j \in Jobs : /\ j[1] = d
                /\ j[2] = winning_generation(rg, d)
                /\ rw[j].status # "absent"}

\* _day_state: the owner alone decides; a cancelled owner is an incomplete day.
day_state(rg, rw, d) ==
  IF rg[<<d, Base>>] = "absent" THEN "missing"
  ELSE LET owner == winning_generation(rg, d)
           owned == OwnedJobs(rg, rw, d)
       IN  IF rg[<<d, owner>>] = "failed" \/ \E j \in owned : rw[j].status = "failed"
           THEN "failed"
           ELSE IF /\ rg[<<d, owner>>] = "success"
                   /\ <<d, owner, "finalize">> \in owned
                   /\ \A j \in owned : rw[j].status = "success"
                THEN "success" ELSE "incomplete"

DayState(d) == day_state(range, row, d)

-----------------------------------------------------------------------------
(* claim_job(job_id) inside _start_attempt, and how an attempt ends.       *)

parent_sync_gate_allows_claim(rg, rw, j) ==
  /\ j[3] = "finalize" => rg[<<j[1], j[2]>>] \notin Terminal
  /\ j[3] = "date_sync" => rw[<<j[1], j[2], "parent_sync">>].status = "success"

no_other_running_heavy_job(rw, j) == \A k \in Jobs \ {j} : rw[k].status # "running"

ExpiredRunning(rw, j) == rw[j].status = "running" /\ rw[j].lease = "expired"

ClaimCandidate(j) ==
  LET rw == ReconciledRows IN
    /\ \/ /\ rw[j].status \in {"pending", "retry_wait"}
          /\ rw[j].used < MaxAttempts
          /\ j[3] = "date_sync" => parent_sync_gate_allows_claim(ReconciledRange, rw, j)
       \/ ExpiredRunning(rw, j)
    /\ no_other_running_heavy_job(rw, j)

\* The claim of row j is granted: one more attempt, under a live lease.
GrantClaim(j) ==
  /\ ClaimCandidate(j)
  /\ parent_sync_gate_allows_claim(ReconciledRange, ReconciledRows, j)
  /\ ReconciledRows[j].used < MaxAttempts
  /\ range' = ReconciledRange
  /\ row' = [ReconciledRows EXCEPT ![j] =
               [status |-> "running", used |-> @.used + 1, lease |-> "live"]]
  /\ UNCHANGED <<ordinal, ledger>>

\* The expired lease cannot be taken over: no attempt is left, or its plan no
\* longer admits it and it is quarantined.
FailClaim(j) ==
  /\ ClaimCandidate(j)
  /\ ExpiredRunning(ReconciledRows, j)
  /\ \/ ~parent_sync_gate_allows_claim(ReconciledRange, ReconciledRows, j)
     \/ ReconciledRows[j].used >= MaxAttempts
  /\ range' = ReconciledRange
  /\ row' = [ReconciledRows EXCEPT ![j] = Closed(@, "failed")]
  /\ UNCHANGED <<ordinal, ledger>>

\* No claim; what reconciliation did is committed all the same.
RefuseClaim(j) ==
  /\ \/ ~ClaimCandidate(j)
     \/ /\ ~ExpiredRunning(ReconciledRows, j)
        /\ ~parent_sync_gate_allows_claim(ReconciledRange, ReconciledRows, j)
  /\ range' = ReconciledRange
  /\ row' = ReconciledRows
  /\ UNCHANGED <<ordinal, ledger>>

\* Some other heavy job (a dimension refresh) starts and reconciles every plan.
OtherHeavyJobStarts ==
  /\ <<ReconciledRange, ReconciledRows>> # <<range, row>>
  /\ range' = ReconciledRange
  /\ row' = ReconciledRows
  /\ UNCHANGED <<ordinal, ledger>>

\* complete_job: a date enqueues finalize, a finalize promotes its range.
CompleteJob(j) ==
  LET rw == [row EXCEPT ![j] = Closed(@, "success")] IN
    /\ row[j].status = "running" /\ row[j].lease = "live"
    /\ row' = IF j[3] = "date_sync" THEN enqueue_finalize_if_ready(rw, j[1], j[2]) ELSE rw
    /\ range' = IF j[3] = "finalize"
                THEN [range EXCEPT ![<<j[1], j[2]>>] =
                        promote_range_parent_if_ready(rw, range)[<<j[1], j[2]>>]]
                ELSE range
    /\ UNCHANGED <<ordinal, ledger>>

\* fail_job: retry while attempts are left, unless the failure is fatal.
FailJob(j) ==
  /\ row[j].status = "running" /\ row[j].lease = "live"
  /\ \E s \in {"retry_wait", "failed"} :
       /\ s = "retry_wait" => row[j].used < MaxAttempts
       /\ row' = [row EXCEPT ![j] = Closed(@, s)]
  /\ UNCHANGED <<range, ordinal, ledger>>

LeaseExpires(j) ==
  /\ row[j].status = "running" /\ row[j].lease = "live"
  /\ row' = [row EXCEPT ![j].lease = "expired"]
  /\ UNCHANGED <<range, ordinal, ledger>>

-----------------------------------------------------------------------------
(* plan_day_recovery, on the locked base range row.                        *)

\* _pending_finalize_is_stopped: collected, and finalize has spent its attempts.
pending_finalize_is_stopped(d, g) ==
  /\ range[<<d, g>>] = "pending"
  /\ Collected(row, d, g)
  /\ row[<<d, g, "finalize">>].status = "failed"
  /\ row[<<d, g, "finalize">>].used >= MaxAttempts

DateIsBlocked(d) ==
  /\ row[<<d, Base, "parent_sync">>].status = "success"
  /\ row[<<d, Base, "date_sync">>].status = "failed"
  /\ row[<<d, Base, "date_sync">>].used >= MaxAttempts

\* Mutant: any planned day may be recovered.
any_planned_day(d) == range[<<d, Base>>] # "absent"

\* _assert_terminal_shape and _active_children.
recoverable(d) ==
  /\ \/ range[<<d, Base>>] \in {"failed", "cancelled"}
     \/ /\ range[<<d, Base>>] = "pending"
        /\ pending_finalize_is_stopped(d, Base) \/ DateIsBlocked(d)
  /\ \A k \in Kinds : LET r == row[<<d, Base, k>>]
                      IN  ~(r.status = "running" /\ r.lease = "live")

\* _in_flight_generation: a recorded generation that may still run, the newest one
\* excepted when it is stopped.
in_flight_generation(d) ==
  \E i \in DOMAIN ledger[d] :
    LET key == ledger[d][i].key IN
      /\ range[<<d, key>>] \notin Terminal
      /\ ~(/\ \A h \in DOMAIN ledger[d] : ledger[d][h].ordinal <= ledger[d][i].ordinal
           /\ ordinal[<<d, key>>] = ledger[d][i].ordinal
           /\ pending_finalize_is_stopped(d, key))

Recorded(d, key) == \E i \in DOMAIN ledger[d] : ledger[d][i].key = key

RecoveryAllowed(d, key) ==
  /\ recoverable(d)
  /\ ~Recorded(d, key)
  /\ Len(ledger[d]) < MaxGenerations
  /\ ~in_flight_generation(d)

\* Mutant: the generation is planned and its ledger entry is not written.
plan_unrecorded(d, key) ==
  /\ RecoveryAllowed(d, key)
  /\ range' = PlannedRange(d, key)
  /\ row' = PlannedRows(d, key)
  /\ ordinal' = [ordinal EXCEPT ![<<d, key>>] = Len(ledger[d]) + 1]
  /\ UNCHANGED ledger

plan_day_recovery(d, key) ==
  /\ RecoveryAllowed(d, key)
  /\ range' = PlannedRange(d, key)
  /\ row' = PlannedRows(d, key)
  /\ ordinal' = [ordinal EXCEPT ![<<d, key>>] = Len(ledger[d]) + 1]
  /\ ledger' = [ledger EXCEPT ![d] =
                  Append(@, [ordinal |-> Len(@) + 1, key |-> key])]
=============================================================================
