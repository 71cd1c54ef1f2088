----------------------------- MODULE JobControl -----------------------------
(***************************************************************************)
(* The worker control plane: the leased, fenced life of the heavy_sync     *)
(* rows of one range plan in job_runs, with their job_attempts,            *)
(* component_heartbeats and job_stage_runs rows.                           *)
(*                                                                         *)
(* Actors: supervisor instances (SubprocessSupervisor), the child process  *)
(* each of them spawns (run_daily_stages), super-admin requests            *)
(* (routes/operations.py) and the database clock.  Every action is one     *)
(* committed PostgreSQL transaction or one local step of a process; the    *)
(* row locks and the claim advisory lock make a transaction atomic, except *)
(* the admin request, which reads its row unlocked and writes it later.    *)
(***************************************************************************)
EXTENDS Naturals, Sequences, FiniteSets, RetryPolicy

CONSTANTS
  DateJobs,      \* the date_sync children of the plan
  ParentSyncs,   \* its parent_sync execution row, or {} (empty parent_targets)
  FinalizeJobs,  \* its deterministic finalize row, absent until enqueued
  Priority,      \* the rows whose config_version is a priority-daily one
  StageCount,    \* number of required_stages of each row
  Workers,       \* supervisor instances: one component id, one lease owner each
  CrashProne,    \* the instances whose process may die
  Operators,     \* concurrent admin requests
  Requests,      \* the control actions they ask for
  LeaseTicks,    \* clock ticks a renewed lease lasts
  MaxPauses,     \* bound: scheduler pauses of one row
  NoOne          \* the SQL NULL of owners, tokens and bindings

Jobs == DateJobs \cup ParentSyncs \cup FinalizeJobs

ASSUME PlanAssumption ==
  /\ IsFiniteSet(DateJobs) /\ DateJobs # {}
  /\ DateJobs \cap (ParentSyncs \cup FinalizeJobs) = {}
  /\ ParentSyncs \cap FinalizeJobs = {}
  /\ Priority \subseteq Jobs
  /\ StageCount \in [Jobs -> Nat \ {0}]
ASSUME ActorAssumption ==
  /\ CrashProne \subseteq Workers
  /\ Requests \subseteq {"cancel", "retry"}
  /\ NoOne \notin Workers
  /\ NoOne \notin [job : Jobs, number : Nat]   \* NULL binds a component to nothing
ASSUME BoundAssumption ==
  /\ LeaseTicks \in Nat \ {0}
  /\ MaxPauses \in Nat

VARIABLES
  status, attempt_count, lease_epoch, quota_pause_count,
  lease_owner,   \* NoOne: lease_owner and lease_expires_at are both NULL
  lease,         \* ticks left until lease_expires_at; 0 when it has passed
  next_retry,    \* next_retry_at: "null", "future" or "due"
  error_code,
  range,         \* status of the range_sync parent row
  attempts,      \* the job_attempts rows of each job, in insertion order
  comp,          \* component_heartbeats: the attempt each instance is bound to
  stage,         \* job_stage_runs: status and lease_epoch of each required stage
  sup,           \* where each supervisor instance is in _run_locked
  token,         \* the LeaseToken that it and its child hold
  child,         \* the child process of the instance
  working,       \* the stage the child works on, 0 between stages
  outcome,       \* how the child ended, once it has
  op             \* the admin request in flight: the row it read, what it will write

rowVars == <<status, attempt_count, lease_epoch, quota_pause_count, lease_owner,
             lease, next_retry, error_code, range>>
procVars == <<sup, token, child, working, outcome>>
vars == <<rowVars, attempts, comp, stage, procVars, op>>

Terminal == {"success", "failed", "cancelled"}
Statuses == Terminal \cup {"absent", "pending", "running", "retry_wait"}
ExitTypes == {"open", "success", "crashed", "retryable_failure", "fatal_failure",
              "resource_guard"}
ErrorCodes == {"none", "error", "pause", "douyin_rate_limited"}
Attempt == [number : Nat, epoch : Nat, worker : Workers,
            exit : ExitTypes, code : ErrorCodes]
Token == [job : Jobs, number : Nat, epoch : Nat]
Binding == [job : Jobs, number : Nat]
Stage == [status : {"pending", "failed", "success"}, epoch : Nat]
Request == [job : Jobs, write : {"cancelled", "retry_wait"}]

\* Every column, row and process variable has its type (JobRun, JobAttempt,
\* ComponentHeartbeat and JobStageRun of models.py; the states of _run_locked).
TypeOK ==
  /\ status \in [Jobs -> Statuses]
  /\ attempt_count \in [Jobs -> Nat]
  /\ lease_epoch \in [Jobs -> Nat]
  /\ quota_pause_count \in [Jobs -> Nat]
  /\ lease_owner \in [Jobs -> Workers \cup {NoOne}]
  /\ lease \in [Jobs -> 0..LeaseTicks]
  /\ next_retry \in [Jobs -> {"null", "future", "due"}]
  /\ error_code \in [Jobs -> ErrorCodes]
  /\ range \in Statuses
  /\ attempts \in [Jobs -> Seq(Attempt)]
  /\ comp \in [Workers -> Binding \cup {NoOne}]
  /\ stage \in [Jobs -> Seq(Stage)]
  /\ \A j \in Jobs : Len(stage[j]) = StageCount[j]
  /\ sup \in [Workers -> {"idle", "claimed", "spawned", "watching", "closing", "dead"}]
  /\ token \in [Workers -> Token \cup {NoOne}]
  /\ child \in [Workers -> {"none", "alive", "exited"}]
  /\ working \in [Workers -> Nat]
  /\ outcome \in [Workers -> Outcomes \cup {"none"}]
  /\ op \in [Operators -> Request \cup {NoOne}]

\* The rows plan_daily_sync inserts: everything but the finalize row.
Init ==
  /\ status = [j \in Jobs |-> IF j \in FinalizeJobs THEN "absent" ELSE "pending"]
  /\ attempt_count = [j \in Jobs |-> 0]
  /\ lease_epoch = [j \in Jobs |-> 0]
  /\ quota_pause_count = [j \in Jobs |-> 0]
  /\ lease_owner = [j \in Jobs |-> NoOne]
  /\ lease = [j \in Jobs |-> 0]
  /\ next_retry = [j \in Jobs |-> "null"]
  /\ error_code = [j \in Jobs |-> "none"]
  /\ range = "pending"
  /\ attempts = [j \in Jobs |-> <<>>]
  /\ comp = [w \in Workers |-> NoOne]
  /\ stage = [j \in Jobs |-> [i \in 1..StageCount[j] |->
                                [status |-> "pending", epoch |-> 0]]]
  /\ sup = [w \in Workers |-> "idle"]
  /\ token = [w \in Workers |-> NoOne]
  /\ child = [w \in Workers |-> "none"]
  /\ working = [w \in Workers |-> 0]
  /\ outcome = [w \in Workers |-> "none"]
  /\ op = [o \in Operators |-> NoOne]

-----------------------------------------------------------------------------
(* The range plan: finalize enqueue, parent promotion, reconciliation.     *)

\* Mutant: one durable checkpoint is taken for all of them.
any_stage_checkpoint_success(j) ==
  \E i \in 1..StageCount[j] : stage[j][i].status = "success"

all_required_stage_checkpoints_success(j) ==
  \A i \in 1..StageCount[j] : stage[j][i].status = "success"

\* The collect_dimensions stage of the range row is a success exactly when every
\* required stage of the parent_sync row is (_promote_range_parent_stage).
required_parent_stage_success ==
  \A p \in ParentSyncs : all_required_stage_checkpoints_success(p)

\* Mutant: the first successful date enqueues finalize.
AnyDateSucceeded(st) ==
  /\ \E d \in DateJobs : st[d] = "success"
  /\ required_parent_stage_success

PlanSucceeded(st) ==
  /\ \A d \in DateJobs : st[d] = "success"
  /\ required_parent_stage_success

\* Mutant: the insert overwrites an existing finalize row.
enqueue_finalize_overwriting(st) ==
  [j \in Jobs |-> IF j \in FinalizeJobs /\ PlanSucceeded(st) THEN "pending" ELSE st[j]]

\* Insert-or-nothing of the finalize row; an existing row keeps its status.
enqueue_finalize_if_ready(st) ==
  [j \in Jobs |-> IF j \in FinalizeJobs /\ st[j] = "absent" /\ PlanSucceeded(st)
                  THEN "pending" ELSE st[j]]

promote_range_parent_if_ready(st, r) ==
  IF FinalizeJobs # {} /\ PlanSucceeded(st) /\ \A f \in FinalizeJobs : st[f] = "success"
  THEN "success" ELSE r

reconcile_terminal_range_parents(st, r) ==
  IF /\ r \notin Terminal
     /\ \A d \in DateJobs : st[d] \in Terminal
     /\ \E d \in DateJobs : st[d] # "success"
  THEN "failed" ELSE r

reconcile_finalize_queue(st, r) ==
  IF r \in Terminal THEN st ELSE enqueue_finalize_if_ready(st)

\* What _start_attempt has made of the plan before it claims, in order.
ReconciledStatus ==
  reconcile_finalize_queue(status, reconcile_terminal_range_parents(status, range))
ReconciledRange ==
  promote_range_parent_if_ready(ReconciledStatus,
                                reconcile_terminal_range_parents(status, range))

-----------------------------------------------------------------------------
(* Reading and closing attempts, components and leases.                    *)

Open(a) == a.exit = "open"
BindingOf(j, n) == [job |-> j, number |-> n]

\* Mutant: rows are claimed without inspection.
control_state_unchecked(s, j) == TRUE

\* _inspect_expired_running_control finds no reason to quarantine row j, whose
\* status is read as s.
control_state_sound(s, j) ==
  LET rows == attempts[j]
      open == {n \in DOMAIN rows : Open(rows[n])}
      paused == {n \in DOMAIN rows : ~Open(rows[n]) /\ rows[n].code = "pause"}
  IN  /\ quota_pause_count[j] <= attempt_count[j]
      /\ attempt_count[j] <= MaxAttempts + quota_pause_count[j]
      /\ lease_epoch[j] = attempt_count[j]
      /\ Len(rows) = attempt_count[j]
      /\ \A n \in DOMAIN rows : rows[n].number = n /\ rows[n].epoch = n
      /\ Cardinality(paused) = (IF j \in Priority THEN quota_pause_count[j] ELSE 0)
      /\ \A n \in DOMAIN rows \ open : comp[rows[n].worker] # BindingOf(j, n)
      /\ IF s = "running"
         THEN /\ lease_owner[j] # NoOne
              /\ lease_epoch[j] > 0
              /\ open = {lease_epoch[j]}
              /\ comp[rows[lease_epoch[j]].worker] = BindingOf(j, lease_epoch[j])
         ELSE open = {} /\ lease_owner[j] = NoOne

\* _lease_matches: the fence of a child, checked again at every stage commit.
lease_matches(w) ==
  LET t == token[w] IN
    /\ t # NoOne
    /\ status[t.job] = "running"
    /\ lease_owner[t.job] = w
    /\ lease_epoch[t.job] = t.epoch
    /\ lease[t.job] > 0
    /\ t.number \in DOMAIN attempts[t.job]
    /\ LET a == attempts[t.job][t.number] IN
         Open(a) /\ a.epoch = t.epoch /\ a.worker = w

\* Mutant: the terminal writes are not fenced by owner, epoch and attempt.
lock_running_row(w) ==
  LET t == token[w] IN t # NoOne /\ status[t.job] = "running"

\* The fence of every supervisor mutation: the same, and the component binding.
lock_active_execution_state(w) ==
  lease_matches(w) /\ comp[w] = BindingOf(token[w].job, token[w].number)

Finished(a, exit, code) == [a EXCEPT !.exit = exit, !.code = code]

finish_attempt(rows, n, exit, code) == [rows EXCEPT ![n] = Finished(@, exit, code)]

\* Mutant: a takeover does not release the component of the expired attempt.
NothingReleased(j, ns) == comp

\* The components still bound to the attempts ns of job j are released.
Released(j, ns) ==
  [v \in Workers |-> IF \E n \in ns : /\ attempts[j][n].worker = v
                                      /\ comp[v] = BindingOf(j, n)
                     THEN NoOne ELSE comp[v]]

-----------------------------------------------------------------------------
(* Claiming: _start_attempt = reconcile, then claim_next_heavy_job for one *)
(* candidate row.  A refused admission (resource guard, advisory lock held *)
(* elsewhere) is a claim that is not taken.                                *)

heavy_sync_rate_limit_cooldown_active(st) ==
  \E k \in Jobs : /\ st[k] = "retry_wait"
                  /\ error_code[k] = "douyin_rate_limited"
                  /\ next_retry[k] = "future"

\* Mutant: the claim does not look at the other rows of the slot.
slot_not_checked(st, j) == TRUE

no_other_running_heavy_job(st, j) == \A k \in Jobs \ {j} : st[k] # "running"

\* Mutant: off by one in the attempt budget.
attempt_available_inclusive(j) ==
  attempt_count[j] <= MaxAttempts + quota_pause_count[j]

attempt_available(j) == attempt_count[j] < MaxAttempts + quota_pause_count[j]

ready_to_start(st, j) ==
  /\ \/ st[j] = "pending"
     \/ st[j] = "retry_wait" /\ next_retry[j] = "due"
  /\ attempt_available(j)

\* Mutant: the attempt budget also guards the recovery of expired leases.
expired_running_with_budget(st, j) ==
  st[j] = "running" /\ lease[j] = 0 /\ attempt_available(j)

expired_running(st, j) == st[j] = "running" /\ lease[j] = 0

parent_execution_succeeded(st) == \A p \in ParentSyncs : st[p] = "success"

parent_sync_gate_allows_claim(st, r, j) ==
  /\ j \in FinalizeJobs => r \notin Terminal
  /\ j \in DateJobs => parent_execution_succeeded(st)

\* The rows the claim's SELECT may return.
Candidate(st, j) ==
  /\ ~heavy_sync_rate_limit_cooldown_active(st)
  /\ \/ ready_to_start(st, j) /\ (j \in DateJobs => parent_execution_succeeded(st))
     \/ expired_running(st, j)
  /\ no_other_running_heavy_job(st, j)

\* _start_attempt that finds no row to claim still commits its reconciliation.
ReconcileOnly(w) ==
  /\ sup[w] = "idle"
  /\ <<ReconciledStatus, ReconciledRange>> # <<status, range>>
  /\ status' = ReconciledStatus
  /\ range' = ReconciledRange
  /\ UNCHANGED <<attempt_count, lease_epoch, quota_pause_count, lease_owner, lease,
                 next_retry, error_code, attempts, comp, stage, procVars, op>>

\* Close row j as failed: the writes common to quarantine and exhaustion.
FailRow(st, j) ==
  /\ status' = [st EXCEPT ![j] = "failed"]
  /\ range' = ReconciledRange
  /\ lease_owner' = [lease_owner EXCEPT ![j] = NoOne]
  /\ lease' = [lease EXCEPT ![j] = 0]
  /\ next_retry' = [next_retry EXCEPT ![j] = "null"]
  /\ error_code' = [error_code EXCEPT ![j] = "error"]
  /\ UNCHANGED <<attempt_count, lease_epoch, quota_pause_count, stage, procVars, op>>

\* Fail closed on a row whose control state, or whose plan, is inconsistent.
quarantine_invalid_expired_running_job(w, j) ==
  LET st == ReconciledStatus IN
    /\ sup[w] = "idle"
    /\ Candidate(st, j)
    /\ \/ ~control_state_sound(st[j], j)
       \/ expired_running(st, j) /\ ~parent_sync_gate_allows_claim(st, ReconciledRange, j)
    /\ FailRow(st, j)
    /\ attempts' = [attempts EXCEPT ![j] =
         [n \in DOMAIN @ |-> IF Open(@[n]) THEN Finished(@[n], "fatal_failure", "error")
                             ELSE @[n]]]
    /\ comp' = Released(j, DOMAIN attempts[j])

\* A row that passed inspection and gate.
Admitted(st, j) ==
  /\ Candidate(st, j)
  /\ control_state_sound(st[j], j)
  /\ parent_sync_gate_allows_claim(st, ReconciledRange, j)

\* Mutant: the attempt of an expired lease stays unfinished.
ExpiredAttemptLeftOpen(j) == attempts[j]

\* _close_expired_attempt on the attempt of the lease that expired.
ExpiredAttemptClosed(j) ==
  finish_attempt(attempts[j], lease_epoch[j], "crashed", "error")

\* The lease of the last permitted attempt expired: the row fails, no new attempt.
fail_job_after_exhausted_crash(w, j) ==
  LET st == ReconciledStatus IN
    /\ sup[w] = "idle"
    /\ Admitted(st, j)
    /\ expired_running(st, j)
    /\ ~attempt_available(j)
    /\ FailRow(st, j)
    /\ attempts' = [attempts EXCEPT ![j] = ExpiredAttemptClosed(j)]
    /\ comp' = Released(j, {lease_epoch[j]})

\* Take a ready row, or take an expired one over: new attempt, new epoch.
claim_next_heavy_job(w, j) ==
  LET st == ReconciledStatus
      number == attempt_count[j] + 1
      epoch == lease_epoch[j] + 1
      takeover == st[j] = "running"
      rows == IF takeover THEN ExpiredAttemptClosed(j) ELSE attempts[j]
      bound == IF takeover THEN Released(j, {lease_epoch[j]}) ELSE comp
  IN
    /\ sup[w] = "idle"
    /\ Admitted(st, j)
    /\ attempt_available(j)
    /\ comp[w] = NoOne \/ (takeover /\ comp[w] = BindingOf(j, lease_epoch[j]))
    /\ status' = [st EXCEPT ![j] = "running"]
    /\ range' = ReconciledRange
    /\ attempt_count' = [attempt_count EXCEPT ![j] = number]
    /\ lease_epoch' = [lease_epoch EXCEPT ![j] = epoch]
    /\ lease_owner' = [lease_owner EXCEPT ![j] = w]
    /\ lease' = [lease EXCEPT ![j] = LeaseTicks]
    /\ next_retry' = [next_retry EXCEPT ![j] = "null"]
    /\ error_code' = [error_code EXCEPT ![j] = "none"]
    /\ attempts' = [attempts EXCEPT ![j] =
         Append(rows, [number |-> number, epoch |-> epoch, worker |-> w,
                         exit |-> "open", code |-> "none"])]
    /\ comp' = [bound EXCEPT ![w] = BindingOf(j, number)]
    /\ sup' = [sup EXCEPT ![w] = "claimed"]
    /\ token' = [token EXCEPT ![w] = [job |-> j, number |-> number, epoch |-> epoch]]
    /\ UNCHANGED <<quota_pause_count, stage, child, working, outcome, op>>

-----------------------------------------------------------------------------
(* The supervisor while its child runs (_run_locked).                      *)

\* The child starts with the token in its environment, before the start is marked.
Spawn(w) ==
  /\ sup[w] = "claimed"
  /\ sup' = [sup EXCEPT ![w] = "spawned"]
  /\ child' = [child EXCEPT ![w] = "alive"]
  /\ UNCHANGED <<rowVars, attempts, comp, stage, token, working, outcome, op>>

mark_attempt_started(w) ==
  /\ sup[w] = "spawned"
  /\ lock_active_execution_state(w)
  /\ sup' = [sup EXCEPT ![w] = "watching"]
  /\ UNCHANGED <<rowVars, attempts, comp, stage, token, child, working, outcome, op>>

\* The spawn failed, or the start was not persisted and the child is terminated.
StartFails(w) ==
  /\ sup[w] \in {"claimed", "spawned"}
  /\ sup' = [sup EXCEPT ![w] = "closing"]
  /\ child' = [child EXCEPT ![w] = "none"]
  /\ working' = [working EXCEPT ![w] = 0]
  /\ outcome' = [outcome EXCEPT ![w] = "interrupted"]
  /\ UNCHANGED <<rowVars, attempts, comp, stage, token, op>>

\* Mutant: a renewal adds to the old expiry instead of starting from now.
heartbeat_extends(w) ==
  /\ sup[w] = "watching"
  /\ lock_active_execution_state(w)
  /\ lease' = [lease EXCEPT ![token[w].job] = @ + LeaseTicks]
  /\ UNCHANGED <<status, attempt_count, lease_epoch, quota_pause_count, lease_owner,
                 next_retry, error_code, range, attempts, comp, stage, procVars, op>>

heartbeat_claim(w) ==
  /\ sup[w] = "watching"
  /\ lock_active_execution_state(w)
  /\ lease[token[w].job] < LeaseTicks
  /\ lease' = [lease EXCEPT ![token[w].job] = LeaseTicks]
  /\ UNCHANGED <<status, attempt_count, lease_epoch, quota_pause_count, lease_owner,
                 next_retry, error_code, range, attempts, comp, stage, procVars, op>>

\* The supervisor terminates the child: a renewal was rejected or failed, the
\* child timed out ("interrupted"), or its memory passed the limit ("rss_guard").
terminate_child(w, why) ==
  /\ sup[w] = "watching"
  /\ child[w] = "alive"
  /\ why \in {"interrupted", "rss_guard"}
  /\ sup' = [sup EXCEPT ![w] = "closing"]
  /\ child' = [child EXCEPT ![w] = "none"]
  /\ working' = [working EXCEPT ![w] = 0]
  /\ outcome' = [outcome EXCEPT ![w] = why]
  /\ UNCHANGED <<rowVars, attempts, comp, stage, token, op>>

ObserveExit(w) ==
  /\ sup[w] = "watching"
  /\ child[w] = "exited"
  /\ sup' = [sup EXCEPT ![w] = "closing"]
  /\ child' = [child EXCEPT ![w] = "none"]
  /\ UNCHANGED <<rowVars, attempts, comp, stage, token, working, outcome, op>>

\* The process of the supervisor dies; its child, if any, lives on with the token.
Crash(w) ==
  /\ w \in CrashProne
  /\ sup[w] \notin {"idle", "dead"}
  /\ sup' = [sup EXCEPT ![w] = "dead"]
  /\ outcome' = [outcome EXCEPT ![w] = "none"]
  /\ UNCHANGED <<rowVars, attempts, comp, stage, token, child, working, op>>

\* The run of this attempt is over; the instance may be asked to run again.
RunEnds(w) ==
  /\ sup' = [sup EXCEPT ![w] = "idle"]
  /\ token' = [token EXCEPT ![w] = NoOne]
  /\ outcome' = [outcome EXCEPT ![w] = "none"]
  /\ UNCHANGED <<child, working, stage, op>>

\* The writes common to complete_claim and fail_claim under the fence.
CloseClaim(w, exit, code) ==
  LET t == token[w] IN
    /\ lease_owner' = [lease_owner EXCEPT ![t.job] = NoOne]
    /\ lease' = [lease EXCEPT ![t.job] = 0]
    /\ attempts' = [attempts EXCEPT ![t.job] = finish_attempt(@, t.number, exit, code)]
    /\ comp' = [comp EXCEPT ![w] = NoOne]
    /\ UNCHANGED <<attempt_count, lease_epoch>>
    /\ RunEnds(w)

\* Every required checkpoint is durable: the job succeeds however the child ended.
complete_job(w) ==
  LET j == token[w].job
      st == [status EXCEPT ![j] = "success"]
      pr == j \in Priority
  IN
    /\ sup[w] = "closing"
    /\ lock_active_execution_state(w)
    /\ all_required_stage_checkpoints_success(j)
    /\ status' = IF j \in DateJobs THEN enqueue_finalize_if_ready(st) ELSE st
    /\ range' = IF j \in FinalizeJobs THEN promote_range_parent_if_ready(st, range) ELSE range
    /\ next_retry' = [next_retry EXCEPT ![j] = "null"]
    /\ error_code' = [error_code EXCEPT ![j] = "none"]
    /\ UNCHANGED quota_pause_count
    /\ CloseClaim(w, "success", IF outcome[w] = "ok" THEN "none"
                                ELSE failure_error_code(pr, outcome[w]))

previous_attempt_exit_type(j, n) == IF n <= 1 THEN "none" ELSE attempts[j][n - 1].exit

fail_job(w) ==
  LET j == token[w].job
      pr == j \in Priority
      kind == failure_kind(pr, outcome[w])
      code == failure_error_code(pr, outcome[w])
      decision == retry_policy(kind, attempt_count[j], quota_pause_count[j],
                               previous_attempt_exit_type(j, attempt_count[j]))
  IN
    /\ sup[w] = "closing"
    /\ lock_active_execution_state(w)
    /\ ~all_required_stage_checkpoints_success(j)
    /\ status' = [status EXCEPT ![j] = decision]
    /\ next_retry' = [next_retry EXCEPT ![j] =
                        IF decision = "retry_wait" THEN "future" ELSE "null"]
    /\ error_code' = [error_code EXCEPT ![j] = code]
    /\ quota_pause_count' = IF kind = "pause"
                            THEN [quota_pause_count EXCEPT ![j] = @ + 1]
                            ELSE quota_pause_count
    /\ UNCHANGED range
    /\ CloseClaim(w, attempt_exit_type(kind, decision), code)

\* _persist_attempt_outcome rejected by the fence, or lost to a database error:
\* the transaction is rolled back and the row waits for its lease to expire.
OutcomeNotPersisted(w) ==
  /\ sup[w] = "closing"
  /\ RunEnds(w)
  /\ UNCHANGED <<rowVars, attempts, comp>>

-----------------------------------------------------------------------------
(* The child process (run_daily_stages), under the token of instance w.    *)

\* Mutant: the loop enters any unfinished stage.
AnyUnfinishedStage(j, i) == stage[j][i].status # "success"

\* Stage i is the first required stage without a success checkpoint: the loop
\* skips the durable ones.
FirstUnfinishedStage(j, i) ==
  /\ stage[j][i].status # "success"
  /\ \A k \in 1..StageCount[j] : k < i => stage[j][k].status = "success"

\* An orphan leaves no outcome: nobody reads its exit status.
ChildExits(w, how) ==
  /\ child' = [child EXCEPT ![w] = "exited"]
  /\ working' = [working EXCEPT ![w] = 0]
  /\ outcome' = [outcome EXCEPT ![w] = IF sup[w] = "dead" THEN "none" ELSE how]
  /\ UNCHANGED <<rowVars, attempts, comp, sup, token, op>>

\* Enter the next stage when the lease still matches (an unlocked read), exit 0
\* after the last one, fail when the lease is gone.
EnterStage(w) ==
  /\ child[w] = "alive"
  /\ working[w] = 0
  /\ lease_matches(w)
  /\ \E i \in 1..StageCount[token[w].job] :
       /\ FirstUnfinishedStage(token[w].job, i)
       /\ working' = [working EXCEPT ![w] = i]
  /\ UNCHANGED <<rowVars, attempts, comp, stage, sup, token, child, outcome, op>>

AllStagesDone(w) ==
  /\ child[w] = "alive"
  /\ working[w] = 0
  /\ all_required_stage_checkpoints_success(token[w].job)
  /\ ChildExits(w, "ok")
  /\ UNCHANGED stage

\* Mutant: the fence is not checked again at the commit.
CommitStageUnfenced(w) ==
  LET j == token[w].job IN
    /\ child[w] = "alive"
    /\ working[w] # 0
    /\ stage' = [stage EXCEPT ![j][working[w]] =
                   [status |-> "success", epoch |-> lease_epoch[j]]]
    /\ working' = [working EXCEPT ![w] = 0]
    /\ UNCHANGED <<rowVars, attempts, comp, sup, token, child, outcome, op>>

\* Business writes and checkpoint commit together, if the fence still holds.
CommitStage(w) ==
  LET j == token[w].job IN
    /\ child[w] = "alive"
    /\ working[w] # 0
    /\ lease_matches(w)
    /\ stage' = [stage EXCEPT ![j][working[w]] =
                   [status |-> "success", epoch |-> lease_epoch[j]]]
    /\ working' = [working EXCEPT ![w] = 0]
    /\ UNCHANGED <<rowVars, attempts, comp, sup, token, child, outcome, op>>

\* The lease is gone at stage entry or at the commit: nothing is written.
FencedOut(w) ==
  /\ child[w] = "alive"
  /\ working[w] # 0 \/ ~all_required_stage_checkpoints_success(token[w].job)
  /\ ~lease_matches(w)
  /\ ChildExits(w, "crash")
  /\ UNCHANGED stage

\* The handler raises: its writes are rolled back, then the failure is recorded
\* on the stage by a transaction of its own, under the same fence.
StageFails(w, how) ==
  LET j == token[w].job
      i == working[w]
  IN
    /\ child[w] = "alive"
    /\ working[w] # 0
    /\ how \in {"crash", "fatal", "rate_limited", "pause_marker"}
    /\ how = "pause_marker" /\ j \in Priority => quota_pause_count[j] < MaxPauses
    /\ stage' = IF lease_matches(w) /\ stage[j][i].status # "success"
                THEN [stage EXCEPT ![j][i] =
                        [status |-> "failed", epoch |-> lease_epoch[j]]]
                ELSE stage
    /\ ChildExits(w, how)

\* The child dies without a word.
ChildKilled(w) ==
  /\ child[w] = "alive"
  /\ ChildExits(w, "crash")
  /\ UNCHANGED stage

-----------------------------------------------------------------------------
(* Admin requests: _control_job reads the row without a lock, decides, and *)
(* later updates the columns it assigned, whatever the row is by then.     *)
(* Cancelling a running row writes cancel_requested_at only, which no      *)
(* process of this module reads.                                           *)

ReadForControl(o, j) ==
  /\ op[o] = NoOne
  /\ \E write \in {"cancelled", "retry_wait"} :
       /\ write = "cancelled" => /\ "cancel" \in Requests
                                 /\ status[j] \in {"pending", "retry_wait"}
       /\ write = "retry_wait" => /\ "retry" \in Requests
                                  /\ status[j] = "failed"
                                  /\ attempt_count[j] < MaxAttempts
       /\ op' = [op EXCEPT ![o] = [job |-> j, write |-> write]]
  /\ UNCHANGED <<rowVars, attempts, comp, stage, procVars>>

CommitControl(o) ==
  LET j == op[o].job IN
    /\ op[o] # NoOne
    /\ status' = [status EXCEPT ![j] = op[o].write]
    /\ IF op[o].write = "retry_wait"
       THEN /\ next_retry' = [next_retry EXCEPT ![j] = "due"]
            /\ error_code' = [error_code EXCEPT ![j] = "none"]
       ELSE UNCHANGED <<next_retry, error_code>>
    /\ op' = [op EXCEPT ![o] = NoOne]
    /\ UNCHANGED <<attempt_count, lease_epoch, quota_pause_count, lease_owner, lease,
                   range, attempts, comp, stage, procVars>>

-----------------------------------------------------------------------------
(* The database clock.                                                     *)

LeaseTick(j) ==
  /\ lease[j] > 0
  /\ lease' = [lease EXCEPT ![j] = @ - 1]
  /\ UNCHANGED <<status, attempt_count, lease_epoch, quota_pause_count, lease_owner,
                 next_retry, error_code, range, attempts, comp, stage, procVars, op>>

RetryDue(j) ==
  /\ next_retry[j] = "future"
  /\ next_retry' = [next_retry EXCEPT ![j] = "due"]
  /\ UNCHANGED <<status, attempt_count, lease_epoch, quota_pause_count, lease_owner,
                 lease, error_code, range, attempts, comp, stage, procVars, op>>

-----------------------------------------------------------------------------

StartAttempt(w) ==
  \/ ReconcileOnly(w)
  \/ \E j \in Jobs : \/ quarantine_invalid_expired_running_job(w, j)
                     \/ fail_job_after_exhausted_crash(w, j)
                     \/ claim_next_heavy_job(w, j)

Supervise(w) ==
  \/ Spawn(w)
  \/ mark_attempt_started(w)
  \/ StartFails(w)
  \/ heartbeat_claim(w)
  \/ \E why \in {"interrupted", "rss_guard"} : terminate_child(w, why)
  \/ ObserveExit(w)

PersistAttemptOutcome(w) == complete_job(w) \/ fail_job(w) \/ OutcomeNotPersisted(w)

RunDailyStages(w) ==
  \/ EnterStage(w)
  \/ AllStagesDone(w)
  \/ CommitStage(w)
  \/ FencedOut(w)
  \/ \E how \in Outcomes : StageFails(w, how)
  \/ ChildKilled(w)

Next ==
  \/ \E w \in Workers : \/ StartAttempt(w)
                        \/ Supervise(w)
                        \/ PersistAttemptOutcome(w)
                        \/ RunDailyStages(w)
                        \/ Crash(w)
  \/ \E o \in Operators : \/ CommitControl(o)
                          \/ \E j \in Jobs : ReadForControl(o, j)
  \/ \E j \in Jobs : LeaseTick(j) \/ RetryDue(j)

Spec == Init /\ [][Next]_vars

-----------------------------------------------------------------------------
(* Properties that hold however admin requests interleave.                 *)

OpenAttempts(j) == {n \in DOMAIN attempts[j] : Open(attempts[j][n])}

\* The attempt history is never rewritten or skipped: the counter, the epoch and
\* the rows agree, and only the newest attempt can be unfinished, so no two
\* attempts of a job ever share an epoch (claim_next_heavy_job, repositories.py).
HistoryContiguous ==
  \A j \in Jobs :
    /\ lease_epoch[j] = attempt_count[j]
    /\ Len(attempts[j]) = attempt_count[j]
    /\ \A n \in DOMAIN attempts[j] :
         /\ attempts[j][n].number = n
         /\ attempts[j][n].epoch = n
    /\ OpenAttempts(j) \subseteq {attempt_count[j]}

\* A running row is always owned by the worker of its one unfinished attempt, and
\* that worker's component is bound to exactly that attempt: what takeover, the
\* fence and the release of the component all rely on.
RunningRowSound ==
  \A j \in Jobs : status[j] = "running" =>
    /\ attempt_count[j] > 0
    /\ OpenAttempts(j) = {attempt_count[j]}
    /\ attempts[j][attempt_count[j]].worker = lease_owner[j]
    /\ comp[lease_owner[j]] = BindingOf(j, attempt_count[j])

\* Whatever tokens are held by live, orphaned or superseded processes, at most one
\* of them passes the fence that guards checkpoints and terminal writes: there is
\* one writer on the heavy slot (_lease_matches, lock_active_execution_state).
SingleWriter ==
  \A v, w \in Workers : lease_matches(v) /\ lease_matches(w) => v = w

\* Scheduler pauses are paid by quota_pause_count alone: net of them a row never
\* starts more attempts than max_attempts (ck_job_runs_attempt_bounds).
AttemptBudget ==
  \A j \in Jobs :
    /\ attempt_count[j] <= MaxAttempts + quota_pause_count[j]
    /\ quota_pause_count[j] <= attempt_count[j]

\* Checkpoints follow the stage order and the epochs: a stage succeeds only after
\* the ones before it, and never under an older epoch than theirs, so no stale
\* child commits behind the back of its successor (run_daily_stages).
CheckpointsInOrder ==
  \A j \in Jobs : \A i, k \in 1..StageCount[j] :
    i < k /\ stage[j][k].status = "success" =>
      /\ stage[j][i].status = "success"
      /\ stage[j][i].epoch <= stage[j][k].epoch

\* A durable success checkpoint is never undone or committed a second time, by
\* whichever attempt (the skip of run_daily_stages, _record_stage_failure).
CheckpointsStable ==
  [][\A j \in Jobs : \A i \in 1..StageCount[j] :
       stage[j][i].status = "success" => stage'[j][i] = stage[j][i]]_vars

\* A success row has every required checkpoint, even when its child exited 0
\* early, was killed, or was superseded (_persist_attempt_outcome).
SuccessIsCheckpointed ==
  \A j \in Jobs : status[j] = "success" =>
    \A i \in 1..StageCount[j] : stage[j][i].status = "success"

\* Quarantine and exhaustion leave nothing behind: a failed row has no unfinished
\* attempt and no component still bound to it.
FailedRowClosed ==
  \A j \in Jobs : status[j] = "failed" =>
    /\ OpenAttempts(j) = {}
    /\ \A w \in Workers : comp[w] = NoOne \/ comp[w].job # j

-----------------------------------------------------------------------------
(* Properties of the plane on its own: they need that no admin request     *)
(* overwrites a row that moved after it was read.                          *)

\* The plane never manufactures a row its own inspection would quarantine: in
\* every reachable state counters, history, pause markers, lease and component
\* binding of an active row agree (_inspect_expired_running_control).
NeverQuarantined ==
  \A j \in Jobs : status[j] \in {"pending", "retry_wait", "running"} =>
    control_state_sound(status[j], j)

\* finalize exists only over a plan whose dates all succeeded, and a promoted
\* range only over a finalize that did (_enqueue_finalize_if_ready,
\* promote_range_parent_if_ready).
FinalizeLast ==
  /\ \A f \in FinalizeJobs : status[f] # "absent" =>
       \A j \in Jobs \ FinalizeJobs : status[j] = "success"
  /\ range = "success" => \A j \in Jobs : status[j] = "success"

\* The only way out of a terminal status is an admin request: no process of the
\* plane reopens a finished row (complete_claim, fail_claim, claim).
TerminalIsFinal ==
  [][\A j \in Jobs : status[j] \in Terminal /\ op' = op => status'[j] = status[j]]_vars

\* Every finished row released its attempt and component; complete_job, fail_job
\* and the expiry paths are the only ones that may close a row that started.
ClosedRowReleased ==
  \A j \in Jobs : status[j] \in Terminal => OpenAttempts(j) = {}

-----------------------------------------------------------------------------
(* Liveness.  Supervisors that do not crash keep polling and supervising,  *)
(* processes run, and the database clock advances.                         *)

Fairness ==
  /\ \A w \in Workers \ CrashProne : /\ WF_vars(StartAttempt(w))
                                     /\ WF_vars(Supervise(w))
                                     /\ WF_vars(PersistAttemptOutcome(w))
  /\ \A w \in Workers : WF_vars(RunDailyStages(w))
  /\ \A j \in Jobs : WF_vars(LeaseTick(j)) /\ WF_vars(RetryDue(j))

FairSpec == Spec /\ Fairness

\* Every row that was enqueued reaches a terminal status, through crashes, lost
\* outcomes, expired leases, pauses and cooldowns.
EveryJobSettles == \A j \in Jobs : status[j] # "absent" ~> status[j] \in Terminal
=============================================================================
