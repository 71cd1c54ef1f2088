-------------------------- MODULE JobControlProofs --------------------------
(***************************************************************************)
(* Proofs about JobControl, for every plan, every number of workers, stage *)
(* counts and concurrent admin requests.                                   *)
(***************************************************************************)
EXTENDS JobControl, TLAPS

-----------------------------------------------------------------------------
(* Lemmas about the operators the actions are built from.                  *)

\* A finished attempt row is an attempt row that is not open; its number, epoch
\* and worker are those it was started with (_finish_attempt).
LEMMA FinishedAttempt ==
  ASSUME NEW a \in Attempt, NEW exit \in ExitTypes, NEW code \in ErrorCodes
  PROVE  /\ Finished(a, exit, code) \in Attempt
         /\ Finished(a, exit, code).number = a.number
         /\ Finished(a, exit, code).epoch = a.epoch
         /\ Finished(a, exit, code).worker = a.worker
         /\ Finished(a, exit, code).exit = exit
  BY DEF Finished, Attempt

\* Overwriting one element keeps a sequence a sequence of the same length.
LEMMA ExceptSeqType ==
  ASSUME NEW S, NEW s \in Seq(S), NEW i, NEW e,
         i \in DOMAIN s => e \in S
  PROVE  /\ [s EXCEPT ![i] = e] \in Seq(S)
         /\ Len([s EXCEPT ![i] = e]) = Len(s)
         /\ DOMAIN [s EXCEPT ![i] = e] = DOMAIN s
  <1>1. CASE i \in DOMAIN s
    BY <1>1
  <1>2. CASE i \notin DOMAIN s
    <2>1. [s EXCEPT ![i] = e] = s
      BY <1>2
    <2> QED BY <2>1
  <1> QED BY <1>1, <1>2

\* The retry policy, the exit type and the error code it leads to.
LEMMA PolicyType ==
  ASSUME NEW j, NEW out, NEW n, NEW q, NEW prev
  PROVE  /\ failure_error_code(j \in Priority, out) \in ErrorCodes
         /\ retry_policy(failure_kind(j \in Priority, out), n, q, prev)
              \in {"failed", "retry_wait"}
         /\ attempt_exit_type(failure_kind(j \in Priority, out),
                              retry_policy(failure_kind(j \in Priority, out), n, q, prev))
              \in ExitTypes \ {"open"}
  <1>1. failure_error_code(j \in Priority, out) \in ErrorCodes
    BY DEF failure_error_code, ErrorCodes
  <1>2. retry_policy(failure_kind(j \in Priority, out), n, q, prev) \in {"failed", "retry_wait"}
    BY DEF retry_policy
  <1>3. ASSUME NEW k, NEW d PROVE attempt_exit_type(k, d) \in ExitTypes \ {"open"}
    BY DEF attempt_exit_type, ExitTypes
  <1> QED BY <1>1, <1>2, <1>3

\* Reconciliation only ever inserts the finalize row: no status it reads as
\* running is new, and none disappears.
LEMMA ReconcileType ==
  ASSUME status \in [Jobs -> Statuses], range \in Statuses
  PROVE  /\ ReconciledStatus \in [Jobs -> Statuses]
         /\ ReconciledRange \in Statuses
         /\ \A j \in Jobs : \/ ReconciledStatus[j] = status[j]
                            \/ status[j] = "absent" /\ ReconciledStatus[j] = "pending"
  <1>1. ASSUME NEW st \in [Jobs -> Statuses], NEW r \in Statuses
        PROVE  /\ reconcile_terminal_range_parents(st, r) \in Statuses
               /\ promote_range_parent_if_ready(st, r) \in Statuses
    BY DEF reconcile_terminal_range_parents, promote_range_parent_if_ready, Statuses, Terminal
  <1>2. ASSUME NEW r
        PROVE  /\ reconcile_finalize_queue(status, r) \in [Jobs -> Statuses]
               /\ \A j \in Jobs : \/ reconcile_finalize_queue(status, r)[j] = status[j]
                                  \/ /\ status[j] = "absent"
                                     /\ reconcile_finalize_queue(status, r)[j] = "pending"
    BY DEF reconcile_finalize_queue, enqueue_finalize_if_ready, Statuses, Terminal
  <1> QED BY <1>1, <1>2 DEF ReconciledStatus, ReconciledRange

\* The enqueue after a completed date does the same.
LEMMA EnqueueType ==
  ASSUME NEW st \in [Jobs -> Statuses]
  PROVE  /\ enqueue_finalize_if_ready(st) \in [Jobs -> Statuses]
         /\ \A j \in Jobs : \/ enqueue_finalize_if_ready(st)[j] = st[j]
                            \/ /\ st[j] = "absent"
                               /\ enqueue_finalize_if_ready(st)[j] = "pending"
  BY DEF enqueue_finalize_if_ready, Statuses, Terminal

\* Quarantine closes every attempt row of a job and changes nothing else of it.
LEMMA AllFinished ==
  ASSUME NEW rows \in Seq(Attempt)
  PROVE  LET done == [n \in DOMAIN rows |-> IF Open(rows[n])
                                            THEN Finished(rows[n], "fatal_failure", "error")
                                            ELSE rows[n]]
         IN  /\ done \in Seq(Attempt)
             /\ Len(done) = Len(rows)
             /\ \A n \in DOMAIN rows : /\ done[n].number = rows[n].number
                                       /\ done[n].epoch = rows[n].epoch
                                       /\ ~Open(done[n])
  <1> DEFINE done == [n \in DOMAIN rows |-> IF Open(rows[n])
                                            THEN Finished(rows[n], "fatal_failure", "error")
                                            ELSE rows[n]]
  <1>1. \A n \in DOMAIN rows : /\ Finished(rows[n], "fatal_failure", "error") \in Attempt
                               /\ Finished(rows[n], "fatal_failure", "error").number = rows[n].number
                               /\ Finished(rows[n], "fatal_failure", "error").epoch = rows[n].epoch
                               /\ ~Open(Finished(rows[n], "fatal_failure", "error"))
    BY FinishedAttempt DEF ExitTypes, ErrorCodes, Open
  <1>2. \A n \in DOMAIN rows : done[n] \in Attempt
    BY <1>1
  <1>3. DOMAIN rows = 1..Len(rows) /\ Len(rows) \in Nat
    OBVIOUS
  <1>4. done \in Seq(Attempt) /\ Len(done) = Len(rows)
    BY <1>2, <1>3
  <1> QED BY <1>1, <1>4

\* One attempt row of a job is closed.
LEMMA OneFinished ==
  ASSUME NEW rows \in Seq(Attempt), NEW k, NEW exit \in ExitTypes, NEW code \in ErrorCodes
  PROVE  /\ finish_attempt(rows, k, exit, code) \in Seq(Attempt)
         /\ Len(finish_attempt(rows, k, exit, code)) = Len(rows)
         /\ DOMAIN finish_attempt(rows, k, exit, code) = DOMAIN rows
         /\ \A n \in DOMAIN rows :
              /\ finish_attempt(rows, k, exit, code)[n].number = rows[n].number
              /\ finish_attempt(rows, k, exit, code)[n].epoch = rows[n].epoch
              /\ n = k => finish_attempt(rows, k, exit, code)[n].exit = exit
              /\ n # k => finish_attempt(rows, k, exit, code)[n] = rows[n]
  <1>0. PICK done : done = finish_attempt(rows, k, exit, code)
    OBVIOUS
  <1>1. ASSUME k \in DOMAIN rows
        PROVE  /\ Finished(rows[k], exit, code) \in Attempt
               /\ Finished(rows[k], exit, code).number = rows[k].number
               /\ Finished(rows[k], exit, code).epoch = rows[k].epoch
               /\ Finished(rows[k], exit, code).exit = exit
    <2>1. rows[k] \in Attempt
      BY <1>1
    <2> QED BY <2>1, FinishedAttempt
  <1>2. /\ done \in Seq(Attempt)
        /\ Len(done) = Len(rows)
        /\ DOMAIN done = DOMAIN rows
    BY <1>0, <1>1, ExceptSeqType DEF finish_attempt
  <1>3. \A n \in DOMAIN rows : done[n] = IF n = k THEN Finished(rows[k], exit, code) ELSE rows[n]
    BY <1>0 DEF finish_attempt
  <1>4. \A n \in DOMAIN rows : /\ done[n].number = rows[n].number
                               /\ done[n].epoch = rows[n].epoch
                               /\ n = k => done[n].exit = exit
                               /\ n # k => done[n] = rows[n]
    BY <1>1, <1>3
  <1> QED BY <1>0, <1>2, <1>4

-----------------------------------------------------------------------------
(* Type correctness.                                                       *)

\* Releasing components leaves each bound to an attempt or to nothing.
LEMMA ReleasedType ==
  ASSUME TypeOK, NEW j, NEW ns
  PROVE  Released(j, ns) \in [Workers -> Binding \cup {NoOne}]
  BY DEF Released, TypeOK

\* The guard of every fenced action gives its token a job, an attempt and a row.
LEMMA FenceType ==
  ASSUME TypeOK, NEW w \in Workers, lease_matches(w)
  PROVE  /\ token[w] \in Token
         /\ token[w].job \in Jobs
         /\ token[w].number \in DOMAIN attempts[token[w].job]
         /\ attempts[token[w].job] \in Seq(Attempt)
         /\ lease_epoch[token[w].job] \in Nat
  BY DEF TypeOK, lease_matches, Token

\* Takeover and exhaustion close the attempt of the expired lease and no other.
LEMMA ExpiredClosed ==
  ASSUME TypeOK, NEW j \in Jobs
  PROVE  /\ ExpiredAttemptClosed(j) \in Seq(Attempt)
         /\ Len(ExpiredAttemptClosed(j)) = Len(attempts[j])
         /\ DOMAIN ExpiredAttemptClosed(j) = DOMAIN attempts[j]
         /\ \A n \in DOMAIN attempts[j] :
              /\ ExpiredAttemptClosed(j)[n].number = attempts[j][n].number
              /\ ExpiredAttemptClosed(j)[n].epoch = attempts[j][n].epoch
              /\ n = lease_epoch[j] => ExpiredAttemptClosed(j)[n].exit = "crashed"
              /\ n # lease_epoch[j] => ExpiredAttemptClosed(j)[n] = attempts[j][n]
  <1>1. attempts[j] \in Seq(Attempt) /\ "crashed" \in ExitTypes /\ "error" \in ErrorCodes
    BY DEF TypeOK, ExitTypes, ErrorCodes
  <1> QED BY <1>1, OneFinished DEF ExpiredAttemptClosed

\* The freshly planned rows are well typed.
LEMMA InitType == Init => TypeOK
  <1> SUFFICES ASSUME Init PROVE TypeOK
    OBVIOUS
  <1>1. \A j \in Jobs : StageCount[j] \in Nat
    BY PlanAssumption
  <1>2. \A j \in Jobs : /\ stage[j] \in Seq(Stage)
                        /\ Len(stage[j]) = StageCount[j]
    <2> TAKE j \in Jobs
    <2>1. stage[j] = [i \in 1..StageCount[j] |-> [status |-> "pending", epoch |-> 0]]
      BY DEF Init
    <2>2. [status |-> "pending", epoch |-> 0] \in Stage
      BY DEF Stage
    <2> QED BY <1>1, <2>1, <2>2
  <1>3. stage \in [Jobs -> Seq(Stage)]
    BY <1>2 DEF Init
  <1>4. attempts \in [Jobs -> Seq(Attempt)]
    BY DEF Init
  <1>5. LeaseTicks \in Nat
    BY BoundAssumption
  <1>6. /\ status \in [Jobs -> Statuses]
        /\ range \in Statuses
        /\ error_code \in [Jobs -> ErrorCodes]
        /\ next_retry \in [Jobs -> {"null", "future", "due"}]
    BY DEF Init, Statuses, Terminal, ErrorCodes
  <1>7. /\ attempt_count \in [Jobs -> Nat]
        /\ lease_epoch \in [Jobs -> Nat]
        /\ quota_pause_count \in [Jobs -> Nat]
        /\ lease \in [Jobs -> 0..LeaseTicks]
        /\ lease_owner \in [Jobs -> Workers \cup {NoOne}]
    BY <1>5 DEF Init
  <1>8. /\ comp \in [Workers -> Binding \cup {NoOne}]
        /\ sup \in [Workers -> {"idle", "claimed", "spawned", "watching", "closing", "dead"}]
        /\ token \in [Workers -> Token \cup {NoOne}]
        /\ child \in [Workers -> {"none", "alive", "exited"}]
        /\ working \in [Workers -> Nat]
        /\ outcome \in [Workers -> Outcomes \cup {"none"}]
        /\ op \in [Operators -> Request \cup {NoOne}]
    BY DEF Init
  <1> QED BY <1>2, <1>3, <1>4, <1>6, <1>7, <1>8 DEF TypeOK

\* The writes common to complete_job and fail_job.
LEMMA CloseClaimType ==
  ASSUME TypeOK, NEW w \in Workers, lease_matches(w),
         NEW exit \in ExitTypes, NEW code \in ErrorCodes, CloseClaim(w, exit, code)
  PROVE  /\ attempt_count' = attempt_count /\ lease_epoch' = lease_epoch
         /\ lease_owner' \in [Jobs -> Workers \cup {NoOne}]
         /\ lease' \in [Jobs -> 0..LeaseTicks]
         /\ attempts' \in [Jobs -> Seq(Attempt)]
         /\ comp' \in [Workers -> Binding \cup {NoOne}]
         /\ stage' = stage /\ op' = op
         /\ sup' \in [Workers -> {"idle", "claimed", "spawned", "watching", "closing", "dead"}]
         /\ token' \in [Workers -> Token \cup {NoOne}]
         /\ child' = child /\ working' = working
         /\ outcome' \in [Workers -> Outcomes \cup {"none"}]
  <1> DEFINE j == token[w].job
  <1>1. j \in Jobs /\ attempts[j] \in Seq(Attempt)
    BY FenceType
  <1>2. attempts'[j] \in Seq(Attempt)
    <2>1. attempts'[j] = finish_attempt(attempts[j], token[w].number, exit, code)
      BY <1>1 DEF CloseClaim, TypeOK
    <2> HIDE DEF j
    <2> QED BY <1>1, <2>1, OneFinished
  <1>3. attempts' \in [Jobs -> Seq(Attempt)]
    BY <1>1, <1>2 DEF CloseClaim, TypeOK
  <1>4. LeaseTicks \in Nat
    BY BoundAssumption
  <1> QED BY SMTT(60), <1>1, <1>3, <1>4 DEF CloseClaim, RunEnds, TypeOK

\* The writes common to quarantine and exhaustion.
LEMMA FailRowType ==
  ASSUME TypeOK, NEW j \in Jobs, FailRow(ReconciledStatus, j),
         attempts' \in [Jobs -> Seq(Attempt)],
         comp' \in [Workers -> Binding \cup {NoOne}]
  PROVE  TypeOK'
  <1>1. /\ ReconciledStatus \in [Jobs -> Statuses]
        /\ ReconciledRange \in Statuses
    BY ReconcileType DEF TypeOK
  <1>2. LeaseTicks \in Nat
    BY BoundAssumption
  <1>3. /\ status' \in [Jobs -> Statuses]
        /\ range' \in Statuses
    BY <1>1 DEF FailRow, Statuses, Terminal
  <1>4. /\ lease_owner' \in [Jobs -> Workers \cup {NoOne}]
        /\ lease' \in [Jobs -> 0..LeaseTicks]
        /\ next_retry' \in [Jobs -> {"null", "future", "due"}]
        /\ error_code' \in [Jobs -> ErrorCodes]
    BY <1>2 DEF FailRow, TypeOK, ErrorCodes
  <1> QED BY <1>3, <1>4 DEF FailRow, procVars, TypeOK

\* _start_attempt keeps types: reconciliation, quarantine, exhaustion, claim.
LEMMA StartAttemptType ==
  ASSUME TypeOK, NEW w \in Workers, StartAttempt(w)
  PROVE  TypeOK'
  <1> USE DEF TypeOK
  <1>0. /\ ReconciledStatus \in [Jobs -> Statuses]
        /\ ReconciledRange \in Statuses
        /\ LeaseTicks \in Nat
    BY ReconcileType, BoundAssumption
  <1>1. CASE ReconcileOnly(w)
    BY <1>0, <1>1 DEF ReconcileOnly, procVars
  <1>2. ASSUME NEW j \in Jobs, quarantine_invalid_expired_running_job(w, j)
        PROVE  TypeOK'
    <2>1. attempts' \in [Jobs -> Seq(Attempt)]
      BY <1>2, AllFinished DEF quarantine_invalid_expired_running_job
    <2>2. comp' \in [Workers -> Binding \cup {NoOne}]
      BY <1>2, ReleasedType DEF quarantine_invalid_expired_running_job
    <2> QED BY <1>2, <2>1, <2>2, FailRowType DEF quarantine_invalid_expired_running_job
  <1>3. ASSUME NEW j \in Jobs
        PROVE  ExpiredAttemptClosed(j) \in Seq(Attempt)
    BY ExpiredClosed
  <1>4. ASSUME NEW j \in Jobs, fail_job_after_exhausted_crash(w, j)
        PROVE  TypeOK'
    <2>1. attempts' \in [Jobs -> Seq(Attempt)]
      BY <1>3, <1>4 DEF fail_job_after_exhausted_crash
    <2>2. comp' \in [Workers -> Binding \cup {NoOne}]
      BY <1>4, ReleasedType DEF fail_job_after_exhausted_crash
    <2> QED BY <1>4, <2>1, <2>2, FailRowType DEF fail_job_after_exhausted_crash
  <1>5. ASSUME NEW j \in Jobs, claim_next_heavy_job(w, j)
        PROVE  TypeOK'
    <2> DEFINE number == attempt_count[j] + 1
               epoch == lease_epoch[j] + 1
               new == [number |-> number, epoch |-> epoch, worker |-> w,
                       exit |-> "open", code |-> "none"]
               rows == IF ReconciledStatus[j] = "running" THEN ExpiredAttemptClosed(j)
                       ELSE attempts[j]
               bound == IF ReconciledStatus[j] = "running" THEN Released(j, {lease_epoch[j]})
                        ELSE comp
    <2>1. number \in Nat /\ epoch \in Nat
      OBVIOUS
    <2>2. new \in Attempt
      BY <2>1 DEF Attempt, ExitTypes, ErrorCodes
    <2>3. Append(rows, new) \in Seq(Attempt)
      BY <1>3, <2>2
    <2>4. attempts' \in [Jobs -> Seq(Attempt)]
      BY <1>5, <2>3 DEF claim_next_heavy_job
    <2>5. BindingOf(j, number) \in Binding
      BY <2>1 DEF BindingOf, Binding
    <2>6. bound \in [Workers -> Binding \cup {NoOne}]
      BY ReleasedType
    <2>7. comp' \in [Workers -> Binding \cup {NoOne}]
      <3>1. comp' = [bound EXCEPT ![w] = BindingOf(j, number)]
        BY <1>5 DEF claim_next_heavy_job
      <3> QED BY <2>5, <2>6, <3>1
    <2>8. /\ status' \in [Jobs -> Statuses]
          /\ range' \in Statuses
      BY <1>0, <1>5 DEF claim_next_heavy_job, Statuses
    <2>9. /\ attempt_count' \in [Jobs -> Nat]
          /\ lease_epoch' \in [Jobs -> Nat]
          /\ lease_owner' \in [Jobs -> Workers \cup {NoOne}]
          /\ lease' \in [Jobs -> 0..LeaseTicks]
          /\ next_retry' \in [Jobs -> {"null", "future", "due"}]
          /\ error_code' \in [Jobs -> ErrorCodes]
      BY SMTT(60), <1>0, <1>5, <2>1 DEF claim_next_heavy_job, ErrorCodes
    <2>10. /\ sup' \in [Workers -> {"idle", "claimed", "spawned", "watching", "closing", "dead"}]
           /\ token' \in [Workers -> Token \cup {NoOne}]
      BY <1>5, <2>1 DEF claim_next_heavy_job, Token
    <2> QED BY <1>5, <2>4, <2>7, <2>8, <2>9, <2>10 DEF claim_next_heavy_job
  <1> QED BY <1>1, <1>2, <1>4, <1>5 DEF StartAttempt

\* The supervision loop keeps types.
LEMMA SuperviseType ==
  ASSUME TypeOK, NEW w \in Workers, Supervise(w) \/ Crash(w)
  PROVE  TypeOK'
  <1> USE DEF TypeOK
  <1>1. CASE mark_attempt_started(w)
    BY <1>1 DEF mark_attempt_started, rowVars
  <1>2. CASE StartFails(w)
    BY <1>2 DEF StartFails, rowVars, Outcomes
  <1>3. CASE heartbeat_claim(w)
    <2>1. LeaseTicks \in 0..LeaseTicks
      BY BoundAssumption
    <2>2. lease' \in [Jobs -> 0..LeaseTicks]
      BY <1>3, <2>1 DEF heartbeat_claim
    <2> QED BY <1>3, <2>2 DEF heartbeat_claim, procVars
  <1>4. ASSUME NEW why, terminate_child(w, why) PROVE TypeOK'
    BY <1>4 DEF terminate_child, rowVars, Outcomes
  <1>5. CASE ObserveExit(w)
    BY <1>5 DEF ObserveExit, rowVars
  <1>6. CASE Crash(w)
    BY <1>6 DEF Crash, rowVars
  <1>7. CASE Spawn(w)
    BY <1>7 DEF Spawn, rowVars
  <1> QED BY <1>1, <1>2, <1>3, <1>4, <1>5, <1>6, <1>7 DEF Supervise

\* _persist_attempt_outcome keeps types.
LEMMA PersistType ==
  ASSUME TypeOK, NEW w \in Workers, PersistAttemptOutcome(w)
  PROVE  TypeOK'
  <1> DEFINE j == token[w].job
             st == [status EXCEPT ![j] = "success"]
  <1>0. failure_error_code(j \in Priority, outcome[w]) \in ErrorCodes
    BY PolicyType
  <1>1. CASE complete_job(w)
    <2> DEFINE code == IF outcome[w] = "ok" THEN "none"
                       ELSE failure_error_code(j \in Priority, outcome[w])
    <2>1. lease_matches(w)
      BY <1>1 DEF complete_job, lock_active_execution_state
    <2>2. code \in ErrorCodes /\ "success" \in ExitTypes
      BY <1>0 DEF ErrorCodes, ExitTypes
    <2>3. CloseClaim(w, "success", code)
      BY <1>1 DEF complete_job
    <2>4. j \in Jobs
      BY <2>1, FenceType
    <2>5. st \in [Jobs -> Statuses]
      BY <2>4 DEF TypeOK, Statuses, Terminal
    <2>6. status' \in [Jobs -> Statuses]
      BY <1>1, <2>5, EnqueueType DEF complete_job
    <2>7. range' \in Statuses
      BY <1>1 DEF complete_job, promote_range_parent_if_ready, TypeOK, Statuses, Terminal
    <2>8. /\ next_retry' \in [Jobs -> {"null", "future", "due"}]
          /\ error_code' \in [Jobs -> ErrorCodes]
          /\ quota_pause_count' = quota_pause_count
      BY <1>1, <2>4 DEF complete_job, TypeOK, ErrorCodes
    <2> HIDE DEF code, j
    <2> QED BY SMTT(60), <2>1, <2>2, <2>3, <2>6, <2>7, <2>8, CloseClaimType DEF TypeOK
  <1>2. CASE fail_job(w)
    <2> DEFINE kind == failure_kind(j \in Priority, outcome[w])
               code == failure_error_code(j \in Priority, outcome[w])
               decision == retry_policy(kind, attempt_count[j], quota_pause_count[j],
                                        previous_attempt_exit_type(j, attempt_count[j]))
    <2>1. lease_matches(w)
      BY <1>2 DEF fail_job, lock_active_execution_state
    <2>2. decision \in {"failed", "retry_wait"}
      BY PolicyType
    <2>3. attempt_exit_type(kind, decision) \in ExitTypes
      BY PolicyType
    <2>4. CloseClaim(w, attempt_exit_type(kind, decision), code)
      BY <1>2 DEF fail_job
    <2>5. j \in Jobs
      BY <2>1, FenceType
    <2>6. status' \in [Jobs -> Statuses]
      <3>1. status' = [status EXCEPT ![j] = decision]
        BY <1>2 DEF fail_job
      <3> HIDE DEF decision, j
      <3> QED BY <2>2, <2>5, <3>1 DEF TypeOK, Statuses, Terminal
    <2>7. /\ next_retry' \in [Jobs -> {"null", "future", "due"}]
          /\ error_code' \in [Jobs -> ErrorCodes]
          /\ quota_pause_count' \in [Jobs -> Nat]
          /\ range' = range
      <3>1. /\ next_retry' = [next_retry EXCEPT ![j] =
                                IF decision = "retry_wait" THEN "future" ELSE "null"]
            /\ error_code' = [error_code EXCEPT ![j] = code]
            /\ \/ quota_pause_count' = [quota_pause_count EXCEPT ![j] = @ + 1]
               \/ quota_pause_count' = quota_pause_count
            /\ range' = range
        BY <1>2 DEF fail_job
      <3> HIDE DEF decision, j, code
      <3>2. code \in ErrorCodes
        BY <1>0 DEF code
      <3>3. /\ next_retry' \in [Jobs -> {"null", "future", "due"}]
            /\ error_code' \in [Jobs -> ErrorCodes]
        BY <2>5, <3>1, <3>2 DEF TypeOK
      <3>4. quota_pause_count' \in [Jobs -> Nat]
        <4>1. CASE quota_pause_count' = quota_pause_count
          BY <4>1 DEF TypeOK
        <4>2. CASE quota_pause_count' = [quota_pause_count EXCEPT ![j] = @ + 1]
          <5>1. quota_pause_count[j] + 1 \in Nat
            BY <2>5 DEF TypeOK
          <5> QED BY <4>2, <5>1 DEF TypeOK
        <4> QED BY <3>1, <4>1, <4>2
      <3> QED BY <3>1, <3>3, <3>4
    <2>8. code \in ErrorCodes
      BY <1>0
    <2> HIDE DEF code, j, kind, decision
    <2> QED BY SMTT(60), <2>1, <2>3, <2>4, <2>6, <2>7, <2>8, CloseClaimType DEF TypeOK
  <1>3. CASE OutcomeNotPersisted(w)
    BY <1>3 DEF OutcomeNotPersisted, RunEnds, rowVars, TypeOK
  <1> QED BY <1>1, <1>2, <1>3 DEF PersistAttemptOutcome

\* The exit of a child keeps types when the stages do.
LEMMA ChildExitsType ==
  ASSUME TypeOK, NEW w \in Workers, NEW how \in Outcomes, ChildExits(w, how),
         stage' \in [Jobs -> Seq(Stage)],
         \A j \in Jobs : Len(stage'[j]) = StageCount[j]
  PROVE  TypeOK'
  BY DEF TypeOK, ChildExits, rowVars

\* A checkpoint write keeps the stages of its job a sequence of the same length.
LEMMA CheckpointType ==
  ASSUME TypeOK, NEW j \in Jobs, NEW i, NEW s \in Stage,
         stage' = [stage EXCEPT ![j][i] = s]
  PROVE  /\ stage' \in [Jobs -> Seq(Stage)]
         /\ \A k \in Jobs : Len(stage'[k]) = StageCount[k]
  <1>1. stage[j] \in Seq(Stage)
    BY DEF TypeOK
  <1>2. /\ [stage[j] EXCEPT ![i] = s] \in Seq(Stage)
        /\ Len([stage[j] EXCEPT ![i] = s]) = Len(stage[j])
    <2>1. ASSUME NEW rows \in Seq(Stage)
          PROVE  /\ [rows EXCEPT ![i] = s] \in Seq(Stage)
                 /\ Len([rows EXCEPT ![i] = s]) = Len(rows)
      BY ExceptSeqType
    <2> QED BY <1>1, <2>1
  <1>3. stage' = [stage EXCEPT ![j] = [stage[j] EXCEPT ![i] = s]]
    BY DEF TypeOK
  <1> QED BY SMTT(60), <1>2, <1>3 DEF TypeOK

\* run_daily_stages keeps types.
LEMMA RunDailyStagesType ==
  ASSUME TypeOK, NEW w \in Workers, RunDailyStages(w)
  PROVE  TypeOK'
  <1> DEFINE j == token[w].job
  <1>0. {"ok", "crash", "fatal", "rate_limited", "pause_marker"} \subseteq Outcomes
    BY DEF Outcomes
  <1>1. CASE EnterStage(w)
    <2>1. PICK i \in 1..StageCount[j] : working' = [working EXCEPT ![w] = i]
      BY <1>1 DEF EnterStage
    <2>2. j \in Jobs
      BY <1>1, FenceType DEF EnterStage
    <2>3. i \in Nat
      BY <2>1, <2>2, PlanAssumption
    <2>4. working' \in [Workers -> Nat]
      BY <2>1, <2>3 DEF TypeOK
    <2> QED BY <1>1, <2>4 DEF EnterStage, rowVars, TypeOK
  <1>2. CASE AllStagesDone(w)
    BY <1>0, <1>2, ChildExitsType DEF AllStagesDone, TypeOK
  <1>3. CASE CommitStage(w)
    <2>1. /\ j \in Jobs
          /\ [status |-> "success", epoch |-> lease_epoch[j]] \in Stage
      BY <1>3, FenceType DEF CommitStage, Stage
    <2>2. /\ stage' \in [Jobs -> Seq(Stage)]
          /\ \A k \in Jobs : Len(stage'[k]) = StageCount[k]
      <3>1. stage' = [stage EXCEPT ![j][working[w]] =
                        [status |-> "success", epoch |-> lease_epoch[j]]]
        BY <1>3 DEF CommitStage
      <3> HIDE DEF j
      <3> QED BY <2>1, <3>1, CheckpointType
    <2>3. working' \in [Workers -> Nat]
      BY <1>3 DEF CommitStage, TypeOK
    <2> QED BY <1>3, <2>2, <2>3 DEF CommitStage, rowVars, TypeOK
  <1>4. CASE FencedOut(w)
    BY <1>0, <1>4, ChildExitsType DEF FencedOut, TypeOK
  <1>5. ASSUME NEW how \in Outcomes, StageFails(w, how)
        PROVE  TypeOK'
    <2>1. CASE stage' = stage
      BY <1>5, <2>1, ChildExitsType DEF StageFails, TypeOK
    <2>2. CASE stage' # stage
      <3>1. /\ lease_matches(w)
            /\ stage' = [stage EXCEPT ![j][working[w]] =
                           [status |-> "failed", epoch |-> lease_epoch[j]]]
        BY <1>5, <2>2 DEF StageFails
      <3>2. /\ j \in Jobs
            /\ [status |-> "failed", epoch |-> lease_epoch[j]] \in Stage
        BY <3>1, FenceType DEF Stage
      <3>3. /\ stage' \in [Jobs -> Seq(Stage)]
            /\ \A k \in Jobs : Len(stage'[k]) = StageCount[k]
        <4> HIDE DEF j
        <4> QED BY <3>1, <3>2, CheckpointType
      <3> QED BY <1>5, <3>3, ChildExitsType DEF StageFails
    <2> QED BY <2>1, <2>2
  <1>6. CASE ChildKilled(w)
    BY <1>0, <1>6, ChildExitsType DEF ChildKilled, TypeOK
  <1> QED BY <1>1, <1>2, <1>3, <1>4, <1>5, <1>6 DEF RunDailyStages

\* Admin requests and the clock keep types.
LEMMA ControlType ==
  ASSUME TypeOK,
         \/ \E o \in Operators : \/ CommitControl(o)
                                 \/ \E j \in Jobs : ReadForControl(o, j)
         \/ \E j \in Jobs : LeaseTick(j) \/ RetryDue(j)
  PROVE  TypeOK'
  <1> USE DEF TypeOK
  <1>1. ASSUME NEW o \in Operators, NEW j \in Jobs, ReadForControl(o, j)
        PROVE  TypeOK'
    <2>1. PICK write \in {"cancelled", "retry_wait"} :
            op' = [op EXCEPT ![o] = [job |-> j, write |-> write]]
      BY <1>1 DEF ReadForControl
    <2>2. [job |-> j, write |-> write] \in Request
      BY DEF Request
    <2>3. op' \in [Operators -> Request \cup {NoOne}]
      BY <2>1, <2>2
    <2> QED BY <1>1, <2>3 DEF ReadForControl, rowVars, procVars
  <1>2. ASSUME NEW o \in Operators, CommitControl(o)
        PROVE  TypeOK'
    <2>1. op[o] \in Request
      BY <1>2 DEF CommitControl
    <2>2. op[o].job \in Jobs /\ op[o].write \in {"cancelled", "retry_wait"}
      BY <2>1 DEF Request
    <2>3. status' \in [Jobs -> Statuses]
      BY <1>2, <2>2 DEF CommitControl, Statuses, Terminal
    <2>4. /\ next_retry' \in [Jobs -> {"null", "future", "due"}]
          /\ error_code' \in [Jobs -> ErrorCodes]
          /\ op' \in [Operators -> Request \cup {NoOne}]
      BY ZenonT(60), <1>2, <2>2 DEF CommitControl, ErrorCodes
    <2> QED BY <1>2, <2>3, <2>4 DEF CommitControl, procVars
  <1>3. ASSUME NEW j \in Jobs, LeaseTick(j)
        PROVE  TypeOK'
    <2>1. lease[j] - 1 \in 0..LeaseTicks
      BY <1>3, BoundAssumption DEF LeaseTick
    <2>2. lease' \in [Jobs -> 0..LeaseTicks]
      BY <1>3, <2>1 DEF LeaseTick
    <2> QED BY <1>3, <2>2 DEF LeaseTick, procVars
  <1>4. ASSUME NEW j \in Jobs, RetryDue(j)
        PROVE  TypeOK'
    BY <1>4 DEF RetryDue, procVars
  <1> QED BY <1>1, <1>2, <1>3, <1>4

\* Every step keeps types.
LEMMA NextType == TypeOK /\ [Next]_vars => TypeOK'
  <1> SUFFICES ASSUME TypeOK, [Next]_vars PROVE TypeOK'
    OBVIOUS
  <1>1. CASE Next
    BY <1>1, StartAttemptType, SuperviseType, PersistType, RunDailyStagesType, ControlType
       DEF Next
  <1>2. CASE UNCHANGED vars
    BY <1>2 DEF vars, rowVars, procVars, TypeOK
  <1> QED BY <1>1, <1>2

\* Every reachable state of the control plane is well typed, whatever the plan,
\* the workers, the stages and the admin requests.
THEOREM TypeCorrect == Spec => []TypeOK
  <1>1. Init => TypeOK
    BY InitType
  <1>2. TypeOK /\ [Next]_vars => TypeOK'
    BY NextType
  <1> QED BY <1>1, <1>2, PTL DEF Spec

-----------------------------------------------------------------------------
(* The control invariant.  HistoryContiguous, RunningRowSound and          *)
(* AttemptBudget are preserved together, with two facts no run needs to    *)
(* name: the heavy slot is exclusive, and a row that runs has more         *)
(* attempts than pauses, so that one more pause can be counted.            *)

SlotExclusive ==
  \A j, k \in Jobs : status[j] = "running" /\ status[k] = "running" => j = k

PauseCountable ==
  \A j \in Jobs : status[j] = "running" => quota_pause_count[j] < attempt_count[j]

Control ==
  /\ HistoryContiguous
  /\ RunningRowSound
  /\ AttemptBudget
  /\ SlotExclusive
  /\ PauseCountable

controlVars == <<attempt_count, lease_epoch, quota_pause_count, lease_owner, attempts, comp>>

\* A step that starts no row and writes none of the control columns keeps Control:
\* every process step but claim and closure, and the admin request.
LEMMA ControlFrame ==
  ASSUME TypeOK, Control, UNCHANGED controlVars,
         \A j \in Jobs : status'[j] = "running" => status[j] = "running"
  PROVE  Control'
  <1>1. HistoryContiguous' /\ AttemptBudget'
    BY DEF Control, HistoryContiguous, AttemptBudget, OpenAttempts, controlVars
  <1>2. RunningRowSound'
    BY DEF Control, RunningRowSound, OpenAttempts, controlVars
  <1>3. SlotExclusive' /\ PauseCountable'
    BY DEF Control, SlotExclusive, PauseCountable, controlVars
  <1> QED BY <1>1, <1>2, <1>3 DEF Control

\* A step that stops the one running row j, and closes attempts of j only without
\* renumbering them, keeps Control: quarantine, exhaustion, complete and fail.
LEMMA ControlClose ==
  ASSUME TypeOK, TypeOK', Control, NEW j \in Jobs,
         \A k \in Jobs : status'[k] # "running",
         attempt_count' = attempt_count, lease_epoch' = lease_epoch,
         \A k \in Jobs : k # j => attempts'[k] = attempts[k],
         Len(attempts'[j]) = Len(attempts[j]),
         \A n \in DOMAIN attempts[j] : /\ attempts'[j][n].number = attempts[j][n].number
                                       /\ attempts'[j][n].epoch = attempts[j][n].epoch
                                       /\ Open(attempts'[j][n]) => Open(attempts[j][n]),
         AttemptBudget'
  PROVE  Control'
  <1>1. HistoryContiguous'
    <2> SUFFICES ASSUME NEW k \in Jobs
                 PROVE  /\ lease_epoch'[k] = attempt_count'[k]
                        /\ Len(attempts'[k]) = attempt_count'[k]
                        /\ \A n \in DOMAIN attempts'[k] : /\ attempts'[k][n].number = n
                                                          /\ attempts'[k][n].epoch = n
                        /\ OpenAttempts(k)' \subseteq {attempt_count'[k]}
      BY DEF HistoryContiguous
    <2>1. /\ lease_epoch[k] = attempt_count[k]
          /\ Len(attempts[k]) = attempt_count[k]
          /\ \A n \in DOMAIN attempts[k] : attempts[k][n].number = n /\ attempts[k][n].epoch = n
          /\ OpenAttempts(k) \subseteq {attempt_count[k]}
      BY DEF Control, HistoryContiguous
    <2>2. CASE k # j
      BY <2>1, <2>2 DEF OpenAttempts
    <2>3. CASE k = j
      <3>1. DOMAIN attempts'[j] = DOMAIN attempts[j]
        BY DEF TypeOK
      <3> QED BY <2>1, <2>3, <3>1 DEF OpenAttempts
    <2> QED BY <2>2, <2>3
  <1>2. RunningRowSound' /\ SlotExclusive' /\ PauseCountable'
    BY DEF RunningRowSound, SlotExclusive, PauseCountable
  <1> QED BY <1>1, <1>2 DEF Control

\* No row has run in a freshly planned state.
LEMMA InitControl == Init => Control
  <1> SUFFICES ASSUME Init PROVE Control
    OBVIOUS
  <1>1. \A j \in Jobs : /\ attempts[j] = <<>> /\ attempt_count[j] = 0 /\ lease_epoch[j] = 0
                        /\ quota_pause_count[j] = 0 /\ status[j] # "running"
    BY DEF Init
  <1>2. HistoryContiguous
    BY <1>1 DEF HistoryContiguous, OpenAttempts
  <1>3. AttemptBudget
    BY <1>1, MaxAttemptsAssumption DEF AttemptBudget
  <1> QED BY <1>1, <1>2, <1>3 DEF Control, RunningRowSound, SlotExclusive, PauseCountable

\* Claiming: the new attempt is appended to a closed history.
LEMMA ClaimControl ==
  ASSUME TypeOK, TypeOK', Control, NEW w \in Workers, NEW j \in Jobs,
         claim_next_heavy_job(w, j)
  PROVE  Control'
  <1> DEFINE st == ReconciledStatus
             number == attempt_count[j] + 1
             new == [number |-> number, epoch |-> lease_epoch[j] + 1, worker |-> w,
                     exit |-> "open", code |-> "none"]
             rows == IF st[j] = "running" THEN ExpiredAttemptClosed(j) ELSE attempts[j]
  <1>1. /\ Admitted(st, j)
        /\ attempt_available(j)
        /\ status' = [st EXCEPT ![j] = "running"]
        /\ attempt_count' = [attempt_count EXCEPT ![j] = number]
        /\ lease_epoch' = [lease_epoch EXCEPT ![j] = lease_epoch[j] + 1]
        /\ lease_owner' = [lease_owner EXCEPT ![j] = w]
        /\ attempts' = [attempts EXCEPT ![j] = Append(rows, new)]
        /\ comp'[w] = BindingOf(j, number)
        /\ quota_pause_count' = quota_pause_count
    <2>1. Released(j, {lease_epoch[j]}) \in [Workers -> Binding \cup {NoOne}]
      BY ReleasedType
    <2> QED BY <2>1 DEF claim_next_heavy_job, TypeOK
  <1>2. /\ st \in [Jobs -> Statuses]
        /\ \A k \in Jobs : k # j => st[k] # "running"
    BY <1>1, ReconcileType DEF TypeOK, Admitted, Candidate, no_other_running_heavy_job
  <1>3. \A k \in Jobs : status'[k] = "running" => k = j
    BY <1>1, <1>2
  <1>4. /\ attempts[j] \in Seq(Attempt)
        /\ attempt_count[j] \in Nat
        /\ lease_epoch[j] = attempt_count[j]
        /\ Len(attempts[j]) = attempt_count[j]
        /\ \A n \in DOMAIN attempts[j] : attempts[j][n].number = n /\ attempts[j][n].epoch = n
    BY DEF Control, HistoryContiguous, TypeOK
  <1>5. /\ rows \in Seq(Attempt)
        /\ Len(rows) = attempt_count[j]
        /\ \A n \in DOMAIN rows : /\ rows[n].number = n
                                  /\ rows[n].epoch = n
                                  /\ ~Open(rows[n])
    <2>1. control_state_sound(st[j], j)
      BY <1>1 DEF Admitted
    <2>2. CASE st[j] = "running"
      <3>1. \A n \in DOMAIN attempts[j] : n # lease_epoch[j] => ~Open(attempts[j][n])
        BY <2>1, <2>2 DEF control_state_sound
      <3>2. rows = ExpiredAttemptClosed(j)
        BY <2>2
      <3>3. /\ rows \in Seq(Attempt)
            /\ Len(rows) = Len(attempts[j])
            /\ DOMAIN rows = DOMAIN attempts[j]
            /\ \A n \in DOMAIN attempts[j] :
                 /\ rows[n].number = attempts[j][n].number
                 /\ rows[n].epoch = attempts[j][n].epoch
                 /\ n = lease_epoch[j] => rows[n].exit = "crashed"
                 /\ n # lease_epoch[j] => rows[n] = attempts[j][n]
        BY <3>2, ExpiredClosed
      <3> HIDE DEF rows
      <3> QED BY <1>4, <3>1, <3>3 DEF Open
    <2>3. CASE st[j] # "running"
      <3>1. \A n \in DOMAIN attempts[j] : ~Open(attempts[j][n])
        BY <2>1, <2>3 DEF control_state_sound
      <3> QED BY <1>4, <2>3, <3>1
    <2> QED BY <2>2, <2>3
  <1> HIDE DEF rows
  <1>6. new \in Attempt
    BY <1>4 DEF Attempt, ExitTypes, ErrorCodes
  <1>7. /\ attempts'[j] = Append(rows, new)
        /\ attempt_count'[j] = number
        /\ lease_epoch'[j] = number
        /\ lease_owner'[j] = w
    BY <1>1, <1>4 DEF TypeOK
  <1>8. /\ Len(attempts'[j]) = number
        /\ DOMAIN attempts'[j] = 1..number
        /\ attempts'[j][number] = new
        /\ \A n \in 1..number : n # number => attempts'[j][n] = rows[n] /\ n \in DOMAIN rows
    <2>1. Len(rows) + 1 = number
      BY <1>5
    <2> HIDE DEF new, number
    <2> QED BY <1>4, <1>5, <1>6, <1>7, <2>1
  <1>9. /\ new.number = number /\ new.epoch = number /\ new.worker = w /\ Open(new)
    BY <1>4 DEF Open
  <1>10. HistoryContiguous'
    <2> SUFFICES ASSUME NEW k \in Jobs
                 PROVE  /\ lease_epoch'[k] = attempt_count'[k]
                        /\ Len(attempts'[k]) = attempt_count'[k]
                        /\ \A n \in DOMAIN attempts'[k] : /\ attempts'[k][n].number = n
                                                          /\ attempts'[k][n].epoch = n
                        /\ OpenAttempts(k)' \subseteq {attempt_count'[k]}
      BY DEF HistoryContiguous
    <2>1. CASE k # j
      <3>1. /\ attempts'[k] = attempts[k] /\ attempt_count'[k] = attempt_count[k]
            /\ lease_epoch'[k] = lease_epoch[k]
        BY <1>1, <2>1 DEF TypeOK
      <3> HIDE DEF new, number, st
      <3> QED BY <3>1 DEF Control, HistoryContiguous, OpenAttempts
    <2>2. CASE k = j
      <3> HIDE DEF new, number
      <3> QED BY SMTT(60), <1>5, <1>7, <1>8, <1>9, <2>2 DEF OpenAttempts
    <2> QED BY <2>1, <2>2
  <1>11. RunningRowSound'
    <2>1. OpenAttempts(j)' = {number}
      <3>1. number \in 1..number
        BY <1>4
      <3> HIDE DEF new, number
      <3> QED BY <1>5, <1>8, <1>9, <3>1 DEF OpenAttempts
    <2>2. number > 0
      BY <1>4
    <2>3. comp'[lease_owner'[j]] = BindingOf(j, attempt_count'[j])
      BY <1>1, <1>7
    <2>4. attempts'[j][attempt_count'[j]].worker = lease_owner'[j]
      BY <1>7, <1>8, <1>9
    <2> HIDE DEF new, number
    <2> QED BY <1>3, <1>7, <2>1, <2>2, <2>3, <2>4 DEF RunningRowSound, BindingOf
  <1>12. AttemptBudget'
    <2> SUFFICES ASSUME NEW k \in Jobs
                 PROVE  /\ attempt_count'[k] <= MaxAttempts + quota_pause_count'[k]
                        /\ quota_pause_count'[k] <= attempt_count'[k]
      BY DEF AttemptBudget
    <2>1. /\ MaxAttempts \in Nat
          /\ quota_pause_count'[k] = quota_pause_count[k] /\ quota_pause_count[k] \in Nat
          /\ attempt_count[k] \in Nat
          /\ attempt_count[k] <= MaxAttempts + quota_pause_count[k]
          /\ quota_pause_count[k] <= attempt_count[k]
      BY <1>1, MaxAttemptsAssumption DEF Control, AttemptBudget, TypeOK
    <2>2. CASE k # j
      <3>1. attempt_count'[k] = attempt_count[k]
        BY <1>1, <2>2 DEF TypeOK
      <3> QED BY <2>1, <3>1
    <2>3. CASE k = j
      BY <1>1, <1>7, <2>1, <2>3 DEF attempt_available
    <2> QED BY <2>2, <2>3
  <1>13. SlotExclusive'
    BY <1>3 DEF SlotExclusive
  <1>14. PauseCountable'
    <2>1. quota_pause_count[j] \in Nat /\ quota_pause_count[j] <= attempt_count[j]
      BY DEF Control, AttemptBudget, TypeOK
    <2>2. quota_pause_count'[j] < attempt_count'[j]
      BY <1>1, <1>4, <1>7, <2>1
    <2> QED BY <1>3, <2>2 DEF PauseCountable
  <1> QED BY <1>10, <1>11, <1>12, <1>13, <1>14 DEF Control

\* Quarantine and exhaustion: the row was alone on the slot.
LEMMA FailRowControl ==
  ASSUME TypeOK, TypeOK', Control, NEW w \in Workers, NEW j \in Jobs,
         \/ quarantine_invalid_expired_running_job(w, j)
         \/ fail_job_after_exhausted_crash(w, j)
  PROVE  Control'
  <1> DEFINE st == ReconciledStatus
  <1>1. Candidate(st, j) /\ FailRow(st, j)
    BY DEF quarantine_invalid_expired_running_job, fail_job_after_exhausted_crash, Admitted
  <1>2. st \in [Jobs -> Statuses]
    BY ReconcileType DEF TypeOK
  <1>3. \A k \in Jobs : status'[k] # "running"
    <2>1. \A k \in Jobs : k # j => st[k] # "running"
      BY <1>1 DEF Candidate, no_other_running_heavy_job
    <2>2. status' = [st EXCEPT ![j] = "failed"]
      BY <1>1 DEF FailRow
    <2> QED BY <1>2, <2>1, <2>2
  <1>4. /\ attempt_count' = attempt_count
        /\ lease_epoch' = lease_epoch
        /\ quota_pause_count' = quota_pause_count
    BY <1>1 DEF FailRow
  <1>5. AttemptBudget'
    BY <1>4 DEF Control, AttemptBudget
  <1>6. attempts[j] \in Seq(Attempt)
    BY DEF TypeOK
  <1>7. /\ \A k \in Jobs : k # j => attempts'[k] = attempts[k]
        /\ Len(attempts'[j]) = Len(attempts[j])
        /\ \A n \in DOMAIN attempts[j] : /\ attempts'[j][n].number = attempts[j][n].number
                                         /\ attempts'[j][n].epoch = attempts[j][n].epoch
                                         /\ Open(attempts'[j][n]) => Open(attempts[j][n])
    <2>1. CASE quarantine_invalid_expired_running_job(w, j)
      <3>1. attempts' = [attempts EXCEPT ![j] =
               [n \in DOMAIN attempts[j] |->
                  IF Open(attempts[j][n]) THEN Finished(attempts[j][n], "fatal_failure", "error")
                  ELSE attempts[j][n]]]
        BY <2>1 DEF quarantine_invalid_expired_running_job
      <3>2. /\ \A k \in Jobs : k # j => attempts'[k] = attempts[k]
            /\ attempts'[j] = [n \in DOMAIN attempts[j] |->
                  IF Open(attempts[j][n]) THEN Finished(attempts[j][n], "fatal_failure", "error")
                  ELSE attempts[j][n]]
        BY <3>1 DEF TypeOK
      <3> QED BY <1>6, <3>2, AllFinished
    <2>2. CASE fail_job_after_exhausted_crash(w, j)
      <3>1. attempts' = [attempts EXCEPT ![j] = ExpiredAttemptClosed(j)]
        BY <2>2 DEF fail_job_after_exhausted_crash
      <3>2. /\ \A k \in Jobs : k # j => attempts'[k] = attempts[k]
            /\ attempts'[j] = ExpiredAttemptClosed(j)
        BY <3>1 DEF TypeOK
      <3>4. /\ Len(attempts'[j]) = Len(attempts[j])
            /\ \A n \in DOMAIN attempts[j] :
                 /\ attempts'[j][n].number = attempts[j][n].number
                 /\ attempts'[j][n].epoch = attempts[j][n].epoch
                 /\ n = lease_epoch[j] => attempts'[j][n].exit = "crashed"
                 /\ n # lease_epoch[j] => attempts'[j][n] = attempts[j][n]
        BY <3>2, ExpiredClosed
      <3> QED BY <3>2, <3>4 DEF Open
    <2> QED BY <2>1, <2>2
  <1> QED BY <1>3, <1>4, <1>5, <1>7, ControlClose

\* A persisted outcome leaves the heavy slot free.
LEMMA OutcomeStopsSlot ==
  ASSUME TypeOK, Control, NEW w \in Workers, complete_job(w) \/ fail_job(w)
  PROVE  \A k \in Jobs : status'[k] # "running"
  <1> DEFINE j == token[w].job
  <1>1. lease_matches(w)
    BY SMTT(60) DEF complete_job, fail_job, lock_active_execution_state
  <1>2. j \in Jobs /\ status[j] = "running"
    BY <1>1, FenceType DEF lease_matches
  <1>3. \A k \in Jobs : k # j => status[k] # "running"
    BY <1>2 DEF Control, SlotExclusive
  <1>4. CASE complete_job(w)
    <2> DEFINE st == [status EXCEPT ![j] = "success"]
    <2>1. st \in [Jobs -> Statuses]
      BY <1>2 DEF TypeOK, Statuses, Terminal
    <2>2. \A k \in Jobs : st[k] # "running"
      BY <1>2, <1>3 DEF TypeOK
    <2>3. status' = st \/ status' = enqueue_finalize_if_ready(st)
      BY <1>4 DEF complete_job
    <2> HIDE DEF st
    <2> QED BY <2>1, <2>2, <2>3, EnqueueType
  <1>5. CASE fail_job(w)
    <2> DEFINE d == retry_policy(failure_kind(j \in Priority, outcome[w]), attempt_count[j],
                                 quota_pause_count[j],
                                 previous_attempt_exit_type(j, attempt_count[j]))
    <2>1. d \in {"failed", "retry_wait"}
      BY PolicyType
    <2>2. status' = [status EXCEPT ![j] = d]
      BY <1>5 DEF fail_job
    <2> HIDE DEF d
    <2>3. \A k \in Jobs : status'[k] = IF k = j THEN d ELSE status[k]
      BY <2>2 DEF TypeOK
    <2> HIDE DEF j
    <2> QED BY <1>3, <2>1, <2>3
  <1> QED BY <1>4, <1>5

\* A persisted outcome closes the claim with an exit type that is not "open".
LEMMA OutcomeClosesClaim ==
  ASSUME NEW w \in Workers, complete_job(w) \/ fail_job(w)
  PROVE  \E exit \in ExitTypes \ {"open"}, code \in ErrorCodes : CloseClaim(w, exit, code)
  <1> DEFINE j == token[w].job
  <1>1. failure_error_code(j \in Priority, outcome[w]) \in ErrorCodes
    BY PolicyType
  <1>2. CASE complete_job(w)
    <2>1. (IF outcome[w] = "ok" THEN "none"
           ELSE failure_error_code(j \in Priority, outcome[w])) \in ErrorCodes
      BY <1>1 DEF ErrorCodes
    <2>2. "success" \in ExitTypes \ {"open"}
      BY DEF ExitTypes
    <2> QED BY <1>2, <2>1, <2>2 DEF complete_job
  <1>3. CASE fail_job(w)
    BY <1>1, <1>3, PolicyType DEF fail_job
  <1> QED BY <1>2, <1>3

\* complete_job and fail_job: the fence says that the row is the running one.
LEMMA PersistControl ==
  ASSUME TypeOK, TypeOK', Control, NEW w \in Workers, PersistAttemptOutcome(w)
  PROVE  Control'
  <1> DEFINE j == token[w].job
  <1>1. CASE OutcomeNotPersisted(w)
    BY <1>1, ControlFrame DEF OutcomeNotPersisted, rowVars, controlVars
  <1>2. ASSUME complete_job(w) \/ fail_job(w)
        PROVE  Control'
    <2>1. lease_matches(w)
      BY SMTT(60), <1>2 DEF complete_job, fail_job, lock_active_execution_state
    <2>2. /\ j \in Jobs
          /\ status[j] = "running"
          /\ attempts[j] \in Seq(Attempt)
      BY <2>1, FenceType DEF lease_matches
    <2>4. \A k \in Jobs : status'[k] # "running"
      BY <1>2, OutcomeStopsSlot
    <2>5. PICK exit \in ExitTypes \ {"open"}, code \in ErrorCodes : CloseClaim(w, exit, code)
      BY <1>2, OutcomeClosesClaim
    <2>6. /\ attempt_count' = attempt_count
          /\ lease_epoch' = lease_epoch
          /\ \A k \in Jobs : k # j => attempts'[k] = attempts[k]
          /\ attempts'[j] = finish_attempt(attempts[j], token[w].number, exit, code)
      <3>1. attempt_count' = attempt_count /\ lease_epoch' = lease_epoch
        BY <2>5 DEF CloseClaim
      <3>2. attempts' = [attempts EXCEPT ![j] = finish_attempt(@, token[w].number, exit, code)]
        BY <2>5 DEF CloseClaim
      <3>3. \A k \in Jobs : k # j => attempts'[k] = attempts[k]
        BY <3>2 DEF TypeOK
      <3>4. attempts'[j] = finish_attempt(attempts[j], token[w].number, exit, code)
        BY <2>2, <3>2 DEF TypeOK
      <3> QED BY <3>1, <3>3, <3>4
    <2>7. /\ Len(attempts'[j]) = Len(attempts[j])
          /\ \A n \in DOMAIN attempts[j] :
               /\ attempts'[j][n].number = attempts[j][n].number
               /\ attempts'[j][n].epoch = attempts[j][n].epoch
               /\ n = token[w].number => attempts'[j][n].exit = exit
               /\ n # token[w].number => attempts'[j][n] = attempts[j][n]
      <3>1. exit \in ExitTypes /\ code \in ErrorCodes
        BY <2>5
      <3> HIDE DEF j
      <3> QED BY <2>2, <2>6, <3>1, OneFinished
    <2>8. \A n \in DOMAIN attempts[j] : Open(attempts'[j][n]) => Open(attempts[j][n])
      BY <2>5, <2>7 DEF Open
    <2>9. AttemptBudget'
      <3> SUFFICES ASSUME NEW k \in Jobs
                   PROVE  /\ attempt_count'[k] <= MaxAttempts + quota_pause_count'[k]
                          /\ quota_pause_count'[k] <= attempt_count'[k]
        BY DEF AttemptBudget
      <3>1. /\ MaxAttempts \in Nat
            /\ attempt_count'[k] = attempt_count[k] /\ attempt_count[k] \in Nat
            /\ quota_pause_count[k] \in Nat
            /\ attempt_count[k] <= MaxAttempts + quota_pause_count[k]
            /\ quota_pause_count[k] <= attempt_count[k]
        BY <2>6, MaxAttemptsAssumption DEF Control, AttemptBudget, TypeOK
      <3>2. \/ quota_pause_count' = quota_pause_count
            \/ quota_pause_count' = [quota_pause_count EXCEPT ![j] = @ + 1]
        BY <1>2 DEF complete_job, fail_job
      <3>3. quota_pause_count[j] < attempt_count[j]
        BY <2>2 DEF Control, PauseCountable
      <3>4. \/ quota_pause_count'[k] = quota_pause_count[k]
            \/ k = j /\ quota_pause_count'[k] = quota_pause_count[k] + 1
        <4>1. CASE quota_pause_count' = quota_pause_count
          BY <4>1
        <4>2. CASE quota_pause_count' = [quota_pause_count EXCEPT ![j] = @ + 1]
          <5> HIDE DEF j
          <5> QED BY <4>2 DEF TypeOK
        <4> QED BY <3>2, <4>1, <4>2
      <3> HIDE DEF j
      <3> QED BY <3>1, <3>3, <3>4
    <2> HIDE DEF j
    <2> QED BY <2>2, <2>4, <2>6, <2>7, <2>8, <2>9, ControlClose
  <1> QED BY <1>1, <1>2 DEF PersistAttemptOutcome

\* Control is preserved by every step.
LEMMA NextControl == TypeOK /\ TypeOK' /\ Control /\ [Next]_vars => Control'
  <1> SUFFICES ASSUME TypeOK, TypeOK', Control, [Next]_vars PROVE Control'
    OBVIOUS
  <1> USE DEF rowVars, procVars, controlVars
  <1>1. ASSUME NEW w \in Workers, StartAttempt(w) PROVE Control'
    <2>1. CASE ReconcileOnly(w)
      BY <2>1, ReconcileType, ControlFrame DEF ReconcileOnly, TypeOK
    <2> QED BY <1>1, <2>1, FailRowControl, ClaimControl DEF StartAttempt
  <1>2. ASSUME NEW w \in Workers, Supervise(w) \/ Crash(w) PROVE Control'
    BY <1>2, ControlFrame DEF Supervise, Spawn, mark_attempt_started, StartFails, heartbeat_claim,
                              terminate_child, ObserveExit, Crash
  <1>3. ASSUME NEW w \in Workers, PersistAttemptOutcome(w) PROVE Control'
    BY <1>3, PersistControl
  <1>4. ASSUME NEW w \in Workers, RunDailyStages(w) PROVE Control'
    <2>1. UNCHANGED rowVars /\ UNCHANGED <<attempts, comp>>
      BY <1>4 DEF RunDailyStages, EnterStage, AllStagesDone, CommitStage, FencedOut, StageFails,
                  ChildKilled, ChildExits
    <2> QED BY <2>1, ControlFrame
  <1>5. ASSUME NEW o \in Operators, CommitControl(o) PROVE Control'
    <2>1. op[o] \in Request
      BY <1>5 DEF CommitControl, TypeOK
    <2>2. \A j \in Jobs : status'[j] = "running" => status[j] = "running"
      BY <1>5, <2>1 DEF CommitControl, Request, TypeOK
    <2> QED BY <1>5, <2>2, ControlFrame DEF CommitControl
  <1>6. ASSUME NEW o \in Operators, NEW j \in Jobs, ReadForControl(o, j) PROVE Control'
    BY <1>6, ControlFrame DEF ReadForControl
  <1>7. ASSUME NEW j \in Jobs, LeaseTick(j) \/ RetryDue(j) PROVE Control'
    BY <1>7, ControlFrame DEF LeaseTick, RetryDue
  <1>8. CASE UNCHANGED vars
    BY <1>8, ControlFrame DEF vars
  <1> QED BY <1>1, <1>2, <1>3, <1>4, <1>5, <1>6, <1>7, <1>8 DEF Next

\* The inductive invariant of the control plane: claim, takeover, quarantine and the
\* terminal writes keep counters, history, lease and binding of every row in step.
THEOREM ControlInvariant == Spec => [](TypeOK /\ Control)
  <1>1. Init => TypeOK /\ Control
    BY InitType, InitControl
  <1>2. TypeOK /\ Control /\ [Next]_vars => TypeOK' /\ Control'
    BY NextType, NextControl
  <1> QED BY <1>1, <1>2, PTL DEF Spec

\* The attempt history of every job stays contiguous through crashes, takeovers,
\* quarantine and racing admin requests.
THEOREM HistoryIsContiguous == Spec => []HistoryContiguous
  <1>1. TypeOK /\ Control => HistoryContiguous
    BY DEF Control
  <1> QED BY <1>1, ControlInvariant, PTL

\* A running row always has its owner, its one unfinished attempt and the bound
\* component that takeover and the fences rely on.
THEOREM RunningRowIsSound == Spec => []RunningRowSound
  <1>1. TypeOK /\ Control => RunningRowSound
    BY DEF Control
  <1> QED BY <1>1, ControlInvariant, PTL

\* Net of scheduler pauses a row never starts more attempts than it may.
THEOREM BudgetIsKept == Spec => []AttemptBudget
  <1>1. TypeOK /\ Control => AttemptBudget
    BY DEF Control
  <1> QED BY <1>1, ControlInvariant, PTL

\* At most one process passes the fence, however many tokens are held.
THEOREM WriterIsSingle == Spec => []SingleWriter
  <1>1. TypeOK /\ Control => SingleWriter
    <2> SUFFICES ASSUME TypeOK, Control, NEW v \in Workers, NEW w \in Workers,
                        lease_matches(v), lease_matches(w)
                 PROVE  v = w
      BY DEF SingleWriter
    <2>1. token[v].job \in Jobs /\ token[w].job \in Jobs
      BY FenceType
    <2>2. token[v].job = token[w].job
      BY <2>1 DEF lease_matches, Control, SlotExclusive
    <2> QED BY <2>2 DEF lease_matches
  <1> QED BY <1>1, ControlInvariant, PTL
=============================================================================
