-------------------------- MODULE JobClosureProofs --------------------------
(***************************************************************************)
(* Proof that a failed row leaves nothing behind: no unfinished attempt    *)
(* and no component that still believes to work for it, whatever crashes,  *)
(* takeovers, quarantines and racing admin requests led there.             *)
(***************************************************************************)
EXTENDS JobControlProofs, FiniteSetTheorems

\* A component is bound to an unfinished attempt of its own, or to nothing.
BindingsOpen ==
  \A w \in Workers : comp[w] # NoOne =>
    /\ comp[w].number \in DOMAIN attempts[comp[w].job]
    /\ attempts[comp[w].job][comp[w].number].worker = w
    /\ Open(attempts[comp[w].job][comp[w].number])

FailedAttemptsClosed ==
  \A j \in Jobs : status[j] = "failed" => OpenAttempts(j) = {}

Closure == BindingsOpen /\ FailedAttemptsClosed

\* A step that fails no row and writes neither attempts nor components keeps it.
LEMMA ClosureFrame ==
  ASSUME Closure, UNCHANGED <<attempts, comp>>,
         \A j \in Jobs : status'[j] = "failed" => status[j] = "failed"
  PROVE  Closure'
  <1>1. BindingsOpen'
    BY DEF Closure, BindingsOpen
  <1>2. FailedAttemptsClosed'
    BY DEF Closure, FailedAttemptsClosed, OpenAttempts
  <1> QED BY <1>1, <1>2 DEF Closure

\* A step that leaves job j without unfinished attempt and without bound component,
\* and the other jobs and their components alone, keeps it.
LEMMA ClosureClose ==
  ASSUME TypeOK, Closure, NEW j \in Jobs,
         \A k \in Jobs : k # j => /\ attempts'[k] = attempts[k]
                                  /\ status'[k] = "failed" => status[k] = "failed",
         OpenAttempts(j)' = {},
         \A w \in Workers : comp'[w] # NoOne => comp'[w] = comp[w] /\ comp[w].job # j
  PROVE  Closure'
  <1>1. BindingsOpen'
    <2> SUFFICES ASSUME NEW w \in Workers, comp'[w] # NoOne
                 PROVE  /\ comp'[w].number \in DOMAIN attempts'[comp'[w].job]
                        /\ attempts'[comp'[w].job][comp'[w].number].worker = w
                        /\ Open(attempts'[comp'[w].job][comp'[w].number])
      BY DEF BindingsOpen
    <2>1. comp'[w] = comp[w] /\ comp[w].job # j /\ comp[w].job \in Jobs
      BY DEF TypeOK, Binding
    <2>2. attempts'[comp[w].job] = attempts[comp[w].job]
      BY <2>1
    <2> QED BY <2>1, <2>2 DEF Closure, BindingsOpen
  <1>2. FailedAttemptsClosed'
    <2> SUFFICES ASSUME NEW k \in Jobs, status'[k] = "failed"
                 PROVE  OpenAttempts(k)' = {}
      BY DEF FailedAttemptsClosed
    <2>1. CASE k # j
      BY <2>1 DEF Closure, FailedAttemptsClosed, OpenAttempts
    <2> QED BY <2>1
  <1> QED BY <1>1, <1>2 DEF Closure

\* Where the binding of a component points.
LEMMA BindingShape ==
  ASSUME TypeOK, Control, Closure, NEW w \in Workers, comp[w] # NoOne
  PROVE  /\ comp[w].job \in Jobs
         /\ comp[w] = BindingOf(comp[w].job, comp[w].number)
         /\ comp[w].number = attempt_count[comp[w].job]
         /\ comp[w].number \in DOMAIN attempts[comp[w].job]
         /\ attempts[comp[w].job][comp[w].number].worker = w
  <1>1. comp[w].job \in Jobs /\ comp[w] = BindingOf(comp[w].job, comp[w].number)
    BY DEF TypeOK, Binding, BindingOf
  <1>2. /\ comp[w].number \in DOMAIN attempts[comp[w].job]
        /\ attempts[comp[w].job][comp[w].number].worker = w
        /\ Open(attempts[comp[w].job][comp[w].number])
    BY DEF Closure, BindingsOpen
  <1>3. comp[w].number \in OpenAttempts(comp[w].job)
    BY <1>2 DEF OpenAttempts
  <1> QED BY <1>1, <1>2, <1>3 DEF Control, HistoryContiguous

\* Releasing the components of the newest attempt releases all of the job.
LEMMA ReleasedAll ==
  ASSUME TypeOK, Control, Closure, NEW j \in Jobs, NEW ns, attempt_count[j] \in ns,
         NEW w \in Workers, Released(j, ns)[w] # NoOne
  PROVE  Released(j, ns)[w] = comp[w] /\ comp[w].job # j
  <1>1. Released(j, ns)[w] = comp[w] /\ comp[w] # NoOne
    BY DEF Released
  <1>2. ASSUME comp[w].job = j PROVE FALSE
    <2>1. /\ attempts[j][attempt_count[j]].worker = w
          /\ comp[w] = BindingOf(j, attempt_count[j])
      BY <1>1, <1>2, BindingShape
    <2> QED BY <1>1, <2>1 DEF Released
  <1> QED BY <1>1, <1>2

\* Quarantine and exhaustion close and release everything of their row.
LEMMA FailRowClosure ==
  ASSUME TypeOK, Control, Closure, NEW w \in Workers, NEW j \in Jobs,
         \/ quarantine_invalid_expired_running_job(w, j)
         \/ fail_job_after_exhausted_crash(w, j)
  PROVE  Closure'
  <1>0. attempts[j] \in Seq(Attempt)
    BY DEF TypeOK
  <1>1. \A k \in Jobs : k # j /\ status'[k] = "failed" => status[k] = "failed"
    <2>1. status' = [ReconciledStatus EXCEPT ![j] = "failed"]
      BY DEF quarantine_invalid_expired_running_job, fail_job_after_exhausted_crash, FailRow
    <2> QED BY <2>1, ReconcileType DEF TypeOK
  <1>2. CASE quarantine_invalid_expired_running_job(w, j)
    <2> DEFINE done == [n \in DOMAIN attempts[j] |->
                          IF Open(attempts[j][n])
                          THEN Finished(attempts[j][n], "fatal_failure", "error")
                          ELSE attempts[j][n]]
    <2>1. attempts' = [attempts EXCEPT ![j] = done] /\ comp' = Released(j, DOMAIN attempts[j])
      BY <1>2 DEF quarantine_invalid_expired_running_job
    <2>2. \A n \in DOMAIN attempts[j] : ~Open(done[n])
      BY <1>0, AllFinished
    <2>3. DOMAIN done = DOMAIN attempts[j]
      OBVIOUS
    <2> HIDE DEF done
    <2>4. attempts'[j] = done /\ \A k \in Jobs : k # j => attempts'[k] = attempts[k]
      BY <2>1 DEF TypeOK
    <2>5. OpenAttempts(j)' = {}
      BY <2>2, <2>3, <2>4 DEF OpenAttempts
    <2>6. ASSUME NEW v \in Workers, comp'[v] # NoOne
          PROVE  comp'[v] = comp[v] /\ comp[v].job # j
      <3>1. comp'[v] = comp[v]
        BY <2>1, <2>6 DEF Released
      <3>2. ASSUME comp[v].job = j PROVE FALSE
        <4>1. /\ attempt_count[j] \in DOMAIN attempts[j]
              /\ attempts[j][attempt_count[j]].worker = v
              /\ comp[v] = BindingOf(j, attempt_count[j])
          BY <2>6, <3>1, <3>2, BindingShape
        <4> QED BY <2>1, <2>6, <4>1 DEF Released
      <3> QED BY <3>1, <3>2
    <2> QED BY <1>1, <2>4, <2>5, <2>6, ClosureClose
  <1>3. CASE fail_job_after_exhausted_crash(w, j)
    <2>1. /\ attempts' = [attempts EXCEPT ![j] = ExpiredAttemptClosed(j)]
          /\ comp' = Released(j, {lease_epoch[j]})
          /\ lease_epoch[j] = attempt_count[j]
      BY <1>3 DEF fail_job_after_exhausted_crash, Control, HistoryContiguous
    <2>2. attempts'[j] = ExpiredAttemptClosed(j)
      BY <2>1 DEF TypeOK
    <2>3. \A k \in Jobs : k # j => attempts'[k] = attempts[k]
      BY <2>1 DEF TypeOK
    <2>4. OpenAttempts(j)' = {}
      <3>1. OpenAttempts(j) \subseteq {lease_epoch[j]}
        BY <2>1 DEF Control, HistoryContiguous
      <3>2. \A n \in DOMAIN ExpiredAttemptClosed(j) : ~Open(ExpiredAttemptClosed(j)[n])
        BY <3>1, ExpiredClosed DEF OpenAttempts, Open
      <3> QED BY <2>2, <3>2 DEF OpenAttempts
    <2>5. ASSUME NEW v \in Workers, comp'[v] # NoOne
          PROVE  comp'[v] = comp[v] /\ comp[v].job # j
      BY <2>1, <2>5, ReleasedAll
    <2> QED BY <1>1, <2>3, <2>4, <2>5, ClosureClose
  <1> QED BY <1>2, <1>3

\* complete_job and fail_job close the one unfinished attempt and release its worker.
LEMMA OutcomeClosure ==
  ASSUME TypeOK, Control, Closure, NEW w \in Workers, complete_job(w) \/ fail_job(w)
  PROVE  Closure'
  <1>1. lease_matches(w)
    BY DEF complete_job, fail_job, lock_active_execution_state
  <1>0. PICK j, t : j = token[w].job /\ t = token[w].number
    BY SMTT(60)
  <1>2. /\ j \in Jobs
        /\ t \in DOMAIN attempts[j]
        /\ attempts[j] \in Seq(Attempt)
        /\ attempts[j][t].worker = w
        /\ Open(attempts[j][t])
    BY <1>0, <1>1, FenceType DEF lease_matches
  <1>3. t = attempt_count[j] /\ OpenAttempts(j) = {t}
    <2>1. t \in OpenAttempts(j)
      BY <1>2 DEF OpenAttempts
    <2> QED BY <1>2, <2>1 DEF Control, HistoryContiguous
  <1>4. PICK exit \in ExitTypes \ {"open"}, code \in ErrorCodes : CloseClaim(w, exit, code)
    BY OutcomeClosesClaim
  <1>5. /\ attempts' = [attempts EXCEPT ![j] = finish_attempt(@, t, exit, code)]
        /\ comp' = [comp EXCEPT ![w] = NoOne]
    BY <1>0, <1>4 DEF CloseClaim
  <1>6. attempts'[j] = finish_attempt(attempts[j], t, exit, code)
    BY <1>2, <1>5 DEF TypeOK
  <1>7. \A k \in Jobs : k # j => attempts'[k] = attempts[k]
    BY <1>5 DEF TypeOK
  <1>8. OpenAttempts(j)' = {}
    <2>1. exit \in ExitTypes /\ exit # "open" /\ code \in ErrorCodes
      BY <1>4
    <2>2. \A n \in DOMAIN attempts[j] : n # t => ~Open(attempts[j][n])
      BY <1>3 DEF OpenAttempts
    <2>3. /\ DOMAIN attempts'[j] = DOMAIN attempts[j]
          /\ \A n \in DOMAIN attempts[j] : /\ n = t => attempts'[j][n].exit = exit
                                           /\ n # t => attempts'[j][n] = attempts[j][n]
      BY <1>2, <1>6, <2>1, OneFinished
    <2> QED BY <2>1, <2>2, <2>3 DEF OpenAttempts, Open
  <1>9. ASSUME NEW v \in Workers, comp'[v] # NoOne
        PROVE  comp'[v] = comp[v] /\ comp[v].job # j
    <2>1. v # w /\ comp'[v] = comp[v]
      BY <1>5, <1>9 DEF TypeOK
    <2>2. comp[v].job = j => attempts[j][attempt_count[j]].worker = v
      BY <1>9, <2>1, BindingShape
    <2> QED BY <1>2, <1>3, <2>1, <2>2
  <1>10. \A k \in Jobs : k # j /\ status'[k] = "failed" => status[k] = "failed"
    <2>1. CASE complete_job(w)
      <3> DEFINE st == [status EXCEPT ![j] = "success"]
      <3>1. st \in [Jobs -> Statuses] /\ \A k \in Jobs : k # j => st[k] = status[k]
        BY <1>2 DEF TypeOK, Statuses, Terminal
      <3>2. status' = st \/ status' = enqueue_finalize_if_ready(st)
        BY <1>0, <2>1 DEF complete_job
      <3> HIDE DEF st
      <3> QED BY <3>1, <3>2, EnqueueType
    <2>2. CASE fail_job(w)
      <3>1. \E d : status' = [status EXCEPT ![j] = d]
        BY <1>0, <2>2 DEF fail_job
      <3> QED BY <3>1 DEF TypeOK
    <2> QED BY <2>1, <2>2
  <1> QED BY <1>2, <1>7, <1>8, <1>9, <1>10, ClosureClose

\* A claim binds its worker to the attempt it opens, on a row that is not failed.
LEMMA ClaimClosure ==
  ASSUME TypeOK, Control, Closure, NEW w \in Workers, NEW j \in Jobs,
         claim_next_heavy_job(w, j)
  PROVE  Closure'
  <1> DEFINE st == ReconciledStatus
             number == attempt_count[j] + 1
             new == [number |-> number, epoch |-> lease_epoch[j] + 1, worker |-> w,
                     exit |-> "open", code |-> "none"]
             rows == IF st[j] = "running" THEN ExpiredAttemptClosed(j) ELSE attempts[j]
             bound == IF st[j] = "running" THEN Released(j, {lease_epoch[j]}) ELSE comp
  <1>1. /\ Admitted(st, j)
        /\ status' = [st EXCEPT ![j] = "running"]
        /\ attempts' = [attempts EXCEPT ![j] = Append(rows, new)]
        /\ comp' = [bound EXCEPT ![w] = BindingOf(j, number)]
    BY DEF claim_next_heavy_job
  <1>2. /\ rows \in Seq(Attempt) /\ Len(rows) = attempt_count[j]
        /\ new \in Attempt /\ new.worker = w /\ Open(new)
        /\ attempt_count[j] \in Nat /\ lease_epoch[j] = attempt_count[j]
    <2>1. /\ attempts[j] \in Seq(Attempt) /\ Len(attempts[j]) = attempt_count[j]
          /\ attempt_count[j] \in Nat /\ lease_epoch[j] = attempt_count[j]
      BY DEF TypeOK, Control, HistoryContiguous
    <2>2. rows \in Seq(Attempt) /\ Len(rows) = attempt_count[j]
      BY <2>1, ExpiredClosed
    <2>3. new \in Attempt /\ new.worker = w /\ Open(new)
      BY <2>1 DEF Attempt, ExitTypes, ErrorCodes, Open
    <2> QED BY <2>1, <2>2, <2>3
  <1>3. bound \in [Workers -> Binding \cup {NoOne}]
    BY ReleasedType DEF TypeOK
  <1>4. /\ attempts'[j] = Append(rows, new)
        /\ \A k \in Jobs : k # j => attempts'[k] = attempts[k]
    BY <1>1 DEF TypeOK
  <1>5. number \in DOMAIN attempts'[j] /\ attempts'[j][number] = new
    <2> HIDE DEF rows, new
    <2> QED BY <1>2, <1>4
  <1>6. ASSUME NEW v \in Workers, bound[v] # NoOne
        PROVE  bound[v] = comp[v] /\ comp[v].job # j
    <2>1. CASE st[j] = "running"
      BY <1>2, <1>6, <2>1, ReleasedAll
    <2>2. CASE st[j] # "running"
      <3>1. bound[v] = comp[v]
        BY <2>2
      <3>2. ASSUME comp[v].job = j PROVE FALSE
        <4>1. OpenAttempts(j) = {}
          BY <1>1, <2>2 DEF Admitted, control_state_sound, OpenAttempts
        <4>2. comp[v].number \in OpenAttempts(j)
          BY <1>6, <3>1, <3>2 DEF Closure, BindingsOpen, OpenAttempts
        <4> QED BY <4>1, <4>2
      <3> QED BY <3>1, <3>2
    <2> QED BY <2>1, <2>2
  <1> HIDE DEF rows, bound, new, number
  <1>7. BindingsOpen'
    <2> SUFFICES ASSUME NEW v \in Workers, comp'[v] # NoOne
                 PROVE  /\ comp'[v].number \in DOMAIN attempts'[comp'[v].job]
                        /\ attempts'[comp'[v].job][comp'[v].number].worker = v
                        /\ Open(attempts'[comp'[v].job][comp'[v].number])
      BY DEF BindingsOpen
    <2>1. CASE v = w
      <3>1. comp'[v].job = j /\ comp'[v].number = number
        BY <1>1, <1>3, <2>1 DEF BindingOf
      <3> QED BY <1>2, <1>5, <2>1, <3>1
    <2>2. CASE v # w
      <3>1. comp'[v] = bound[v]
        BY <1>1, <1>3, <2>2
      <3>2. comp'[v] = comp[v] /\ comp[v].job # j /\ comp[v].job \in Jobs
        BY <1>6, <3>1 DEF TypeOK, Binding
      <3>3. attempts'[comp[v].job] = attempts[comp[v].job]
        BY <1>4, <3>2
      <3> QED BY <3>2, <3>3 DEF Closure, BindingsOpen
    <2> QED BY <2>1, <2>2
  <1>8. FailedAttemptsClosed'
    <2> SUFFICES ASSUME NEW k \in Jobs, status'[k] = "failed"
                 PROVE  OpenAttempts(k)' = {}
      BY DEF FailedAttemptsClosed
    <2>1. k # j /\ status[k] = "failed"
      BY <1>1, ReconcileType DEF TypeOK
    <2> QED BY <1>4, <2>1 DEF Closure, FailedAttemptsClosed, OpenAttempts
  <1> QED BY <1>7, <1>8 DEF Closure

\* Nothing is bound and nothing has failed in a freshly planned state.
LEMMA InitClosure == Init => Closure
  BY DEF Init, Closure, BindingsOpen, FailedAttemptsClosed

\* Bindings and failed rows stay closed by every step.
LEMMA NextClosure == TypeOK /\ Control /\ Closure /\ [Next]_vars => Closure'
  <1> SUFFICES ASSUME TypeOK, Control, Closure, [Next]_vars PROVE Closure'
    OBVIOUS
  <1> USE DEF rowVars, procVars
  <1>1. ASSUME NEW w \in Workers, StartAttempt(w) PROVE Closure'
    <2>1. CASE ReconcileOnly(w)
      BY <2>1, ReconcileType, ClosureFrame DEF ReconcileOnly, TypeOK
    <2> QED BY <1>1, <2>1, FailRowClosure, ClaimClosure DEF StartAttempt
  <1>2. ASSUME NEW w \in Workers, Supervise(w) \/ Crash(w) PROVE Closure'
    BY <1>2, ClosureFrame DEF Supervise, Spawn, mark_attempt_started, StartFails, heartbeat_claim,
                              terminate_child, ObserveExit, Crash
  <1>3. ASSUME NEW w \in Workers, PersistAttemptOutcome(w) PROVE Closure'
    <2>1. CASE OutcomeNotPersisted(w)
      BY <2>1, ClosureFrame DEF OutcomeNotPersisted
    <2> QED BY <1>3, <2>1, OutcomeClosure DEF PersistAttemptOutcome
  <1>4. ASSUME NEW w \in Workers, RunDailyStages(w) PROVE Closure'
    <2>1. UNCHANGED rowVars /\ UNCHANGED <<attempts, comp>>
      BY <1>4 DEF RunDailyStages, EnterStage, AllStagesDone, CommitStage, FencedOut, StageFails,
                  ChildKilled, ChildExits
    <2> QED BY <2>1, ClosureFrame
  <1>5. ASSUME NEW o \in Operators, CommitControl(o) PROVE Closure'
    <2>1. op[o] \in Request
      BY <1>5 DEF CommitControl, TypeOK
    <2>2. \A j \in Jobs : status'[j] = "failed" => status[j] = "failed"
      BY <1>5, <2>1 DEF CommitControl, Request, TypeOK
    <2> QED BY <1>5, <2>2, ClosureFrame DEF CommitControl
  <1>6. ASSUME NEW o \in Operators, NEW j \in Jobs, ReadForControl(o, j) PROVE Closure'
    BY <1>6, ClosureFrame DEF ReadForControl
  <1>7. ASSUME NEW j \in Jobs, LeaseTick(j) \/ RetryDue(j) PROVE Closure'
    BY <1>7, ClosureFrame DEF LeaseTick, RetryDue
  <1>8. CASE UNCHANGED vars
    BY <1>8, ClosureFrame DEF vars
  <1> QED BY <1>1, <1>2, <1>3, <1>4, <1>5, <1>6, <1>7, <1>8 DEF Next

\* A failed row has no unfinished attempt and no component bound to it.
THEOREM FailedRowsAreClosed == Spec => []FailedRowClosed
  <1>1. TypeOK /\ Control /\ Closure => FailedRowClosed
    <2> SUFFICES ASSUME TypeOK, Control, Closure, NEW j \in Jobs, status[j] = "failed"
                 PROVE  /\ OpenAttempts(j) = {}
                        /\ \A w \in Workers : comp[w] = NoOne \/ comp[w].job # j
      BY DEF FailedRowClosed
    <2>1. OpenAttempts(j) = {}
      BY DEF Closure, FailedAttemptsClosed
    <2>2. ASSUME NEW w \in Workers, comp[w] # NoOne, comp[w].job = j PROVE FALSE
      BY <2>1, <2>2 DEF Closure, BindingsOpen, OpenAttempts
    <2> QED BY <2>1, <2>2
  <1>2. Init => Closure
    BY InitClosure
  <1>3. TypeOK /\ Control /\ Closure /\ [Next]_vars => Closure'
    BY NextClosure
  <1> QED BY <1>1, <1>2, <1>3, ControlInvariant, PTL DEF Spec

-----------------------------------------------------------------------------
(* No process of the plane reopens a finished row.                         *)

\* Reconciliation, claims and persisted outcomes write rows that are not finished;
\* the admin request is the one writer that looks at nothing, and it changes op.
LEMMA TerminalKept ==
  ASSUME TypeOK, [Next]_vars, op' = op, NEW j \in Jobs, status[j] \in Terminal
  PROVE  status'[j] = status[j]
  <1> USE DEF rowVars, procVars
  <1>0. /\ ReconciledStatus \in [Jobs -> Statuses]
        /\ ReconciledStatus[j] = status[j]
    <2>1. status[j] # "absent"
      BY DEF Terminal
    <2> QED BY <2>1, ReconcileType DEF TypeOK
  <1>1. ASSUME NEW w \in Workers, StartAttempt(w) PROVE status'[j] = status[j]
    <2>1. CASE ReconcileOnly(w)
      BY <1>0, <2>1 DEF ReconcileOnly
    <2>2. ASSUME NEW k \in Jobs, Candidate(ReconciledStatus, k) PROVE k # j
      BY <1>0, <2>2 DEF Candidate, ready_to_start, expired_running, Terminal
    <2>3. ASSUME NEW k \in Jobs, NEW v, Candidate(ReconciledStatus, k),
                 status' = [ReconciledStatus EXCEPT ![k] = v]
          PROVE  status'[j] = status[j]
      BY <1>0, <2>2, <2>3
    <2> QED BY <1>1, <2>1, <2>3
            DEF StartAttempt, quarantine_invalid_expired_running_job,
                fail_job_after_exhausted_crash, claim_next_heavy_job, FailRow, Admitted
  <1>2. ASSUME NEW w \in Workers, Supervise(w) \/ Crash(w) PROVE status'[j] = status[j]
    BY <1>2 DEF Supervise, Spawn, mark_attempt_started, StartFails, heartbeat_claim,
                terminate_child, ObserveExit, Crash
  <1>3. ASSUME NEW w \in Workers, PersistAttemptOutcome(w) PROVE status'[j] = status[j]
    <2>1. CASE OutcomeNotPersisted(w)
      BY <2>1 DEF OutcomeNotPersisted
    <2>2. ASSUME complete_job(w) \/ fail_job(w)
          PROVE  token[w].job \in Jobs /\ token[w].job # j
      <3>1. lease_matches(w)
        BY <2>2 DEF complete_job, fail_job, lock_active_execution_state
      <3> QED BY <3>1, FenceType DEF lease_matches, Terminal
    <2>3. CASE complete_job(w)
      <3> DEFINE st == [status EXCEPT ![token[w].job] = "success"]
      <3>1. st \in [Jobs -> Statuses] /\ st[j] = status[j]
        BY <2>2, <2>3 DEF TypeOK, Statuses, Terminal
      <3>2. status' = st \/ status' = enqueue_finalize_if_ready(st)
        BY <2>3 DEF complete_job
      <3> HIDE DEF st
      <3> QED BY <3>1, <3>2, EnqueueType DEF Terminal
    <2>4. CASE fail_job(w)
      <3>1. \E d : status' = [status EXCEPT ![token[w].job] = d]
        BY <2>4 DEF fail_job
      <3> QED BY <2>2, <2>4, <3>1 DEF TypeOK
    <2> QED BY <1>3, <2>1, <2>3, <2>4 DEF PersistAttemptOutcome
  <1>4. ASSUME NEW w \in Workers, RunDailyStages(w) PROVE status'[j] = status[j]
    BY <1>4 DEF RunDailyStages, EnterStage, AllStagesDone, CommitStage, FencedOut, StageFails,
                ChildKilled, ChildExits
  <1>5. ASSUME NEW o \in Operators, CommitControl(o) PROVE FALSE
    BY <1>5 DEF CommitControl, TypeOK
  <1>6. ASSUME NEW o \in Operators, NEW k \in Jobs, ReadForControl(o, k)
        PROVE  status'[j] = status[j]
    BY <1>6 DEF ReadForControl
  <1>7. ASSUME NEW k \in Jobs, LeaseTick(k) \/ RetryDue(k) PROVE status'[j] = status[j]
    BY <1>7 DEF LeaseTick, RetryDue
  <1>8. CASE UNCHANGED vars
    BY <1>8 DEF vars
  <1> QED BY <1>1, <1>2, <1>3, <1>4, <1>5, <1>6, <1>7, <1>8 DEF Next

\* A success, a failure or a cancellation is undone by an admin request only,
\* whatever is claimed, reconciled or persisted around it.
THEOREM FinishedRowsStay == Spec => TerminalIsFinal
  <1>1. TypeOK /\ [Next]_vars
        => [\A j \in Jobs : status[j] \in Terminal /\ op' = op => status'[j] = status[j]]_vars
    BY TerminalKept
  <1> QED BY <1>1, TypeCorrect, PTL DEF Spec, TerminalIsFinal

-----------------------------------------------------------------------------
(* The order of the plan, when no admin request is in flight.              *)

\* A date has run only over a parent_sync execution that succeeded: the gate of the
\* claim.  Without it the promotion, which reads the parent's checkpoints and not
\* its status, would say nothing about the parent row.
ParentsFirst(st) ==
  \A d \in DateJobs : st[d] \in {"running", "success"} => parent_execution_succeeded(st)

Ordered(st, r) ==
  /\ ParentsFirst(st)
  /\ \A f \in FinalizeJobs : st[f] # "absent" =>
       \A j \in Jobs \ FinalizeJobs : st[j] = "success"
  /\ r = "success" => \A j \in Jobs : st[j] = "success"

\* Over a plan that succeeded every row other than finalize is a success.
LEMMA PlanRowsSucceeded ==
  ASSUME NEW st, ParentsFirst(st), PlanSucceeded(st)
  PROVE  \A j \in Jobs \ FinalizeJobs : st[j] = "success"
  BY PlanAssumption DEF ParentsFirst, PlanSucceeded, parent_execution_succeeded, Jobs

\* Enqueue, promotion and the failure of the range keep the order.
LEMMA PlanStepsOrdered ==
  ASSUME NEW st \in [Jobs -> Statuses], NEW r, Ordered(st, r)
  PROVE  /\ Ordered(enqueue_finalize_if_ready(st), r)
         /\ Ordered(st, promote_range_parent_if_ready(st, r))
         /\ Ordered(st, reconcile_terminal_range_parents(st, r))
  <1>1. Ordered(enqueue_finalize_if_ready(st), r)
    <2>1. CASE PlanSucceeded(st)
      <3> DEFINE new == enqueue_finalize_if_ready(st)
      <3>1. \A j \in Jobs : j \notin FinalizeJobs => new[j] = st[j]
        BY DEF enqueue_finalize_if_ready
      <3>2. \A j \in Jobs : st[j] = "success" => new[j] = "success"
        BY DEF enqueue_finalize_if_ready
      <3>3. \A j \in Jobs \ FinalizeJobs : st[j] = "success"
        BY <2>1, PlanRowsSucceeded DEF Ordered
      <3> HIDE DEF new
      <3>4. ParentsFirst(new)
        BY <3>1, <3>3, PlanAssumption DEF ParentsFirst, parent_execution_succeeded, Jobs
      <3>5. Ordered(new, r)
        BY <3>1, <3>2, <3>3, <3>4 DEF Ordered
      <3> QED BY <3>5 DEF new
    <2>2. CASE ~PlanSucceeded(st)
      <3>1. enqueue_finalize_if_ready(st) = st
        BY <2>2 DEF enqueue_finalize_if_ready
      <3> QED BY <3>1
    <2> QED BY <2>1, <2>2
  <1>2. Ordered(st, promote_range_parent_if_ready(st, r))
    BY PlanRowsSucceeded DEF Ordered, promote_range_parent_if_ready
  <1>3. Ordered(st, reconcile_terminal_range_parents(st, r))
    BY DEF Ordered, reconcile_terminal_range_parents
  <1> QED BY <1>1, <1>2, <1>3

\* What _start_attempt makes of the plan before it claims keeps the order.
LEMMA ReconcileOrdered ==
  ASSUME TypeOK, Ordered(status, range)
  PROVE  Ordered(ReconciledStatus, ReconciledRange)
  <1> DEFINE r == reconcile_terminal_range_parents(status, range)
  <1>1. status \in [Jobs -> Statuses]
    BY DEF TypeOK
  <1>2. Ordered(status, r)
    BY <1>1, PlanStepsOrdered
  <1>3. ReconciledStatus \in [Jobs -> Statuses]
    BY ReconcileType DEF TypeOK
  <1> HIDE DEF r
  <1>4. Ordered(reconcile_finalize_queue(status, r), r)
    BY <1>1, <1>2, PlanStepsOrdered DEF reconcile_finalize_queue
  <1>5. ReconciledStatus = reconcile_finalize_queue(status, r)
    BY DEF ReconciledStatus, r
  <1>6. ReconciledRange = promote_range_parent_if_ready(ReconciledStatus, r)
    BY DEF ReconciledRange, r
  <1> QED BY <1>3, <1>4, <1>5, <1>6, PlanStepsOrdered

\* Starting, failing or completing a row that is due or runs keeps the order.
LEMMA RowWriteOrdered ==
  ASSUME NEW st \in [Jobs -> Statuses], NEW r, Ordered(st, r), NEW j \in Jobs,
         st[j] \in {"pending", "retry_wait", "running"},
         NEW v \in {"failed", "retry_wait", "running", "success"},
         v = "running" /\ j \in DateJobs => parent_execution_succeeded(st),
         v = "success" => st[j] = "running"
  PROVE  Ordered([st EXCEPT ![j] = v], r)
  <1>1. PICK new : new = [st EXCEPT ![j] = v]
    OBVIOUS
  <1>2. \A k \in Jobs : new[k] = IF k = j THEN v ELSE st[k]
    BY <1>1
  <1>3. j \in Jobs \ FinalizeJobs => \A f \in FinalizeJobs : st[f] = "absent"
    BY DEF Ordered
  <1>4. r # "success"
    BY DEF Ordered
  <1>5. ParentsFirst(new)
    <2> SUFFICES ASSUME NEW d \in DateJobs, new[d] \in {"running", "success"}, NEW p \in ParentSyncs
                 PROVE  new[p] = "success"
      BY DEF ParentsFirst, parent_execution_succeeded
    <2>1. parent_execution_succeeded(st)
      <3>1. CASE d = j
        BY <1>2, <3>1 DEF Ordered, ParentsFirst
      <3>2. CASE d # j
        BY <1>2, <3>2 DEF Ordered, ParentsFirst, Jobs
      <3> QED BY <3>1, <3>2
    <2>2. st[p] = "success" /\ p \in Jobs
      BY <2>1 DEF parent_execution_succeeded, Jobs
    <2> QED BY <1>2, <2>2
  <1>6. \A f \in FinalizeJobs : new[f] # "absent" =>
          \A k \in Jobs \ FinalizeJobs : new[k] = "success"
    BY <1>2, <1>3 DEF Ordered, Jobs
  <1> QED BY <1>1, <1>4, <1>5, <1>6 DEF Ordered

\* Every step of the plane on its own keeps the order.
LEMMA NextOrdered ==
  ASSUME TypeOK, Ordered(status, range), Operators = {}, [Next]_vars
  PROVE  Ordered(status, range)'
  <1> USE DEF rowVars, procVars
  <1>0. /\ ReconciledStatus \in [Jobs -> Statuses]
        /\ status \in [Jobs -> Statuses]
        /\ Ordered(ReconciledStatus, ReconciledRange)
    BY ReconcileType, ReconcileOrdered DEF TypeOK
  <1>f. ASSUME UNCHANGED <<status, range>> PROVE Ordered(status, range)'
    BY <1>f DEF Ordered, ParentsFirst, parent_execution_succeeded
  <1>s. ASSUME Ordered(status', range') PROVE Ordered(status, range)'
    BY <1>s
  <1>1. ASSUME NEW w \in Workers, StartAttempt(w) PROVE Ordered(status, range)'
    <2>1. CASE ReconcileOnly(w)
      BY <1>0, <2>1 DEF ReconcileOnly
    <2>2. ASSUME NEW j \in Jobs, Candidate(ReconciledStatus, j)
          PROVE  ReconciledStatus[j] \in {"pending", "retry_wait", "running"}
      BY <2>2 DEF Candidate, ready_to_start, expired_running
    <2>3. ASSUME NEW j \in Jobs, Candidate(ReconciledStatus, j), FailRow(ReconciledStatus, j)
          PROVE  Ordered(status, range)'
      <3>1. Ordered([ReconciledStatus EXCEPT ![j] = "failed"], ReconciledRange)
        BY <1>0, <2>2, <2>3, RowWriteOrdered
      <3> QED BY <2>3, <3>1 DEF FailRow
    <2>4. ASSUME NEW j \in Jobs, claim_next_heavy_job(w, j)
          PROVE  Ordered(status, range)'
      <3>1. Admitted(ReconciledStatus, j)
        BY <2>4 DEF claim_next_heavy_job
      <3>2. j \in DateJobs => parent_execution_succeeded(ReconciledStatus)
        BY <3>1 DEF Admitted, parent_sync_gate_allows_claim
      <3>3. Ordered([ReconciledStatus EXCEPT ![j] = "running"], ReconciledRange)
        BY <1>0, <2>2, <3>1, <3>2, RowWriteOrdered DEF Admitted
      <3> QED BY <2>4, <3>3 DEF claim_next_heavy_job
    <2> QED BY <1>1, <2>1, <2>3, <2>4
            DEF StartAttempt, quarantine_invalid_expired_running_job,
                fail_job_after_exhausted_crash, Admitted
  <1>2. ASSUME NEW w \in Workers, Supervise(w) \/ Crash(w) PROVE Ordered(status, range)'
    BY <1>2, <1>f DEF Supervise, Spawn, mark_attempt_started, StartFails, heartbeat_claim,
                      terminate_child, ObserveExit, Crash
  <1>3. ASSUME NEW w \in Workers, PersistAttemptOutcome(w) PROVE Ordered(status, range)'
    <2>1. CASE OutcomeNotPersisted(w)
      BY <1>f, <2>1 DEF OutcomeNotPersisted
    <2>2. ASSUME complete_job(w) \/ fail_job(w)
          PROVE  token[w].job \in Jobs /\ status[token[w].job] = "running"
      <3>1. lease_matches(w)
        BY <2>2 DEF complete_job, fail_job, lock_active_execution_state
      <3> QED BY <3>1, FenceType DEF lease_matches
    <2>3. CASE complete_job(w)
      <3> DEFINE st == [status EXCEPT ![token[w].job] = "success"]
      <3>1. st \in [Jobs -> Statuses]
        BY <2>2, <2>3 DEF TypeOK, Statuses, Terminal
      <3>2. \/ status' = st /\ range' = range
            \/ status' = st /\ range' = promote_range_parent_if_ready(st, range)
            \/ status' = enqueue_finalize_if_ready(st) /\ range' = range
        BY <2>3, PlanAssumption DEF complete_job
      <3>3. Ordered(st, range)
        BY <1>0, <2>2, <2>3, RowWriteOrdered
      <3> HIDE DEF st
      <3> QED BY <3>1, <3>2, <3>3, PlanStepsOrdered
    <2>4. CASE fail_job(w)
      <3> DEFINE d == retry_policy(failure_kind(token[w].job \in Priority, outcome[w]),
                                   attempt_count[token[w].job], quota_pause_count[token[w].job],
                                   previous_attempt_exit_type(token[w].job,
                                                              attempt_count[token[w].job]))
      <3>1. d \in {"failed", "retry_wait"}
        BY PolicyType
      <3>2. status' = [status EXCEPT ![token[w].job] = d] /\ range' = range
        BY <2>4 DEF fail_job
      <3> HIDE DEF d
      <3>3. Ordered([status EXCEPT ![token[w].job] = d], range)
        BY <1>0, <2>2, <2>4, <3>1, RowWriteOrdered
      <3> QED BY <3>2, <3>3
    <2> QED BY <1>3, <2>1, <2>3, <2>4 DEF PersistAttemptOutcome
  <1>4. ASSUME NEW w \in Workers, RunDailyStages(w) PROVE Ordered(status, range)'
    BY <1>4, <1>f DEF RunDailyStages, EnterStage, AllStagesDone, CommitStage, FencedOut,
                      StageFails, ChildKilled, ChildExits
  <1>5. ASSUME NEW j \in Jobs, LeaseTick(j) \/ RetryDue(j) PROVE Ordered(status, range)'
    BY <1>5, <1>f DEF LeaseTick, RetryDue
  <1>6. CASE UNCHANGED vars
    BY <1>6, <1>f DEF vars
  <1> QED BY <1>1, <1>2, <1>3, <1>4, <1>5, <1>6 DEF Next

\* Without racing admin requests finalize exists only over dates and a parent that
\* all succeeded, and the range is promoted only over a finalize that did: whichever
\* supervisor reconciles, and however rows crash, retry or are quarantined.
THEOREM FinalizeIsLast ==
  ASSUME Operators = {} PROVE Spec => []FinalizeLast
  <1>1. Init => Ordered(status, range)
    <2> SUFFICES ASSUME Init PROVE Ordered(status, range)
      OBVIOUS
    <2>1. /\ \A j \in Jobs : status[j] = IF j \in FinalizeJobs THEN "absent" ELSE "pending"
          /\ range = "pending"
      BY DEF Init
    <2> QED BY <2>1, PlanAssumption DEF Ordered, ParentsFirst, Jobs
  <1>2. TypeOK /\ Ordered(status, range) /\ [Next]_vars => Ordered(status, range)'
    BY NextOrdered
  <1>3. Ordered(status, range) => FinalizeLast
    BY DEF Ordered, FinalizeLast
  <1> QED BY <1>1, <1>2, <1>3, TypeCorrect, PTL DEF Spec

-----------------------------------------------------------------------------
(* The plane passes its own inspection, when no admin request is in flight. *)

PausedAttempts(j) ==
  {n \in DOMAIN attempts[j] : ~Open(attempts[j][n]) /\ attempts[j][n].code = "pause"}

\* A row that does not run has no unfinished attempt and no owner.
RestingRowClosed ==
  \A j \in Jobs : status[j] # "running" => OpenAttempts(j) = {} /\ lease_owner[j] = NoOne

\* The pause markers of the history are counted, on the rows that may be paused.  A
\* success row is left out: complete_job keeps the error code of a child that asked
\* for a pause after its last checkpoint, and counts nothing.
PausesCounted ==
  \A j \in Jobs : status[j] # "success" =>
    Cardinality(PausedAttempts(j)) = IF j \in Priority THEN quota_pause_count[j] ELSE 0

Inspected == RestingRowClosed /\ PausesCounted

\* The parts of the invariant are what _inspect_expired_running_control looks at.
LEMMA InspectionPasses ==
  ASSUME TypeOK, Control, Closure, Inspected
  PROVE  NeverQuarantined
  <1> SUFFICES ASSUME NEW j \in Jobs, status[j] \in {"pending", "retry_wait", "running"}
               PROVE  control_state_sound(status[j], j)
    BY DEF NeverQuarantined
  <1>1. /\ quota_pause_count[j] <= attempt_count[j]
        /\ attempt_count[j] <= MaxAttempts + quota_pause_count[j]
        /\ lease_epoch[j] = attempt_count[j]
        /\ Len(attempts[j]) = attempt_count[j]
        /\ \A n \in DOMAIN attempts[j] : attempts[j][n].number = n /\ attempts[j][n].epoch = n
    BY DEF Control, AttemptBudget, HistoryContiguous
  <1>2. Cardinality(PausedAttempts(j)) = IF j \in Priority THEN quota_pause_count[j] ELSE 0
    BY DEF Inspected, PausesCounted
  <1>3. ASSUME NEW n \in DOMAIN attempts[j], ~Open(attempts[j][n])
        PROVE  comp[attempts[j][n].worker] # BindingOf(j, n)
    <2> SUFFICES ASSUME comp[attempts[j][n].worker] = BindingOf(j, n) PROVE FALSE
      OBVIOUS
    <2>1. attempts[j][n].worker \in Workers /\ n \in Nat
      <3>1. attempts[j] \in Seq(Attempt)
        BY DEF TypeOK
      <3>2. attempts[j][n] \in Attempt /\ n \in Nat
        BY <3>1
      <3> QED BY <3>2 DEF Attempt
    <2>2. /\ comp[attempts[j][n].worker].job = j
          /\ comp[attempts[j][n].worker].number = n
      BY DEF BindingOf
    <2>3. BindingOf(j, n) # NoOne => FALSE
      BY <1>3, <2>1, <2>2 DEF Closure, BindingsOpen
    <2>4. BindingOf(j, n) # NoOne
      BY <2>1, ActorAssumption DEF BindingOf
    <2> QED BY <2>3, <2>4
  <1>4. CASE status[j] = "running"
    <2>1. /\ attempt_count[j] > 0
          /\ OpenAttempts(j) = {attempt_count[j]}
          /\ attempts[j][attempt_count[j]].worker = lease_owner[j]
          /\ comp[lease_owner[j]] = BindingOf(j, attempt_count[j])
      BY <1>4 DEF Control, RunningRowSound
    <2>2. lease_owner[j] # NoOne
      <3>1. attempt_count[j] \in DOMAIN attempts[j]
        BY <2>1 DEF OpenAttempts
      <3>2. attempts[j] \in Seq(Attempt)
        BY DEF TypeOK
      <3>3. attempts[j][attempt_count[j]] \in Attempt
        BY <3>1, <3>2
      <3>4. attempts[j][attempt_count[j]].worker \in Workers
        BY <3>3 DEF Attempt
      <3> QED BY <2>1, <3>4, ActorAssumption
    <2> QED BY <1>1, <1>2, <1>3, <1>4, <2>1, <2>2
            DEF control_state_sound, PausedAttempts, OpenAttempts
  <1>5. CASE status[j] # "running"
    <2>1. OpenAttempts(j) = {} /\ lease_owner[j] = NoOne
      BY <1>5 DEF Inspected, RestingRowClosed
    <2> QED BY <1>1, <1>2, <1>3, <1>5, <2>1
            DEF control_state_sound, PausedAttempts, OpenAttempts
  <1> QED BY <1>4, <1>5

\* A step that writes none of the inspected columns and stops no row keeps them.
LEMMA InspectedFrame ==
  ASSUME Inspected, UNCHANGED <<attempts, quota_pause_count, lease_owner>>,
         \A j \in Jobs : status'[j] # "running" => status[j] # "running",
         \A j \in Jobs : status'[j] # "success" => status[j] # "success"
  PROVE  Inspected'
  <1>1. \A j \in Jobs : PausedAttempts(j)' = PausedAttempts(j) /\ OpenAttempts(j)' = OpenAttempts(j)
    BY DEF PausedAttempts, OpenAttempts
  <1> QED BY <1>1 DEF Inspected, RestingRowClosed, PausesCounted

\* A step on row j alone: the other rows keep their columns and do not stop, and row
\* j is closed or runs, with as many pause markers as are counted.
LEMMA InspectedRow ==
  ASSUME Inspected, NEW j \in Jobs,
         \A k \in Jobs : k # j =>
           /\ attempts'[k] = attempts[k]
           /\ quota_pause_count'[k] = quota_pause_count[k]
           /\ lease_owner'[k] = lease_owner[k]
           /\ status'[k] # "running" => status[k] # "running"
           /\ status'[k] # "success" => status[k] # "success",
         status'[j] # "running" => OpenAttempts(j)' = {} /\ lease_owner'[j] = NoOne,
         status'[j] # "success" =>
           Cardinality(PausedAttempts(j)') = IF j \in Priority THEN quota_pause_count'[j] ELSE 0
  PROVE  Inspected'
  <1>1. \A k \in Jobs : k # j => /\ PausedAttempts(k)' = PausedAttempts(k)
                                 /\ OpenAttempts(k)' = OpenAttempts(k)
    BY DEF PausedAttempts, OpenAttempts
  <1>2. RestingRowClosed'
    BY <1>1 DEF Inspected, RestingRowClosed
  <1>3. PausesCounted'
    BY <1>1 DEF Inspected, PausesCounted
  <1> QED BY <1>2, <1>3 DEF Inspected

\* A closed attempt carries the code it was closed with; the others are as they were.
LEMMA FinishedCode ==
  ASSUME NEW rows \in Seq(Attempt), NEW k \in DOMAIN rows, NEW exit \in ExitTypes,
         NEW code \in ErrorCodes
  PROVE  finish_attempt(rows, k, exit, code)[k].code = code
  <1>1. rows[k] \in Attempt
    OBVIOUS
  <1>2. Finished(rows[k], exit, code).code = code
    BY <1>1 DEF Finished, Attempt
  <1> QED BY <1>2 DEF finish_attempt

\* The rows other than the written one across reconciliation and one write.
LEMMA OtherRows ==
  ASSUME TypeOK, NEW j \in Jobs, NEW v, status' = [ReconciledStatus EXCEPT ![j] = v]
  PROVE  /\ status'[j] = v
         /\ \A k \in Jobs : k # j => /\ status'[k] # "running" => status[k] # "running"
                                     /\ status'[k] # "success" => status[k] # "success"
  BY ReconcileType DEF TypeOK

\* Quarantine and exhaustion close what is open with a code that is no pause.
LEMMA FailRowInspected ==
  ASSUME TypeOK, Control, Inspected, NEW w \in Workers, NEW j \in Jobs,
         \/ quarantine_invalid_expired_running_job(w, j)
         \/ fail_job_after_exhausted_crash(w, j)
  PROVE  Inspected'
  <1>0. attempts[j] \in Seq(Attempt) /\ lease_epoch[j] = attempt_count[j]
    BY DEF TypeOK, Control, HistoryContiguous
  <1>1. Candidate(ReconciledStatus, j) /\ FailRow(ReconciledStatus, j)
    BY DEF quarantine_invalid_expired_running_job, fail_job_after_exhausted_crash, Admitted
  <1>2. /\ status' = [ReconciledStatus EXCEPT ![j] = "failed"]
        /\ lease_owner' = [lease_owner EXCEPT ![j] = NoOne]
        /\ quota_pause_count' = quota_pause_count
    BY <1>1 DEF FailRow
  <1>3. status[j] # "success"
    BY <1>1, ReconcileType DEF TypeOK, Candidate, ready_to_start, expired_running
  <1>4. /\ \A k \in Jobs : k # j => attempts'[k] = attempts[k]
        /\ DOMAIN attempts'[j] = DOMAIN attempts[j]
        /\ \A n \in DOMAIN attempts[j] :
             /\ ~Open(attempts'[j][n])
             /\ Open(attempts[j][n]) => attempts'[j][n].code = "error"
             /\ ~Open(attempts[j][n]) => attempts'[j][n] = attempts[j][n]
    <2>1. CASE quarantine_invalid_expired_running_job(w, j)
      <3> DEFINE done == [n \in DOMAIN attempts[j] |->
                            IF Open(attempts[j][n])
                            THEN Finished(attempts[j][n], "fatal_failure", "error")
                            ELSE attempts[j][n]]
      <3>1. attempts' = [attempts EXCEPT ![j] = done]
        BY <2>1 DEF quarantine_invalid_expired_running_job
      <3>2. \A n \in DOMAIN attempts[j] :
              /\ ~Open(done[n])
              /\ ~Open(attempts[j][n]) => done[n] = attempts[j][n]
        BY <1>0, AllFinished
      <3>3. ASSUME NEW n \in DOMAIN attempts[j], Open(attempts[j][n])
            PROVE  done[n].code = "error"
        <4>1. attempts[j][n] \in Attempt
          BY <1>0
        <4>2. done[n] = Finished(attempts[j][n], "fatal_failure", "error")
          BY <3>3
        <4>3. Finished(attempts[j][n], "fatal_failure", "error").code = "error"
          BY <4>1 DEF Finished, Attempt
        <4> QED BY <4>2, <4>3
      <3>4. DOMAIN done = DOMAIN attempts[j]
        OBVIOUS
      <3> HIDE DEF done
      <3>5. attempts'[j] = done /\ \A k \in Jobs : k # j => attempts'[k] = attempts[k]
        BY <3>1 DEF TypeOK
      <3> QED BY <3>2, <3>3, <3>4, <3>5
    <2>2. CASE fail_job_after_exhausted_crash(w, j)
      <3> DEFINE done == ExpiredAttemptClosed(j)
      <3>1. attempts' = [attempts EXCEPT ![j] = done]
        BY <2>2 DEF fail_job_after_exhausted_crash
      <3>2. /\ DOMAIN done = DOMAIN attempts[j]
            /\ \A n \in DOMAIN attempts[j] :
                 /\ n = lease_epoch[j] => done[n].exit = "crashed"
                 /\ n # lease_epoch[j] => done[n] = attempts[j][n]
        BY ExpiredClosed
      <3>3. lease_epoch[j] \in DOMAIN attempts[j] => done[lease_epoch[j]].code = "error"
        BY <1>0, FinishedCode DEF ExpiredAttemptClosed, ExitTypes, ErrorCodes
      <3>4. \A n \in DOMAIN attempts[j] : n = lease_epoch[j] <=> Open(attempts[j][n])
        <4>1. status[j] = "running"
          BY <2>2, ReconcileType DEF fail_job_after_exhausted_crash, expired_running, TypeOK
        <4>2. OpenAttempts(j) = {lease_epoch[j]}
          BY <1>0, <4>1 DEF Control, RunningRowSound
        <4> QED BY <4>2 DEF OpenAttempts
      <3> HIDE DEF done
      <3>5. attempts'[j] = done /\ \A k \in Jobs : k # j => attempts'[k] = attempts[k]
        BY <3>1 DEF TypeOK
      <3> QED BY <3>2, <3>3, <3>4, <3>5 DEF Open
    <2> QED BY <2>1, <2>2
  <1>5. PausedAttempts(j)' = PausedAttempts(j) /\ OpenAttempts(j)' = {}
    BY <1>4 DEF PausedAttempts, OpenAttempts
  <1>6. lease_owner'[j] = NoOne /\ \A k \in Jobs : k # j => lease_owner'[k] = lease_owner[k]
    BY <1>2 DEF TypeOK
  <1>7. Cardinality(PausedAttempts(j)') = IF j \in Priority THEN quota_pause_count'[j] ELSE 0
    BY <1>2, <1>3, <1>5 DEF Inspected, PausesCounted
  <1>8. /\ status'[j] = "failed"
        /\ \A k \in Jobs : k # j => /\ status'[k] # "running" => status[k] # "running"
                                    /\ status'[k] # "success" => status[k] # "success"
    BY <1>2, OtherRows
  <1> QED BY <1>2, <1>4, <1>5, <1>6, <1>7, <1>8, InspectedRow

\* A claim opens an attempt without a marker, and closes an expired one as crashed.
LEMMA ClaimInspected ==
  ASSUME TypeOK, Control, Inspected, NEW w \in Workers, NEW j \in Jobs,
         claim_next_heavy_job(w, j)
  PROVE  Inspected'
  <1> DEFINE number == attempt_count[j] + 1
             new == [number |-> number, epoch |-> lease_epoch[j] + 1, worker |-> w,
                     exit |-> "open", code |-> "none"]
             rows == IF ReconciledStatus[j] = "running" THEN ExpiredAttemptClosed(j)
                     ELSE attempts[j]
  <1>0. /\ attempts[j] \in Seq(Attempt) /\ lease_epoch[j] = attempt_count[j]
        /\ attempt_count[j] \in Nat
    BY DEF TypeOK, Control, HistoryContiguous
  <1>1. /\ Admitted(ReconciledStatus, j)
        /\ status' = [ReconciledStatus EXCEPT ![j] = "running"]
        /\ lease_owner' = [lease_owner EXCEPT ![j] = w]
        /\ attempts' = [attempts EXCEPT ![j] = Append(rows, new)]
        /\ quota_pause_count' = quota_pause_count
    BY DEF claim_next_heavy_job
  <1>2. status[j] # "success"
    BY <1>1, ReconcileType DEF TypeOK, Admitted, Candidate, ready_to_start, expired_running
  <1>3. /\ rows \in Seq(Attempt) /\ DOMAIN rows = DOMAIN attempts[j]
        /\ \A n \in DOMAIN attempts[j] :
             \/ rows[n] = attempts[j][n]
             \/ Open(attempts[j][n]) /\ rows[n].code = "error"
    <2>1. CASE ReconciledStatus[j] = "running"
      <3>0. rows = ExpiredAttemptClosed(j)
        BY <2>1
      <3> HIDE DEF rows
      <3>1. /\ rows \in Seq(Attempt) /\ DOMAIN rows = DOMAIN attempts[j]
            /\ \A n \in DOMAIN attempts[j] : n # lease_epoch[j] => rows[n] = attempts[j][n]
        BY <3>0, ExpiredClosed
      <3>2. lease_epoch[j] \in DOMAIN attempts[j] => rows[lease_epoch[j]].code = "error"
        BY <1>0, <3>0, FinishedCode DEF ExpiredAttemptClosed, ExitTypes, ErrorCodes
      <3>3. OpenAttempts(j) = {lease_epoch[j]}
        BY <1>0, <2>1, ReconcileType DEF Control, RunningRowSound, TypeOK
      <3> QED BY <3>1, <3>2, <3>3 DEF OpenAttempts
    <2>2. CASE ReconciledStatus[j] # "running"
      BY <1>0, <2>2
    <2> QED BY <2>1, <2>2
  <1>4. new \in Attempt /\ new.code = "none"
    BY <1>0 DEF Attempt, ExitTypes, ErrorCodes
  <1> HIDE DEF rows, new
  <1>5. attempts'[j] = Append(rows, new) /\ \A k \in Jobs : k # j => attempts'[k] = attempts[k]
    BY <1>1 DEF TypeOK
  <1>6. /\ DOMAIN attempts'[j] = DOMAIN rows \cup {Len(rows) + 1}
        /\ Len(rows) + 1 \notin DOMAIN rows
        /\ attempts'[j][Len(rows) + 1] = new
        /\ \A n \in DOMAIN rows : attempts'[j][n] = rows[n]
    BY <1>3, <1>4, <1>5
  <1>7. PausedAttempts(j)' = PausedAttempts(j)
    BY <1>3, <1>4, <1>6 DEF PausedAttempts
  <1>8. \A k \in Jobs : k # j => lease_owner'[k] = lease_owner[k]
    BY <1>1 DEF TypeOK
  <1>9. Cardinality(PausedAttempts(j)') = IF j \in Priority THEN quota_pause_count'[j] ELSE 0
    BY <1>1, <1>2, <1>7 DEF Inspected, PausesCounted
  <1>10. /\ status'[j] = "running"
         /\ \A k \in Jobs : k # j => /\ status'[k] # "running" => status[k] # "running"
                                     /\ status'[k] # "success" => status[k] # "success"
    BY <1>1, OtherRows
  <1> QED BY <1>1, <1>5, <1>8, <1>9, <1>10, InspectedRow

\* A pause is counted exactly when the attempt it closes is marked.
LEMMA PauseMarked ==
  ASSUME NEW j, NEW out
  PROVE  /\ failure_error_code(j \in Priority, out) = "pause"
              <=> failure_kind(j \in Priority, out) = "pause"
         /\ failure_kind(j \in Priority, out) = "pause" => j \in Priority
  BY DEF failure_error_code, failure_kind, scheduler_pause_marker

\* Closing the one unfinished attempt t of row j with a code: the markers grow by t
\* when the code is a pause, and stay as they are when it is not.
LEMMA MarkersGrow ==
  ASSUME TypeOK, NEW j \in Jobs, NEW t \in DOMAIN attempts[j], OpenAttempts(j) = {t},
         NEW exit \in ExitTypes \ {"open"}, NEW code \in ErrorCodes,
         attempts'[j] = finish_attempt(attempts[j], t, exit, code)
  PROVE  /\ OpenAttempts(j)' = {}
         /\ code # "pause" => PausedAttempts(j)' = PausedAttempts(j)
         /\ code = "pause" => Cardinality(PausedAttempts(j)') = Cardinality(PausedAttempts(j)) + 1
         /\ Cardinality(PausedAttempts(j)) \in Nat
  <1>0. attempts'[j] = finish_attempt(attempts[j], t, exit, code) /\ t \in DOMAIN attempts[j]
    OBVIOUS
  <1>1. /\ attempts[j] \in Seq(Attempt) /\ exit \in ExitTypes
        /\ DOMAIN attempts[j] = 1..Len(attempts[j]) /\ Len(attempts[j]) \in Nat
    BY DEF TypeOK
  <1>2. /\ DOMAIN attempts'[j] = DOMAIN attempts[j]
        /\ attempts'[j][t].exit = exit
        /\ attempts'[j][t].code = code
        /\ \A n \in DOMAIN attempts[j] : n # t => attempts'[j][n] = attempts[j][n]
    <2>1. PICK rows \in Seq(Attempt) : rows = attempts[j]
      BY <1>1
    <2>2. PICK done : done = finish_attempt(rows, t, exit, code)
      OBVIOUS
    <2>3. /\ DOMAIN done = DOMAIN rows
          /\ \A n \in DOMAIN rows : /\ n = t => done[n].exit = exit
                                    /\ n # t => done[n] = rows[n]
      BY SMTT(60), <1>1, <2>2, OneFinished
    <2>4. t \in DOMAIN rows => done[t].code = code
      BY <1>1, <2>2, FinishedCode
    <2>5. attempts'[j] = done
      BY <1>0, <2>1, <2>2
    <2> QED BY <1>0, <2>1, <2>3, <2>4, <2>5
  <1>4. \A n \in DOMAIN attempts[j] : Open(attempts[j][n]) <=> n = t
    BY DEF OpenAttempts
  <1>5. ~Open(attempts'[j][t])
    BY <1>2 DEF Open
  <1>6. OpenAttempts(j)' = {}
    BY <1>2, <1>4, <1>5 DEF OpenAttempts
  <1>7. code # "pause" => PausedAttempts(j)' = PausedAttempts(j)
    BY <1>2, <1>4 DEF PausedAttempts
  <1>8. code = "pause" => PausedAttempts(j)' = PausedAttempts(j) \cup {t}
    BY <1>2, <1>4, <1>5 DEF PausedAttempts
  <1>9. IsFiniteSet(PausedAttempts(j)) /\ t \notin PausedAttempts(j)
    <2>1. PausedAttempts(j) \subseteq 1..Len(attempts[j])
      BY <1>1 DEF PausedAttempts
    <2>2. IsFiniteSet(1..Len(attempts[j]))
      BY <1>1, FS_Interval
    <2> QED BY <1>4, <2>1, <2>2, FS_Subset DEF PausedAttempts
  <1> QED BY <1>6, <1>7, <1>8, <1>9, FS_AddElement, FS_CardinalityType

\* complete_job and fail_job: what is closed, released and counted.
LEMMA OutcomeInspected ==
  ASSUME TypeOK, Control, Inspected, NEW w \in Workers, complete_job(w) \/ fail_job(w)
  PROVE  Inspected'
  <1>1. lease_matches(w)
    BY DEF complete_job, fail_job, lock_active_execution_state
  <1>0. PICK j, t : j = token[w].job /\ t = token[w].number
    OBVIOUS
  <1>2. /\ j \in Jobs /\ status[j] = "running"
        /\ t \in DOMAIN attempts[j]
        /\ Open(attempts[j][t])
    BY <1>0, <1>1, FenceType DEF lease_matches
  <1>3. OpenAttempts(j) = {t}
    <2>1. t \in OpenAttempts(j)
      BY <1>2 DEF OpenAttempts
    <2> QED BY <1>2, <2>1 DEF Control, HistoryContiguous
  <1>4. Cardinality(PausedAttempts(j)) = IF j \in Priority THEN quota_pause_count[j] ELSE 0
    BY <1>2 DEF Inspected, PausesCounted
  <1>5. ASSUME NEW exit \in ExitTypes \ {"open"}, NEW code \in ErrorCodes,
               CloseClaim(w, exit, code)
        PROVE  /\ attempts'[j] = finish_attempt(attempts[j], t, exit, code)
               /\ lease_owner'[j] = NoOne
               /\ \A k \in Jobs : k # j => /\ attempts'[k] = attempts[k]
                                           /\ lease_owner'[k] = lease_owner[k]
    <2>1. /\ attempts' = [attempts EXCEPT ![j] = finish_attempt(@, t, exit, code)]
          /\ lease_owner' = [lease_owner EXCEPT ![j] = NoOne]
      BY <1>0, <1>5 DEF CloseClaim
    <2> QED BY <1>2, <2>1 DEF TypeOK
  <1>6. CASE complete_job(w)
    <2>1. PICK exit \in ExitTypes \ {"open"}, code \in ErrorCodes : CloseClaim(w, exit, code)
      BY OutcomeClosesClaim
    <2>2. OpenAttempts(j)' = {}
      BY <1>2, <1>3, <1>5, <2>1, MarkersGrow
    <2> DEFINE st == [status EXCEPT ![j] = "success"]
    <2>3. st \in [Jobs -> Statuses] /\ st[j] = "success" /\ \A k \in Jobs : k # j => st[k] = status[k]
      BY <1>2 DEF TypeOK, Statuses, Terminal
    <2>4. status' = st \/ status' = enqueue_finalize_if_ready(st)
      BY <1>0, <1>6 DEF complete_job
    <2> HIDE DEF st
    <2>5. /\ status'[j] = "success"
          /\ \A k \in Jobs : k # j => /\ status'[k] # "running" => status[k] # "running"
                                      /\ status'[k] # "success" => status[k] # "success"
      BY <1>2, <2>3, <2>4, EnqueueType
    <2>6. quota_pause_count' = quota_pause_count
      BY <1>6 DEF complete_job
    <2> QED BY <1>2, <1>5, <2>1, <2>2, <2>5, <2>6, InspectedRow
  <1>7. CASE fail_job(w)
    <2> DEFINE kind == failure_kind(j \in Priority, outcome[w])
               code == failure_error_code(j \in Priority, outcome[w])
               d == retry_policy(kind, attempt_count[j], quota_pause_count[j],
                                 previous_attempt_exit_type(j, attempt_count[j]))
               exit == attempt_exit_type(kind, d)
    <2>1. /\ CloseClaim(w, exit, code)
          /\ status' = [status EXCEPT ![j] = d]
          /\ quota_pause_count' = IF kind = "pause" THEN [quota_pause_count EXCEPT ![j] = @ + 1]
                                  ELSE quota_pause_count
      BY <1>0, <1>7 DEF fail_job
    <2>2. /\ code \in ErrorCodes /\ exit \in ExitTypes \ {"open"} /\ d \in {"failed", "retry_wait"}
          /\ code = "pause" <=> kind = "pause"
          /\ kind = "pause" => j \in Priority
      BY PolicyType, PauseMarked
    <2> HIDE DEF kind, code, d, exit
    <2>3. \A k \in Jobs : k # j => quota_pause_count'[k] = quota_pause_count[k] /\ status'[k] = status[k]
      BY <2>1 DEF TypeOK
    <2>4. /\ attempts'[j] = finish_attempt(attempts[j], t, exit, code)
          /\ lease_owner'[j] = NoOne
          /\ \A k \in Jobs : k # j => attempts'[k] = attempts[k] /\ lease_owner'[k] = lease_owner[k]
      BY <1>5, <2>1, <2>2
    <2>5. /\ OpenAttempts(j)' = {}
          /\ code # "pause" => PausedAttempts(j)' = PausedAttempts(j)
          /\ code = "pause" => Cardinality(PausedAttempts(j)') = Cardinality(PausedAttempts(j)) + 1
      BY <1>2, <1>3, <2>2, <2>4, MarkersGrow
    <2>6. Cardinality(PausedAttempts(j)') = IF j \in Priority THEN quota_pause_count'[j] ELSE 0
      <3>1. CASE kind = "pause"
        <4>1. quota_pause_count'[j] = quota_pause_count[j] + 1
          BY <1>2, <2>1, <3>1 DEF TypeOK
        <4> QED BY <1>4, <2>2, <2>5, <3>1, <4>1
      <3>2. CASE kind # "pause"
        BY <1>4, <2>1, <2>2, <2>5, <3>2
      <3> QED BY <3>1, <3>2
    <2> QED BY <1>2, <2>3, <2>4, <2>5, <2>6, InspectedRow
  <1> QED BY SMTT(60), <1>6, <1>7

\* Every step of the plane on its own keeps the inspected columns in agreement.
LEMMA NextInspected ==
  ASSUME TypeOK, Control, Inspected, Operators = {}, [Next]_vars
  PROVE  Inspected'
  <1> USE DEF rowVars, procVars
  <1>1. ASSUME NEW w \in Workers, StartAttempt(w) PROVE Inspected'
    <2>1. CASE ReconcileOnly(w)
      <3>1. \A j \in Jobs : /\ status'[j] # "running" => status[j] # "running"
                            /\ status'[j] # "success" => status[j] # "success"
        BY SMTT(60), <2>1, ReconcileType DEF ReconcileOnly, TypeOK
      <3> QED BY <2>1, <3>1, InspectedFrame DEF ReconcileOnly
    <2> QED BY <1>1, <2>1, FailRowInspected, ClaimInspected DEF StartAttempt
  <1>2. ASSUME NEW w \in Workers, Supervise(w) \/ Crash(w) PROVE Inspected'
    BY <1>2, InspectedFrame DEF Supervise, Spawn, mark_attempt_started, StartFails,
                                heartbeat_claim, terminate_child, ObserveExit, Crash
  <1>3. ASSUME NEW w \in Workers, PersistAttemptOutcome(w) PROVE Inspected'
    <2>1. CASE OutcomeNotPersisted(w)
      BY <2>1, InspectedFrame DEF OutcomeNotPersisted
    <2> QED BY <1>3, <2>1, OutcomeInspected DEF PersistAttemptOutcome
  <1>4. ASSUME NEW w \in Workers, RunDailyStages(w) PROVE Inspected'
    <2>1. UNCHANGED rowVars /\ UNCHANGED <<attempts, comp>>
      BY <1>4 DEF RunDailyStages, EnterStage, AllStagesDone, CommitStage, FencedOut, StageFails,
                  ChildKilled, ChildExits
    <2> QED BY <2>1, InspectedFrame
  <1>5. ASSUME NEW j \in Jobs, LeaseTick(j) \/ RetryDue(j) PROVE Inspected'
    BY <1>5, InspectedFrame DEF LeaseTick, RetryDue
  <1>6. CASE UNCHANGED vars
    BY <1>6, InspectedFrame DEF vars
  <1> QED BY <1>1, <1>2, <1>3, <1>4, <1>5, <1>6 DEF Next

\* The plane on its own never makes a row that its own inspection would quarantine:
\* the counters, the history, the pause markers, the lease and the binding of every
\* active row agree through crashes, lost outcomes, pauses and takeovers.
THEOREM RowsPassInspection ==
  ASSUME Operators = {} PROVE Spec => []NeverQuarantined
  <1>1. Init => Inspected
    <2> SUFFICES ASSUME Init PROVE Inspected
      OBVIOUS
    <2>1. \A j \in Jobs : /\ attempts[j] = <<>> /\ quota_pause_count[j] = 0
                          /\ lease_owner[j] = NoOne
      BY DEF Init
    <2>2. \A j \in Jobs : PausedAttempts(j) = {} /\ OpenAttempts(j) = {}
      BY <2>1 DEF PausedAttempts, OpenAttempts
    <2> QED BY <2>1, <2>2, FS_EmptySet DEF Inspected, RestingRowClosed, PausesCounted
  <1>2. TypeOK /\ Control /\ Inspected /\ [Next]_vars => Inspected'
    BY NextInspected
  <1>3. TypeOK /\ Control /\ Closure => (Inspected => NeverQuarantined)
    BY InspectionPasses
  <1>4. Init => Closure
    BY InitClosure
  <1>5. TypeOK /\ Control /\ Closure /\ [Next]_vars => Closure'
    BY NextClosure
  <1> QED BY <1>1, <1>2, <1>3, <1>4, <1>5, ControlInvariant, PTL DEF Spec
=============================================================================
