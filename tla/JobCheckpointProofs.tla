------------------------ MODULE JobCheckpointProofs ------------------------
(***************************************************************************)
(* Proofs that the fence protects what a child commits: the order, the     *)
(* epochs and the permanence of stage checkpoints, for every plan, number  *)
(* of stages, of workers and of racing admin requests.                     *)
(***************************************************************************)
EXTENDS JobControlProofs

-----------------------------------------------------------------------------
(* The strengthening.                                                      *)

\* Only a living child works on a stage, and only a supervisor that watches, or
\* has died, has a child: a new claim finds no work in progress of its own.
ChildPlaced ==
  \A w \in Workers :
    /\ working[w] # 0 => child[w] = "alive"
    /\ child[w] # "none" => sup[w] \in {"spawned", "watching", "dead"}

\* No token is newer than its row.
TokensIssued ==
  \A w \in Workers : token[w] # NoOne => token[w].epoch <= lease_epoch[token[w].job]

\* A child inside the fence works on the first unfinished stage of its job.
AtWork ==
  \A w \in Workers : lease_matches(w) /\ working[w] # 0 =>
    /\ working[w] \in 1..StageCount[token[w].job]
    /\ FirstUnfinishedStage(token[w].job, working[w])

StageEpochsIssued ==
  \A j \in Jobs : \A i \in 1..StageCount[j] : stage[j][i].epoch <= lease_epoch[j]

Checkpoints ==
  /\ ChildPlaced
  /\ TokensIssued
  /\ AtWork
  /\ StageEpochsIssued
  /\ CheckpointsInOrder
  /\ SuccessIsCheckpointed

-----------------------------------------------------------------------------
(* The fence only closes: a process inside it after a step was inside it   *)
(* before, or has just claimed.                                            *)

\* A step that issues no token, starts no row and revives no lease lets no process
\* into the fence.
LEMMA FenceFrame ==
  ASSUME TypeOK, TypeOK', NEW w \in Workers, lease_matches(w)',
         token'[w] = token[w],
         lease_owner' = lease_owner, lease_epoch' = lease_epoch, attempts' = attempts,
         \A j \in Jobs : status'[j] = "running" => status[j] = "running",
         \A j \in Jobs : lease'[j] > 0 => lease[j] > 0
  PROVE  lease_matches(w)
  <1>1. token[w] # NoOne /\ token[w].job \in Jobs
    BY DEF lease_matches, TypeOK, Token
  <1> QED BY <1>1 DEF lease_matches

\* After any step, a process inside the fence was there before with the same token,
\* or works on nothing yet (it has just claimed).
LEMMA FenceCloses ==
  ASSUME TypeOK, TypeOK', Control, ChildPlaced, TokensIssued, Next,
         NEW w \in Workers, lease_matches(w)'
  PROVE  \/ lease_matches(w) /\ token'[w] = token[w]
         \/ working'[w] = 0
  <1> USE DEF rowVars, procVars
  <1>0. /\ token'[w] # NoOne
        /\ token'[w].job \in Jobs
        /\ status'[token'[w].job] = "running"
        /\ lease_epoch'[token'[w].job] = token'[w].epoch
    BY DEF lease_matches, TypeOK, Token
  <1>1. ASSUME NEW v \in Workers, ReconcileOnly(v)
        PROVE  lease_matches(w) /\ token'[w] = token[w]
    BY <1>1, ReconcileType, FenceFrame DEF ReconcileOnly, TypeOK
  <1>2. ASSUME NEW v \in Workers, NEW j \in Jobs,
               \/ quarantine_invalid_expired_running_job(v, j)
               \/ fail_job_after_exhausted_crash(v, j)
        PROVE  FALSE
    <2>1. Candidate(ReconciledStatus, j) /\ FailRow(ReconciledStatus, j)
      BY <1>2 DEF quarantine_invalid_expired_running_job, fail_job_after_exhausted_crash, Admitted
    <2>2. ReconciledStatus \in [Jobs -> Statuses]
      BY ReconcileType DEF TypeOK
    <2>3. \A k \in Jobs : status'[k] # "running"
      BY <2>1, <2>2 DEF Candidate, no_other_running_heavy_job, FailRow
    <2> QED BY <1>0, <2>3
  <1>3. ASSUME NEW v \in Workers, NEW j \in Jobs, claim_next_heavy_job(v, j)
        PROVE  working'[w] = 0
    <2>1. CASE w = v
      BY <1>3, <2>1 DEF claim_next_heavy_job, ChildPlaced
    <2>2. CASE w # v
      <3>1. /\ Candidate(ReconciledStatus, j)
            /\ status' = [ReconciledStatus EXCEPT ![j] = "running"]
            /\ lease_epoch' = [lease_epoch EXCEPT ![j] = lease_epoch[j] + 1]
            /\ token'[w] = token[w]
        BY <1>3, <2>2 DEF claim_next_heavy_job, Admitted, TypeOK
      <3>2. ReconciledStatus \in [Jobs -> Statuses]
        BY ReconcileType DEF TypeOK
      <3>3. token[w].job = j
        BY <1>0, <3>1, <3>2 DEF Candidate, no_other_running_heavy_job
      <3>4. token[w].epoch <= lease_epoch[j]
        BY <1>0, <3>1, <3>3 DEF TokensIssued
      <3>5. lease_epoch'[j] = lease_epoch[j] + 1 /\ lease_epoch[j] \in Nat
        BY <3>1 DEF TypeOK
      <3> QED BY <1>0, <3>1, <3>3, <3>4, <3>5
    <2> QED BY <2>1, <2>2
  <1>4. ASSUME NEW v \in Workers, Supervise(v) \/ Crash(v)
        PROVE  lease_matches(w) /\ token'[w] = token[w]
    <2>1. CASE heartbeat_claim(v)
      <3>1. \A j \in Jobs : lease'[j] > 0 => lease[j] > 0
        BY <2>1 DEF heartbeat_claim, lock_active_execution_state, lease_matches, TypeOK
      <3> QED BY <2>1, <3>1, FenceFrame DEF heartbeat_claim
    <2>2. CASE ~heartbeat_claim(v)
      <3>1. UNCHANGED <<rowVars, attempts, token>>
        BY <1>4, <2>2 DEF Supervise, Spawn, mark_attempt_started, StartFails, terminate_child,
                          ObserveExit, Crash
      <3> QED BY <3>1, FenceFrame
    <2> QED BY <2>1, <2>2
  <1>5. ASSUME NEW v \in Workers, complete_job(v) \/ fail_job(v)
        PROVE  FALSE
    <2>1. \A k \in Jobs : status'[k] # "running"
      BY <1>5, OutcomeStopsSlot
    <2> QED BY <1>0, <2>1
  <1>6. ASSUME NEW v \in Workers, OutcomeNotPersisted(v)
        PROVE  lease_matches(w) /\ token'[w] = token[w]
    <2>1. w # v
      BY <1>0, <1>6 DEF OutcomeNotPersisted, RunEnds, TypeOK
    <2>2. token'[w] = token[w]
      BY <1>6, <2>1 DEF OutcomeNotPersisted, RunEnds, TypeOK
    <2> QED BY <1>6, <2>2, FenceFrame DEF OutcomeNotPersisted
  <1>7. ASSUME NEW v \in Workers, RunDailyStages(v)
        PROVE  lease_matches(w) /\ token'[w] = token[w]
    <2>1. UNCHANGED <<rowVars, attempts, token>>
      BY <1>7 DEF RunDailyStages, EnterStage, AllStagesDone, CommitStage, FencedOut, StageFails,
                  ChildKilled, ChildExits
    <2> QED BY <2>1, FenceFrame
  <1>8. ASSUME NEW o \in Operators, CommitControl(o)
        PROVE  lease_matches(w) /\ token'[w] = token[w]
    <2>1. op[o] \in Request
      BY <1>8 DEF CommitControl, TypeOK
    <2>2. \A j \in Jobs : status'[j] = "running" => status[j] = "running"
      BY <1>8, <2>1 DEF CommitControl, Request, TypeOK
    <2> QED BY <1>8, <2>2, FenceFrame DEF CommitControl
  <1>9. ASSUME NEW o \in Operators, NEW j \in Jobs, ReadForControl(o, j)
        PROVE  lease_matches(w) /\ token'[w] = token[w]
    BY <1>9, FenceFrame DEF ReadForControl
  <1>10. ASSUME NEW j \in Jobs, LeaseTick(j) \/ RetryDue(j)
         PROVE  lease_matches(w) /\ token'[w] = token[w]
    <2>1. \A k \in Jobs : lease'[k] > 0 => lease[k] > 0
      BY ZenonT(60), <1>10 DEF LeaseTick, RetryDue, TypeOK
    <2> QED BY <1>10, <2>1, FenceFrame DEF LeaseTick, RetryDue
  <1> QED BY <1>1, <1>2, <1>3, <1>4, <1>5, <1>6, <1>7, <1>8, <1>9, <1>10
          DEF Next, StartAttempt, PersistAttemptOutcome

-----------------------------------------------------------------------------
(* What a step does to the checkpoints.                                    *)

\* The only two writes to job_stage_runs: one stage of the job of a process inside
\* the fence, at the stage it works on, under the epoch of the row.
LEMMA StageWrites ==
  ASSUME TypeOK, Next, stage' # stage
  PROVE  \E w \in Workers, s \in {"success", "failed"} :
           /\ lease_matches(w)
           /\ working[w] # 0
           /\ working' = [working EXCEPT ![w] = 0]
           /\ UNCHANGED rowVars /\ UNCHANGED <<attempts, token>>
           /\ s = "failed" => stage[token[w].job][working[w]].status # "success"
           /\ stage' = [stage EXCEPT ![token[w].job][working[w]] =
                          [status |-> s, epoch |-> lease_epoch[token[w].job]]]
  <1> USE DEF procVars
  <1>1. ASSUME NEW w \in Workers, StartAttempt(w) PROVE stage' = stage
    BY <1>1 DEF StartAttempt, ReconcileOnly, quarantine_invalid_expired_running_job,
                fail_job_after_exhausted_crash, claim_next_heavy_job, FailRow
  <1>2. ASSUME NEW w \in Workers, Supervise(w) \/ Crash(w) PROVE stage' = stage
    BY <1>2 DEF Supervise, Spawn, mark_attempt_started, StartFails, heartbeat_claim,
                terminate_child,
                ObserveExit, Crash
  <1>3. ASSUME NEW w \in Workers, PersistAttemptOutcome(w) PROVE stage' = stage
    BY <1>3 DEF PersistAttemptOutcome, complete_job, fail_job, OutcomeNotPersisted, CloseClaim,
                RunEnds
  <1>4. ASSUME NEW w \in Workers,
               EnterStage(w) \/ AllStagesDone(w) \/ FencedOut(w) \/ ChildKilled(w)
        PROVE  stage' = stage
    BY <1>4 DEF EnterStage, AllStagesDone, FencedOut, ChildKilled
  <1>5. ASSUME \/ \E o \in Operators : \/ CommitControl(o)
                                       \/ \E j \in Jobs : ReadForControl(o, j)
               \/ \E j \in Jobs : LeaseTick(j) \/ RetryDue(j)
        PROVE  stage' = stage
    BY <1>5 DEF CommitControl, ReadForControl, LeaseTick, RetryDue
  <1>6. PICK w \in Workers : CommitStage(w) \/ \E how \in Outcomes : StageFails(w, how)
    BY <1>1, <1>2, <1>3, <1>4, <1>5 DEF Next, RunDailyStages
  <1>7. CASE CommitStage(w)
    BY <1>7 DEF CommitStage
  <1>8. ASSUME NEW how \in Outcomes, StageFails(w, how)
        PROVE  /\ lease_matches(w)
               /\ working[w] # 0
               /\ working' = [working EXCEPT ![w] = 0]
               /\ UNCHANGED rowVars /\ UNCHANGED <<attempts, token>>
               /\ stage[token[w].job][working[w]].status # "success"
               /\ stage' = [stage EXCEPT ![token[w].job][working[w]] =
                              [status |-> "failed", epoch |-> lease_epoch[token[w].job]]]
    BY <1>8 DEF StageFails, ChildExits
  <1> QED BY <1>6, <1>7, <1>8

\* Such a write, seen stage by stage: it hits an unfinished stage whose
\* predecessors are all finished.
LEMMA StageWriteShape ==
  ASSUME TypeOK, Checkpoints, Next, stage' # stage
  PROVE  \E j \in Jobs : \E n \in 1..StageCount[j] :
           /\ FirstUnfinishedStage(j, n)
           /\ stage'[j][n].epoch = lease_epoch[j]
           /\ \A k \in Jobs : \A i \in 1..StageCount[k] :
                k # j \/ i # n => stage'[k][i] = stage[k][i]
           /\ UNCHANGED rowVars
  <1>1. PICK w \in Workers, s \in {"success", "failed"} :
           /\ lease_matches(w)
           /\ working[w] # 0
           /\ UNCHANGED rowVars
           /\ stage' = [stage EXCEPT ![token[w].job][working[w]] =
                          [status |-> s, epoch |-> lease_epoch[token[w].job]]]
    BY StageWrites
  <1> DEFINE j == token[w].job
             n == working[w]
             new == [status |-> s, epoch |-> lease_epoch[j]]
  <1>2. j \in Jobs
    BY <1>1, FenceType
  <1>3. n \in 1..StageCount[j] /\ FirstUnfinishedStage(j, n)
    BY <1>1 DEF Checkpoints, AtWork
  <1>4. stage[j] \in Seq(Stage) /\ DOMAIN stage[j] = 1..StageCount[j]
    BY <1>2 DEF TypeOK
  <1>5. /\ stage'[j] = [stage[j] EXCEPT ![n] = new]
        /\ \A k \in Jobs : k # j => stage'[k] = stage[k]
    BY <1>1, <1>2 DEF TypeOK
  <1>6. stage'[j][n] = new /\ new.epoch = lease_epoch[j]
    BY <1>3, <1>4, <1>5
  <1>7. \A i \in 1..StageCount[j] : i # n => stage'[j][i] = stage[j][i]
    BY <1>4, <1>5
  <1> HIDE DEF j, n, new
  <1> QED BY <1>1, <1>2, <1>3, <1>5, <1>6, <1>7

-----------------------------------------------------------------------------
(* The induction.                                                          *)

\* The freshly planned rows satisfy the strengthening.
LEMMA InitCheckpoints == Init => Checkpoints
  <1> SUFFICES ASSUME Init PROVE Checkpoints
    OBVIOUS
  <1>1. TypeOK
    BY InitType
  <1>2. ChildPlaced /\ TokensIssued /\ AtWork
    BY DEF Init, ChildPlaced, TokensIssued, AtWork
  <1>3. \A j \in Jobs : \A i \in 1..StageCount[j] :
          stage[j][i].status = "pending" /\ stage[j][i].epoch = 0
    BY DEF Init
  <1>4. StageEpochsIssued /\ CheckpointsInOrder
    BY <1>3 DEF Init, StageEpochsIssued, CheckpointsInOrder
  <1>5. SuccessIsCheckpointed
    BY DEF Init, SuccessIsCheckpointed
  <1> QED BY <1>2, <1>4, <1>5 DEF Checkpoints

\* Every step keeps children with the supervisor that watches them.
LEMMA NextChildPlaced ==
  ASSUME TypeOK, ChildPlaced, Next
  PROVE  ChildPlaced'
  <1> USE DEF ChildPlaced, TypeOK, procVars
  <1>1. ASSUME NEW w \in Workers, StartAttempt(w) PROVE ChildPlaced'
    <2>1. /\ sup[w] = "idle"
          /\ sup' = sup \/ sup' = [sup EXCEPT ![w] = "claimed"]
          /\ UNCHANGED <<child, working>>
      BY <1>1 DEF StartAttempt, ReconcileOnly, quarantine_invalid_expired_running_job,
                  fail_job_after_exhausted_crash, claim_next_heavy_job, FailRow
    <2> QED BY <2>1
  <1>2. ASSUME NEW w \in Workers, Supervise(w) \/ Crash(w) PROVE ChildPlaced'
    <2>1. CASE mark_attempt_started(w)
      BY <2>1 DEF mark_attempt_started
    <2>2. CASE StartFails(w)
      BY <2>2 DEF StartFails
    <2>3. CASE heartbeat_claim(w)
      BY <2>3 DEF heartbeat_claim
    <2>4. ASSUME NEW why, terminate_child(w, why) PROVE ChildPlaced'
      BY <2>4 DEF terminate_child
    <2>5. CASE ObserveExit(w)
      BY <2>5 DEF ObserveExit
    <2>6. CASE Crash(w)
      BY <2>6 DEF Crash
    <2>7. CASE Spawn(w)
      BY <2>7 DEF Spawn
    <2> QED BY <1>2, <2>1, <2>2, <2>3, <2>4, <2>5, <2>6, <2>7 DEF Supervise
  <1>3. ASSUME NEW w \in Workers, PersistAttemptOutcome(w) PROVE ChildPlaced'
    <2>1. /\ sup[w] = "closing"
          /\ sup' = [sup EXCEPT ![w] = "idle"]
          /\ UNCHANGED <<child, working>>
      BY <1>3 DEF PersistAttemptOutcome, complete_job, fail_job, OutcomeNotPersisted, CloseClaim,
                  RunEnds
    <2> QED BY <2>1
  <1>4. ASSUME NEW w \in Workers, RunDailyStages(w) PROVE ChildPlaced'
    <2>1. CASE EnterStage(w)
      BY <2>1 DEF EnterStage
    <2>2. CASE CommitStage(w)
      BY <2>2 DEF CommitStage
    <2>3. ASSUME NEW how, ChildExits(w, how), child[w] = "alive" PROVE ChildPlaced'
      BY <2>3 DEF ChildExits
    <2> QED BY <1>4, <2>1, <2>2, <2>3 DEF RunDailyStages, AllStagesDone, FencedOut, StageFails,
                                          ChildKilled
  <1>5. ASSUME \/ \E o \in Operators : \/ CommitControl(o)
                                       \/ \E j \in Jobs : ReadForControl(o, j)
               \/ \E j \in Jobs : LeaseTick(j) \/ RetryDue(j)
        PROVE  ChildPlaced'
    BY <1>5 DEF CommitControl, ReadForControl, LeaseTick, RetryDue
  <1> QED BY <1>1, <1>2, <1>3, <1>4, <1>5 DEF Next

\* Epochs never go down; a token is issued with the epoch of its claim.
LEMMA EpochsGrow ==
  ASSUME TypeOK, Next
  PROVE  /\ \A j \in Jobs : lease_epoch[j] <= lease_epoch'[j]
         /\ \A w \in Workers : \/ token'[w] = token[w]
                               \/ token'[w] = NoOne
                               \/ /\ token'[w].job \in Jobs
                                  /\ token'[w].epoch = lease_epoch'[token'[w].job]
  <1> USE DEF TypeOK, rowVars, procVars
  <1>1. ASSUME NEW w \in Workers, NEW j \in Jobs, claim_next_heavy_job(w, j)
        PROVE  /\ \A k \in Jobs : lease_epoch[k] <= lease_epoch'[k]
               /\ \A v \in Workers : \/ token'[v] = token[v]
                                     \/ /\ token'[v].job \in Jobs
                                        /\ token'[v].epoch = lease_epoch'[token'[v].job]
    <2>1. /\ lease_epoch' = [lease_epoch EXCEPT ![j] = lease_epoch[j] + 1]
          /\ token' = [token EXCEPT ![w] = [job |-> j, number |-> attempt_count[j] + 1,
                                            epoch |-> lease_epoch[j] + 1]]
      BY <1>1 DEF claim_next_heavy_job
    <2> QED BY SMTT(60), <2>1
  <1>2. CASE /\ lease_epoch' = lease_epoch
             /\ \A w \in Workers : token'[w] = token[w] \/ token'[w] = NoOne
    BY <1>2
  <1>3. ASSUME NEW w \in Workers, StartAttempt(w), \A j \in Jobs : ~claim_next_heavy_job(w, j)
        PROVE  lease_epoch' = lease_epoch /\ token' = token
    BY <1>3 DEF StartAttempt, ReconcileOnly, quarantine_invalid_expired_running_job,
                fail_job_after_exhausted_crash, FailRow
  <1>4. ASSUME NEW w \in Workers, Supervise(w) \/ Crash(w)
        PROVE  lease_epoch' = lease_epoch /\ token' = token
    BY <1>4 DEF Supervise, Spawn, mark_attempt_started, StartFails, heartbeat_claim,
                terminate_child,
                ObserveExit, Crash
  <1>5. ASSUME NEW w \in Workers, PersistAttemptOutcome(w)
        PROVE  /\ lease_epoch' = lease_epoch
               /\ \A v \in Workers : token'[v] = token[v] \/ token'[v] = NoOne
    <2>1. lease_epoch' = lease_epoch /\ token' = [token EXCEPT ![w] = NoOne]
      BY <1>5 DEF PersistAttemptOutcome, complete_job, fail_job, OutcomeNotPersisted, CloseClaim,
                  RunEnds
    <2> QED BY <2>1
  <1>6. ASSUME NEW w \in Workers, RunDailyStages(w)
        PROVE  lease_epoch' = lease_epoch /\ token' = token
    BY <1>6 DEF RunDailyStages, EnterStage, AllStagesDone, CommitStage, FencedOut, StageFails,
                ChildKilled, ChildExits
  <1>7. ASSUME \/ \E o \in Operators : \/ CommitControl(o)
                                       \/ \E j \in Jobs : ReadForControl(o, j)
               \/ \E j \in Jobs : LeaseTick(j) \/ RetryDue(j)
        PROVE  lease_epoch' = lease_epoch /\ token' = token
    BY <1>7 DEF CommitControl, ReadForControl, LeaseTick, RetryDue
  <1> QED BY <1>1, <1>2, <1>3, <1>4, <1>5, <1>6, <1>7 DEF Next

\* Every step keeps the children inside the fence on the first unfinished stage: a
\* stage write by another process is impossible, since two cannot be inside.
LEMMA NextAtWork ==
  ASSUME TypeOK, TypeOK', Control, Checkpoints, Next
  PROVE  AtWork'
  <1> SUFFICES ASSUME NEW w \in Workers, lease_matches(w)', working'[w] # 0
               PROVE  /\ working'[w] \in 1..StageCount[token'[w].job]
                      /\ FirstUnfinishedStage(token[w].job, working[w])'
    BY DEF AtWork
  <1>1. lease_matches(w) /\ token'[w] = token[w]
    BY FenceCloses DEF Checkpoints
  <1> DEFINE j == token[w].job
  <1>2. j \in Jobs
    BY <1>1, FenceType
  <1>3. stage' = stage
    <2> SUFFICES ASSUME stage' # stage PROVE FALSE
      OBVIOUS
    <2>1. PICK v \in Workers : /\ lease_matches(v)
                               /\ working' = [working EXCEPT ![v] = 0]
      BY StageWrites
    <2>2. token[v].job \in Jobs
      BY <2>1, FenceType
    <2>3. v = w
      BY <1>1, <1>2, <2>1, <2>2 DEF lease_matches, Control, SlotExclusive
    <2> QED BY <2>1, <2>3 DEF TypeOK
  <1>4. CASE working'[w] = working[w]
    <2>1. /\ working[w] \in 1..StageCount[j]
          /\ FirstUnfinishedStage(j, working[w])
      BY <1>1, <1>4 DEF Checkpoints, AtWork
    <2> QED BY <1>1, <1>3, <1>4, <2>1 DEF FirstUnfinishedStage
  <1>5. CASE working'[w] # working[w]
    <2>1. EnterStage(w)
      <3> USE DEF procVars, TypeOK
      <3>1. ASSUME NEW v \in Workers, StartAttempt(v) PROVE working' = working
        BY <3>1 DEF StartAttempt, ReconcileOnly, quarantine_invalid_expired_running_job,
                    fail_job_after_exhausted_crash, claim_next_heavy_job, FailRow
      <3>2. ASSUME NEW v \in Workers, Supervise(v) \/ Crash(v)
            PROVE  working' = working \/ working' = [working EXCEPT ![v] = 0]
        BY <3>2 DEF Supervise, Spawn, mark_attempt_started, StartFails, heartbeat_claim,
                    terminate_child, ObserveExit, Crash
      <3>3. ASSUME NEW v \in Workers, PersistAttemptOutcome(v) PROVE working' = working
        BY <3>3 DEF PersistAttemptOutcome, complete_job, fail_job, OutcomeNotPersisted,
                    CloseClaim, RunEnds
      <3>4. ASSUME NEW v \in Workers, RunDailyStages(v), ~EnterStage(v)
            PROVE  working' = [working EXCEPT ![v] = 0]
        BY <3>4 DEF RunDailyStages, AllStagesDone, CommitStage, FencedOut, StageFails,
                    ChildKilled, ChildExits
      <3>5. ASSUME \/ \E o \in Operators : \/ CommitControl(o)
                                           \/ \E k \in Jobs : ReadForControl(o, k)
                   \/ \E k \in Jobs : LeaseTick(k) \/ RetryDue(k)
            PROVE  working' = working
        BY <3>5 DEF CommitControl, ReadForControl, LeaseTick, RetryDue
      <3>6. ASSUME NEW v \in Workers, working' = [working EXCEPT ![v] = 0]
            PROVE  FALSE
        BY <1>5, <3>6
      <3>7. PICK v \in Workers : EnterStage(v)
        BY <1>5, <3>1, <3>2, <3>3, <3>4, <3>5, <3>6 DEF Next, RunDailyStages
      <3>8. v = w
        BY <1>5, <3>7 DEF EnterStage
      <3> QED BY <3>7, <3>8
    <2>2. PICK i \in 1..StageCount[j] : /\ FirstUnfinishedStage(j, i)
                                        /\ working' = [working EXCEPT ![w] = i]
      BY <2>1 DEF EnterStage
    <2>3. working'[w] = i
      BY <2>2 DEF TypeOK
    <2> QED BY <1>1, <1>3, <2>2, <2>3 DEF FirstUnfinishedStage
  <1> QED BY <1>4, <1>5

\* The order and the epochs of the checkpoints survive a write.
LEMMA NextStageOrder ==
  ASSUME TypeOK, TypeOK', Control, Checkpoints, Next
  PROVE  StageEpochsIssued' /\ CheckpointsInOrder'
  <1>1. \A k \in Jobs : /\ lease_epoch[k] <= lease_epoch'[k]
                        /\ lease_epoch[k] \in Nat /\ lease_epoch'[k] \in Nat
    BY SMTT(60), EpochsGrow DEF TypeOK
  <1>2. \A k \in Jobs : \A i \in 1..StageCount[k] : stage[k][i].epoch \in Nat
    <2> TAKE k \in Jobs
    <2>1. stage[k] \in Seq(Stage) /\ DOMAIN stage[k] = 1..StageCount[k]
      BY DEF TypeOK
    <2>2. ASSUME NEW s \in Seq(Stage) PROVE \A i \in DOMAIN s : s[i].epoch \in Nat
      <3> TAKE i \in DOMAIN s
      <3>1. s[i] \in Stage
        OBVIOUS
      <3> QED BY <3>1 DEF Stage
    <2> QED BY <2>1, <2>2
  <1>3. CASE stage' = stage
    BY <1>1, <1>2, <1>3 DEF Checkpoints, StageEpochsIssued, CheckpointsInOrder
  <1>4. CASE stage' # stage
    <2>1. PICK j \in Jobs : \E n \in 1..StageCount[j] :
           /\ FirstUnfinishedStage(j, n)
           /\ stage'[j][n].epoch = lease_epoch[j]
           /\ \A k \in Jobs : \A i \in 1..StageCount[k] :
                k # j \/ i # n => stage'[k][i] = stage[k][i]
           /\ UNCHANGED rowVars
      BY <1>4, StageWriteShape
    <2>2. PICK n \in 1..StageCount[j] :
           /\ FirstUnfinishedStage(j, n)
           /\ stage'[j][n].epoch = lease_epoch[j]
           /\ \A k \in Jobs : \A i \in 1..StageCount[k] :
                k # j \/ i # n => stage'[k][i] = stage[k][i]
           /\ UNCHANGED rowVars
      BY <2>1
    <2>3. lease_epoch' = lease_epoch
      BY <2>2 DEF rowVars
    <2>4. StageEpochsIssued'
      BY <1>1, <2>2, <2>3 DEF StageEpochsIssued, Checkpoints
    <2>5. CheckpointsInOrder'
      <3> SUFFICES ASSUME NEW k \in Jobs, NEW i \in 1..StageCount[k],
                          NEW m \in 1..StageCount[k], i < m,
                          stage'[k][m].status = "success"
                   PROVE  /\ stage'[k][i].status = "success"
                          /\ stage'[k][i].epoch <= stage'[k][m].epoch
        BY DEF CheckpointsInOrder
      <3>1. CASE k # j \/ (i # n /\ m # n)
        BY <2>2, <3>1 DEF Checkpoints, CheckpointsInOrder
      <3>2. CASE k = j /\ i = n
        <4>1. stage'[k][m] = stage[k][m]
          BY <2>2, <3>2
        <4>2. stage[j][n].status = "success"
          BY <3>2, <4>1 DEF Checkpoints, CheckpointsInOrder
        <4> QED BY <2>2, <4>2 DEF FirstUnfinishedStage
      <3>3. CASE k = j /\ m = n /\ i # n
        <4>1. stage'[j][i] = stage[j][i] /\ stage[j][i].status = "success"
          BY <2>2, <3>3 DEF FirstUnfinishedStage
        <4>2. stage[j][i].epoch <= lease_epoch[j]
          BY <3>3 DEF Checkpoints, StageEpochsIssued
        <4> QED BY <2>2, <3>3, <4>1, <4>2
      <3> QED BY <3>1, <3>2, <3>3
    <2> QED BY <2>4, <2>5
  <1> QED BY <1>3, <1>4

\* No step touches a finished stage.
LEMMA FinishedStageKept ==
  ASSUME TypeOK, Checkpoints, Next,
         NEW k \in Jobs, NEW i \in 1..StageCount[k], stage[k][i].status = "success"
  PROVE  stage'[k][i] = stage[k][i]
  <1>1. CASE stage' = stage
    BY <1>1
  <1>2. CASE stage' # stage
    <2>1. PICK j \in Jobs : \E n \in 1..StageCount[j] :
           /\ FirstUnfinishedStage(j, n)
           /\ \A l \in Jobs : \A m \in 1..StageCount[l] :
                l # j \/ m # n => stage'[l][m] = stage[l][m]
      BY <1>2, StageWriteShape
    <2> QED BY <2>1 DEF FirstUnfinishedStage
  <1> QED BY <1>1, <1>2

\* Only complete_job writes success, behind the checkpoint test.
LEMMA NextSuccess ==
  ASSUME TypeOK, Checkpoints, Next
  PROVE  SuccessIsCheckpointed'
  <1> SUFFICES ASSUME NEW k \in Jobs, status'[k] = "success", NEW i \in 1..StageCount[k]
               PROVE  stage[k][i].status = "success"
    BY FinishedStageKept DEF SuccessIsCheckpointed
  <1> USE DEF rowVars
  <1>1. CASE status[k] = "success"
    BY <1>1 DEF Checkpoints, SuccessIsCheckpointed
  <1>2. CASE status[k] # "success"
    <2>1. ASSUME NEW w \in Workers, StartAttempt(w) PROVE FALSE
      <3>1. /\ ReconciledStatus \in [Jobs -> Statuses]
            /\ ReconciledStatus[k] # "success"
        BY <1>2, ReconcileType DEF TypeOK
      <3>2. \/ status' = ReconciledStatus
            \/ \E j \in Jobs, s \in {"failed", "running"} :
                 status' = [ReconciledStatus EXCEPT ![j] = s]
        BY <2>1 DEF StartAttempt, ReconcileOnly, quarantine_invalid_expired_running_job,
                    fail_job_after_exhausted_crash, claim_next_heavy_job, FailRow
      <3> QED BY <3>1, <3>2
    <2>2. ASSUME NEW w \in Workers, Supervise(w) \/ Crash(w) PROVE FALSE
      BY <1>2, <2>2 DEF Supervise, Spawn, mark_attempt_started, StartFails, heartbeat_claim,
                        terminate_child, ObserveExit, Crash
    <2>3. ASSUME NEW w \in Workers, complete_job(w)
          PROVE  stage[k][i].status = "success"
      <3> DEFINE j == token[w].job
                 st == [status EXCEPT ![j] = "success"]
      <3>1. j \in Jobs
        BY <2>3, FenceType DEF complete_job, lock_active_execution_state
      <3>2. st \in [Jobs -> Statuses]
        BY <3>1 DEF TypeOK, Statuses, Terminal
      <3>3. status' = st \/ status' = enqueue_finalize_if_ready(st)
        BY <2>3 DEF complete_job
      <3>4. st[k] = "success"
        <4> HIDE DEF st
        <4> QED BY <3>2, <3>3, EnqueueType
      <3>5. k = j
        BY <1>2, <3>4 DEF TypeOK
      <3> QED BY <2>3, <3>5 DEF complete_job, all_required_stage_checkpoints_success
    <2>4. ASSUME NEW w \in Workers, fail_job(w) PROVE FALSE
      <3> DEFINE j == token[w].job
                 d == retry_policy(failure_kind(j \in Priority, outcome[w]), attempt_count[j],
                                   quota_pause_count[j],
                                   previous_attempt_exit_type(j, attempt_count[j]))
      <3>1. d \in {"failed", "retry_wait"}
        BY PolicyType
      <3>2. status' = [status EXCEPT ![j] = d]
        BY <2>4 DEF fail_job
      <3> HIDE DEF d, j
      <3> QED BY <1>2, <3>1, <3>2 DEF TypeOK
    <2>5. ASSUME NEW w \in Workers, OutcomeNotPersisted(w) PROVE FALSE
      BY <1>2, <2>5 DEF OutcomeNotPersisted
    <2>6. ASSUME NEW w \in Workers, RunDailyStages(w) PROVE FALSE
      BY <1>2, <2>6 DEF RunDailyStages, EnterStage, AllStagesDone, CommitStage, FencedOut,
                        StageFails, ChildKilled, ChildExits
    <2>7. ASSUME NEW o \in Operators, CommitControl(o) PROVE FALSE
      <3>1. op[o] \in Request
        BY <2>7 DEF CommitControl, TypeOK
      <3> QED BY <1>2, <2>7, <3>1 DEF CommitControl, Request, TypeOK
    <2>8. ASSUME \/ \E o \in Operators : \E j \in Jobs : ReadForControl(o, j)
                 \/ \E j \in Jobs : LeaseTick(j) \/ RetryDue(j)
          PROVE  FALSE
      BY <1>2, <2>8 DEF ReadForControl, LeaseTick, RetryDue
    <2> QED BY <2>1, <2>2, <2>3, <2>4, <2>5, <2>6, <2>7, <2>8 DEF Next, PersistAttemptOutcome
  <1> QED BY <1>1, <1>2

\* The strengthening is preserved by every step.
LEMMA NextCheckpoints ==
  TypeOK /\ TypeOK' /\ Control /\ Checkpoints /\ [Next]_vars => Checkpoints'
  <1> SUFFICES ASSUME TypeOK, TypeOK', Control, Checkpoints, [Next]_vars PROVE Checkpoints'
    OBVIOUS
  <1>1. CASE Next
    <2>1. TokensIssued'
      <3> SUFFICES ASSUME NEW w \in Workers, token'[w] # NoOne
                   PROVE  token'[w].epoch <= lease_epoch'[token'[w].job]
        BY DEF TokensIssued
      <3>1. CASE token'[w] = token[w]
        <4>1. /\ token[w].job \in Jobs
              /\ token[w].epoch \in Nat
              /\ token[w].epoch <= lease_epoch[token[w].job]
          BY <3>1 DEF Checkpoints, TokensIssued, TypeOK, Token
        <4>2. /\ lease_epoch[token[w].job] <= lease_epoch'[token[w].job]
              /\ lease_epoch[token[w].job] \in Nat
              /\ lease_epoch'[token[w].job] \in Nat
          BY ZenonT(60), <1>1, <4>1, EpochsGrow DEF TypeOK
        <4> QED BY <3>1, <4>1, <4>2
      <3>2. CASE token'[w] # token[w]
        <4>1. token'[w].job \in Jobs /\ token'[w].epoch = lease_epoch'[token'[w].job]
          BY <1>1, <3>2, EpochsGrow
        <4>2. lease_epoch'[token'[w].job] \in Nat
          BY <4>1 DEF TypeOK
        <4> QED BY <4>1, <4>2
      <3> QED BY <3>1, <3>2
    <2>2. ChildPlaced'
      BY <1>1, NextChildPlaced DEF Checkpoints
    <2> QED BY <1>1, <2>1, <2>2, NextAtWork, NextStageOrder, NextSuccess DEF Checkpoints
  <1>2. CASE UNCHANGED vars
    BY <1>2 DEF vars, rowVars, procVars, Checkpoints, ChildPlaced, TokensIssued, AtWork,
                lease_matches, FirstUnfinishedStage, StageEpochsIssued, CheckpointsInOrder,
                SuccessIsCheckpointed
  <1> QED BY <1>1, <1>2

\* The inductive invariant behind the checkpoint theorems (run_daily_stages under
\* _lease_matches).
THEOREM CheckpointInvariant == Spec => [](TypeOK /\ Control /\ Checkpoints)
  <1>1. Init => Checkpoints
    BY InitCheckpoints
  <1>2. TypeOK /\ TypeOK' /\ Control /\ Checkpoints /\ [Next]_vars => Checkpoints'
    BY NextCheckpoints
  <1> QED BY <1>1, <1>2, ControlInvariant, PTL DEF Spec

\* Checkpoints are committed in stage order and in epoch order, whichever live,
\* orphaned or superseded child commits them.
THEOREM CheckpointsAreOrdered == Spec => []CheckpointsInOrder
  <1>1. Checkpoints => CheckpointsInOrder
    BY DEF Checkpoints
  <1> QED BY <1>1, CheckpointInvariant, PTL

\* A success row has all its checkpoints, whatever admin requests did to it.
THEOREM SuccessHasCheckpoints == Spec => []SuccessIsCheckpointed
  <1>1. Checkpoints => SuccessIsCheckpointed
    BY DEF Checkpoints
  <1> QED BY <1>1, CheckpointInvariant, PTL

\* A durable checkpoint is never rewritten.
THEOREM CheckpointsAreStable == Spec => CheckpointsStable
  <1>1. TypeOK /\ Control /\ Checkpoints /\ [Next]_vars
          => [\A j \in Jobs : \A i \in 1..StageCount[j] :
                stage[j][i].status = "success" => stage'[j][i] = stage[j][i]]_vars
    BY FinishedStageKept
  <1> QED BY <1>1, CheckpointInvariant, PTL DEF Spec, CheckpointsStable
=============================================================================
