-------------------------- MODULE PriorityScheduler --------------------------
(***************************************************************************)
(* The priority scheduler over the day plans of DayPlans: one worker       *)
(* process that repeats run_priority_daily_tick (choose one row in one     *)
(* transaction, then claim it by id and run it), super-admin requests that *)
(* change the same rows, and the calendar.  Between the choice of a row    *)
(* and its claim, and between the reads of a tick and its commit, requests *)
(* commit in between.                                                      *)
(***************************************************************************)
EXTENDS DayPlans

CONSTANTS
  FirstDay,    \* the daily target when the worker starts
  Operators,   \* concurrent super-admin requests
  Requests,    \* the control actions they ask for
  Crashes,     \* whether the worker may die or lose an outcome
  NoOne        \* nothing chosen, no request

RangeRequest == [act : {"cancel", "retry"}, plan : Plans]
RecoverRequest == [act : {"recover"}, day : Days, key : Keys]

ASSUME SchedulerAssumption ==
  /\ FirstDay \in Days
  /\ Requests \subseteq {"cancel", "retry", "recover"}
  /\ Crashes \in BOOLEAN
  /\ NoOne \notin Jobs \cup Days \cup RangeRequest \cup RecoverRequest

VARIABLES
  today,     \* the daily target date, yesterday on the Shanghai calendar
  purpose,   \* priority_purpose of the rows of each base plan
  stale,     \* the base plan carries the request_budget_date of an earlier day
  sched,     \* where the worker is, the row it chose, the root ledger it read
  op         \* the request in flight and what it read

vars == <<dayVars, today, purpose, stale, sched, op>>

Idle == [pc |-> "idle", job |-> NoOne, day |-> NoOne, seen |-> <<>>]
Chosen(pc, j) == [Idle EXCEPT !.pc = pc, !.job = j]

\* The metadata the scheduler keeps, its place in a tick and the requests in
\* flight have their types, and the row it chose exists (JobRun, models.py).
TypeOK ==
  /\ range \in [Plans -> RangeStatuses]
  /\ row \in [Jobs -> Row]
  /\ ordinal \in [Plans -> Nat]
  /\ ledger \in [Days -> Seq(Entry)]
  /\ today \in Days
  /\ purpose \in [Days -> {"none", "daily_required", "history"}]
  /\ stale \in [Days -> BOOLEAN]
  /\ sched \in [pc : {"idle", "planning", "picked", "running"},
                job : Jobs \cup {NoOne}, day : Days \cup {NoOne}, seen : Seq(Entry)]
  /\ op \in [Operators -> RangeRequest \cup RecoverRequest \cup {NoOne}]
  /\ sched.pc \in {"picked", "running"} => sched.job # NoOne
  /\ sched.job # NoOne => sched.pc # "idle"
  /\ sched.pc = "planning" <=> sched.day # NoOne

Init ==
  /\ DayInit
  /\ today = FirstDay
  /\ purpose = [d \in Days |-> "none"]
  /\ stale = [d \in Days |-> FALSE]
  /\ sched = Idle
  /\ op = [o \in Operators |-> NoOne]

-----------------------------------------------------------------------------
(* run_priority_daily_tick.                                                *)

KindRank == [parent_sync |-> 0, date_sync |-> 1, finalize |-> 2]

\* Mutant: the rows of every generation are offered.
OfferedOfAllGenerations(rg, rw, d) ==
  {j \in Jobs : /\ j[1] = d
                /\ day_state(rg, rw, d) \notin {"missing", "failed"}
                /\ \/ rw[j].status \in {"pending", "retry_wait"}
                   \/ ExpiredRunning(rw, j)
                /\ parent_sync_gate_allows_claim(rg, rw, j)}

\* Mutant: nothing is offered of a day whose base range has ended.
OfferedOfOpenBase(rg, rw, d) ==
  {j \in Jobs : /\ j[1] = d
                /\ rg[<<d, Base>>] \notin Terminal
                /\ day_state(rg, rw, d) \notin {"missing", "failed"}
                /\ j \in OwnedJobs(rg, rw, d)
                /\ \/ rw[j].status \in {"pending", "retry_wait"}
                   \/ ExpiredRunning(rw, j)
                /\ parent_sync_gate_allows_claim(rg, rw, j)}

\* The rows of day d that _day_state offers and _select_candidate accepts.
Offered(rg, rw, d) ==
  {j \in Jobs : /\ j[1] = d
                /\ day_state(rg, rw, d) \notin {"missing", "failed"}
                /\ j \in OwnedJobs(rg, rw, d)
                /\ \/ rw[j].status \in {"pending", "retry_wait"}
                   \/ ExpiredRunning(rw, j)
                /\ parent_sync_gate_allows_claim(rg, rw, j)}

\* _select_candidate: the first kind in plan order, or nothing.
select_candidate(rg, rw, d) ==
  LET offered == Offered(rg, rw, d)
  IN  IF offered = {} THEN NoOne
      ELSE CHOOSE j \in offered : \A k \in offered : KindRank[j[3]] <= KindRank[k[3]]

live_heavy_job == \E j \in Jobs : row[j].status = "running" /\ row[j].lease = "live"

\* The daily target: its plan is ensured in any case, and its first candidate is
\* chosen unless the heavy slot is busy.
DailyTick ==
  LET rg == PlannedRange(today, Base)
      rw == PlannedRows(today, Base)
      j == IF live_heavy_job THEN NoOne ELSE select_candidate(rg, rw, today)
  IN  /\ sched.pc = "idle"
      /\ rg # range \/ j # NoOne
      /\ range' = rg
      /\ row' = rw
      /\ purpose' = [purpose EXCEPT ![today] = "daily_required"]
      /\ stale' = [stale EXCEPT ![today] = FALSE]
      /\ sched' = IF j = NoOne THEN Idle ELSE Chosen("picked", j)
      /\ UNCHANGED <<ordinal, ledger, today, op>>

\* Mutant: a failed day ends the scan for older ones.
gap_behind_no_failure(d) ==
  /\ d < today
  /\ DayState(d) \in {"missing", "incomplete"}
  /\ \A e \in Days : d < e /\ e < today => DayState(e) = "success"

\* _find_history_gap: the newest day that is neither published nor failed.
find_history_gap(d) ==
  /\ d < today
  /\ DayState(d) \in {"missing", "incomplete"}
  /\ \A e \in Days : d < e /\ e < today => DayState(e) \in {"success", "failed"}

\* What a tick needs to turn to history: nothing of the daily target is left.
HistoryOpen ==
  /\ sched.pc = "idle"
  /\ DayState(today) = "success"
  /\ ~live_heavy_job

\* The root metadata of day d has to be rewritten by ensure_history_priority_plan:
\* a plan of history purpose stamped on an earlier date.
NeedsStamp(d) == purpose[d] = "history" /\ stale[d]

\* A history tick whose only metadata writes are those of a plan it inserts.
HistoryTick(d) ==
  LET rg == PlannedRange(d, Base)
      rw == PlannedRows(d, Base)
      j == select_candidate(rg, rw, d)
  IN  /\ HistoryOpen
      /\ find_history_gap(d)
      /\ NeedsStamp(d) => (j # NoOne /\ j[3] = "finalize")  \* has no purpose: chosen first
      /\ rg # range \/ j # NoOne
      /\ range' = rg
      /\ row' = rw
      /\ purpose' = [purpose EXCEPT ![d] = IF @ = "none" THEN "history" ELSE @]
      /\ stale' = [stale EXCEPT ![d] = IF purpose[d] = "none" THEN FALSE ELSE @]
      /\ sched' = IF j = NoOne THEN Idle ELSE Chosen("picked", j)
      /\ UNCHANGED <<ordinal, ledger, today, op>>

\* A history tick that restamps the base plan: it has read the metadata of the root
\* and rewrites them whole when it commits.
HistoryStampReads(d) ==
  LET j == select_candidate(range, row, d)
  IN  /\ HistoryOpen
      /\ find_history_gap(d)
      /\ NeedsStamp(d)
      /\ j # NoOne => j[3] # "finalize"
      /\ sched' = [pc |-> "planning", job |-> j, day |-> d, seen |-> ledger[d]]
      /\ UNCHANGED <<dayVars, today, purpose, stale, op>>

\* _stamp_plan_metadata is flushed and committed.
stamp_plan_metadata ==
  /\ sched.pc = "planning"
  /\ ledger' = [ledger EXCEPT ![sched.day] = sched.seen]
  /\ stale' = [stale EXCEPT ![sched.day] = FALSE]
  /\ sched' = IF sched.job = NoOne THEN Idle ELSE Chosen("picked", sched.job)
  /\ UNCHANGED <<range, row, ordinal, today, purpose, op>>

\* child_runner(factory, job_id): claim the chosen row, if it still can be.
ClaimChosen ==
  /\ sched.pc = "picked"
  /\ \/ GrantClaim(sched.job) /\ sched' = Chosen("running", sched.job)
     \/ FailClaim(sched.job) /\ sched' = Idle
     \/ RefuseClaim(sched.job) /\ sched' = Idle
  /\ UNCHANGED <<today, purpose, stale, op>>

\* The child has ended and its outcome is persisted.
PersistOutcome ==
  /\ sched.pc = "running"
  /\ CompleteJob(sched.job) \/ FailJob(sched.job)
  /\ sched' = Idle
  /\ UNCHANGED <<today, purpose, stale, op>>

\* Mutant: a failed tick keeps the row it chose.
CrashKeepsChoice ==
  /\ Crashes
  /\ sched.pc # "idle"
  /\ sched' = [sched EXCEPT !.pc = "idle"]
  /\ UNCHANGED <<dayVars, today, purpose, stale, op>>

\* The worker dies and is restarted, or an outcome is lost: whatever is in memory
\* is gone and an uncommitted tick is rolled back.
Crash ==
  /\ Crashes
  /\ sched.pc # "idle"
  /\ sched' = Idle
  /\ UNCHANGED <<dayVars, today, purpose, stale, op>>

\* A lease nobody renews runs out.
AbandonedLeaseExpires(j) ==
  /\ ~(sched.pc = "running" /\ sched.job = j)
  /\ LeaseExpires(j)
  /\ UNCHANGED <<today, purpose, stale, sched, op>>

DimensionJobStarts ==
  /\ sched.pc = "idle"
  /\ ~\E j \in Jobs : row[j].status = "running"
  /\ OtherHeavyJobStarts
  /\ UNCHANGED <<today, purpose, stale, sched, op>>

\* The next calendar day: a new daily target, every older budget date is stale.
NewDay ==
  /\ today < MaxDay
  /\ sched.pc = "idle"
  /\ today' = today + 1
  /\ stale' = [d \in Days |-> TRUE]
  /\ UNCHANGED <<dayVars, purpose, sched, op>>

-----------------------------------------------------------------------------
(* Super-admin requests (_control_job).  A request on a range row reads it *)
(* unlocked and writes it later; recover looks its key up unlocked and     *)
(* then works on the locked base row.  Requests on a heavy row are taken   *)
(* as atomic here: JobControl has their races.                             *)

ReadRange(o, d, g) ==
  /\ op[o] = NoOne
  /\ \E act \in Requests \cap {"cancel", "retry"} :
       /\ act = "cancel" => range[<<d, g>>] \in {"pending", "retry_wait"}
       /\ act = "retry" => range[<<d, g>>] = "failed"
       /\ op' = [op EXCEPT ![o] = [act |-> act, plan |-> <<d, g>>]]
  /\ UNCHANGED <<dayVars, today, purpose, stale, sched>>

WriteRange(o) ==
  /\ op[o] \in RangeRequest
  /\ range' = [range EXCEPT ![op[o].plan] =
                 IF op[o].act = "cancel" THEN "cancelled" ELSE "retry_wait"]
  /\ op' = [op EXCEPT ![o] = NoOne]
  /\ UNCHANGED <<row, ordinal, ledger, today, purpose, stale, sched>>

ControlRow(j) ==
  /\ \/ /\ "cancel" \in Requests
        /\ row[j].status \in {"pending", "retry_wait"}
        /\ row' = [row EXCEPT ![j].status = "cancelled"]
     \/ /\ "retry" \in Requests
        /\ row[j].status = "failed"
        /\ row[j].used < MaxAttempts
        /\ row' = [row EXCEPT ![j].status = "retry_wait"]
  /\ UNCHANGED <<range, ordinal, ledger, today, purpose, stale, sched, op>>

\* recovery_generation_by_request_key: the key names no generation of any day.
ReadRecoveryKey(o, d, key) ==
  /\ "recover" \in Requests
  /\ op[o] = NoOne
  /\ range[<<d, Base>>] # "absent"
  /\ \A e \in Days : range[<<e, key>>] = "absent"
  /\ op' = [op EXCEPT ![o] = [act |-> "recover", day |-> d, key |-> key]]
  /\ UNCHANGED <<dayVars, today, purpose, stale, sched>>

recover_day_plan(o) ==
  /\ op[o] \in RecoverRequest
  /\ \/ plan_day_recovery(op[o].day, op[o].key)
     \/ ~RecoveryAllowed(op[o].day, op[o].key) /\ UNCHANGED dayVars
  /\ op' = [op EXCEPT ![o] = NoOne]
  /\ UNCHANGED <<today, purpose, stale, sched>>

-----------------------------------------------------------------------------

Tick ==
  \/ DailyTick
  \/ \E d \in Days : HistoryTick(d) \/ HistoryStampReads(d)

Next ==
  \/ Tick
  \/ stamp_plan_metadata
  \/ ClaimChosen
  \/ PersistOutcome
  \/ Crash
  \/ \E j \in Jobs : AbandonedLeaseExpires(j) \/ ControlRow(j)
  \/ DimensionJobStarts
  \/ NewDay
  \/ \E o \in Operators :
       \/ \E d \in Days, g \in Gens : ReadRange(o, d, g)
       \/ WriteRange(o)
       \/ \E d \in Days, key \in Keys : ReadRecoveryKey(o, d, key)
       \/ recover_day_plan(o)

Spec == Init /\ [][Next]_vars

-----------------------------------------------------------------------------
(* Properties.                                                             *)

Started(j) == row'[j].used > row[j].used

\* Once a day has a newer generation, no row of an older one starts an attempt,
\* however long ago the scheduler chose it (winning_generation, _day_state).
SupersededNotClaimed ==
  [][\A j \in Jobs : Started(j) => j[2] = winning_generation(range, j[1])]_vars

\* The ledger of a day and its generations are the same set, numbered without gap
\* or repetition and within the budget, whoever writes the metadata meanwhile.
LedgerSound ==
  \A d \in Days :
    /\ Len(ledger[d]) <= MaxGenerations
    /\ \A i \in DOMAIN ledger[d] : /\ ledger[d][i].ordinal = i
                                   /\ ordinal[<<d, ledger[d][i].key>>] = i
    /\ \A key \in Keys : range[<<d, key>>] # "absent" => Recorded(d, key)

\* The heavy slot is never left with a generation that no longer owns its day: the
\* scheduler does not offer its rows, so nobody would take the lease over.
SlotNotStranded ==
  \A j \in Jobs : row[j].status = "running" => j[2] = winning_generation(range, j[1])

\* A day one of whose generations was published is not planned again.
PublishedDayNotReplanned ==
  [][\A d \in Days : (\E g \in Gens : row[<<d, g, "finalize">>].status = "success") =>
       \A g \in Gens : range[<<d, g>>] = "absent" => range'[<<d, g>>] = "absent"]_vars

-----------------------------------------------------------------------------
(* Liveness: the worker keeps polling, running and persisting, and does    *)
(* not die in the same place of every tick for ever; leases of the dead    *)
(* run out, and dimension jobs keep reconciling.                           *)

Fairness ==
  /\ WF_vars(Tick)
  /\ SF_vars(stamp_plan_metadata)
  /\ SF_vars(ClaimChosen)
  /\ WF_vars(PersistOutcome)
  /\ WF_vars(DimensionJobStarts)
  /\ \A j \in Jobs : WF_vars(AbandonedLeaseExpires(j))
  /\ \A o \in Operators : WF_vars(WriteRange(o)) /\ WF_vars(recover_day_plan(o))

FairSpec == Spec /\ Fairness

\* Once the last daily target is published, every older day is served: it ends
\* published or failed, and does not wait for ever behind another one
\* (_find_history_gap).
HistoryDrains ==
  (today = MaxDay /\ DayState(today) = "success") ~>
    \A d \in 1..(MaxDay - 1) : DayState(d) \in {"success", "failed"}

\* A recovery generation that owns its day is run like the original plan: its first
\* row starts, or the day is decided otherwise (_recover_day_plan).
RecoveryServed ==
  \A d \in Days : \A key \in Keys :
    (range[<<d, key>>] = "pending" /\ row[<<d, key, "parent_sync">>].status = "pending") ~>
      (row[<<d, key, "parent_sync">>].status # "pending" \/ DayState(d) # "incomplete")
=============================================================================
