------------------------ MODULE PriorityLedgerProofs ------------------------
(***************************************************************************)
(* The types of the scheduler's state hold in every behaviour.  As long as *)
(* no history tick writes back an older ledger than the one it overwrites  *)
(* (_stamp_plan_metadata), the recovery ledger of every day is sound.  And *)
(* where operators cancel nothing, whatever runs in the heavy slot, or has *)
(* been chosen for it, belongs to the generation that owns its day.        *)
(***************************************************************************)
EXTENDS PriorityScheduler, TLAPS

\* A row exists only in a plan whose range row exists (plan_daily_sync inserts the
\* range first, everything else works on rows it found).
RowsPlanned ==
  \A d \in Days, g \in Gens :
    range[<<d, g>>] = "absent" => \A k \in Kinds : row[<<d, g, k>>].status = "absent"

\* A request in flight on a range row has read one that exists.
RequestsPlanned ==
  \A o \in Operators : op[o] \in RangeRequest => range[op[o].plan] # "absent"

Planned == TypeOK /\ RowsPlanned /\ RequestsPlanned

-----------------------------------------------------------------------------
(* What a step may do to the rows.                                         *)

RowTypes ==
  /\ range \in [Plans -> RangeStatuses]
  /\ row \in [Jobs -> Row]

\* rg and rw, the rows after a step that plans nothing.
SamePlans(rg, rw) ==
  /\ rg \in [Plans -> RangeStatuses]
  /\ rw \in [Jobs -> Row]
  /\ \A d \in Days, g \in Gens : rg[<<d, g>>] = "absent" <=> range[<<d, g>>] = "absent"
  /\ \A d \in Days, g \in Gens : range[<<d, g>>] = "absent" =>
       \A k \in Kinds : rw[<<d, g, k>>].status = "absent"

\* The two constructors of rows yield rows (NewRow, Closed).
LEMMA RowConstructors ==
  /\ AbsentRow \in Row
  /\ NewRow \in Row
  /\ \A r \in Row : \A s \in Terminal \cup {"retry_wait"} : Closed(r, s) \in Row
BY Zenon DEF AbsentRow, NewRow, Closed, Row, Terminal

\* Reconciliation plans nothing: a range that does not exist is neither failed nor
\* promoted, and no finalize row is enqueued under it.
LEMMA ReconciliationPlansNothing ==
  ASSUME RowTypes, RowsPlanned
  PROVE  SamePlans(ReconciledRange, ReconciledRows)
<1> DEFINE rg == reconcile_terminal_range_parents(row, range)
<1>1. /\ rg \in [Plans -> RangeStatuses]
      /\ \A d \in Days, g \in Gens : rg[<<d, g>>] = "absent" <=> range[<<d, g>>] = "absent"
  BY DEF RowTypes, reconcile_terminal_range_parents, RangeStatuses, Terminal, Plans
<1>2. ReconciledRows \in [Jobs -> Row]
  <2>1. \A d \in Days, g \in Gens : enqueue_finalize_if_ready(row, d, g) \in [Jobs -> Row]
    BY RowConstructors DEF RowTypes, enqueue_finalize_if_ready, Jobs, Kinds
  <2>2. ASSUME NEW j \in Jobs
        PROVE  enqueue_finalize_if_ready(row, j[1], j[2])[j] \in Row /\ row[j] \in Row
    <3>1. j[1] \in Days /\ j[2] \in Gens
      BY DEF Jobs
    <3> QED
      BY <2>1, <3>1 DEF RowTypes
  <2> QED
    BY <2>2 DEF ReconciledRows, reconcile_finalize_queue
<1>3. ASSUME NEW d \in Days, NEW g \in Gens, NEW k \in Kinds, range[<<d, g>>] = "absent"
      PROVE  ReconciledRows[<<d, g, k>>].status = "absent"
  <2>1. <<d, g, k>> \in Jobs /\ <<d, g>> \in Plans
    BY DEF Jobs, Plans
  <2>2. rg[<<d, g>>] = "absent"
    BY <1>1, <1>3
  <2>3. ReconciledRows[<<d, g, k>>] = row[<<d, g, k>>]
    BY <2>1, <2>2 DEF ReconciledRows, reconcile_finalize_queue
  <2> QED
    BY <1>3, <2>3 DEF RowsPlanned
<1>4. ReconciledRange \in [Plans -> RangeStatuses]
  BY <1>1 DEF ReconciledRange, promote_range_parent_if_ready, RangeStatuses, Terminal
<1>5. ASSUME NEW d \in Days, NEW g \in Gens
      PROVE  ReconciledRange[<<d, g>>] = "absent" <=> range[<<d, g>>] = "absent"
  <2>1. <<d, g>> \in Plans
    BY DEF Plans
  <2>2. CASE range[<<d, g>>] = "absent"
    <3>1. ReconciledRows[<<d, g, "finalize">>].status = "absent"
      BY <1>3, <2>2 DEF Kinds
    <3>2. ReconciledRange[<<d, g>>] = rg[<<d, g>>]
      BY <2>1, <3>1 DEF ReconciledRange, promote_range_parent_if_ready
    <3> QED
      BY <1>1, <2>2, <3>2
  <2>3. CASE range[<<d, g>>] # "absent"
    BY <1>1, <2>1, <2>3 DEF ReconciledRange, promote_range_parent_if_ready
  <2> QED
    BY <2>2, <2>3
<1> QED
  BY <1>2, <1>3, <1>4, <1>5 DEF SamePlans

\* Rewriting a row that exists plans nothing.
LEMMA RewritingPlansNothing ==
  ASSUME NEW rg, NEW rw, SamePlans(rg, rw),
         NEW j \in Jobs, rw[j].status # "absent", NEW r \in Row
  PROVE  SamePlans(rg, [rw EXCEPT ![j] = r])
<1>1. [rw EXCEPT ![j] = r] \in [Jobs -> Row]
  BY DEF SamePlans
<1>2. ASSUME NEW d \in Days, NEW g \in Gens, NEW k \in Kinds, range[<<d, g>>] = "absent"
      PROVE  [rw EXCEPT ![j] = r][<<d, g, k>>].status = "absent"
  <2>1. <<d, g, k>> \in Jobs /\ rw[<<d, g, k>>].status = "absent"
    BY <1>2 DEF SamePlans, Jobs
  <2>2. <<d, g, k>> # j
    BY <2>1
  <2> QED
    BY <2>1, <2>2 DEF SamePlans
<1> QED
  BY <1>1, <1>2 DEF SamePlans

\* Enqueueing finalize plans nothing: its plan has been collected.
LEMMA EnqueueingPlansNothing ==
  ASSUME NEW rg, NEW rw, SamePlans(rg, rw), NEW d \in Days, NEW g \in Gens
  PROVE  SamePlans(rg, enqueue_finalize_if_ready(rw, d, g))
<1> DEFINE j == <<d, g, "finalize">>
           new == enqueue_finalize_if_ready(rw, d, g)
<1>1. j \in Jobs /\ <<d, g, "date_sync">> \in Jobs
  BY DEF Jobs, Kinds
<1>2. new \in [Jobs -> Row]
  BY <1>1, RowConstructors DEF SamePlans, enqueue_finalize_if_ready
<1>3. ASSUME NEW e \in Days, NEW h \in Gens, NEW k \in Kinds, range[<<e, h>>] = "absent"
      PROVE  new[<<e, h, k>>].status = "absent"
  <2>1. /\ <<e, h, k>> \in Jobs
        /\ rw[<<e, h, k>>].status = "absent"
        /\ rw[<<e, h, "date_sync">>].status = "absent"
    BY <1>3 DEF SamePlans, Jobs, Kinds
  <2>2. CASE <<e, h, k>> = j
    <3>1. ~Collected(rw, d, g)
      BY <2>1, <2>2 DEF Collected
    <3> QED
      BY <1>1, <2>1, <2>2, <3>1 DEF SamePlans, enqueue_finalize_if_ready
  <2>3. CASE <<e, h, k>> # j
    BY <1>1, <2>1, <2>3 DEF SamePlans, enqueue_finalize_if_ready
  <2> QED
    BY <2>2, <2>3
<1> QED
  BY <1>2, <1>3 DEF SamePlans

\* A step that leaves the rows alone plans nothing.
LEMMA NothingPlansNothing ==
  ASSUME RowTypes, RowsPlanned PROVE SamePlans(range, row)
BY DEF RowTypes, RowsPlanned, SamePlans

-----------------------------------------------------------------------------
(* The steps of DayPlans other than planning.                              *)

\* A claim by id (_start_attempt, reconciliation included) plans nothing: what it
\* starts or fails is a row it found.
LEMMA ClaimPlansNothing ==
  ASSUME RowTypes, RowsPlanned, NEW j \in Jobs,
         GrantClaim(j) \/ FailClaim(j) \/ RefuseClaim(j)
  PROVE  SamePlans(range', row') /\ UNCHANGED <<ordinal, ledger>>
<1>1. SamePlans(ReconciledRange, ReconciledRows)
  BY ReconciliationPlansNothing
<1>2. ReconciledRows[j] \in Row
  BY <1>1 DEF SamePlans
<1>3. CASE GrantClaim(j)
  <2>1. ReconciledRows[j].status # "absent"
    BY <1>3 DEF GrantClaim, ClaimCandidate, ExpiredRunning
  <2>2. [status |-> "running", used |-> ReconciledRows[j].used + 1, lease |-> "live"] \in Row
    BY <1>2 DEF Row
  <2>3. row' = [ReconciledRows EXCEPT ![j] =
                 [status |-> "running", used |-> ReconciledRows[j].used + 1,
                  lease |-> "live"]]
    BY <1>1, <1>3 DEF GrantClaim, SamePlans
  <2>4. SamePlans(ReconciledRange, row')
    BY <1>1, <2>1, <2>2, <2>3, RewritingPlansNothing
  <2>5. range' = ReconciledRange /\ UNCHANGED <<ordinal, ledger>>
    BY <1>3 DEF GrantClaim
  <2> QED
    BY <2>4, <2>5
<1>4. CASE FailClaim(j)
  <2>1. ReconciledRows[j].status # "absent"
    BY <1>4 DEF FailClaim, ClaimCandidate, ExpiredRunning
  <2>2. Closed(ReconciledRows[j], "failed") \in Row
    BY <1>2, RowConstructors DEF Terminal
  <2>3. row' = [ReconciledRows EXCEPT ![j] = Closed(ReconciledRows[j], "failed")]
    BY <1>1, <1>4 DEF FailClaim, SamePlans
  <2>4. SamePlans(ReconciledRange, row')
    BY <1>1, <2>1, <2>2, <2>3, RewritingPlansNothing
  <2>5. range' = ReconciledRange /\ UNCHANGED <<ordinal, ledger>>
    BY <1>4 DEF FailClaim
  <2> QED
    BY <2>4, <2>5
<1>5. CASE RefuseClaim(j)
  BY <1>1, <1>5 DEF RefuseClaim
<1> QED
  BY <1>3, <1>4, <1>5

\* Closing an attempt (complete_job, fail_claim) plans nothing: the finalize row and
\* the promotion belong to the plan of the closed row.
LEMMA OutcomePlansNothing ==
  ASSUME RowTypes, RowsPlanned, NEW j \in Jobs, CompleteJob(j) \/ FailJob(j)
  PROVE  SamePlans(range', row') /\ UNCHANGED <<ordinal, ledger>>
<1>1. SamePlans(range, row)
  BY NothingPlansNothing
<1>2. row[j] \in Row
  BY DEF RowTypes
<1>3. CASE CompleteJob(j)
  <2> DEFINE rw == [row EXCEPT ![j] = Closed(row[j], "success")]
  <2>1. SamePlans(range, rw)
    <3>1. row[j].status # "absent" /\ Closed(row[j], "success") \in Row
      BY <1>2, <1>3, RowConstructors DEF CompleteJob, Terminal
    <3> QED
      BY <1>1, <3>1, RewritingPlansNothing
  <2>2. rw = [row EXCEPT ![j] = Closed(@, "success")]
    BY DEF RowTypes
  <2>3. j[1] \in Days /\ j[2] \in Gens /\ <<j[1], j[2]>> \in Plans
    BY DEF Jobs, Plans
  <2>4. SamePlans(range, row')
    <3>1. row' = enqueue_finalize_if_ready(rw, j[1], j[2]) \/ row' = rw
      BY <1>3, <2>2 DEF CompleteJob
    <3>2. SamePlans(range, enqueue_finalize_if_ready(rw, j[1], j[2]))
      BY <2>1, <2>3, EnqueueingPlansNothing
    <3> QED
      BY <2>1, <3>1, <3>2
  <2>5. range' \in [Plans -> RangeStatuses]
    BY <1>3, <2>2, <2>3
    DEF CompleteJob, promote_range_parent_if_ready, RowTypes, RangeStatuses, Terminal
  <2>6. ASSUME NEW d \in Days, NEW g \in Gens
        PROVE  range'[<<d, g>>] = "absent" <=> range[<<d, g>>] = "absent"
    <3>1. <<d, g>> \in Plans
      BY DEF Plans
    <3>2. CASE <<d, g>> # <<j[1], j[2]>>
      BY <1>3, <3>1, <3>2 DEF CompleteJob, RowTypes
    <3>3. CASE <<d, g>> = <<j[1], j[2]>>
      <4>1. range[<<d, g>>] # "absent"
        <5>1. j = <<d, g, j[3]>> /\ j[3] \in Kinds /\ row[j].status # "absent"
          BY <1>3, <3>3 DEF CompleteJob, Jobs
        <5> QED
          BY <5>1 DEF RowsPlanned
      <4>2. range'[<<d, g>>] \in {range[<<d, g>>], "success"}
        BY <1>3, <2>2, <2>3, <3>1, <3>3
        DEF CompleteJob, promote_range_parent_if_ready, RowTypes
      <4> QED
        BY <4>1, <4>2
    <3> QED
      BY <3>2, <3>3
  <2> QED
    BY <1>3, <2>4, <2>5, <2>6 DEF SamePlans, CompleteJob
<1>4. CASE FailJob(j)
  <2>1. PICK s \in {"retry_wait", "failed"} : row' = [row EXCEPT ![j] = Closed(@, s)]
    BY <1>4 DEF FailJob
  <2>2. row[j].status # "absent" /\ Closed(row[j], s) \in Row
    BY <1>2, <1>4, RowConstructors DEF FailJob, Terminal
  <2>3. row' = [row EXCEPT ![j] = Closed(row[j], s)]
    BY <2>1 DEF RowTypes
  <2> QED
    BY <1>1, <1>4, <2>2, <2>3, RewritingPlansNothing DEF FailJob
<1> QED
  BY <1>3, <1>4

\* Planning makes one plan exist, with rows of its own only.
LEMMA PlanningAddsOnePlan ==
  ASSUME RowTypes, RowsPlanned, NEW d \in Days, NEW g \in Gens
  PROVE  /\ PlannedRange(d, g) \in [Plans -> RangeStatuses]
         /\ PlannedRows(d, g) \in [Jobs -> Row]
         /\ \A e \in Days, h \in Gens :
              PlannedRange(d, g)[<<e, h>>] = "absent" <=>
                range[<<e, h>>] = "absent" /\ <<e, h>> # <<d, g>>
         /\ \A e \in Days, h \in Gens : PlannedRange(d, g)[<<e, h>>] = "absent" =>
              \A k \in Kinds : PlannedRows(d, g)[<<e, h, k>>].status = "absent"
<1>1. PlannedRange(d, g) \in [Plans -> RangeStatuses]
  BY DEF RowTypes, PlannedRange, RangeStatuses, Plans
<1>2. PlannedRows(d, g) \in [Jobs -> Row]
  BY RowConstructors DEF RowTypes, PlannedRows
<1>3. ASSUME NEW e \in Days, NEW h \in Gens
      PROVE  PlannedRange(d, g)[<<e, h>>] = "absent" <=>
               range[<<e, h>>] = "absent" /\ <<e, h>> # <<d, g>>
  <2>1. <<e, h>> \in Plans /\ <<d, g>> \in Plans
    BY DEF Plans
  <2> QED
    BY <2>1 DEF RowTypes, PlannedRange
<1>4. ASSUME NEW e \in Days, NEW h \in Gens, NEW k \in Kinds,
             PlannedRange(d, g)[<<e, h>>] = "absent"
      PROVE  PlannedRows(d, g)[<<e, h, k>>].status = "absent"
  <2>1. <<e, h, k>> \in Jobs /\ <<e, h>> # <<d, g>> /\ row[<<e, h, k>>].status = "absent"
    BY <1>3, <1>4 DEF Jobs, RowsPlanned
  <2>2. ~(<<e, h, k>>[1] = d /\ <<e, h, k>>[2] = g)
    BY <2>1
  <2>3. PlannedRows(d, g)[<<e, h, k>>] = row[<<e, h, k>>]
    BY <2>1, <2>2 DEF PlannedRows
  <2> QED
    BY <2>1, <2>3
<1> QED
  BY <1>1, <1>2, <1>3, <1>4

\* The selector names an offered row or nothing.
LEMMA SelectionOffered ==
  ASSUME NEW rg, NEW rw, NEW d \in Days, select_candidate(rg, rw, d) # NoOne
  PROVE  select_candidate(rg, rw, d) \in Offered(rg, rw, d)
<1> DEFINE offered == Offered(rg, rw, d)
           first(j) == \A k \in offered : KindRank[j[3]] <= KindRank[k[3]]
<1>1. \A j \in offered : j \in Jobs /\ j[3] \in Kinds
  BY DEF Offered, Jobs
<1>2. offered # {}
  BY DEF select_candidate
<1>3. \E j \in offered : first(j)
  <2>1. CASE \E j \in offered : j[3] = "parent_sync"
    BY <1>1, <2>1 DEF KindRank, Kinds
  <2>2. CASE /\ ~\E j \in offered : j[3] = "parent_sync"
             /\ \E j \in offered : j[3] = "date_sync"
    BY <1>1, <2>2 DEF KindRank, Kinds
  <2>3. CASE \A j \in offered : j[3] = "finalize"
    BY <1>1, <1>2, <2>3 DEF KindRank, Kinds
  <2> QED
    BY <1>1, <2>1, <2>2, <2>3 DEF Kinds
<1>4. select_candidate(rg, rw, d) = CHOOSE j \in offered : first(j)
  BY <1>2 DEF select_candidate
<1> QED
  BY <1>3, <1>4

\* In particular it names a row or nothing.
LEMMA SelectionTyped ==
  ASSUME NEW rg, NEW rw, NEW d \in Days
  PROVE  select_candidate(rg, rw, d) \in Jobs \cup {NoOne}
BY SelectionOffered DEF Offered

-----------------------------------------------------------------------------
(* The parts of TypeOK, and the forms in which steps keep them.            *)

SchedTyped(s) ==
  /\ s \in [pc : {"idle", "planning", "picked", "running"},
            job : Jobs \cup {NoOne}, day : Days \cup {NoOne}, seen : Seq(Entry)]
  /\ s.pc \in {"picked", "running"} => s.job # NoOne
  /\ s.job # NoOne => s.pc # "idle"
  /\ s.pc = "planning" <=> s.day # NoOne

OpTyped(r) == r \in [Operators -> RangeRequest \cup RecoverRequest \cup {NoOne}]

MetaTyped ==
  /\ ordinal \in [Plans -> Nat]
  /\ ledger \in [Days -> Seq(Entry)]
  /\ today \in Days
  /\ purpose \in [Days -> {"none", "daily_required", "history"}]
  /\ stale \in [Days -> BOOLEAN]

\* TypeOK in the parts the steps disturb separately: rows, metadata, worker, requests.
LEMMA TypeParts == TypeOK <=> RowTypes /\ MetaTyped /\ SchedTyped(sched) /\ OpTyped(op)
BY DEF TypeOK, RowTypes, MetaTyped, SchedTyped, OpTyped

\* The places of a tick the model builds are well typed.
LEMMA SchedConstructors ==
  /\ SchedTyped(Idle)
  /\ \A j \in Jobs : SchedTyped(Chosen("picked", j)) /\ SchedTyped(Chosen("running", j))
<1>1. <<>> \in Seq(Entry)
  OBVIOUS
<1>2. NoOne \notin Jobs
  BY SchedulerAssumption
<1> QED
  BY Zenon, <1>1, <1>2 DEF SchedTyped, Idle, Chosen

\* A step that plans nothing and begins no request keeps the planning invariant.
LEMMA SamePlansKept ==
  ASSUME Planned, SamePlans(range', row'), op' = op
  PROVE  RowTypes' /\ RowsPlanned' /\ RequestsPlanned'
<1>1. RowTypes' /\ RowsPlanned'
  BY DEF SamePlans, RowTypes, RowsPlanned
<1>2. ASSUME NEW o \in Operators, op'[o] \in RangeRequest
      PROVE  range'[op'[o].plan] # "absent"
  <2>1. range[op[o].plan] # "absent" /\ op[o].plan \in Plans
    BY <1>2 DEF Planned, RequestsPlanned, RangeRequest
  <2>2. PICK d \in Days, g \in Gens : op[o].plan = <<d, g>>
    BY <2>1 DEF Plans
  <2> QED
    BY <2>1, <2>2 DEF SamePlans
<1> QED
  BY <1>1, <1>2 DEF RequestsPlanned

\* A step that adds no recovery generation and leaves the metadata alone keeps the
\* ledger sound.
LEMMA LedgerKept ==
  ASSUME LedgerSound, UNCHANGED <<ordinal, ledger>>,
         \A d \in Days, key \in Keys :
           range'[<<d, key>>] # "absent" => range[<<d, key>>] # "absent"
  PROVE  LedgerSound'
BY SMTT(60) DEF LedgerSound, Recorded

\* In particular, a step that plans nothing.
LEMMA LedgerKeptBySamePlans ==
  ASSUME LedgerSound, UNCHANGED <<ordinal, ledger>>, SamePlans(range', row')
  PROVE  LedgerSound'
<1>1. \A key \in Keys : key \in Gens
  BY DEF Gens
<1> QED
  BY <1>1, LedgerKept DEF SamePlans

\* A step that ensures the base plan of a day, as both kinds of tick do.
LEMMA BasePlanKept ==
  ASSUME Planned, NEW d \in Days, op' = op,
         range' = PlannedRange(d, Base), row' = PlannedRows(d, Base)
  PROVE  /\ RowTypes' /\ RowsPlanned' /\ RequestsPlanned'
         /\ \A e \in Days, key \in Keys :
              range'[<<e, key>>] # "absent" => range[<<e, key>>] # "absent"
<1>1. RowTypes /\ RowsPlanned /\ Base \in Gens
  BY TypeParts DEF Planned, Gens
<1>2. RowTypes' /\ RowsPlanned'
  BY <1>1, PlanningAddsOnePlan DEF RowTypes, RowsPlanned
<1>3. ASSUME NEW e \in Days, NEW h \in Gens, range[<<e, h>>] # "absent"
      PROVE  range'[<<e, h>>] # "absent"
  BY <1>1, <1>3, PlanningAddsOnePlan
<1>4. ASSUME NEW o \in Operators, op'[o] \in RangeRequest
      PROVE  range'[op'[o].plan] # "absent"
  <2>1. range[op[o].plan] # "absent" /\ op[o].plan \in Plans
    BY <1>4 DEF Planned, RequestsPlanned, RangeRequest
  <2>2. PICK e \in Days, h \in Gens : op[o].plan = <<e, h>>
    BY <2>1 DEF Plans
  <2> QED
    BY <1>3, <2>1, <2>2
<1>5. ASSUME NEW e \in Days, NEW key \in Keys, range'[<<e, key>>] # "absent"
      PROVE  range[<<e, key>>] # "absent"
  <2>1. key \in Gens /\ key # Base
    BY DayAssumption DEF Gens
  <2>2. <<e, key>> # <<d, Base>>
    BY <2>1
  <2> QED
    BY <1>1, <1>5, <2>1, <2>2, PlanningAddsOnePlan
<1> QED
  BY <1>2, <1>4, <1>5 DEF RequestsPlanned

-----------------------------------------------------------------------------
(* The planning invariant: types, rows only in plans, requests on plans.   *)

\* The worker starts on an empty database: no plan, no row, no request.
LEMMA PlannedInit == Init => Planned
<1> SUFFICES ASSUME Init PROVE Planned
  OBVIOUS
<1>1. RowTypes
  BY RowConstructors DEF Init, DayInit, RowTypes, RangeStatuses
<1>2. MetaTyped
  <2>1. <<>> \in Seq(Entry)
    OBVIOUS
  <2> QED
    BY <2>1, SchedulerAssumption DEF Init, DayInit, MetaTyped
<1>3. SchedTyped(sched) /\ OpTyped(op)
  BY SchedConstructors DEF Init, OpTyped
<1>4. RowsPlanned
  BY DEF Init, DayInit, RowsPlanned, AbsentRow, Jobs
<1>5. RequestsPlanned
  BY SchedulerAssumption DEF Init, RequestsPlanned
<1> QED
  BY <1>1, <1>2, <1>3, <1>4, <1>5, TypeParts DEF Planned

\* Every step keeps the planning invariant.
LEMMA PlannedStep == Planned /\ [Next]_vars => Planned'
<1> SUFFICES ASSUME Planned, [Next]_vars PROVE Planned'
  OBVIOUS
<1>t. RowTypes /\ MetaTyped /\ SchedTyped(sched) /\ OpTyped(op) /\ RowsPlanned
  BY TypeParts DEF Planned
<1>s. SamePlans(range, row)
  BY <1>t, NothingPlansNothing
<1>p. ASSUME RowTypes', MetaTyped', SchedTyped(sched'), OpTyped(op'), RowsPlanned', RequestsPlanned'
      PROVE  Planned'
  <2>1. TypeOK'
    BY <1>p DEF TypeOK, RowTypes, MetaTyped, SchedTyped, OpTyped
  <2> QED
    BY <1>p, <2>1 DEF Planned
<1>1. CASE DailyTick
  <2>1. today \in Days
    BY <1>t DEF MetaTyped
  <2>2. op' = op /\ range' = PlannedRange(today, Base) /\ row' = PlannedRows(today, Base)
    BY <1>1 DEF DailyTick
  <2>3. RowTypes' /\ RowsPlanned' /\ RequestsPlanned'
    BY <2>1, <2>2, BasePlanKept
  <2>4. MetaTyped'
    BY <1>1, <1>t DEF DailyTick, MetaTyped
  <2>5. SchedTyped(sched')
    <3>1. PICK j \in Jobs \cup {NoOne} : sched' = IF j = NoOne THEN Idle ELSE Chosen("picked", j)
      BY <1>1, <2>1, SelectionTyped DEF DailyTick
    <3> QED
      BY <3>1, SchedConstructors
  <2> QED
    BY <1>p, <1>t, <2>2, <2>3, <2>4, <2>5
<1>2. ASSUME NEW d \in Days, HistoryTick(d) PROVE Planned'
  <2>2. op' = op /\ range' = PlannedRange(d, Base) /\ row' = PlannedRows(d, Base)
    BY <1>2 DEF HistoryTick
  <2>3. RowTypes' /\ RowsPlanned' /\ RequestsPlanned'
    BY <2>2, BasePlanKept
  <2>4. MetaTyped'
    BY <1>2, <1>t DEF HistoryTick, MetaTyped
  <2>5. SchedTyped(sched')
    <3>1. PICK j \in Jobs \cup {NoOne} : sched' = IF j = NoOne THEN Idle ELSE Chosen("picked", j)
      BY <1>2, SelectionTyped DEF HistoryTick
    <3> QED
      BY <3>1, SchedConstructors
  <2> QED
    BY <1>p, <1>t, <2>2, <2>3, <2>4, <2>5
<1>3. ASSUME NEW d \in Days, HistoryStampReads(d) PROVE Planned'
  <2>1. UNCHANGED <<range, row, ordinal, ledger, today, purpose, stale, op>>
    BY <1>3 DEF HistoryStampReads, dayVars
  <2>2. SchedTyped(sched')
    <3>1. PICK j \in Jobs \cup {NoOne} :
            sched' = [pc |-> "planning", job |-> j, day |-> d, seen |-> ledger[d]]
      BY <1>3, SelectionTyped DEF HistoryStampReads
    <3>2. d # NoOne /\ ledger[d] \in Seq(Entry)
      BY <1>t, SchedulerAssumption DEF MetaTyped
    <3> QED
      BY <3>1, <3>2 DEF SchedTyped
  <2>3. RowTypes' /\ RowsPlanned' /\ RequestsPlanned'
    BY <1>s, <2>1, SamePlansKept
  <2>4. MetaTyped'
    BY <1>t, <2>1 DEF MetaTyped
  <2> QED
    BY <1>p, <1>t, <2>1, <2>2, <2>3, <2>4
<1>4. CASE stamp_plan_metadata
  <2>1. UNCHANGED <<range, row, ordinal, today, purpose, op>>
    BY <1>4 DEF stamp_plan_metadata
  <2>2. sched.day \in Days /\ sched.seen \in Seq(Entry) /\ sched.job \in Jobs \cup {NoOne}
    BY <1>4, <1>t DEF stamp_plan_metadata, SchedTyped
  <2>3. SchedTyped(sched')
    BY <1>4, <2>2, SchedConstructors DEF stamp_plan_metadata
  <2>4. MetaTyped'
    BY <1>4, <1>t, <2>1, <2>2 DEF stamp_plan_metadata, MetaTyped
  <2>5. RowTypes' /\ RowsPlanned' /\ RequestsPlanned'
    BY <1>s, <2>1, SamePlansKept
  <2> QED
    BY <1>p, <1>t, <2>1, <2>3, <2>4, <2>5
<1>5. CASE ClaimChosen
  <2>1. sched.job \in Jobs
    BY <1>5, <1>t DEF ClaimChosen, SchedTyped
  <2>2. GrantClaim(sched.job) \/ FailClaim(sched.job) \/ RefuseClaim(sched.job)
    BY <1>5 DEF ClaimChosen
  <2>3. SamePlans(range', row') /\ UNCHANGED <<ordinal, ledger>>
    BY <1>t, <2>1, <2>2, ClaimPlansNothing
  <2>4. UNCHANGED <<today, purpose, stale, op>> /\ SchedTyped(sched')
    BY <1>5, <2>1, SchedConstructors DEF ClaimChosen
  <2>5. RowTypes' /\ RowsPlanned' /\ RequestsPlanned'
    BY <2>3, <2>4, SamePlansKept
  <2>6. MetaTyped'
    BY <1>t, <2>3, <2>4 DEF MetaTyped
  <2> QED
    BY <1>p, <1>t, <2>4, <2>5, <2>6
<1>6. CASE PersistOutcome
  <2>1. sched.job \in Jobs
    BY <1>6, <1>t DEF PersistOutcome, SchedTyped
  <2>2. SamePlans(range', row') /\ UNCHANGED <<ordinal, ledger>>
    BY <1>6, <1>t, <2>1, OutcomePlansNothing DEF PersistOutcome
  <2>3. UNCHANGED <<today, purpose, stale, op>> /\ SchedTyped(sched')
    BY <1>6, SchedConstructors DEF PersistOutcome
  <2>4. RowTypes' /\ RowsPlanned' /\ RequestsPlanned'
    BY <2>2, <2>3, SamePlansKept
  <2>5. MetaTyped'
    BY <1>t, <2>2, <2>3 DEF MetaTyped
  <2> QED
    BY <1>p, <1>t, <2>3, <2>4, <2>5
<1>7. CASE Crash
  <2>1. UNCHANGED <<range, row, ordinal, ledger, today, purpose, stale, op>> /\ sched' = Idle
    BY <1>7 DEF Crash, dayVars
  <2>2. RowTypes' /\ RowsPlanned' /\ RequestsPlanned'
    BY <1>s, <2>1, SamePlansKept
  <2>3. MetaTyped'
    BY <1>t, <2>1 DEF MetaTyped
  <2> QED
    BY <1>p, <1>t, <2>1, <2>2, <2>3, SchedConstructors
<1>8. ASSUME NEW j \in Jobs, AbandonedLeaseExpires(j) \/ ControlRow(j) PROVE Planned'
  <2>1. UNCHANGED <<range, ordinal, ledger, today, purpose, stale, sched, op>>
    BY <1>8 DEF AbandonedLeaseExpires, LeaseExpires, ControlRow
  <2>2. PICK r \in Row : row' = [row EXCEPT ![j] = r]
    BY <1>8, <1>t DEF AbandonedLeaseExpires, LeaseExpires, ControlRow, RowTypes, Row, Terminal
  <2>3. row[j].status # "absent"
    BY <1>8, <1>t DEF AbandonedLeaseExpires, LeaseExpires, ControlRow, RowTypes, Row, Terminal
  <2>4. SamePlans(range', row')
    BY <1>s, <2>1, <2>2, <2>3, RewritingPlansNothing
  <2>5. RowTypes' /\ RowsPlanned' /\ RequestsPlanned'
    BY <2>1, <2>4, SamePlansKept
  <2>6. MetaTyped'
    BY <1>t, <2>1 DEF MetaTyped
  <2> QED
    BY <1>p, <1>t, <2>1, <2>5, <2>6
<1>9. CASE DimensionJobStarts
  <2>1. UNCHANGED <<ordinal, ledger, today, purpose, stale, sched, op>>
    BY <1>9 DEF DimensionJobStarts, OtherHeavyJobStarts
  <2>2. SamePlans(range', row')
    BY <1>9, <1>t, ReconciliationPlansNothing DEF DimensionJobStarts, OtherHeavyJobStarts
  <2>3. RowTypes' /\ RowsPlanned' /\ RequestsPlanned'
    BY <2>1, <2>2, SamePlansKept
  <2>4. MetaTyped'
    BY <1>t, <2>1 DEF MetaTyped
  <2> QED
    BY <1>p, <1>t, <2>1, <2>3, <2>4
<1>10. CASE NewDay
  <2>1. UNCHANGED <<range, row, ordinal, ledger, purpose, sched, op>>
    BY <1>10 DEF NewDay, dayVars
  <2>2. MetaTyped'
    BY <1>10, <1>t, <2>1, DayAssumption DEF NewDay, MetaTyped, Days
  <2>3. RowTypes' /\ RowsPlanned' /\ RequestsPlanned'
    BY <1>s, <2>1, SamePlansKept
  <2> QED
    BY <1>p, <1>t, <2>1, <2>2, <2>3
<1>11. ASSUME NEW o \in Operators, NEW d \in Days, NEW g \in Gens, ReadRange(o, d, g)
       PROVE  Planned'
  <2>1. UNCHANGED <<range, row, ordinal, ledger, today, purpose, stale, sched>>
    BY <1>11 DEF ReadRange, dayVars
  <2>2. PICK r \in RangeRequest : /\ r.plan = <<d, g>>
                                  /\ range[<<d, g>>] # "absent"
                                  /\ op' = [op EXCEPT ![o] = r]
    BY <1>11 DEF ReadRange, RangeRequest, Plans
  <2>3. OpTyped(op')
    BY <1>t, <2>2 DEF OpTyped
  <2>4. RequestsPlanned'
    BY <1>t, <2>1, <2>2 DEF Planned, RequestsPlanned, OpTyped
  <2>5. RowTypes' /\ RowsPlanned' /\ MetaTyped'
    BY <1>t, <2>1 DEF RowTypes, RowsPlanned, MetaTyped
  <2> QED
    BY <1>p, <1>t, <2>1, <2>3, <2>4, <2>5
<1>12. ASSUME NEW o \in Operators, WriteRange(o) PROVE Planned'
  <2>1. UNCHANGED <<row, ordinal, ledger, today, purpose, stale, sched>>
    BY <1>12 DEF WriteRange
  <2>2. op[o].plan \in Plans /\ range[op[o].plan] # "absent"
    BY <1>12 DEF WriteRange, RangeRequest, Planned, RequestsPlanned
  <2>3. SamePlans(range', row')
    <3>1. PICK s \in {"cancelled", "retry_wait"} : range' = [range EXCEPT ![op[o].plan] = s]
      BY <1>12 DEF WriteRange
    <3>2. range' \in [Plans -> RangeStatuses]
      BY <1>t, <3>1 DEF RowTypes, RangeStatuses, Terminal
    <3>3. ASSUME NEW d \in Days, NEW g \in Gens
          PROVE  range'[<<d, g>>] = "absent" <=> range[<<d, g>>] = "absent"
      <4>1. <<d, g>> \in Plans
        BY DEF Plans
      <4> QED
        BY <1>t, <2>2, <3>1, <4>1 DEF RowTypes
    <3> QED
      BY <1>s, <2>1, <3>2, <3>3 DEF SamePlans
  <2>4. OpTyped(op') /\ op' = [op EXCEPT ![o] = NoOne]
    BY <1>12, <1>t DEF WriteRange, OpTyped
  <2>5. RowTypes' /\ RowsPlanned'
    BY <2>3 DEF SamePlans, RowTypes, RowsPlanned
  <2>6. RequestsPlanned'
    <3>1. ASSUME NEW q \in Operators, op'[q] \in RangeRequest
          PROVE  range'[op'[q].plan] # "absent"
      <4>1. op'[q] = op[q]
        BY <1>t, <2>4, <3>1, SchedulerAssumption DEF OpTyped
      <4>2. range[op[q].plan] # "absent" /\ op[q].plan \in Plans
        BY <3>1, <4>1 DEF Planned, RequestsPlanned, RangeRequest
      <4>3. PICK d \in Days, g \in Gens : op[q].plan = <<d, g>>
        BY <4>2 DEF Plans
      <4> QED
        BY <2>3, <4>1, <4>2, <4>3 DEF SamePlans
    <3> QED
      BY <3>1 DEF RequestsPlanned
  <2>7. MetaTyped'
    BY <1>t, <2>1 DEF MetaTyped
  <2> QED
    BY <1>p, <1>t, <2>1, <2>4, <2>5, <2>6, <2>7
<1>13. ASSUME NEW o \in Operators, NEW d \in Days, NEW key \in Keys, ReadRecoveryKey(o, d, key)
       PROVE  Planned'
  <2>1. UNCHANGED <<range, row, ordinal, ledger, today, purpose, stale, sched>>
    BY <1>13 DEF ReadRecoveryKey, dayVars
  <2>2. PICK r \in RecoverRequest : r \notin RangeRequest /\ op' = [op EXCEPT ![o] = r]
    BY <1>13 DEF ReadRecoveryKey, RangeRequest, RecoverRequest
  <2>3. OpTyped(op')
    BY <1>t, <2>2 DEF OpTyped
  <2>4. RequestsPlanned'
    BY <1>t, <2>1, <2>2 DEF Planned, RequestsPlanned, OpTyped
  <2>5. RowTypes' /\ RowsPlanned' /\ MetaTyped'
    BY <1>t, <2>1 DEF RowTypes, RowsPlanned, MetaTyped
  <2> QED
    BY <1>p, <1>t, <2>1, <2>3, <2>4, <2>5
<1>14. ASSUME NEW o \in Operators, recover_day_plan(o) PROVE Planned'
  <2> DEFINE d == op[o].day
             key == op[o].key
  <2>1. UNCHANGED <<today, purpose, stale, sched>> /\ op' = [op EXCEPT ![o] = NoOne]
    BY <1>14 DEF recover_day_plan
  <2>2. OpTyped(op')
    BY <1>t, <2>1 DEF OpTyped
  <2>3. d \in Days /\ key \in Keys /\ key \in Gens /\ <<d, key>> \in Plans
    BY <1>14 DEF recover_day_plan, RecoverRequest, Gens, Plans
  <2>4. CASE UNCHANGED dayVars
    <3>1. UNCHANGED <<range, row, ordinal, ledger>>
      BY <2>4 DEF dayVars
    <3>2. RowTypes' /\ RowsPlanned' /\ MetaTyped'
      BY <1>t, <2>1, <3>1 DEF RowTypes, RowsPlanned, MetaTyped
    <3>3. RequestsPlanned'
      BY <1>t, <2>1, <3>1, SchedulerAssumption DEF Planned, RequestsPlanned, OpTyped
    <3> QED
      BY <1>p, <1>t, <2>1, <2>2, <3>2, <3>3
  <2>5. CASE plan_day_recovery(d, key)
    <3>1. range' = PlannedRange(d, key) /\ row' = PlannedRows(d, key)
      BY <2>5 DEF plan_day_recovery
    <3>2. RowTypes' /\ RowsPlanned'
      BY <1>t, <2>3, <3>1, PlanningAddsOnePlan DEF RowTypes, RowsPlanned
    <3>3. MetaTyped'
      <4>1. ledger[d] \in Seq(Entry) /\ Len(ledger[d]) \in Nat
        BY <1>t, <2>3 DEF MetaTyped
      <4>2. [ordinal |-> Len(ledger[d]) + 1, key |-> key] \in Entry
        BY <2>3, <4>1 DEF Entry
      <4>3. Append(ledger[d], [ordinal |-> Len(ledger[d]) + 1, key |-> key]) \in Seq(Entry)
        BY <4>1, <4>2
      <4>4. /\ ordinal' = [ordinal EXCEPT ![<<d, key>>] = Len(ledger[d]) + 1]
            /\ ledger' = [ledger EXCEPT ![d] =
                 Append(ledger[d], [ordinal |-> Len(ledger[d]) + 1, key |-> key])]
        BY <1>t, <2>3, <2>5 DEF plan_day_recovery, MetaTyped
      <4>5. Len(ledger[d]) + 1 \in Nat
        BY <4>1
      <4>6. ordinal' \in [Plans -> Nat]
        BY <1>t, <4>4, <4>5 DEF MetaTyped
      <4>7. ledger' \in [Days -> Seq(Entry)]
        BY <1>t, <4>3, <4>4 DEF MetaTyped
      <4> QED
        BY <1>t, <2>1, <4>6, <4>7 DEF MetaTyped
    <3>4. RequestsPlanned'
      <4>1. ASSUME NEW q \in Operators, op'[q] \in RangeRequest
            PROVE  range'[op'[q].plan] # "absent"
        <5>1. op'[q] = op[q]
          BY <1>t, <2>1, <4>1, SchedulerAssumption DEF OpTyped
        <5>2. range[op[q].plan] # "absent" /\ op[q].plan \in Plans
          BY <4>1, <5>1 DEF Planned, RequestsPlanned, RangeRequest
        <5>3. PICK e \in Days, h \in Gens : op[q].plan = <<e, h>>
          BY <5>2 DEF Plans
        <5> QED
          BY <1>t, <2>3, <3>1, <5>1, <5>2, <5>3, PlanningAddsOnePlan
      <4> QED
        BY <4>1 DEF RequestsPlanned
    <3> QED
      BY <1>p, <1>t, <2>1, <2>2, <3>2, <3>3, <3>4
  <2> QED
    BY <1>14, <2>4, <2>5 DEF recover_day_plan
<1>15. CASE UNCHANGED vars
  BY <1>15 DEF vars, dayVars, Planned, TypeOK, RowsPlanned, RequestsPlanned
<1> QED
  BY <1>1, <1>2, <1>3, <1>4, <1>5, <1>6, <1>7, <1>8, <1>9, <1>10, <1>11, <1>12, <1>13,
     <1>14, <1>15 DEF Next, Tick

\* Types hold in every behaviour, and every row belongs to a plan that exists.
THEOREM SchedulerTypeCorrect == Spec => []TypeOK
<1>1. Init => Planned
  BY PlannedInit
<1>2. Planned /\ [Next]_vars => Planned'
  BY PlannedStep
<1>3. Planned => TypeOK
  BY DEF Planned
<1> QED
  BY <1>1, <1>2, <1>3, PTL DEF Spec

-----------------------------------------------------------------------------
(* The ledger.                                                             *)

\* The steps, except a history tick whose restamp of a base plan overwrites a recovery
\* that was recorded after it had read the metadata; and the behaviours of those steps.
LosslessNext == Next /\ (stamp_plan_metadata => ledger' = ledger)
LosslessSpec == Init /\ [][LosslessNext]_vars

\* No day has a recovery generation when the worker first starts.
LEMMA LedgerInit == Init => LedgerSound
BY BudgetAssumption DEF Init, DayInit, LedgerSound, Plans, Days, Gens

\* plan_day_recovery appends one entry for one new generation.
LEMMA LedgerGrows ==
  ASSUME Planned, LedgerSound, NEW d \in Days, NEW key \in Keys, plan_day_recovery(d, key)
  PROVE  LedgerSound'
<1> DEFINE n == Len(ledger[d])
           entry == [ordinal |-> n + 1, key |-> key]
<1>1. RowTypes /\ MetaTyped /\ RowsPlanned
  BY TypeParts DEF Planned
<1>2. key \in Gens /\ <<d, key>> \in Plans
  BY DEF Gens, Plans
<1>3. ledger[d] \in Seq(Entry) /\ n \in Nat /\ entry \in Entry
  <2>1. ledger[d] \in Seq(Entry)
    BY <1>1 DEF MetaTyped
  <2>2. n \in Nat
    BY <2>1
  <2> QED
    BY <2>1, <2>2 DEF Entry
<1>k. ASSUME NEW e \in Days, NEW i \in DOMAIN ledger[e] PROVE ledger[e][i].key \in Keys
  <2>1. ledger[e] \in Seq(Entry)
    BY <1>1 DEF MetaTyped
  <2>2. ledger[e][i] \in Entry
    BY <2>1
  <2> QED
    BY <2>2 DEF Entry
<1>4. /\ ordinal' = [ordinal EXCEPT ![<<d, key>>] = n + 1]
      /\ ledger' = [ledger EXCEPT ![d] = Append(ledger[d], entry)]
      /\ range' = PlannedRange(d, key)
  BY <1>1, <1>2 DEF plan_day_recovery, MetaTyped
<1>5. n < MaxGenerations /\ ~Recorded(d, key)
  BY DEF plan_day_recovery, RecoveryAllowed
<1>6. /\ DOMAIN ledger[d] = 1..n
      /\ ledger'[d] = Append(ledger[d], entry)
      /\ DOMAIN ledger'[d] = 1..(n + 1)
      /\ Len(ledger'[d]) = n + 1
      /\ ledger'[d][n + 1] = entry
      /\ \A i \in 1..n : ledger'[d][i] = ledger[d][i]
  <2>1. ledger'[d] = Append(ledger[d], entry)
    BY <1>1, <1>4 DEF MetaTyped
  <2> QED
    BY <1>3, <2>1
<1>7. ASSUME NEW e \in Days, e # d PROVE ledger'[e] = ledger[e]
  BY <1>1, <1>4, <1>7 DEF MetaTyped
<1>8. ASSUME NEW e \in Days, NEW k \in Keys, <<e, k>> # <<d, key>>
      PROVE  /\ ordinal'[<<e, k>>] = ordinal[<<e, k>>]
             /\ range'[<<e, k>>] # "absent" => range[<<e, k>>] # "absent"
  <2>1. k \in Gens /\ <<e, k>> \in Plans
    BY DEF Gens, Plans
  <2> QED
    BY <1>1, <1>2, <1>4, <1>8, <2>1, PlanningAddsOnePlan DEF MetaTyped
<1>9. ASSUME NEW e \in Days
      PROVE  /\ Len(ledger'[e]) <= MaxGenerations
             /\ \A i \in DOMAIN ledger'[e] : /\ ledger'[e][i].ordinal = i
                                             /\ ordinal'[<<e, ledger'[e][i].key>>] = i
             /\ \A k \in Keys : range'[<<e, k>>] # "absent" =>
                  \E i \in DOMAIN ledger'[e] : ledger'[e][i].key = k
  <2>1. CASE e # d
    <3>1. \A k \in Keys : <<e, k>> # <<d, key>>
      BY <2>1
    <3> QED
      BY <1>7, <1>8, <1>k, <2>1, <3>1 DEF LedgerSound, Recorded
  <2>2. CASE e = d
    <3>1. ASSUME NEW i \in 1..n
          PROVE  /\ ledger'[d][i].ordinal = i
                 /\ ordinal'[<<d, ledger'[d][i].key>>] = i
      <4>1. ledger[d][i].key \in Keys /\ ledger[d][i].key # key
        BY <1>5, <1>6, <1>k DEF Recorded
      <4>2. <<d, ledger[d][i].key>> # <<d, key>>
        BY <4>1
      <4>3. ledger[d][i].ordinal = i /\ ordinal[<<d, ledger[d][i].key>>] = i
        BY <1>6 DEF LedgerSound
      <4> QED
        BY <1>6, <1>8, <4>1, <4>2, <4>3
    <3>2. /\ ledger'[d][n + 1].ordinal = n + 1
          /\ ordinal'[<<d, ledger'[d][n + 1].key>>] = n + 1
      <4>1. ledger'[d][n + 1].ordinal = n + 1 /\ ledger'[d][n + 1].key = key
        BY <1>6
      <4>2. ordinal'[<<d, key>>] = n + 1
        BY <1>1, <1>2, <1>4 DEF MetaTyped
      <4> QED
        BY <4>1, <4>2
    <3>3. \A i \in 1..(n + 1) : i \in 1..n \/ i = n + 1
      BY <1>3
    <3>4. Len(ledger'[d]) <= MaxGenerations
      BY <1>3, <1>5, <1>6, BudgetAssumption
    <3>5. ASSUME NEW k \in Keys, range'[<<d, k>>] # "absent"
          PROVE  \E i \in 1..(n + 1) : ledger'[d][i].key = k
      <4>1. CASE k = key
        BY <1>3, <1>6, <4>1
      <4>2. CASE k # key
        <5>1. range[<<d, k>>] # "absent"
          BY <1>8, <3>5, <4>2
        <5>2. PICK i \in 1..n : ledger[d][i].key = k
          BY <1>6, <5>1 DEF LedgerSound, Recorded
        <5> QED
          BY <1>3, <1>6, <5>2
      <4> QED
        BY <4>1, <4>2
    <3> QED
      BY <1>6, <2>2, <3>1, <3>2, <3>3, <3>4, <3>5
  <2> QED
    BY <2>1, <2>2
<1> QED
  BY <1>9 DEF LedgerSound, Recorded

\* Every step but a restamp that loses an entry keeps the ledger sound.
LEMMA LedgerStep == Planned /\ LedgerSound /\ [LosslessNext]_vars => LedgerSound'
<1> SUFFICES ASSUME Planned, LedgerSound, [LosslessNext]_vars PROVE LedgerSound'
  OBVIOUS
<1>t. RowTypes /\ MetaTyped /\ SchedTyped(sched) /\ RowsPlanned
  BY TypeParts DEF Planned
<1>s. SamePlans(range, row)
  BY <1>t, NothingPlansNothing
<1>1. CASE DailyTick
  <2>1. today \in Days
    BY <1>t DEF MetaTyped
  <2>2. /\ op' = op /\ range' = PlannedRange(today, Base) /\ row' = PlannedRows(today, Base)
        /\ UNCHANGED <<ordinal, ledger>>
    BY <1>1 DEF DailyTick
  <2> QED
    BY <2>1, <2>2, BasePlanKept, LedgerKept
<1>2. ASSUME NEW d \in Days, HistoryTick(d) PROVE LedgerSound'
  <2>1. /\ op' = op /\ range' = PlannedRange(d, Base) /\ row' = PlannedRows(d, Base)
        /\ UNCHANGED <<ordinal, ledger>>
    BY <1>2 DEF HistoryTick
  <2> QED
    BY <2>1, BasePlanKept, LedgerKept
<1>3. ASSUME UNCHANGED <<range, row, ordinal, ledger>> PROVE LedgerSound'
  BY <1>s, <1>3, LedgerKeptBySamePlans
<1>4. ASSUME NEW d \in Days, HistoryStampReads(d) PROVE LedgerSound'
  BY <1>3, <1>4 DEF HistoryStampReads, dayVars
<1>5. CASE ClaimChosen
  <2>1. sched.job \in Jobs
    BY <1>5, <1>t DEF ClaimChosen, SchedTyped
  <2>2. SamePlans(range', row') /\ UNCHANGED <<ordinal, ledger>>
    BY <1>5, <1>t, <2>1, ClaimPlansNothing DEF ClaimChosen
  <2> QED
    BY <2>2, LedgerKeptBySamePlans
<1>6. CASE PersistOutcome
  <2>1. sched.job \in Jobs
    BY <1>6, <1>t DEF PersistOutcome, SchedTyped
  <2>2. SamePlans(range', row') /\ UNCHANGED <<ordinal, ledger>>
    BY <1>6, <1>t, <2>1, OutcomePlansNothing DEF PersistOutcome
  <2> QED
    BY <2>2, LedgerKeptBySamePlans
<1>7. CASE Crash \/ NewDay
  BY <1>3, <1>7 DEF Crash, NewDay, dayVars
<1>8. ASSUME NEW j \in Jobs, AbandonedLeaseExpires(j) \/ ControlRow(j) PROVE LedgerSound'
  <2>1. UNCHANGED <<range, ordinal, ledger>>
    BY <1>8 DEF AbandonedLeaseExpires, LeaseExpires, ControlRow
  <2> QED
    BY <2>1, LedgerKept
<1>9. CASE DimensionJobStarts
  <2>1. SamePlans(range', row') /\ UNCHANGED <<ordinal, ledger>>
    BY <1>9, <1>t, ReconciliationPlansNothing DEF DimensionJobStarts, OtherHeavyJobStarts
  <2> QED
    BY <2>1, LedgerKeptBySamePlans
<1>10. ASSUME NEW o \in Operators, NEW d \in Days, NEW g \in Gens, ReadRange(o, d, g)
       PROVE  LedgerSound'
  BY <1>3, <1>10 DEF ReadRange, dayVars
<1>11. ASSUME NEW o \in Operators, WriteRange(o) PROVE LedgerSound'
  <2>1. op[o].plan \in Plans /\ range[op[o].plan] # "absent" /\ UNCHANGED <<ordinal, ledger>>
    BY <1>11 DEF WriteRange, RangeRequest, Planned, RequestsPlanned
  <2>2. ASSUME NEW d \in Days, NEW key \in Keys, range'[<<d, key>>] # "absent"
        PROVE  range[<<d, key>>] # "absent"
    <3>1. <<d, key>> \in Plans
      BY DEF Plans, Gens
    <3>2. PICK s \in {"cancelled", "retry_wait"} : range' = [range EXCEPT ![op[o].plan] = s]
      BY <1>11 DEF WriteRange
    <3> QED
      BY <1>t, <2>1, <2>2, <3>1, <3>2 DEF RowTypes
  <2> QED
    BY <2>1, <2>2, LedgerKept
<1>12. ASSUME NEW o \in Operators, NEW d \in Days, NEW key \in Keys, ReadRecoveryKey(o, d, key)
       PROVE  LedgerSound'
  BY <1>3, <1>12 DEF ReadRecoveryKey, dayVars
<1>13. ASSUME NEW o \in Operators, recover_day_plan(o) PROVE LedgerSound'
  <2>1. op[o].day \in Days /\ op[o].key \in Keys
    BY <1>13 DEF recover_day_plan, RecoverRequest
  <2>2. plan_day_recovery(op[o].day, op[o].key) \/ UNCHANGED dayVars
    BY <1>13 DEF recover_day_plan
  <2>3. CASE plan_day_recovery(op[o].day, op[o].key)
    BY <2>1, <2>3, LedgerGrows
  <2>4. CASE UNCHANGED dayVars
    BY <1>3, <2>4 DEF dayVars
  <2> QED
    BY <2>2, <2>3, <2>4
<1>14. CASE UNCHANGED vars
  BY <1>3, <1>14 DEF vars, dayVars
<1>15. CASE stamp_plan_metadata /\ ledger' = ledger
  <2>1. UNCHANGED <<range, ordinal, ledger>>
    BY <1>15 DEF stamp_plan_metadata
  <2> QED
    BY <2>1, LedgerKept
<1> QED
  BY <1>1, <1>2, <1>4, <1>5, <1>6, <1>7, <1>8, <1>9, <1>10, <1>11, <1>12, <1>13, <1>14,
     <1>15 DEF LosslessNext, Next, Tick

\* As long as no history tick overwrites a recovery it has not read, the ledger of a
\* day and its recovery generations are the same set, with the ordinals 1, 2, ... in
\* order and within the budget, however requests and ticks interleave.
THEOREM LedgerIsSound == LosslessSpec => []LedgerSound
<1>1. Init => Planned /\ LedgerSound
  BY PlannedInit, LedgerInit
<1>2. Planned /\ LedgerSound /\ [LosslessNext]_vars => (Planned /\ LedgerSound)'
  <2>1. [LosslessNext]_vars => [Next]_vars
    BY DEF LosslessNext
  <2> QED
    BY <2>1, PlannedStep, LedgerStep
<1> QED
  BY <1>1, <1>2, PTL DEF LosslessSpec

-----------------------------------------------------------------------------
(* The heavy slot.                                                         *)

\* The statuses of a row somebody may still claim or hold.
Claimable == {"pending", "retry_wait", "running"}

\* The rows of a plan end in order, and its range is a success only when they have.
PlanInOrder(rw, rg, d, g) ==
  /\ rw[<<d, g, "finalize">>].status # "absent" => Collected(rw, d, g)
  /\ rw[<<d, g, "date_sync">>].status \notin {"absent", "pending"} =>
       rw[<<d, g, "parent_sync">>].status = "success"
  /\ rg[<<d, g>>] = "success" => rw[<<d, g, "finalize">>].status = "success"
  /\ rg[<<d, g>>] # "cancelled"

InOrder(rw, rg) == \A d \in Days, g \in Gens : PlanInOrder(rw, rg, d, g)

\* The range and the rows of a plan are where the model keeps them.
LEMMA JobsOfPlan ==
  ASSUME NEW d \in Days, NEW g \in Gens
  PROVE  /\ <<d, g>> \in Plans
         /\ <<d, g, "parent_sync">> \in Jobs
         /\ <<d, g, "date_sync">> \in Jobs
         /\ <<d, g, "finalize">> \in Jobs
BY DEF Plans, Jobs, Kinds

\* While a row of a plan can still be claimed or is running, no row before it has
\* failed and not all of them have ended.
LEMMA ClaimableHoldsPlanOpen ==
  ASSUME NEW rw, NEW rg, NEW d \in Days, NEW g \in Gens, NEW k \in Kinds,
         PlanInOrder(rw, rg, d, g), rw[<<d, g, k>>].status \in Claimable
  PROVE  /\ rw[<<d, g, "date_sync">>].status \notin {"failed", "cancelled"}
         /\ ~(/\ rw[<<d, g, "finalize">>].status = "success"
              /\ Collected(rw, d, g))
         /\ rg[<<d, g>>] # "success"
<1>1. CASE k = "parent_sync"
  BY <1>1 DEF PlanInOrder, Collected, Claimable
<1>2. CASE k = "date_sync"
  BY <1>2 DEF PlanInOrder, Collected, Claimable
<1>3. CASE k = "finalize"
  BY <1>3 DEF PlanInOrder, Collected, Claimable
<1> QED
  BY <1>1, <1>2, <1>3 DEF Kinds

\* One row of a plan moves to another status: a row that was no success, and a date
\* only behind the success of its parent.
LEMMA RowMoves ==
  ASSUME NEW rw \in [Jobs -> Row], NEW rg, InOrder(rw, rg),
         NEW d \in Days, NEW g \in Gens, NEW k \in Kinds, NEW r \in Row,
         rw[<<d, g, k>>].status \notin {"absent", "success"}, r.status # "absent",
         k = "date_sync" => rw[<<d, g, "parent_sync">>].status = "success"
  PROVE  InOrder([rw EXCEPT ![<<d, g, k>>] = r], rg)
<1> DEFINE new == [rw EXCEPT ![<<d, g, k>>] = r]
<1>1. ASSUME NEW j \in Jobs, j # <<d, g, k>> PROVE new[j] = rw[j]
  BY <1>1
<1>2. new[<<d, g, k>>] = r
  BY JobsOfPlan DEF Kinds, Jobs
<1> HIDE DEF new
<1>3. ASSUME NEW e \in Days, NEW h \in Gens PROVE PlanInOrder(new, rg, e, h)
  <2>1. PlanInOrder(rw, rg, e, h)
    BY DEF InOrder
  <2>2. CASE <<e, h>> # <<d, g>>
    <3>1. /\ new[<<e, h, "parent_sync">>] = rw[<<e, h, "parent_sync">>]
          /\ new[<<e, h, "date_sync">>] = rw[<<e, h, "date_sync">>]
          /\ new[<<e, h, "finalize">>] = rw[<<e, h, "finalize">>]
      BY <1>1, <2>2, JobsOfPlan
    <3> QED
      BY <2>1, <3>1 DEF PlanInOrder, Collected
  <2>3. CASE <<e, h>> = <<d, g>>
    <3>1. e = d /\ h = g
      BY <2>3
    <3>2. CASE k = "parent_sync"
      <4>1. /\ new[<<d, g, "date_sync">>] = rw[<<d, g, "date_sync">>]
            /\ new[<<d, g, "finalize">>] = rw[<<d, g, "finalize">>]
        BY <1>1, <3>2, JobsOfPlan
      <4> QED
        BY <2>1, <3>1, <3>2, <4>1 DEF PlanInOrder, Collected
    <3>3. CASE k = "date_sync"
      <4>1. /\ new[<<d, g, "parent_sync">>] = rw[<<d, g, "parent_sync">>]
            /\ new[<<d, g, "finalize">>] = rw[<<d, g, "finalize">>]
        BY <1>1, <3>3, JobsOfPlan
      <4> QED
        BY <2>1, <3>1, <3>3, <4>1 DEF PlanInOrder, Collected
    <3>4. CASE k = "finalize"
      <4>1. /\ new[<<d, g, "parent_sync">>] = rw[<<d, g, "parent_sync">>]
            /\ new[<<d, g, "date_sync">>] = rw[<<d, g, "date_sync">>]
        BY <1>1, <3>4, JobsOfPlan
      <4> QED
        BY <2>1, <3>1, <3>4, <4>1 DEF PlanInOrder, Collected
    <3> QED
      BY <3>2, <3>3, <3>4 DEF Kinds
  <2> QED
    BY <2>2, <2>3
<1> QED
  BY <1>3 DEF new, InOrder

-----------------------------------------------------------------------------
(* What reconciliation does to a plan in order.                            *)

\* Reconciliation touches one row only: a finalize row that does not exist yet, of a
\* plan that has been collected.
LEMMA ReconciledRow ==
  ASSUME RowTypes, NEW d \in Days, NEW g \in Gens, NEW k \in Kinds
  PROVE  \/ ReconciledRows[<<d, g, k>>] = row[<<d, g, k>>]
         \/ /\ k = "finalize"
            /\ row[<<d, g, k>>].status = "absent"
            /\ Collected(row, d, g)
            /\ ReconciledRows[<<d, g, k>>] = NewRow
<1> DEFINE rg == reconcile_terminal_range_parents(row, range)
           enq == enqueue_finalize_if_ready(row, d, g)
<1>1. <<d, g, k>> \in Jobs /\ <<d, g, "finalize">> \in Jobs
  BY DEF Jobs, Kinds
<1>2. ReconciledRows[<<d, g, k>>] \in {enq[<<d, g, k>>], row[<<d, g, k>>]}
  BY <1>1 DEF ReconciledRows, reconcile_finalize_queue
<1>3. CASE k # "finalize"
  <2>1. enq[<<d, g, k>>] = row[<<d, g, k>>]
    BY <1>1, <1>3 DEF RowTypes, enqueue_finalize_if_ready
  <2> QED
    BY <1>2, <2>1
<1>4. CASE k = "finalize"
  BY <1>1, <1>2, <1>4 DEF RowTypes, enqueue_finalize_if_ready
<1> QED
  BY <1>3, <1>4

\* Reconciliation leaves the parent and date rows alone.
LEMMA ReconciledCollection ==
  ASSUME RowTypes, NEW d \in Days, NEW g \in Gens
  PROVE  /\ ReconciledRows[<<d, g, "parent_sync">>] = row[<<d, g, "parent_sync">>]
         /\ ReconciledRows[<<d, g, "date_sync">>] = row[<<d, g, "date_sync">>]
         /\ Collected(ReconciledRows, d, g) <=> Collected(row, d, g)
<1>1. /\ ReconciledRows[<<d, g, "parent_sync">>] = row[<<d, g, "parent_sync">>]
      /\ ReconciledRows[<<d, g, "date_sync">>] = row[<<d, g, "date_sync">>]
  BY ReconciledRow DEF Kinds
<1> QED
  BY <1>1 DEF Collected

\* What reconciliation makes of the range of a plan.
LEMMA ReconciledRangeOf ==
  ASSUME RowTypes, NEW d \in Days, NEW g \in Gens
  PROVE  ReconciledRange[<<d, g>>] =
           IF ReconciledRows[<<d, g, "finalize">>].status = "success" /\ Collected(row, d, g)
           THEN "success"
           ELSE IF /\ range[<<d, g>>] \in {"pending", "retry_wait"}
                   /\ row[<<d, g, "date_sync">>].status \in {"failed", "cancelled"}
                THEN "failed" ELSE range[<<d, g>>]
<1>1. <<d, g>> \in Plans
  BY DEF Plans
<1> QED
  BY <1>1, ReconciledCollection
  DEF ReconciledRange, promote_range_parent_if_ready, reconcile_terminal_range_parents

\* Reconciliation keeps every plan in order.
LEMMA ReconciledInOrder ==
  ASSUME RowTypes, InOrder(row, range)
  PROVE  InOrder(ReconciledRows, ReconciledRange)
<1>1. ASSUME NEW d \in Days, NEW g \in Gens
      PROVE  PlanInOrder(ReconciledRows, ReconciledRange, d, g)
  <2>1. PlanInOrder(row, range, d, g)
    BY DEF InOrder
  <2>2. \/ ReconciledRows[<<d, g, "finalize">>] = row[<<d, g, "finalize">>]
        \/ Collected(row, d, g) /\ row[<<d, g, "finalize">>].status = "absent"
    BY ReconciledRow DEF Kinds
  <2>3. ReconciledRows[<<d, g, "finalize">>].status # "absent" => Collected(row, d, g)
    BY <2>1, <2>2 DEF PlanInOrder
  <2>4. range[<<d, g>>] = "success" => ReconciledRows[<<d, g, "finalize">>].status = "success"
    BY <2>1, <2>2 DEF PlanInOrder
  <2> QED
    BY <2>1, <2>3, <2>4, ReconciledCollection, ReconciledRangeOf DEF PlanInOrder
<1> QED
  BY <1>1 DEF InOrder

\* Reconciliation neither fails nor promotes a plan with a row that can be claimed or
\* is running.
LEMMA ReconciliationSparesClaimable ==
  ASSUME RowTypes, InOrder(row, range), NEW d \in Days, NEW g \in Gens, NEW k \in Kinds,
         row[<<d, g, k>>].status \in Claimable
  PROVE  /\ ReconciledRange[<<d, g>>] = range[<<d, g>>]
         /\ ReconciledRows[<<d, g, k>>] = row[<<d, g, k>>]
<1>1. ReconciledRows[<<d, g, k>>] = row[<<d, g, k>>]
  BY ReconciledRow DEF Claimable
<1>2. PlanInOrder(row, range, d, g)
  BY DEF InOrder
<1>3. /\ row[<<d, g, "date_sync">>].status \notin {"failed", "cancelled"}
      /\ ~(row[<<d, g, "finalize">>].status = "success" /\ Collected(row, d, g))
  BY <1>2, ClaimableHoldsPlanOpen
<1>4. ~(ReconciledRows[<<d, g, "finalize">>].status = "success" /\ Collected(row, d, g))
  <2>1. \/ ReconciledRows[<<d, g, "finalize">>] = row[<<d, g, "finalize">>]
        \/ ReconciledRows[<<d, g, "finalize">>] = NewRow
    BY ReconciledRow DEF Kinds
  <2>2. NewRow.status = "pending"
    BY DEF NewRow, AbsentRow
  <2> QED
    BY <1>3, <2>1, <2>2
<1> QED
  BY <1>1, <1>3, <1>4, ReconciledRangeOf

-----------------------------------------------------------------------------
(* The invariant of the slot.                                              *)

\* Row j is running, or the worker has chosen it.
Engaged(j) == row[j].status = "running" \/ sched.job = j

\* What is engaged belongs to an open plan of the generation that owns its day.
Attended ==
  \A d \in Days, g \in Gens, k \in Kinds : Engaged(<<d, g, k>>) =>
    /\ row[<<d, g, k>>].status \in Claimable
    /\ range[<<d, g>>] \in {"pending", "retry_wait"}
    /\ g = winning_generation(range, d)

\* A day has a recovery generation only after its base plan.
BaseFirst ==
  \A d \in Days, g \in Gens : range[<<d, g>>] # "absent" => range[<<d, Base>>] # "absent"

\* No request in flight cancels a range.
NothingCancelled == \A o \in Operators : op[o] \in RangeRequest => op[o].act = "retry"

SlotInv == BaseFirst /\ NothingCancelled /\ InOrder(row, range) /\ Attended

\* The generation that owns a day stays the same while the planned generations and
\* their ordinals do.
LEMMA WinnerKept ==
  ASSUME NEW d \in Days,
         \A g \in Gens : range'[<<d, g>>] = "absent" <=> range[<<d, g>>] = "absent",
         \A g \in Gens : ordinal'[<<d, g>>] = ordinal[<<d, g>>]
  PROVE  winning_generation(range, d)' = winning_generation(range, d)
<1> DEFINE planned == {g \in Gens : range[<<d, g>>] # "absent"}
           after == {g \in Gens : range'[<<d, g>>] # "absent"}
<1>1. after = planned
  OBVIOUS
<1>2. ASSUME NEW g \in planned
      PROVE  (\A h \in planned : ordinal'[<<d, h>>] <= ordinal'[<<d, g>>]) <=>
             (\A h \in planned : ordinal[<<d, h>>] <= ordinal[<<d, g>>])
  OBVIOUS
<1>3. (CHOOSE g \in planned : \A h \in planned : ordinal'[<<d, h>>] <= ordinal'[<<d, g>>]) =
      (CHOOSE g \in planned : \A h \in planned : ordinal[<<d, h>>] <= ordinal[<<d, g>>])
  BY <1>2
<1>4. winning_generation(range, d) =
      CHOOSE g \in planned : \A h \in planned : ordinal[<<d, h>>] <= ordinal[<<d, g>>]
  BY DEF winning_generation
<1>5. winning_generation(range, d)' =
      CHOOSE g \in after : \A h \in after : ordinal'[<<d, h>>] <= ordinal'[<<d, g>>]
  BY DEF winning_generation
<1> QED
  BY Zenon, <1>1, <1>3, <1>4, <1>5

\* A step that plans nothing and engages nothing new keeps the slot attended, if what
\* is still engaged can still be claimed and its plan is still open.
LEMMA AttendedKept ==
  ASSUME Attended, ordinal' = ordinal,
         \A d \in Days, g \in Gens : range'[<<d, g>>] = "absent" <=> range[<<d, g>>] = "absent",
         \A d \in Days, g \in Gens, k \in Kinds : Engaged(<<d, g, k>>)' =>
           /\ Engaged(<<d, g, k>>)
           /\ row'[<<d, g, k>>].status \in Claimable
           /\ range'[<<d, g>>] \in {"pending", "retry_wait"}
  PROVE  Attended'
<1>1. \A d \in Days : winning_generation(range, d)' = winning_generation(range, d)
  BY WinnerKept
<1>2. ASSUME NEW d \in Days, NEW g \in Gens, NEW k \in Kinds, Engaged(<<d, g, k>>)'
      PROVE  /\ row'[<<d, g, k>>].status \in Claimable
             /\ range'[<<d, g>>] \in {"pending", "retry_wait"}
             /\ g = winning_generation(range, d)'
  BY <1>1, <1>2 DEF Attended
<1> QED
  BY <1>2 DEF Attended

-----------------------------------------------------------------------------
(* Choosing a row.                                                         *)

\* The row a tick chooses can be claimed, its plan is open and its generation owns the
\* day (_day_state, _select_candidate).
LEMMA ChoiceIsOwned ==
  ASSUME NEW rg \in [Plans -> RangeStatuses], NEW rw \in [Jobs -> Row], InOrder(rw, rg),
         \A e \in Days, g \in Gens : rg[<<e, g>>] = "absent" =>
           \A k \in Kinds : rw[<<e, g, k>>].status = "absent",
         NEW d \in Days, select_candidate(rg, rw, d) # NoOne
  PROVE  \E g \in Gens, k \in Kinds :
           /\ select_candidate(rg, rw, d) = <<d, g, k>>
           /\ rw[<<d, g, k>>].status \in Claimable
           /\ rg[<<d, g>>] \in {"pending", "retry_wait"}
           /\ g = winning_generation(rg, d)
<1> DEFINE c == select_candidate(rg, rw, d)
<1>1. c \in Offered(rg, rw, d)
  BY SelectionOffered
<1>2. /\ c \in Jobs /\ c[1] = d /\ c[2] = winning_generation(rg, d)
      /\ day_state(rg, rw, d) \notin {"missing", "failed"}
      /\ rw[c].status \in Claimable
  BY <1>1 DEF Offered, OwnedJobs, ExpiredRunning, Claimable
<1> HIDE DEF c
<1>3. PICK g \in Gens, k \in Kinds : c = <<d, g, k>> /\ g = winning_generation(rg, d)
  BY <1>2 DEF Jobs
<1>4. rg[<<d, g>>] # "failed"
  BY <1>2, <1>3 DEF day_state
<1>5. rg[<<d, g>>] # "absent"
  BY <1>2, <1>3 DEF Claimable
<1>6. rg[<<d, g>>] # "cancelled" /\ PlanInOrder(rw, rg, d, g)
  BY DEF InOrder, PlanInOrder
<1>7. rg[<<d, g>>] # "success"
  <2>1. rw[<<d, g, k>>].status \in Claimable
    BY <1>2, <1>3
  <2> QED
    BY ZenonT(60), <1>6, <2>1, ClaimableHoldsPlanOpen
<1>8. rg[<<d, g>>] \in RangeStatuses
  BY JobsOfPlan
<1> QED
  BY <1>2, <1>3, <1>4, <1>5, <1>6, <1>7, <1>8 DEF RangeStatuses, Terminal, c

-----------------------------------------------------------------------------
(* Planning.                                                               *)

\* The rows of a plan after plan_daily_sync.
LEMMA PlannedRow ==
  ASSUME NEW d \in Days, NEW g \in Gens, NEW e \in Days, NEW h \in Gens, NEW k \in Kinds
  PROVE  PlannedRows(d, g)[<<e, h, k>>] =
           IF e = d /\ h = g /\ k # "finalize" /\ row[<<e, h, k>>].status = "absent"
           THEN NewRow ELSE row[<<e, h, k>>]
<1>1. <<e, h, k>> \in Jobs
  BY DEF Jobs
<1> QED
  BY <1>1 DEF PlannedRows

\* Its range.
LEMMA PlannedRangeOf ==
  ASSUME RowTypes, NEW d \in Days, NEW g \in Gens, NEW e \in Days, NEW h \in Gens
  PROVE  PlannedRange(d, g)[<<e, h>>] =
           IF e = d /\ h = g /\ range[<<e, h>>] = "absent" THEN "pending" ELSE range[<<e, h>>]
<1>1. <<e, h>> \in Plans /\ <<d, g>> \in Plans
  BY DEF Plans
<1> QED
  BY <1>1 DEF RowTypes, PlannedRange

\* Planning starts nothing: a new row is pending.
LEMMA PlanningStartsNothing ==
  ASSUME NEW d \in Days, NEW g \in Gens, NEW e \in Days, NEW h \in Gens, NEW k \in Kinds,
         row[<<e, h, k>>].status \in Claimable \/ PlannedRows(d, g)[<<e, h, k>>].status = "running"
  PROVE  PlannedRows(d, g)[<<e, h, k>>] = row[<<e, h, k>>]
<1>1. NewRow.status = "pending"
  BY DEF NewRow, AbsentRow
<1> QED
  BY <1>1, PlannedRow DEF Claimable

\* Planning keeps every plan in order.
LEMMA PlanningInOrder ==
  ASSUME RowTypes, InOrder(row, range), NEW d \in Days, NEW g \in Gens
  PROVE  InOrder(PlannedRows(d, g), PlannedRange(d, g))
<1> DEFINE rw == PlannedRows(d, g)
           rg == PlannedRange(d, g)
<1>1. ASSUME NEW e \in Days, NEW h \in Gens PROVE PlanInOrder(rw, rg, e, h)
  <2>1. PlanInOrder(row, range, e, h)
    BY DEF InOrder
  <2>2. NewRow.status = "pending"
    BY DEF NewRow, AbsentRow
  <2>3. /\ rw[<<e, h, "finalize">>] = row[<<e, h, "finalize">>]
        /\ \/ rw[<<e, h, "parent_sync">>] = row[<<e, h, "parent_sync">>]
           \/ /\ row[<<e, h, "parent_sync">>].status = "absent"
              /\ rw[<<e, h, "parent_sync">>].status = "pending"
        /\ \/ rw[<<e, h, "date_sync">>] = row[<<e, h, "date_sync">>]
           \/ /\ row[<<e, h, "date_sync">>].status = "absent"
              /\ rw[<<e, h, "date_sync">>].status = "pending"
    BY <2>2, PlannedRow DEF Kinds
  <2>4. rg[<<e, h>>] \in {"pending", range[<<e, h>>]}
    BY PlannedRangeOf
  <2> HIDE DEF rw, rg
  <2> QED
    BY <2>1, <2>3, <2>4 DEF PlanInOrder, Collected
<1> QED
  BY <1>1 DEF InOrder

\* Nothing is planned, running or chosen when the worker first starts.
LEMMA SlotInit == Init => SlotInv
<1> SUFFICES ASSUME Init PROVE SlotInv
  OBVIOUS
<1>1. \A d \in Days, g \in Gens : range[<<d, g>>] = "absent"
  BY DEF Init, DayInit, Plans
<1>2. \A d \in Days, g \in Gens, k \in Kinds : row[<<d, g, k>>].status = "absent"
  BY DEF Init, DayInit, Jobs, AbsentRow
<1>3. \A d \in Days, g \in Gens, k \in Kinds : sched.job # <<d, g, k>>
  BY SchedulerAssumption DEF Init, Idle, Jobs
<1>4. NothingCancelled
  BY SchedulerAssumption DEF Init, NothingCancelled
<1>5. InOrder(row, range)
  BY Zenon, <1>1, <1>2 DEF InOrder, PlanInOrder, Kinds
<1>6. Attended
  BY <1>2, <1>3 DEF Attended, Engaged
<1>7. BaseFirst
  BY <1>1 DEF BaseFirst
<1> QED
  BY <1>4, <1>5, <1>6, <1>7 DEF SlotInv

\* Both kinds of tick: the base plan of a day is ensured and a row of that day is
\* chosen, or none.
LEMMA TickKeepsSlot ==
  ASSUME Planned, SlotInv, NEW d \in Days, UNCHANGED <<ordinal, op>>,
         range' = PlannedRange(d, Base), row' = PlannedRows(d, Base),
         sched'.job \in {NoOne, select_candidate(range', row', d)}
  PROVE  SlotInv'
<1>1. RowTypes /\ RowsPlanned /\ Base \in Gens /\ InOrder(row, range) /\ BaseFirst /\ Attended
  BY TypeParts DEF Planned, SlotInv, Gens
<1>2. RowTypes' /\ RowsPlanned' /\ InOrder(row', range')
  BY <1>1, BasePlanKept, PlanningInOrder
<1>3. \A e \in Days, g \in Gens : range'[<<e, g>>] =
        IF e = d /\ g = Base /\ range[<<e, g>>] = "absent" THEN "pending" ELSE range[<<e, g>>]
  BY ZenonT(60), <1>1, PlannedRangeOf
<1>4. BaseFirst'
  BY <1>1, <1>3 DEF BaseFirst
<1>5. NothingCancelled'
  BY DEF SlotInv, NothingCancelled
<1>6. ASSUME NEW e \in Days, NEW g \in Gens, range[<<e, g>>] # "absent"
      PROVE  winning_generation(range, e)' = winning_generation(range, e)
  <2>1. range[<<e, Base>>] # "absent"
    BY <1>1, <1>6 DEF BaseFirst
  <2>2. \A h \in Gens : range'[<<e, h>>] = range[<<e, h>>]
    BY <1>3, <2>1
  <2> QED
    BY <2>2, WinnerKept
<1>7. ASSUME NEW e \in Days, NEW g \in Gens, NEW k \in Kinds, Engaged(<<e, g, k>>)'
      PROVE  /\ row'[<<e, g, k>>].status \in Claimable
             /\ range'[<<e, g>>] \in {"pending", "retry_wait"}
             /\ g = winning_generation(range, e)'
  <2>1. CASE row'[<<e, g, k>>].status = "running"
    <3>1. row'[<<e, g, k>>] = row[<<e, g, k>>]
      BY <1>1, <2>1, PlanningStartsNothing
    <3>2. Engaged(<<e, g, k>>)
      BY <2>1, <3>1 DEF Engaged
    <3>3. /\ row[<<e, g, k>>].status \in Claimable
          /\ range[<<e, g>>] \in {"pending", "retry_wait"}
          /\ g = winning_generation(range, e)
      BY <1>1, <3>2 DEF Attended
    <3> QED
      BY <1>3, <1>6, <3>1, <3>3
  <2>2. CASE sched'.job = <<e, g, k>>
    <3>1. <<e, g, k>> # NoOne
      BY SchedulerAssumption DEF Jobs
    <3>2. select_candidate(range', row', d) = <<e, g, k>>
      BY <2>2, <3>1
    <3>3. range' \in [Plans -> RangeStatuses] /\ row' \in [Jobs -> Row]
      BY <1>2 DEF RowTypes
    <3>4. \A f \in Days, h \in Gens : range'[<<f, h>>] = "absent" =>
            \A i \in Kinds : row'[<<f, h, i>>].status = "absent"
      BY <1>2 DEF RowsPlanned
    <3>5. PICK h \in Gens, i \in Kinds :
            /\ select_candidate(range', row', d) = <<d, h, i>>
            /\ row'[<<d, h, i>>].status \in Claimable
            /\ range'[<<d, h>>] \in {"pending", "retry_wait"}
            /\ h = winning_generation(range', d)
      BY <1>2, <3>1, <3>2, <3>3, <3>4, ChoiceIsOwned
    <3>6. e = d /\ g = h /\ k = i
      BY <3>2, <3>5
    <3>7. winning_generation(range', d) = winning_generation(range, d)'
      BY DEF winning_generation
    <3> QED
      BY <3>5, <3>6, <3>7
  <2> QED
    BY <1>7, <2>1, <2>2 DEF Engaged
<1>8. Attended'
  BY <1>7 DEF Attended
<1> QED
  BY <1>2, <1>4, <1>5, <1>8 DEF SlotInv

-----------------------------------------------------------------------------
(* Recovery.                                                               *)

\* A plan whose finalize row has spent its attempts has no row left to claim.
LEMMA StoppedHasNothingToClaim ==
  ASSUME NEW d \in Days, NEW g \in Gens, NEW k \in Kinds, pending_finalize_is_stopped(d, g)
  PROVE  row[<<d, g, k>>].status \notin Claimable
BY DEF pending_finalize_is_stopped, Collected, Claimable, Kinds

\* A day that may be recovered has nothing engaged in any of its generations: the
\* base plan has ended, and so has every generation on the ledger.
LEMMA RecoverableIsCalm ==
  ASSUME Planned, LedgerSound, SlotInv, NEW d \in Days, NEW key \in Keys,
         RecoveryAllowed(d, key), NEW g \in Gens, NEW k \in Kinds
  PROVE  ~Engaged(<<d, g, k>>)
<1> SUFFICES ASSUME Engaged(<<d, g, k>>) PROVE FALSE
  OBVIOUS
<1>1. /\ row[<<d, g, k>>].status \in Claimable
      /\ range[<<d, g>>] \in {"pending", "retry_wait"}
      /\ PlanInOrder(row, range, d, g)
  BY DEF SlotInv, Attended, InOrder
<1>2. row[<<d, g, "date_sync">>].status \notin {"failed", "cancelled"}
  BY <1>1, ClaimableHoldsPlanOpen
<1>3. ~pending_finalize_is_stopped(d, g)
  BY <1>1, StoppedHasNothingToClaim
<1>4. CASE g = Base
  BY <1>1, <1>2, <1>3, <1>4 DEF RecoveryAllowed, recoverable, DateIsBlocked
<1>5. CASE g \in Keys
  <2>1. PICK i \in DOMAIN ledger[d] : ledger[d][i].key = g
    BY <1>1, <1>5 DEF LedgerSound, Recorded
  <2>2. range[<<d, g>>] \notin Terminal
    BY <1>1 DEF Terminal
  <2>3. in_flight_generation(d)
    BY <1>3, <2>1, <2>2 DEF in_flight_generation
  <2> QED
    BY <2>3 DEF RecoveryAllowed
<1> QED
  BY <1>4, <1>5 DEF Gens

\* A new generation takes the day over from generations that are at rest.
LEMMA RecoveryKeepsSlot ==
  ASSUME Planned, LedgerSound, SlotInv, NEW d \in Days, NEW key \in Keys,
         plan_day_recovery(d, key), sched' = sched
  PROVE  BaseFirst' /\ InOrder(row', range') /\ Attended'
<1>1. RowTypes /\ MetaTyped /\ key \in Gens /\ Base \in Gens
      /\ InOrder(row, range) /\ BaseFirst /\ Attended
  BY TypeParts DEF Planned, SlotInv, Gens
<1>2. /\ RecoveryAllowed(d, key)
      /\ range' = PlannedRange(d, key)
      /\ row' = PlannedRows(d, key)
      /\ ordinal' = [ordinal EXCEPT ![<<d, key>>] = Len(ledger[d]) + 1]
  BY DEF plan_day_recovery
<1>3. InOrder(row', range')
  BY <1>1, <1>2, PlanningInOrder
<1>4. \A e \in Days, g \in Gens : range'[<<e, g>>] =
        IF e = d /\ g = key /\ range[<<e, g>>] = "absent" THEN "pending" ELSE range[<<e, g>>]
  BY ZenonT(60), <1>1, <1>2, PlannedRangeOf
<1>5. BaseFirst'
  <2>1. range[<<d, Base>>] # "absent"
    BY <1>2 DEF RecoveryAllowed, recoverable
  <2> QED
    BY <1>1, <1>4, <2>1 DEF BaseFirst
<1>6. ASSUME NEW e \in Days, NEW g \in Gens, NEW k \in Kinds, Engaged(<<e, g, k>>)'
      PROVE  /\ row'[<<e, g, k>>].status \in Claimable
             /\ range'[<<e, g>>] \in {"pending", "retry_wait"}
             /\ g = winning_generation(range, e)'
  <2>1. Engaged(<<e, g, k>>) /\ row[<<e, g, k>>].status \in Claimable
    <3>1. Engaged(<<e, g, k>>)
      <4>1. CASE row'[<<e, g, k>>].status = "running"
        <5>1. row'[<<e, g, k>>] = row[<<e, g, k>>]
          BY <1>1, <1>2, <4>1, PlanningStartsNothing
        <5> QED
          BY <4>1, <5>1 DEF Engaged
      <4>2. CASE sched'.job = <<e, g, k>>
        BY <4>2 DEF Engaged
      <4> QED
        BY <1>6, <4>1, <4>2 DEF Engaged
    <3> QED
      BY <1>1, <3>1 DEF Attended
  <2>2. e # d
    BY <1>2, <2>1, RecoverableIsCalm
  <2>3. row'[<<e, g, k>>] = row[<<e, g, k>>]
    BY <1>1, <1>2, <2>1, PlanningStartsNothing
  <2>4. \A h \in Gens : range'[<<e, h>>] = range[<<e, h>>]
    BY <1>4, <2>2
  <2>5. \A h \in Gens : ordinal'[<<e, h>>] = ordinal[<<e, h>>]
    BY <1>1, <1>2, <2>2 DEF MetaTyped, Plans
  <2>6. winning_generation(range, e)' = winning_generation(range, e)
    BY <2>4, <2>5, WinnerKept
  <2> QED
    BY <1>1, <2>1, <2>3, <2>4, <2>6 DEF Attended
<1> QED
  BY <1>3, <1>5, <1>6 DEF Attended

-----------------------------------------------------------------------------
(* Claims and outcomes.                                                    *)

\* Reconciliation leaves what is engaged as it is, and starts nothing.
LEMMA ReconciliationAttends ==
  ASSUME RowTypes, SlotInv, NEW d \in Days, NEW g \in Gens, NEW k \in Kinds
  PROVE  /\ ReconciledRows[<<d, g, k>>].status = "running" => row[<<d, g, k>>].status = "running"
         /\ Engaged(<<d, g, k>>) =>
              /\ ReconciledRows[<<d, g, k>>] = row[<<d, g, k>>]
              /\ row[<<d, g, k>>].status \in Claimable
              /\ ReconciledRange[<<d, g>>] \in {"pending", "retry_wait"}
<1>1. NewRow.status = "pending"
  BY DEF NewRow, AbsentRow
<1>2. ReconciledRows[<<d, g, k>>].status = "running" => row[<<d, g, k>>].status = "running"
  BY <1>1, ReconciledRow
<1>3. ASSUME Engaged(<<d, g, k>>)
      PROVE  /\ ReconciledRows[<<d, g, k>>] = row[<<d, g, k>>]
             /\ row[<<d, g, k>>].status \in Claimable
             /\ ReconciledRange[<<d, g>>] \in {"pending", "retry_wait"}
  <2>1. /\ row[<<d, g, k>>].status \in Claimable
        /\ range[<<d, g>>] \in {"pending", "retry_wait"}
        /\ InOrder(row, range)
    BY <1>3 DEF SlotInv, Attended
  <2> QED
    BY <2>1, ReconciliationSparesClaimable
<1> QED
  BY <1>2, <1>3

\* A step that only reconciles and gives up the choice, or keeps it.
LEMMA ReconciliationKeepsSlot ==
  ASSUME Planned, SlotInv, range' = ReconciledRange, row' = ReconciledRows,
         UNCHANGED <<ordinal, op>>, sched'.job \in {sched.job, NoOne}
  PROVE  SlotInv'
<1>1. RowTypes /\ RowsPlanned /\ InOrder(row, range) /\ Attended
  BY TypeParts DEF Planned, SlotInv
<1>2. InOrder(row', range') /\ SamePlans(range', row')
  BY <1>1, ReconciledInOrder, ReconciliationPlansNothing
<1>3. ASSUME NEW d \in Days, NEW g \in Gens, NEW k \in Kinds, Engaged(<<d, g, k>>)'
      PROVE  /\ Engaged(<<d, g, k>>)
             /\ row'[<<d, g, k>>].status \in Claimable
             /\ range'[<<d, g>>] \in {"pending", "retry_wait"}
  <2>1. <<d, g, k>> # NoOne
    BY SchedulerAssumption DEF Jobs
  <2>2. Engaged(<<d, g, k>>)
    BY <1>1, <1>3, <2>1, ReconciliationAttends DEF Engaged
  <2> QED
    BY <1>1, <2>2, ReconciliationAttends
<1>4. Attended'
  BY <1>1, <1>2, <1>3, AttendedKept DEF SamePlans
<1>5. BaseFirst'
  <2>1. Base \in Gens
    BY DEF Gens
  <2> QED
    BY <1>2, <2>1 DEF SlotInv, BaseFirst, SamePlans
<1> QED
  BY <1>2, <1>4, <1>5 DEF SlotInv, NothingCancelled

\* A step after which one row, engaged before, has another status.
LEMMA ClaimKeepsSlot ==
  ASSUME Planned, SlotInv, NEW d \in Days, NEW g \in Gens, NEW k \in Kinds, NEW r \in Row,
         sched.job = <<d, g, k>>, range' = ReconciledRange,
         row' = [ReconciledRows EXCEPT ![<<d, g, k>>] = r],
         SamePlans(range', row'), UNCHANGED <<ordinal, op>>,
         r.status = "running" \/ (r.status = "failed" /\ sched'.job = NoOne),
         sched'.job \in {sched.job, NoOne},
         k = "date_sync" => row[<<d, g, "parent_sync">>].status = "success"
  PROVE  SlotInv'
<1>1. RowTypes /\ RowsPlanned /\ InOrder(row, range) /\ Attended /\ <<d, g, k>> \in Jobs
  BY TypeParts DEF Planned, SlotInv, Jobs
<1>2. Engaged(<<d, g, k>>)
  BY DEF Engaged
<1>3. /\ ReconciledRows[<<d, g, k>>] = row[<<d, g, k>>]
      /\ row[<<d, g, k>>].status \in Claimable
  BY <1>1, <1>2, ReconciliationAttends
<1>4. ReconciledRows \in [Jobs -> Row]
  BY <1>1, ReconciliationPlansNothing DEF SamePlans
<1>5. InOrder(row', range')
  <2>1. ReconciledRows[<<d, g, k>>].status \notin {"absent", "success"} /\ r.status # "absent"
    BY <1>3 DEF Claimable
  <2>2. k = "date_sync" => ReconciledRows[<<d, g, "parent_sync">>].status = "success"
    BY <1>1, ReconciledCollection
  <2>3. InOrder(ReconciledRows, ReconciledRange)
    BY <1>1, ReconciledInOrder
  <2> QED
    BY <1>4, <2>1, <2>2, <2>3, RowMoves
<1>6. ASSUME NEW e \in Days, NEW h \in Gens, NEW i \in Kinds, Engaged(<<e, h, i>>)'
      PROVE  /\ Engaged(<<e, h, i>>)
             /\ row'[<<e, h, i>>].status \in Claimable
             /\ range'[<<e, h>>] \in {"pending", "retry_wait"}
  <2>1. <<e, h, i>> \in Jobs /\ <<e, h, i>> # NoOne
    BY SchedulerAssumption DEF Jobs
  <2>2. CASE <<e, h, i>> = <<d, g, k>>
    <3>1. row'[<<d, g, k>>] = r
      BY <1>1, <1>4
    <3>2. r.status = "running"
      BY <1>6, <2>1, <2>2, <3>1 DEF Engaged
    <3>3. e = d /\ h = g /\ i = k
      BY <2>2
    <3> QED
      BY <1>1, <1>2, <3>1, <3>2, <3>3, ReconciliationAttends DEF Claimable
  <2>3. CASE <<e, h, i>> # <<d, g, k>>
    <3>1. row'[<<e, h, i>>] = ReconciledRows[<<e, h, i>>]
      BY <1>4, <2>1, <2>3
    <3>2. sched'.job # <<e, h, i>>
      BY <2>1, <2>3
    <3>3. ReconciledRows[<<e, h, i>>].status = "running" => row[<<e, h, i>>].status = "running"
      BY ZenonT(60), <1>1, ReconciliationAttends
    <3>4. row'[<<e, h, i>>].status = "running"
      BY <1>6, <3>2 DEF Engaged
    <3>5. Engaged(<<e, h, i>>)
      BY <3>1, <3>3, <3>4 DEF Engaged
    <3> QED
      BY <1>1, <3>1, <3>5, ReconciliationAttends
  <2> QED
    BY <2>2, <2>3
<1>7. Attended'
  BY <1>1, <1>6, AttendedKept DEF SamePlans
<1>8. BaseFirst'
  <2>1. Base \in Gens
    BY DEF Gens
  <2> QED
    BY <2>1 DEF SlotInv, BaseFirst, SamePlans
<1> QED
  BY <1>5, <1>7, <1>8 DEF SlotInv, NothingCancelled

\* A step that gives one row another status and leaves the ranges alone.
LEMMA RowStepKeepsSlot ==
  ASSUME Planned, SlotInv, NEW d \in Days, NEW g \in Gens, NEW k \in Kinds, NEW r \in Row,
         row[<<d, g, k>>].status \in {"running", "failed"},
         r.status \notin {"absent", "pending"},
         r.status = "running" => row[<<d, g, k>>].status = "running",
         row' = [row EXCEPT ![<<d, g, k>>] = r], UNCHANGED <<range, ordinal, op>>,
         sched'.job \in {sched.job, NoOne},
         sched'.job = <<d, g, k>> => r.status = "running"
  PROVE  SlotInv'
<1>1. RowTypes /\ InOrder(row, range) /\ Attended /\ <<d, g, k>> \in Jobs
  BY TypeParts DEF Planned, SlotInv, Jobs
<1>2. row \in [Jobs -> Row] /\ PlanInOrder(row, range, d, g)
  BY <1>1 DEF RowTypes, InOrder
<1>3. InOrder(row', range')
  <2>1. k = "date_sync" => row[<<d, g, "parent_sync">>].status = "success"
    BY <1>2 DEF PlanInOrder
  <2> QED
    BY <1>1, <1>2, <2>1, RowMoves
<1>4. ASSUME NEW e \in Days, NEW h \in Gens, NEW i \in Kinds, Engaged(<<e, h, i>>)'
      PROVE  /\ Engaged(<<e, h, i>>)
             /\ row'[<<e, h, i>>].status \in Claimable
             /\ range'[<<e, h>>] \in {"pending", "retry_wait"}
  <2>1. <<e, h, i>> \in Jobs /\ <<e, h, i>> # NoOne
    BY SchedulerAssumption DEF Jobs
  <2>2. CASE <<e, h, i>> = <<d, g, k>>
    <3>1. row'[<<d, g, k>>] = r
      BY <1>1, <1>2
    <3>2. r.status = "running"
      BY <1>4, <2>2, <3>1 DEF Engaged
    <3>3. e = d /\ h = g /\ i = k
      BY <2>2
    <3> QED
      BY <1>1, <3>1, <3>2, <3>3 DEF Claimable, Attended, Engaged
  <2>3. CASE <<e, h, i>> # <<d, g, k>>
    <3>1. row'[<<e, h, i>>] = row[<<e, h, i>>]
      BY <1>2, <2>1, <2>3
    <3>2. Engaged(<<e, h, i>>)
      BY <1>4, <2>1, <3>1 DEF Engaged
    <3> QED
      BY <1>1, <3>1, <3>2 DEF Attended
  <2> QED
    BY <2>2, <2>3
<1>5. Attended'
  BY <1>1, <1>4, AttendedKept
<1> QED
  BY <1>3, <1>5 DEF SlotInv, NothingCancelled, BaseFirst

\* Enqueueing finalize keeps every plan in order: its plan has been collected.
LEMMA EnqueueingInOrder ==
  ASSUME NEW rw \in [Jobs -> Row], NEW rg, InOrder(rw, rg), NEW d \in Days, NEW g \in Gens
  PROVE  InOrder(enqueue_finalize_if_ready(rw, d, g), rg)
<1> DEFINE new == enqueue_finalize_if_ready(rw, d, g)
<1>1. \A j \in Jobs : j # <<d, g, "finalize">> => new[j] = rw[j]
  BY DEF enqueue_finalize_if_ready
<1>2. \/ new[<<d, g, "finalize">>] = rw[<<d, g, "finalize">>]
      \/ rw[<<d, g, "finalize">>].status = "absent" /\ Collected(rw, d, g)
  BY JobsOfPlan DEF enqueue_finalize_if_ready
<1> HIDE DEF new
<1>3. ASSUME NEW e \in Days, NEW h \in Gens PROVE PlanInOrder(new, rg, e, h)
  <2>1. PlanInOrder(rw, rg, e, h)
    BY DEF InOrder
  <2>2. /\ new[<<e, h, "parent_sync">>] = rw[<<e, h, "parent_sync">>]
        /\ new[<<e, h, "date_sync">>] = rw[<<e, h, "date_sync">>]
    BY <1>1, JobsOfPlan
  <2>3. \/ new[<<e, h, "finalize">>] = rw[<<e, h, "finalize">>]
        \/ rw[<<e, h, "finalize">>].status = "absent" /\ Collected(rw, e, h)
    BY <1>1, <1>2, JobsOfPlan
  <2> QED
    BY <2>1, <2>2, <2>3 DEF PlanInOrder, Collected
<1> QED
  BY <1>3 DEF new, InOrder

\* complete_job closes the row the worker runs; finalize is enqueued behind the last
\* date, and the range is promoted behind finalize.
LEMMA CompletionKeepsSlot ==
  ASSUME Planned, SlotInv, NEW d \in Days, NEW g \in Gens, NEW k \in Kinds,
         CompleteJob(<<d, g, k>>), sched'.job = NoOne, op' = op
  PROVE  SlotInv'
<1> DEFINE j == <<d, g, k>>
           r == Closed(row[j], "success")
           rw == [row EXCEPT ![j] = r]
<1>1. RowTypes /\ RowsPlanned /\ InOrder(row, range) /\ Attended /\ j \in Jobs
  BY TypeParts DEF Planned, SlotInv, Jobs
<1>2. row \in [Jobs -> Row] /\ range \in [Plans -> RangeStatuses] /\ PlanInOrder(row, range, d, g)
  BY <1>1 DEF RowTypes, InOrder
<1>3. row[j].status = "running" /\ UNCHANGED <<ordinal, ledger>>
  BY DEF CompleteJob
<1>4. r \in Row /\ r.status = "success"
  <2>1. row[j] \in Row
    BY <1>1, <1>2
  <2>2. r \in Row
    BY <2>1, RowConstructors DEF Terminal
  <2> QED
    BY <2>1, <2>2 DEF Closed, Row
<1>5. rw = [row EXCEPT ![j] = Closed(@, "success")]
  OBVIOUS
<1>6. /\ row' = IF k = "date_sync" THEN enqueue_finalize_if_ready(rw, d, g) ELSE rw
      /\ range' = IF k = "finalize"
                  THEN [range EXCEPT ![<<d, g>>] =
                          promote_range_parent_if_ready(rw, range)[<<d, g>>]]
                  ELSE range
  BY <1>5 DEF CompleteJob
<1>7. SamePlans(range', row')
  BY <1>1, OutcomePlansNothing
<1> HIDE DEF r
<1>8. InOrder(rw, range) /\ rw \in [Jobs -> Row]
  <2>1. k = "date_sync" => row[<<d, g, "parent_sync">>].status = "success"
    BY <1>2, <1>3 DEF PlanInOrder
  <2> QED
    BY <1>1, <1>2, <1>3, <1>4, <2>1, RowMoves
<1>9. InOrder(row', range)
  BY <1>6, <1>8, EnqueueingInOrder
<1>10. \/ range' = range
       \/ /\ row'[<<d, g, "finalize">>].status = "success"
          /\ range' = [range EXCEPT ![<<d, g>>] = "success"]
  <2>1. ASSUME k = "finalize" PROVE rw[<<d, g, "finalize">>].status = "success" /\ row' = rw
    BY <1>1, <1>2, <1>4, <1>6, <2>1
  <2>2. promote_range_parent_if_ready(rw, range)[<<d, g>>] \in {"success", range[<<d, g>>]}
    BY JobsOfPlan DEF promote_range_parent_if_ready
  <2>3. [range EXCEPT ![<<d, g>>] = range[<<d, g>>]] = range
    BY <1>2, JobsOfPlan
  <2> HIDE DEF rw
  <2> QED
    BY <1>6, <2>1, <2>2, <2>3
<1>11. InOrder(row', range')
  <2>1. ASSUME NEW e \in Days, NEW h \in Gens PROVE PlanInOrder(row', range', e, h)
    <3>1. PlanInOrder(row', range, e, h)
      BY <1>9 DEF InOrder
    <3>2. \/ range'[<<e, h>>] = range[<<e, h>>]
          \/ row'[<<e, h, "finalize">>].status = "success" /\ range'[<<e, h>>] = "success"
      BY <1>2, <1>10, JobsOfPlan
    <3> QED
      BY <3>1, <3>2 DEF PlanInOrder
  <2> QED
    BY <2>1 DEF InOrder
<1>12. ASSUME NEW e \in Days, NEW h \in Gens, NEW i \in Kinds, row'[<<e, h, i>>].status = "running"
       PROVE  row[<<e, h, i>>].status = "running"
  <2>1. <<e, h, i>> \in Jobs
    BY DEF Jobs
  <2>2. rw[<<e, h, i>>] = IF <<e, h, i>> = j THEN r ELSE row[<<e, h, i>>]
    BY <1>1, <1>2, <2>1
  <2>3. row'[<<e, h, i>>] = rw[<<e, h, i>>] \/ row'[<<e, h, i>>] = NewRow
    BY <1>6, <1>8, <2>1, JobsOfPlan DEF enqueue_finalize_if_ready
  <2>4. NewRow.status = "pending"
    BY DEF NewRow, AbsentRow
  <2> HIDE DEF rw, j
  <2> QED
    BY <1>4, <1>12, <2>2, <2>3, <2>4
<1>13. ASSUME NEW e \in Days, NEW h \in Gens, NEW i \in Kinds, Engaged(<<e, h, i>>)'
       PROVE  /\ Engaged(<<e, h, i>>)
              /\ row'[<<e, h, i>>].status \in Claimable
              /\ range'[<<e, h>>] \in {"pending", "retry_wait"}
  <2>1. <<e, h, i>> # NoOne
    BY SchedulerAssumption DEF Jobs
  <2>2. row'[<<e, h, i>>].status = "running" /\ row'[<<e, h, i>>].status \in Claimable
    BY <1>13, <2>1 DEF Engaged, Claimable
  <2>3. Engaged(<<e, h, i>>) /\ range[<<e, h>>] \in {"pending", "retry_wait"}
    BY <1>1, <1>12, <2>2 DEF Engaged, Attended
  <2>4. range'[<<e, h>>] # "success"
    BY <1>11, <2>2, ClaimableHoldsPlanOpen DEF InOrder
  <2>5. range'[<<e, h>>] \in {"success", range[<<e, h>>]}
    BY <1>2, <1>10, JobsOfPlan
  <2> QED
    BY <2>2, <2>3, <2>4, <2>5
<1>14. Attended'
  BY <1>1, <1>3, <1>7, <1>13, AttendedKept DEF SamePlans
<1>15. BaseFirst'
  <2>1. Base \in Gens
    BY DEF Gens
  <2> QED
    BY <1>7, <2>1 DEF SlotInv, BaseFirst, SamePlans
<1> QED
  BY <1>11, <1>14, <1>15 DEF SlotInv, NothingCancelled

-----------------------------------------------------------------------------
(* Every step keeps the invariant of the slot.                             *)

\* A step that leaves the rows alone, and the choice, unless it gives it up.
LEMMA QuietStepKeepsSlot ==
  ASSUME SlotInv, UNCHANGED <<range, row, ordinal>>, sched'.job \in {sched.job, NoOne},
         NothingCancelled'
  PROVE  SlotInv'
<1>1. \A d \in Days, g \in Gens, k \in Kinds : <<d, g, k>> # NoOne
  BY SchedulerAssumption DEF Jobs
<1>2. ASSUME NEW d \in Days, NEW g \in Gens, NEW k \in Kinds, Engaged(<<d, g, k>>)'
      PROVE  /\ Engaged(<<d, g, k>>)
             /\ row'[<<d, g, k>>].status \in Claimable
             /\ range'[<<d, g>>] \in {"pending", "retry_wait"}
  <2>1. Engaged(<<d, g, k>>)
    BY <1>1, <1>2 DEF Engaged
  <2> QED
    BY <2>1 DEF SlotInv, Attended
<1>3. Attended'
  BY <1>2, AttendedKept DEF SlotInv
<1> QED
  BY <1>3 DEF SlotInv, BaseFirst

\* The claim of the chosen row, granted, refused or turned into a failure.
LEMMA ClaimChosenKeepsSlot ==
  ASSUME Planned, SlotInv, ClaimChosen PROVE SlotInv'
<1>1. RowTypes /\ RowsPlanned /\ SchedTyped(sched) /\ InOrder(row, range) /\ Attended
  BY TypeParts DEF Planned, SlotInv
<1>2. sched.job \in Jobs /\ op' = op
  BY <1>1 DEF ClaimChosen, SchedTyped
<1>3. PICK d \in Days, g \in Gens, k \in Kinds : sched.job = <<d, g, k>>
  BY <1>2 DEF Jobs
<1> DEFINE j == <<d, g, k>>
<1>4. j \in Jobs /\ Idle.job = NoOne /\ Chosen("running", j).job = j
  BY <1>2, <1>3 DEF Idle, Chosen
<1>5. SamePlans(range', row') /\ UNCHANGED <<ordinal, ledger>>
  BY <1>1, <1>2, ClaimPlansNothing DEF ClaimChosen
<1>6. SamePlans(ReconciledRange, ReconciledRows)
  BY <1>1, ReconciliationPlansNothing
<1>7. ReconciledRows \in [Jobs -> Row] /\ ReconciledRows[j] \in Row
  BY <1>4, <1>6 DEF SamePlans
<1>8. ASSUME GrantClaim(j), sched' = Chosen("running", j) PROVE SlotInv'
  <2> DEFINE r == [status |-> "running", used |-> ReconciledRows[j].used + 1, lease |-> "live"]
  <2>1. r \in Row /\ r.status = "running"
    BY <1>7 DEF Row
  <2>2. row' = [ReconciledRows EXCEPT ![j] = r] /\ range' = ReconciledRange
    BY <1>7, <1>8 DEF GrantClaim
  <2>3. k = "date_sync" => row[<<d, g, "parent_sync">>].status = "success"
    <3>1. k = "date_sync" => ReconciledRows[<<d, g, "parent_sync">>].status = "success"
      BY <1>8 DEF GrantClaim, parent_sync_gate_allows_claim
    <3> QED
      BY <1>1, <3>1, ReconciledCollection
  <2>4. sched'.job = sched.job
    BY <1>3, <1>4, <1>8
  <2> HIDE DEF r
  <2> QED
    BY <1>2, <1>3, <1>5, <2>1, <2>2, <2>3, <2>4, ClaimKeepsSlot
<1>9. ASSUME FailClaim(j), sched' = Idle PROVE SlotInv'
  <2> DEFINE r == Closed(ReconciledRows[j], "failed")
  <2>1. r \in Row
    BY <1>7, RowConstructors DEF Terminal
  <2>2. r.status = "failed"
    BY <1>7 DEF Closed, Row
  <2>3. row' = [ReconciledRows EXCEPT ![j] = r] /\ range' = ReconciledRange
    BY <1>7, <1>9 DEF FailClaim
  <2>4. k = "date_sync" => row[<<d, g, "parent_sync">>].status = "success"
    <3>1. ReconciledRows[j].status = "running"
      BY <1>9 DEF FailClaim, ExpiredRunning
    <3>2. row[j].status = "running"
      BY <1>1, <3>1, ReconciliationAttends
    <3>3. PlanInOrder(row, range, d, g)
      BY <1>1 DEF InOrder
    <3> QED
      BY <3>2, <3>3 DEF PlanInOrder
  <2>5. sched'.job = NoOne
    BY <1>4, <1>9
  <2> HIDE DEF r
  <2> QED
    BY <1>2, <1>3, <1>5, <2>1, <2>2, <2>3, <2>4, <2>5, ClaimKeepsSlot
<1>10. ASSUME RefuseClaim(j), sched' = Idle PROVE SlotInv'
  <2>1. range' = ReconciledRange /\ row' = ReconciledRows /\ sched'.job = NoOne
    BY <1>4, <1>10 DEF RefuseClaim
  <2> QED
    BY <1>2, <1>5, <2>1, ReconciliationKeepsSlot
<1> QED
  BY <1>3, <1>8, <1>9, <1>10 DEF ClaimChosen

\* The outcome of the attempt the worker runs.
LEMMA OutcomeKeepsSlot ==
  ASSUME Planned, SlotInv, PersistOutcome PROVE SlotInv'
<1>1. RowTypes /\ SchedTyped(sched)
  BY TypeParts DEF Planned
<1>2. sched.job \in Jobs /\ op' = op /\ sched' = Idle
  BY <1>1 DEF PersistOutcome, SchedTyped
<1>3. PICK d \in Days, g \in Gens, k \in Kinds : sched.job = <<d, g, k>>
  BY <1>2 DEF Jobs
<1>4. sched'.job = NoOne /\ <<d, g, k>> # NoOne /\ <<d, g, k>> \in Jobs
  BY <1>2, <1>3, SchedulerAssumption DEF Idle
<1>5. CASE CompleteJob(<<d, g, k>>)
  BY <1>2, <1>4, <1>5, CompletionKeepsSlot
<1>6. CASE FailJob(<<d, g, k>>)
  <2>1. PICK s \in {"retry_wait", "failed"} :
          row' = [row EXCEPT ![<<d, g, k>>] = Closed(@, s)]
    BY <1>6 DEF FailJob
  <2> DEFINE r == Closed(row[<<d, g, k>>], s)
  <2>2. row[<<d, g, k>>].status = "running" /\ UNCHANGED <<range, ordinal>>
    BY <1>6 DEF FailJob
  <2>3. row[<<d, g, k>>] \in Row
    BY <1>1, <1>4 DEF RowTypes
  <2>4. r \in Row
    BY <2>3, RowConstructors DEF Terminal
  <2>5. r.status = s
    BY <2>3 DEF Closed, Row
  <2>6. row' = [row EXCEPT ![<<d, g, k>>] = r]
    BY <2>1
  <2> HIDE DEF r
  <2> QED
    BY <1>2, <1>4, <2>2, <2>4, <2>5, <2>6, RowStepKeepsSlot
<1> QED
  BY <1>3, <1>5, <1>6 DEF PersistOutcome

\* The lease of a row runs out, or an operator asks for another attempt of a failed one.
LEMMA RowControlKeepsSlot ==
  ASSUME "cancel" \notin Requests, Planned, SlotInv, NEW j \in Jobs,
         AbandonedLeaseExpires(j) \/ ControlRow(j)
  PROVE  SlotInv'
<1>1. RowTypes /\ Attended
  BY TypeParts DEF Planned, SlotInv
<1>2. UNCHANGED <<range, ordinal, sched, op>>
  BY DEF AbandonedLeaseExpires, LeaseExpires, ControlRow
<1>3. PICK d \in Days, g \in Gens, k \in Kinds : j = <<d, g, k>>
  BY DEF Jobs
<1>4. row[j] \in Row
  BY <1>1 DEF RowTypes
<1>5. CASE AbandonedLeaseExpires(j)
  <2> DEFINE r == [row[j] EXCEPT !.lease = "expired"]
  <2>1. row[j].status = "running" /\ row' = [row EXCEPT ![j] = r]
    BY <1>5 DEF AbandonedLeaseExpires, LeaseExpires
  <2>2. r \in Row /\ r.status = "running"
    BY <1>4, <2>1 DEF Row
  <2> HIDE DEF r
  <2> QED
    BY <1>2, <1>3, <2>1, <2>2, RowStepKeepsSlot
<1>6. CASE ControlRow(j)
  <2> DEFINE r == [row[j] EXCEPT !.status = "retry_wait"]
  <2>1. row[j].status = "failed" /\ row' = [row EXCEPT ![j] = r]
    BY <1>6 DEF ControlRow
  <2>2. r \in Row /\ r.status = "retry_wait"
    BY <1>4 DEF Row
  <2>3. sched.job # j
    BY <1>1, <1>3, <2>1 DEF Attended, Engaged, Claimable
  <2> HIDE DEF r
  <2> QED
    BY <1>2, <1>3, <2>1, <2>2, <2>3, RowStepKeepsSlot
<1> QED
  BY <1>5, <1>6

\* A retry of a range, written long after it was read: the range is open again.
LEMMA RetryKeepsSlot ==
  ASSUME Planned, SlotInv, NEW o \in Operators, WriteRange(o) PROVE SlotInv'
<1>1. RowTypes /\ OpTyped(op) /\ InOrder(row, range) /\ Attended /\ BaseFirst
      /\ NothingCancelled
  BY TypeParts DEF Planned, SlotInv
<1>2. op[o].plan \in Plans /\ range[op[o].plan] # "absent" /\ op[o].act = "retry"
  BY <1>1 DEF WriteRange, RangeRequest, Planned, RequestsPlanned, NothingCancelled
<1>3. /\ range' = [range EXCEPT ![op[o].plan] = "retry_wait"]
      /\ UNCHANGED <<row, ordinal, sched>>
      /\ op' = [op EXCEPT ![o] = NoOne]
  BY <1>2 DEF WriteRange
<1>4. ASSUME NEW d \in Days, NEW g \in Gens
      PROVE  \/ range'[<<d, g>>] = range[<<d, g>>]
             \/ range[<<d, g>>] # "absent" /\ range'[<<d, g>>] = "retry_wait"
  BY <1>1, <1>2, <1>3, JobsOfPlan DEF RowTypes
<1>5. InOrder(row', range')
  BY Zenon, <1>1, <1>3, <1>4 DEF InOrder, PlanInOrder
<1>6. BaseFirst'
  <2>1. Base \in Gens
    BY DEF Gens
  <2> QED
    BY <1>1, <1>4, <2>1 DEF BaseFirst
<1>7. Attended'
  <2>1. ASSUME NEW d \in Days, NEW g \in Gens, NEW k \in Kinds, Engaged(<<d, g, k>>)'
        PROVE  /\ Engaged(<<d, g, k>>)
               /\ row'[<<d, g, k>>].status \in Claimable
               /\ range'[<<d, g>>] \in {"pending", "retry_wait"}
    <3>1. Engaged(<<d, g, k>>)
      BY <1>3, <2>1 DEF Engaged
    <3> QED
      BY <1>1, <1>3, <1>4, <3>1 DEF Attended
  <2>2. \A d \in Days, g \in Gens : range'[<<d, g>>] = "absent" <=> range[<<d, g>>] = "absent"
    BY Zenon, <1>4
  <2> QED
    BY <1>1, <1>3, <2>1, <2>2, AttendedKept
<1>8. NothingCancelled'
  <2>1. ASSUME NEW q \in Operators, op'[q] \in RangeRequest PROVE op'[q].act = "retry"
    BY <1>1, <1>3, <2>1, SchedulerAssumption DEF OpTyped, NothingCancelled
  <2> QED
    BY <2>1 DEF NothingCancelled
<1> QED
  BY <1>5, <1>6, <1>7, <1>8 DEF SlotInv

\* Every step keeps the invariant of the slot, where nothing is cancelled and no
\* restamp loses an entry of a ledger.
LEMMA SlotStep ==
  ASSUME "cancel" \notin Requests, Planned, LedgerSound, SlotInv, [LosslessNext]_vars
  PROVE  SlotInv'
<1>t. RowTypes /\ MetaTyped /\ SchedTyped(sched) /\ OpTyped(op) /\ RowsPlanned
      /\ InOrder(row, range) /\ Attended
  BY TypeParts DEF Planned, SlotInv
<1>i. Idle.job = NoOne /\ \A j \in Jobs : Chosen("picked", j).job = j
  BY DEF Idle, Chosen
<1>n. ASSUME NEW o \in Operators, NEW q, op' = [op EXCEPT ![o] = q],
             q \in RangeRequest => q.act = "retry"
      PROVE  NothingCancelled'
  BY <1>t, <1>n DEF SlotInv, NothingCancelled, OpTyped
<1>o. op' = op => NothingCancelled'
  BY DEF SlotInv, NothingCancelled
<1>1. CASE DailyTick
  <2>1. today \in Days
    BY <1>t DEF MetaTyped
  <2>2. /\ UNCHANGED <<ordinal, op>>
        /\ range' = PlannedRange(today, Base) /\ row' = PlannedRows(today, Base)
    BY <1>1 DEF DailyTick
  <2>3. sched'.job \in {NoOne, select_candidate(range', row', today)}
    <3>1. select_candidate(range', row', today) \in Jobs \cup {NoOne}
      BY <2>1, SelectionTyped
    <3>2. \/ sched' = Idle
          \/ sched' = Chosen("picked", select_candidate(range', row', today))
             /\ select_candidate(range', row', today) # NoOne
      BY <1>1, <2>2 DEF DailyTick
    <3> QED
      BY <1>i, <3>1, <3>2
  <2> QED
    BY <2>1, <2>2, <2>3, TickKeepsSlot
<1>2. ASSUME NEW d \in Days, HistoryTick(d) PROVE SlotInv'
  <2>2. /\ UNCHANGED <<ordinal, op>>
        /\ range' = PlannedRange(d, Base) /\ row' = PlannedRows(d, Base)
    BY <1>2 DEF HistoryTick
  <2>3. sched'.job \in {NoOne, select_candidate(range', row', d)}
    <3>1. select_candidate(range', row', d) \in Jobs \cup {NoOne}
      BY SelectionTyped
    <3>2. \/ sched' = Idle
          \/ sched' = Chosen("picked", select_candidate(range', row', d))
             /\ select_candidate(range', row', d) # NoOne
      BY <1>2, <2>2 DEF HistoryTick
    <3> QED
      BY <1>i, <3>1, <3>2
  <2> QED
    BY <2>2, <2>3, TickKeepsSlot
<1>3. ASSUME NEW d \in Days, HistoryStampReads(d) PROVE SlotInv'
  <2>1. UNCHANGED <<range, row, ordinal, op>> /\ sched'.job = select_candidate(range, row, d)
    BY <1>3 DEF HistoryStampReads, dayVars
  <2>2. ASSUME NEW e \in Days, NEW g \in Gens, NEW k \in Kinds, Engaged(<<e, g, k>>)'
        PROVE  /\ row[<<e, g, k>>].status \in Claimable
               /\ range[<<e, g>>] \in {"pending", "retry_wait"}
               /\ g = winning_generation(range, e)
    <3>1. CASE row'[<<e, g, k>>].status = "running"
      BY <1>t, <2>1, <3>1 DEF Attended, Engaged
    <3>2. CASE sched'.job = <<e, g, k>>
      <4>1. select_candidate(range, row, d) = <<e, g, k>> /\ <<e, g, k>> # NoOne
        BY <2>1, <3>2, SchedulerAssumption DEF Jobs
      <4>2. PICK h \in Gens, i \in Kinds :
              /\ select_candidate(range, row, d) = <<d, h, i>>
              /\ row[<<d, h, i>>].status \in Claimable
              /\ range[<<d, h>>] \in {"pending", "retry_wait"}
              /\ h = winning_generation(range, d)
        BY <1>t, <4>1, ChoiceIsOwned DEF RowTypes, RowsPlanned
      <4>3. e = d /\ g = h /\ k = i
        BY <4>1, <4>2
      <4> QED
        BY <4>2, <4>3
    <3> QED
      BY <2>2, <3>1, <3>2 DEF Engaged
  <2>3. \A e \in Days : winning_generation(range, e)' = winning_generation(range, e)
    BY <2>1, WinnerKept
  <2>4. Attended'
    BY <2>1, <2>2, <2>3 DEF Attended
  <2> QED
    BY <2>1, <2>4 DEF SlotInv, BaseFirst, NothingCancelled
<1>4. CASE stamp_plan_metadata
  <2>1. sched'.job = sched.job
    BY <1>4, <1>i, <1>t DEF stamp_plan_metadata, SchedTyped
  <2> QED
    BY <1>4, <2>1, <1>o, QuietStepKeepsSlot DEF stamp_plan_metadata
<1>5. CASE ClaimChosen
  BY <1>5, ClaimChosenKeepsSlot
<1>6. CASE PersistOutcome
  BY <1>6, OutcomeKeepsSlot
<1>7. CASE Crash
  BY <1>7, <1>i, <1>o, QuietStepKeepsSlot DEF Crash, dayVars
<1>8. ASSUME NEW j \in Jobs, AbandonedLeaseExpires(j) \/ ControlRow(j) PROVE SlotInv'
  BY <1>8, RowControlKeepsSlot
<1>9. CASE DimensionJobStarts
  <2>1. /\ range' = ReconciledRange /\ row' = ReconciledRows
        /\ UNCHANGED <<ordinal, op, sched>>
    BY <1>9 DEF DimensionJobStarts, OtherHeavyJobStarts
  <2> QED
    BY <2>1, ReconciliationKeepsSlot
<1>10. CASE NewDay
  BY <1>10, <1>o, QuietStepKeepsSlot DEF NewDay, dayVars
<1>11. ASSUME NEW o \in Operators, NEW d \in Days, NEW g \in Gens, ReadRange(o, d, g)
       PROVE  SlotInv'
  <2>1. PICK q : q.act = "retry" /\ op' = [op EXCEPT ![o] = q]
    BY <1>11 DEF ReadRange
  <2>2. NothingCancelled'
    BY <1>n, <2>1
  <2>3. UNCHANGED <<range, row, ordinal, sched>>
    BY <1>11 DEF ReadRange, dayVars
  <2> QED
    BY <2>2, <2>3, QuietStepKeepsSlot
<1>12. ASSUME NEW o \in Operators, WriteRange(o) PROVE SlotInv'
  BY <1>12, RetryKeepsSlot
<1>13. ASSUME NEW o \in Operators, NEW d \in Days, NEW key \in Keys, ReadRecoveryKey(o, d, key)
       PROVE  SlotInv'
  <2>1. PICK q : q \notin RangeRequest /\ op' = [op EXCEPT ![o] = q]
    BY <1>13 DEF ReadRecoveryKey, RangeRequest
  <2>2. NothingCancelled'
    BY <1>n, <2>1
  <2>3. UNCHANGED <<range, row, ordinal, sched>>
    BY <1>13 DEF ReadRecoveryKey, dayVars
  <2> QED
    BY <2>2, <2>3, QuietStepKeepsSlot
<1>14. ASSUME NEW o \in Operators, recover_day_plan(o) PROVE SlotInv'
  <2>1. op[o].day \in Days /\ op[o].key \in Keys
    BY <1>14 DEF recover_day_plan, RecoverRequest
  <2>2. op' = [op EXCEPT ![o] = NoOne] /\ sched' = sched
    BY <1>14 DEF recover_day_plan
  <2>3. NothingCancelled'
    BY <1>n, <2>2, SchedulerAssumption
  <2>4. CASE plan_day_recovery(op[o].day, op[o].key)
    BY <2>1, <2>2, <2>3, <2>4, RecoveryKeepsSlot DEF SlotInv
  <2>5. CASE UNCHANGED dayVars
    BY <2>2, <2>3, <2>5, QuietStepKeepsSlot DEF dayVars
  <2> QED
    BY <1>14, <2>4, <2>5 DEF recover_day_plan
<1>15. CASE UNCHANGED vars
  BY <1>15, <1>o, QuietStepKeepsSlot DEF vars, dayVars
<1> QED
  BY <1>1, <1>2, <1>3, <1>4, <1>5, <1>6, <1>7, <1>8, <1>9, <1>10, <1>11, <1>12, <1>13,
     <1>14, <1>15 DEF LosslessNext, Next, Tick

\* The invariant of the slot puts whatever runs into the generation that owns its day.
LEMMA AttendedSlotNotStranded == Attended => SlotNotStranded
<1> SUFFICES ASSUME Attended, NEW j \in Jobs, row[j].status = "running"
             PROVE  j[2] = winning_generation(range, j[1])
  BY DEF SlotNotStranded
<1>1. PICK d \in Days, g \in Gens, k \in Kinds : j = <<d, g, k>>
  BY DEF Jobs
<1> QED
  BY <1>1 DEF Attended, Engaged

\* Reconciliation and planning start no attempt: a row they add has used none.
LEMMA NewRowsUnused ==
  ASSUME RowTypes, NEW j \in Jobs
  PROVE  /\ row[j].used \in Nat
         /\ ReconciledRows[j].used \in {row[j].used, 0}
         /\ \A d \in Days, g \in Gens : PlannedRows(d, g)[j].used \in {row[j].used, 0}
<1>1. NewRow.used = 0
  BY DEF NewRow, AbsentRow
<1>2. PICK e \in Days, h \in Gens, k \in Kinds : j = <<e, h, k>>
  BY DEF Jobs
<1>3. row[j].used \in Nat
  BY DEF RowTypes, Row
<1>4. ReconciledRows[j].used \in {row[j].used, 0}
  BY <1>1, <1>2, ReconciledRow
<1>5. \A d \in Days, g \in Gens : PlannedRows(d, g)[j].used \in {row[j].used, 0}
  BY <1>1, <1>2, PlannedRow
<1> QED
  BY <1>3, <1>4, <1>5

\* An attempt starts only when the claim of the chosen row is granted.
LEMMA OnlyTheChoiceStarts ==
  ASSUME Planned, [Next]_vars, NEW j \in Jobs, Started(j)
  PROVE  sched.job = j
<1> SUFFICES ASSUME sched.job # j PROVE FALSE
  OBVIOUS
<1>t. RowTypes /\ MetaTyped /\ SchedTyped(sched)
  BY TypeParts DEF Planned
<1>u. /\ row[j].used \in Nat
      /\ ReconciledRows[j].used \in {row[j].used, 0}
      /\ \A d \in Days, g \in Gens : PlannedRows(d, g)[j].used \in {row[j].used, 0}
  BY <1>t, NewRowsUnused
<1>s. ASSUME row'[j].used \in {row[j].used, 0} PROVE FALSE
  BY <1>s, <1>u DEF Started
<1>b. Base \in Gens
  BY DEF Gens
<1>1. CASE DailyTick
  BY <1>1, <1>b, <1>s, <1>t, <1>u DEF DailyTick, MetaTyped
<1>2. ASSUME NEW d \in Days, HistoryTick(d) PROVE FALSE
  BY <1>2, <1>b, <1>s, <1>u DEF HistoryTick
<1>3. ASSUME row' = row PROVE FALSE
  BY <1>3, <1>s
<1>4. ASSUME NEW d \in Days, HistoryStampReads(d) PROVE FALSE
  BY <1>3, <1>4 DEF HistoryStampReads, dayVars
<1>5. CASE stamp_plan_metadata \/ Crash \/ NewDay
  BY <1>3, <1>5 DEF stamp_plan_metadata, Crash, NewDay, dayVars
<1>6. CASE ClaimChosen
  <2>1. row' = ReconciledRows \/ \E r : row' = [ReconciledRows EXCEPT ![sched.job] = r]
    BY <1>6 DEF ClaimChosen, GrantClaim, FailClaim, RefuseClaim
  <2>2. row'[j] = ReconciledRows[j]
    BY <2>1 DEF ReconciledRows, reconcile_finalize_queue
  <2> QED
    BY <1>s, <1>u, <2>2
<1>7. CASE PersistOutcome
  <2>1. PICK rw, r : rw = [row EXCEPT ![sched.job] = r] /\
          (row' = rw \/ row' = enqueue_finalize_if_ready(rw, sched.job[1], sched.job[2]))
    BY <1>7 DEF PersistOutcome, CompleteJob, FailJob
  <2>2. row[j] = rw[j] /\ j \in DOMAIN rw
    BY <1>t, <2>1 DEF RowTypes
  <2>3. row'[j] \in {rw[j], NewRow}
    BY <2>1, <2>2 DEF enqueue_finalize_if_ready
  <2>4. NewRow.used = 0
    BY DEF NewRow, AbsentRow
  <2> QED
    BY <1>s, <2>2, <2>3, <2>4
<1>8. ASSUME NEW i \in Jobs, AbandonedLeaseExpires(i) \/ ControlRow(i) PROVE FALSE
  <2>1. row'[j].used = row[j].used
    BY <1>8, <1>t DEF AbandonedLeaseExpires, LeaseExpires, ControlRow, RowTypes, Row
  <2> QED
    BY <1>s, <2>1
<1>9. CASE DimensionJobStarts
  BY <1>9, <1>s, <1>u DEF DimensionJobStarts, OtherHeavyJobStarts
<1>10. ASSUME NEW o \in Operators, NEW d \in Days, NEW g \in Gens, ReadRange(o, d, g)
       PROVE  FALSE
  BY <1>3, <1>10 DEF ReadRange, dayVars
<1>11. ASSUME NEW o \in Operators, WriteRange(o) PROVE FALSE
  BY <1>3, <1>11 DEF WriteRange
<1>12. ASSUME NEW o \in Operators, NEW d \in Days, NEW key \in Keys, ReadRecoveryKey(o, d, key)
       PROVE  FALSE
  BY <1>3, <1>12 DEF ReadRecoveryKey, dayVars
<1>13. ASSUME NEW o \in Operators, recover_day_plan(o) PROVE FALSE
  <2>1. op[o].day \in Days /\ op[o].key \in Gens
    BY <1>13 DEF recover_day_plan, RecoverRequest, Gens
  <2>2. row' = PlannedRows(op[o].day, op[o].key) \/ row' = row
    BY <1>13 DEF recover_day_plan, plan_day_recovery, dayVars
  <2> QED
    BY <1>s, <1>u, <2>1, <2>2
<1>14. CASE UNCHANGED vars
  BY <1>3, <1>14 DEF vars, dayVars
<1> QED
  BY <1>1, <1>2, <1>4, <1>5, <1>6, <1>7, <1>8, <1>9, <1>10, <1>11, <1>12, <1>13, <1>14
  DEF Next, Tick

\* The inductive invariant of the heavy slot, for every set of days, keys and concurrent
\* requests: what runs or has been chosen is a claimable row of an open plan of the
\* generation that owns its day (winning_generation, claim_job).
THEOREM SlotInvariant ==
  ASSUME "cancel" \notin Requests
  PROVE  LosslessSpec => [](Planned /\ LedgerSound /\ SlotInv)
<1>1. Init => Planned /\ LedgerSound /\ SlotInv
  BY PlannedInit, LedgerInit, SlotInit
<1>2. Planned /\ LedgerSound /\ SlotInv /\ [LosslessNext]_vars
        => (Planned /\ LedgerSound /\ SlotInv)'
  <2>1. [LosslessNext]_vars => [Next]_vars
    BY DEF LosslessNext
  <2> QED
    BY <2>1, PlannedStep, LedgerStep, SlotStep
<1> QED
  BY <1>1, <1>2, PTL DEF LosslessSpec

\* The heavy slot is never left with a row that no tick offers again: recovery of a day is
\* admitted only when no generation of it is in flight (_in_flight_generation), so the
\* running row always belongs to the generation that owns its day (winning_generation).
\* An operator who cancels breaks this: a cancelled range may be recovered while its row
\* still runs on an expired lease.
THEOREM SlotIsNotStranded ==
  ASSUME "cancel" \notin Requests
  PROVE  LosslessSpec => []SlotNotStranded
<1>1. Planned /\ LedgerSound /\ SlotInv => SlotNotStranded
  BY AttendedSlotNotStranded DEF SlotInv
<1> QED
  BY <1>1, SlotInvariant, PTL

\* A worker that has chosen a row and claims it by id later never starts one of a
\* superseded generation, whatever retries and recoveries commit in between: the day is
\* not recoverable while the chosen row is claimable (_day_state, no_other_running_heavy_job).
THEOREM SupersededIsNotClaimed ==
  ASSUME "cancel" \notin Requests
  PROVE  LosslessSpec => SupersededNotClaimed
<1>1. ASSUME Planned, LedgerSound, SlotInv, [LosslessNext]_vars, NEW j \in Jobs, Started(j)
      PROVE  j[2] = winning_generation(range, j[1])
  <2>1. [Next]_vars
    BY <1>1 DEF LosslessNext
  <2>2. sched.job = j
    BY <1>1, <2>1, OnlyTheChoiceStarts
  <2>3. PICK d \in Days, g \in Gens, k \in Kinds : j = <<d, g, k>>
    BY DEF Jobs
  <2>4. Attended /\ Engaged(<<d, g, k>>)
    BY <1>1, <2>2, <2>3 DEF SlotInv, Engaged
  <2>5. g = winning_generation(range, d)
    BY <2>4 DEF Attended
  <2> QED
    BY <2>3, <2>5
<1>2. Planned /\ LedgerSound /\ SlotInv /\ [LosslessNext]_vars =>
        [\A j \in Jobs : Started(j) => j[2] = winning_generation(range, j[1])]_vars
  BY <1>1
<1> QED
  BY <1>2, SlotInvariant, PTL DEF LosslessSpec, SupersededNotClaimed
=============================================================================
