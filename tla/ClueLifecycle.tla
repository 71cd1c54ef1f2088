---------------------------- MODULE ClueLifecycle ----------------------------
(***************************************************************************)
(* The life of a clue: collected evidence about its order, the master lead, *)
(* its one formal assignment round, the follow-up records of the store, the *)
(* headquarters pool and the clue center's copy.  Writers are the daily     *)
(* materializer and center projection, the first-allocation batch (woken by *)
(* a notification or by its own compensation loop), the follow-up API and   *)
(* two repair commands.  Every writer locks master, round and center in     *)
(* this order, so each commit is one step; but evidence is read before the  *)
(* locks, and each phase of a batch is a transaction of its own.            *)
(*                                                                          *)
(* Every lead has an order of its own.  Times count the observations of a   *)
(* lead's sources; a record's time is its index.                            *)
(***************************************************************************)
EXTENDS Naturals, Sequences, FiniteSets, FiniteSetsExt, SequencesExt

CONSTANTS
  MaxLead,      \* leads are 1..MaxLead, in the order of their keys
  Labels,       \* what order, clue and coupon rows may say
  Proofs,       \* terminal evidence of other sources
  PageSize,     \* max_items and CENTER_REPAIR_BATCH_SIZE
  Invalid,      \* leads for which allocate_lead raises
  MaxFaults,    \* bound: crashes, lost leases and exceeded deadlines
  MaxEvents     \* bound on observations, records and faults together, by the number of leads reported

Leads == 1..MaxLead
Terminal == {"verified", "refunded", "closed"}
ActiveStatuses == {"active_unfollowed", "active_followed"}
Protecting == {"appointment", "unreachable"}   \* PROTECTION_ACTIONS; further_follow_up is like both
NoProof == "none"

ASSUME ClueAssumption ==
  /\ MaxLead \in Nat \ {0} /\ PageSize \in Nat \ {0}
  /\ MaxFaults \in Nat /\ MaxEvents \in [Leads -> Nat]
  /\ Labels \subseteq {"active", "unknown", "closed"} /\ Proofs \subseteq Terminal
  /\ Invalid \subseteq Leads

VARIABLES
  raw,      \* raw tables: [label, at, proof, pat, seen]
  task,     \* open work of JobImpact: which phases still have to handle the lead
  clue,     \* [lead, round, rec, center, entry]
  mat,      \* the materialization in progress and what it has read
  batch,    \* run_formal_allocation_batch
  cursor,   \* the two durable cursors of sync_setting
  faults

vars == <<raw, task, clue, mat, batch, cursor, faults>>

NoMat == [by |-> "none", read |-> <<>>]
Idle == [pc |-> "idle", exact |-> {}, todo |-> {}, key |-> 0]
NoPlace == [pool |-> "none", alloc |-> "none"]

Init ==
  /\ raw = [l \in Leads |-> [label |-> "unknown", at |-> 0, proof |-> NoProof, pat |-> 0, seen |-> 0]]
  /\ task = [l \in Leads |-> {}]
  /\ clue = [l \in Leads |->
       [lead |-> [known |-> FALSE, status |-> "none", at |-> 0, seen |-> 0,
                  place |-> NoPlace, cur |-> FALSE, anchored |-> TRUE],
        round |-> [status |-> "none", result |-> "pending", since |-> 0],
        rec |-> <<>>,
        center |-> [shown |-> FALSE, ptr |-> FALSE, lead |-> "none", round |-> "none", result |-> "none"],
        entry |-> "none"]]
  /\ mat = NoMat /\ batch = Idle
  /\ cursor = [alloc |-> 0, repair |-> 0]
  /\ faults = 0

-----------------------------------------------------------------------------
(* The sources.  The platform may report anything; each report is an impact *)
(* that the materializer has to handle.                                     *)

Now(l) == Max({raw[l].at, raw[l].pat, raw[l].seen})

Reported == {l \in Leads : raw[l].seen > 0}

Bounded(S) ==
  S # {} /\ faults + MapThenSumSet(Now, Leads) + MapThenSumSet(LAMBDA l : Len(clue[l].rec), Leads)
    < MaxEvents[Cardinality(S)]

Collected(l, r) ==
  /\ Bounded(Reported \cup {l})
  /\ raw' = [raw EXCEPT ![l] = r]
  /\ task' = [task EXCEPT ![l] = @ \cup {"raw"}]
  /\ UNCHANGED <<clue, mat, batch, cursor, faults>>

\* A clue row, alone or with the status of its order.
CollectClue(l) ==
  \E s \in Labels \cup {raw[l].label} :
    Collected(l, [raw[l] EXCEPT !.seen = Now(l) + 1, !.label = s,
                                !.at = IF s = raw[l].label THEN @ ELSE Now(l) + 1])
CollectOrder(l) ==
  \E s \in Labels : raw[l].seen > 0 /\ Collected(l, [raw[l] EXCEPT !.label = s, !.at = Now(l) + 1])
CollectProof(l) ==
  \E p \in Proofs : raw[l].seen > 0 /\ Collected(l, [raw[l] EXCEPT !.proof = p, !.pat = Now(l) + 1])

\* _resolution_with_terminal_evidence over _resolve_status, and the later clock.
Resolved(r) == IF r.proof # NoProof THEN r.proof ELSE r.label
ObservedAt(r) == IF r.proof # NoProof THEN Max({r.at, r.pat}) ELSE r.at

\* load_terminal_evidence(...).is_terminal
HasTerminalEvidence(l) == Resolved(raw[l]) \in Terminal

-----------------------------------------------------------------------------
(* The record of a clue.                                                   *)

\* closed_verified, closed_refunded and closed_order are "closed"; which one it is
\* says the status.
Lifecycle(status) ==
  IF status \in Terminal THEN "closed" ELSE IF status = "active" THEN "active" ELSE "status_review"

ActiveRound(c) == c.round.status \in ActiveStatuses

\* _active_self_owned_current_round
CurrentRoundActive(c) == c.lead.cur /\ ActiveRound(c)

\* _is_current_active_round
Operable(c) == CurrentRoundActive(c) /\ c.lead.status = "active" /\ c.lead.place.pool = "store"

\* _terminal_round_status, _terminal_center_lead_status
ClosedAs(status) ==
  IF status = "verified" THEN "closed_order_verified"
  ELSE IF status = "refunded" THEN "closed_order_refunded"
  ELSE IF status = "closed" THEN "closed_order_closed" ELSE "closed_order_status_unknown"
ShownAs(status) ==
  IF status = "verified" THEN "converted" ELSE IF status \in Terminal THEN status ELSE "status_review"

\* Where a lead belongs: closed, under review, with its store, at headquarters, or
\* waiting for its first store.
Place(c, life, toHeadquarters) ==
  IF life # "active" THEN [pool |-> life, alloc |-> life]
  ELSE IF CurrentRoundActive(c) THEN [pool |-> "store", alloc |-> "assigned"]
  ELSE IF toHeadquarters THEN [pool |-> "headquarters", alloc |-> "headquarters"]
  ELSE [pool |-> "none", alloc |-> "pending_allocation"]

\* Mutant: newer evidence always wins.
Accepts_newer(c, status, at) == at >= c.lead.at

\* _accepts_status_evidence
Accepts(c, status, at) ==
  at >= c.lead.at /\ (c.lead.status \in Terminal => status \in Terminal)

\* close_current_headquarters_pool_entry
EntryClosed(c) == IF c.entry = "active" THEN "closed" ELSE c.entry

\* Mutant: the pool entry of a closed lead stays active.
Closed_entry(c) ==
  LET mine == c.lead.cur \/ c.center.ptr
      reaches == c.center.shown /\ (c.lead.cur => c.center.ptr)
  IN  [c EXCEPT !.round.status = IF mine THEN ClosedAs(c.lead.status) ELSE @,
                !.center.lead = IF reaches THEN ShownAs(c.lead.status) ELSE @,
                !.center.round = IF reaches THEN ClosedAs(c.lead.status) ELSE @]

\* close_current_headquarters_pool_entry and _close_current_assignment of a lead that
\* is not active: the round is the master's or, if it has none, the center's; the
\* center is left alone when it shows another round than the master's.
Closed(c) ==
  LET mine == c.lead.cur \/ c.center.ptr
      reaches == c.center.shown /\ (c.lead.cur => c.center.ptr)
  IN  [c EXCEPT !.entry = EntryClosed(c),
                !.round.status = IF mine THEN ClosedAs(c.lead.status) ELSE @,
                !.center.lead = IF reaches THEN ShownAs(c.lead.status) ELSE @,
                !.center.round = IF reaches THEN ClosedAs(c.lead.status) ELSE @]

-----------------------------------------------------------------------------
(* materialize_clue_master_leads on a page of leads: evidence is read, then *)
(* the masters are locked and written.                                      *)

\* The loop over raw rows, for an observation newer than the last one seen.
Refreshed(c, r, anchored) ==
  LET ok == Accepts(c, Resolved(r), ObservedAt(r))
      status == IF ok THEN Resolved(r) ELSE c.lead.status
      waits == c.entry = "active" \/ c.lead.place.pool = "headquarters" \/ ~anchored
  IN  [c EXCEPT !.lead = [@ EXCEPT !.known = TRUE, !.status = status, !.seen = r.seen,
                                   !.at = IF ok THEN ObservedAt(r) ELSE c.lead.at,
                                   !.anchored = anchored,
                                   !.place = Place(c, Lifecycle(status), waits)]]

\* _apply_independent_status_evidence
Reassessed(c, status, at, relabelled) ==
  LET moved == status # c.lead.status \/ relabelled
      waits == c.lead.place.pool = "headquarters" \/ ~c.lead.anchored
  IN  [c EXCEPT !.lead = [@ EXCEPT !.status = status, !.at = at,
                                   !.place = IF Lifecycle(status) # "active" \/ moved
                                             THEN Place(c, Lifecycle(status), waits) ELSE c.lead.place]]

\* The second loop, over the masters that were written.
Settled(c) ==
  IF Lifecycle(c.lead.status) # "active" THEN Closed(c)
  ELSE IF c.lead.place.pool = "headquarters" THEN [c EXCEPT !.entry = "active"] ELSE c

\* A row no newer than the last one seen only brings status evidence; a page that
\* changes nothing leaves the center and the pool alone.
Materialized(c, r, anchored, relabelled) ==
  LET status == Resolved(r)
      applied == Reassessed(c, status, ObservedAt(r), relabelled)
  IN  IF ~c.lead.known \/ r.seen > c.lead.seen THEN Settled(Refreshed(c, r, anchored))
      ELSE IF ~Accepts(c, status, ObservedAt(r)) THEN c
      ELSE IF applied.lead.place # c.lead.place \/ status # c.lead.status \/ relabelled \/ status \in Terminal
           THEN Settled(applied) ELSE applied

Reads(page, by) ==
  /\ mat = NoMat
  /\ mat' = [by |-> by, read |-> [l \in page |-> raw[l]]]

Writes ==
  LET page == DOMAIN mat.read IN
    /\ \E anchored, relabelled \in [page -> BOOLEAN] :
         clue' = [l \in Leads |->
                    IF l \in page THEN Materialized(clue[l], mat.read[l], anchored[l], relabelled[l])
                    ELSE clue[l]]
    /\ mat' = NoMat

\* _process_incremental_clue_work_item, raw phase.  Evidence that arrives after the
\* read is an impact of its own.
MaterializeReads(l) ==
  /\ "raw" \in task[l] /\ raw[l].seen > 0
  /\ Reads({l}, "daily")
  /\ UNCHANGED <<raw, task, clue, batch, cursor, faults>>

MaterializeCommits ==
  /\ mat.by = "daily"
  /\ Writes
  /\ task' = [l \in Leads |->
                IF l \notin DOMAIN mat.read THEN task[l]
                ELSE (IF raw[l] = mat.read[l] THEN task[l] \ {"raw"} ELSE task[l]) \cup {"center"}]
  /\ UNCHANGED <<raw, batch, cursor, faults>>

\* A lost lease, a failed page fence or an exception: rolled back, to be retried.
MaterializeFails ==
  /\ mat.by = "daily" /\ faults < MaxFaults /\ Bounded(Reported)
  /\ mat' = NoMat /\ faults' = faults + 1
  /\ UNCHANGED <<raw, task, clue, batch, cursor>>

-----------------------------------------------------------------------------
(* refresh_clue_center_projection                                          *)

\* _project_unassigned_state
DisplayState(c) ==
  LET life == Lifecycle(c.lead.status) IN
    IF c.lead.known /\ life # "active" THEN ShownAs(c.lead.status)
    ELSE IF c.lead.place.pool = "headquarters" THEN "headquarters"
    ELSE IF c.lead.place.alloc = "pending_reassign" THEN "pending_reassign"
    ELSE "pending_allocation"

\* The center shows the master's active round, or the state of the lead and what is
\* left of its closed round (_formal_round_for_projection, _lead_status_for_projection).
Projected(c, verified) ==
  [c EXCEPT !.center =
     IF CurrentRoundActive(c)
     THEN [shown |-> TRUE, ptr |-> TRUE, round |-> c.round.status, result |-> c.round.result,
           lead |-> IF Lifecycle(c.lead.status) # "active" THEN ShownAs(c.lead.status)
                    ELSE IF c.round.since > 0 /\ verified THEN "converted" ELSE "active"]
     ELSE [shown |-> TRUE, ptr |-> FALSE, round |-> DisplayState(c), lead |-> DisplayState(c),
           result |-> IF c.round.status = "none" \/ ActiveRound(c) THEN "pending" ELSE c.round.result]]

\* A closed or doubtful lead without a center order does not get one.
Projectable(c) == c.center.shown \/ ~c.lead.known \/ Lifecycle(c.lead.status) = "active"

\* A row that is no longer in use, or only paid while its lead is not active, may be
\* passed over.
RefreshedCenters(S) ==
  \E skipped \in SUBSET {l \in S : raw[l].label # "active" \/ Lifecycle(clue[l].lead.status) # "active"} :
    clue' = [l \in Leads |->
               IF l \in S \ skipped /\ Projectable(clue[l])
               THEN Projected(clue[l], raw[l].proof = "verified") ELSE clue[l]]

\* _process_incremental_clue_work_item, center phase; the callback on_center_batch
\* comes after the commit.
RefreshCenter(l) ==
  /\ "center" \in task[l]
  /\ RefreshedCenters({l})
  /\ task' = [task EXCEPT ![l] = (@ \ {"center"}) \cup {"notify"}]
  /\ UNCHANGED <<raw, mat, batch, cursor, faults>>

-----------------------------------------------------------------------------
(* run_formal_allocation_batch: one at a time, each phase a transaction.   *)

\* _eligible_without_center: an active lead that never had a round or a pool entry.
Waiting(l) ==
  LET c == clue[l] IN
    /\ c.lead.known /\ c.lead.status = "active"
    /\ c.lead.place.alloc = "pending_allocation" /\ ~c.lead.cur
    /\ c.lead.place.pool # "headquarters"
    /\ c.round.status = "none" /\ c.entry = "none"

\* _eligible
Eligible(l) == Waiting(l) /\ clue[l].center.shown

\* The first leads of a keyset page; an exact batch has its own set of orders.
Page(S, after, exact) ==
  IF exact # {} THEN S \cap exact
  ELSE LET later == {l \in S : l > after} IN {l \in later : Cardinality({k \in later : k < l}) < PageSize}

\* Only compensation moves the cursors.
Save(which, value, exact) ==
  cursor' = IF exact = {} THEN [cursor EXCEPT ![which] = value] ELSE cursor

\* _repair_missing_center_projection: the leads that wait without a center order.
StartBatch(exact) ==
  LET found == Page({l \in Leads : Waiting(l) /\ ~clue[l].center.shown}, cursor.repair, exact) IN
    /\ batch' = [pc |-> IF found = {} THEN "select" ELSE "read", exact |-> exact, todo |-> found, key |-> 0]
    /\ IF found = {} THEN Save("repair", 0, exact) ELSE UNCHANGED cursor

Compensate ==
  /\ batch = Idle
  /\ StartBatch({})
  /\ UNCHANGED <<raw, task, clue, mat, faults>>

\* notify_formal_allocation: lost when the batch lock is taken.
Notify(l) ==
  /\ "notify" \in task[l]
  /\ task' = [task EXCEPT ![l] = @ \ {"notify"}]
  /\ IF batch = Idle THEN StartBatch({l}) ELSE UNCHANGED <<batch, cursor>>
  /\ UNCHANGED <<raw, clue, mat, faults>>

\* The page is materialized unless another materialization holds the lock.
RepairReads ==
  /\ batch.pc = "read"
  /\ \/ /\ Reads(batch.todo, "repair")
        /\ batch' = [batch EXCEPT !.pc = "write"]
     \/ /\ mat # NoMat
        /\ UNCHANGED mat
        /\ batch' = [batch EXCEPT !.pc = "select", !.todo = {}]
  /\ UNCHANGED <<raw, task, clue, cursor, faults>>

RepairCommits ==
  /\ batch.pc = "write"
  /\ Writes
  /\ batch' = [batch EXCEPT !.pc = "project"]
  /\ UNCHANGED <<raw, task, cursor, faults>>

\* What still waits is projected; then the page is passed.
RepairProjects ==
  /\ batch.pc = "project"
  /\ RefreshedCenters({l \in batch.todo : Waiting(l) /\ ~clue[l].center.shown})
  /\ batch' = [batch EXCEPT !.pc = "select", !.todo = {}]
  /\ Save("repair", Max(batch.todo), batch.exact)
  /\ UNCHANGED <<raw, task, mat, faults>>

\* Mutant: an empty page does not rewind the cursor.
SelectPage_stays ==
  LET found == Page({l \in Leads : Eligible(l)}, cursor.alloc, batch.exact) IN
    /\ batch.pc = "select"
    /\ batch' = IF found = {} THEN Idle ELSE [batch EXCEPT !.pc = "allocate", !.todo = found]
    /\ UNCHANGED <<raw, task, clue, mat, cursor, faults>>

\* The page of leads to allocate; an empty one rewinds the cursor.
SelectPage ==
  LET found == Page({l \in Leads : Eligible(l)}, cursor.alloc, batch.exact) IN
    /\ batch.pc = "select"
    /\ batch' = IF found = {} THEN Idle ELSE [batch EXCEPT !.pc = "allocate", !.todo = found]
    /\ IF found = {} THEN Save("alloc", 0, batch.exact) ELSE UNCHANGED cursor
    /\ UNCHANGED <<raw, task, clue, mat, faults>>

\* refresh_terminal_evidence_for_locked_lead: never older than what the lead has seen.
ClosedByEvidence(c, r) ==
  Closed(Reassessed(c, Resolved(r), Max({ObservedAt(r), c.lead.at}), FALSE))

\* _project_self_owned_assignment
Assigned(c) ==
  [c EXCEPT !.lead.place = [pool |-> "store", alloc |-> "assigned"], !.lead.cur = TRUE,
            !.round = [status |-> "active_unfollowed", result |-> "pending", since |-> 0],
            !.entry = EntryClosed(c),
            !.center = [shown |-> TRUE, ptr |-> TRUE, lead |-> "active",
                        round |-> "active_unfollowed", result |-> "pending"]]

\* _project_headquarters; the center does not show a round of a first allocation.
SentToHeadquarters(c) ==
  [c EXCEPT !.lead.place = [pool |-> "headquarters", alloc |-> "headquarters"], !.entry = "active"]

\* The body of the loop and allocate_lead.  The status is resolved anew without the
\* evidence that only load_terminal_evidence reads; rules and candidate stores decide
\* between store and headquarters.
Allocate(l) ==
  LET c == clue[l] IN
    IF ~Eligible(l) \/ raw[l].label # "active" THEN clue' = clue
    ELSE IF HasTerminalEvidence(l) THEN clue' = [clue EXCEPT ![l] = ClosedByEvidence(c, raw[l])]
    ELSE IF l \in Invalid THEN clue' = clue
    ELSE \E placed \in {Assigned(c), SentToHeadquarters(c)} : clue' = [clue EXCEPT ![l] = placed]

AllocateNext ==
  /\ batch.pc = "allocate"
  /\ LET l == Min(batch.todo) IN
       /\ Allocate(l)
       /\ batch' = [batch EXCEPT !.pc = "save", !.todo = @ \ {l}, !.key = l]
  /\ UNCHANGED <<raw, task, mat, cursor, faults>>

\* The checkpoint in the finally clause.
SaveCursor ==
  /\ batch.pc = "save"
  /\ batch' = IF batch.todo = {} THEN Idle ELSE [batch EXCEPT !.pc = "allocate", !.key = 0]
  /\ Save("alloc", batch.key, batch.exact)
  /\ UNCHANGED <<raw, task, clue, mat, faults>>

\* Mutant: the materialization lock outlives its holder.
BatchStops_locked ==
  /\ batch # Idle /\ faults < MaxFaults /\ Bounded(Reported)
  /\ batch' = Idle /\ faults' = faults + 1
  /\ UNCHANGED <<raw, task, clue, mat, cursor>>

\* The deadline passes or the process dies; what was committed stays.
BatchStops ==
  /\ batch # Idle /\ faults < MaxFaults /\ Bounded(Reported)
  /\ batch' = Idle /\ faults' = faults + 1
  /\ mat' = IF mat.by = "repair" THEN NoMat ELSE mat
  /\ UNCHANGED <<raw, task, clue, cursor>>

-----------------------------------------------------------------------------
(* Follow-up by the store and its administration.                          *)

\* Mutant: the protection starts anew with every record.
FollowedUp_anew(c, result) ==
  LET n == Len(c.rec) + 1 IN
    [c EXCEPT !.rec = Append(@, [result |-> result, deleted |-> FALSE]),
              !.round = [status |-> "active_followed", result |-> result, since |-> n],
              !.center = IF @.ptr THEN [@ EXCEPT !.lead = "active", !.round = "active_followed",
                                                 !.result = result] ELSE @]

\* _apply_visible_summary, _project_current_round_summary
FollowedUp(c, result) ==
  LET n == Len(c.rec) + 1 IN
    [c EXCEPT !.rec = Append(@, [result |-> result, deleted |-> FALSE]),
              !.round = [status |-> "active_followed", result |-> result,
                         since |-> IF @.since = 0 THEN n ELSE @.since],
              !.center = IF @.ptr THEN [@ EXCEPT !.lead = "active", !.round = "active_followed",
                                                 !.result = result] ELSE @]

\* _close_for_reassignment by a lost clue or a request for another store.
GivenUp(c) ==
  [c EXCEPT !.rec = Append(@, [result |-> "lost", deleted |-> FALSE]),
            !.round = [@ EXCEPT !.status = "closed_reassigned", !.result = "lost"],
            !.lead.cur = FALSE,
            !.lead.place = [pool |-> "none", alloc |-> "pending_reassign"],
            !.center = IF @.ptr THEN [@ EXCEPT !.lead = "pending_reassign",
                                               !.round = "closed_reassigned", !.result = "lost"] ELSE @]

\* apply_follow_up_action.  A refusal is a 409 that rolls the session back, so the
\* terminal evidence it met is not applied.
FollowUp(l) ==
  /\ Bounded(Reported)
  /\ ~HasTerminalEvidence(l) /\ Operable(clue[l])
  /\ \E after \in {FollowedUp(clue[l], r) : r \in Protecting} \cup {GivenUp(clue[l])} :
       clue' = [clue EXCEPT ![l] = after]
  /\ UNCHANGED <<raw, task, mat, batch, cursor, faults>>

Kept(rec) == {i \in DOMAIN rec : ~rec[i].deleted}

\* _recalculate_active_round_summary
Recalculated(c) ==
  LET kept == Kept(c.rec)
      round == IF kept = {} THEN [status |-> "active_unfollowed", result |-> "pending", since |-> 0]
               ELSE [status |-> "active_followed", result |-> c.rec[Max(kept)].result, since |-> Min(kept)]
  IN  [c EXCEPT !.round = round,
                !.center = IF @.ptr THEN [@ EXCEPT !.lead = "active", !.round = round.status,
                                                   !.result = round.result] ELSE @]

\* soft_delete_follow_up_record; the summary of a closed round is not touched.
DeleteRecord(l) ==
  /\ \E i \in Kept(clue[l].rec) :
       LET c == [clue[l] EXCEPT !.rec[i].deleted = TRUE] IN
         clue' = [clue EXCEPT ![l] = IF Operable(c) THEN Recalculated(c) ELSE c]
  /\ UNCHANGED <<raw, task, mat, batch, cursor, faults>>

-----------------------------------------------------------------------------
(* Repair commands, run by hand beside everything else.                    *)

\* refresh_unknown_clue_master_statuses: the label alone, whatever its clock.
RefreshUnknown(l) ==
  LET c == clue[l]
      status == raw[l].label
      place == IF Lifecycle(status) = "active" /\ c.lead.place.pool = "headquarters"
               THEN c.lead.place ELSE Place(c, Lifecycle(status), FALSE)
      next == [c EXCEPT !.lead.status = status, !.lead.place = place]
  IN  /\ c.lead.known /\ c.lead.status = "unknown"
      /\ next # c
      /\ clue' = [clue EXCEPT ![l] = IF Lifecycle(status) = "active" THEN next ELSE Closed(next)]
      /\ UNCHANGED <<raw, task, mat, batch, cursor, faults>>

\* synchronize_non_active_clue_states: closes what is left open behind a lead that is
\* not active, and brings its center order in line.
SynchronizeClosed(l) ==
  LET c == clue[l]
      differs == c.center.lead # ShownAs(c.lead.status) \/ c.center.round # ClosedAs(c.lead.status)
      round == IF ActiveRound(c) \/ (c.center.ptr /\ differs) THEN ClosedAs(c.lead.status) ELSE c.round.status
      next == [c EXCEPT !.entry = EntryClosed(c),
                        !.round.status = round,
                        !.center.lead = IF c.center.shown THEN ShownAs(c.lead.status) ELSE @,
                        !.center.round = IF c.center.shown THEN ClosedAs(c.lead.status) ELSE @]
  IN  /\ c.lead.known /\ Lifecycle(c.lead.status) # "active"
      /\ next # c
      /\ clue' = [clue EXCEPT ![l] = next]
      /\ UNCHANGED <<raw, task, mat, batch, cursor, faults>>

-----------------------------------------------------------------------------
Batch ==
  \/ Compensate
  \/ RepairReads \/ RepairCommits \/ RepairProjects
  \/ SelectPage \/ AllocateNext \/ SaveCursor

Next ==
  \/ Batch \/ BatchStops
  \/ MaterializeCommits \/ MaterializeFails
  \/ \E l \in Leads :
       \/ CollectClue(l) \/ CollectOrder(l) \/ CollectProof(l)
       \/ MaterializeReads(l) \/ RefreshCenter(l) \/ Notify(l)
       \/ FollowUp(l) \/ DeleteRecord(l)
       \/ RefreshUnknown(l) \/ SynchronizeClosed(l)

Spec == Init /\ [][Next]_vars

\* The compensation loop runs every minute for as long as the scheduler lives, and
\* the daily task works off open impacts.  Notifications, center refreshes, stores
\* and repair commands are not assumed to act.
FairSpec ==
  /\ Spec
  /\ WF_vars(Batch) /\ WF_vars(MaterializeCommits)
  /\ \A l \in Leads : WF_vars(MaterializeReads(l))

-----------------------------------------------------------------------------
(* Properties                                                              *)

\* Every variable has its type; a lead refers to a round only if it
\* has one; the repair alone holds a page it has not written.
ClueOK ==
  /\ \A l \in Leads :
       /\ raw[l].label \in {"active", "unknown", "closed"} /\ raw[l].proof \in Proofs \cup {NoProof}
       /\ task[l] \subseteq {"raw", "center", "notify"}
       /\ clue[l].entry \in {"none", "active", "closed"}
       /\ clue[l].round.since \in 0..Len(clue[l].rec)
       /\ clue[l].lead.at <= Now(l) /\ clue[l].lead.seen <= raw[l].seen
       /\ clue[l].round.status = "none" => ~clue[l].lead.cur /\ ~clue[l].center.ptr
  /\ mat.by \in {"none", "daily", "repair"} /\ DOMAIN mat.read \subseteq Leads
  /\ batch.todo \subseteq Leads /\ batch.exact \subseteq Leads
  /\ (batch.pc = "write") = (mat.by = "repair")
  /\ cursor.alloc \in 0..MaxLead /\ cursor.repair \in 0..MaxLead
  /\ faults \in 0..MaxFaults

\* A lead is in one place, and every table agrees which: with a store exactly while
\* its round is active and is the master's current one, at headquarters exactly while
\* it has an active pool entry (materialize_clue_master_leads, allocate_lead,
\* apply_follow_up_action and the repair commands, in any order).
OnePlace ==
  \A l \in Leads :
    LET c == clue[l] IN
      /\ (c.lead.place.pool = "store") = ActiveRound(c)
      /\ ActiveRound(c) => c.lead.cur /\ c.lead.status = "active"
      /\ (c.lead.place.pool = "headquarters") = (c.entry = "active")

\* What the clue center shows of a round is the round, and what an active round says
\* of itself follows from the records that were not deleted: the latest result, and
\* the protection counted from the first (FollowedUp step by step, against
\* _recalculate_active_round_summary).
SummaryInStep ==
  \A l \in Leads :
    LET c == clue[l]  kept == Kept(c.rec) IN
      /\ c.center.ptr => c.center.round = c.round.status /\ c.center.result = c.round.result
      /\ ActiveRound(c) =>
           /\ c.round.since = Min(kept \cup {Len(c.rec) + 1}) % (Len(c.rec) + 1)
           /\ c.round.result = IF kept = {} THEN "pending" ELSE c.rec[Max(kept)].result

\* Nothing is reopened: a lead closed by its order stays closed although a materializer
\* may hold older evidence, its evidence clock never goes back, and a closed round is
\* never active again ("关闭轮次不会复活为当前轮",
\* docs/plans/delivery-plans/sub-delivery-plan-dydata-clue-platform-completion-T1.1-dydata-34.md:31).
NothingReopens ==
  [][\A l \in Leads :
       /\ clue[l].lead.status \in Terminal => clue'[l].lead.status \in Terminal
       /\ clue'[l].lead.at >= clue[l].lead.at
       /\ clue[l].round.status # "none" /\ ~ActiveRound(clue[l]) => ~ActiveRound(clue'[l])]_vars

\* A lead waiting for its first allocation does not wait for ever, with or without a
\* center order, although another lead fails each time ("so an invalid head row cannot
\* starve later leads", run_formal_allocation_batch).
FirstAllocationServed ==
  \A l \in Leads \ Invalid : Waiting(l) ~> ~Waiting(l)
=============================================================================
