----------------------------- MODULE ClueProofs -----------------------------
(***************************************************************************)
(* A lead is in one place, nothing of it reopens, and the summaries of its *)
(* round follow its records: for any number of leads, records and faults,  *)
(* and any interleaving of materializer, batch, stores and repairs.  The   *)
(* writers work on one clue at a time, so the argument is about one record *)
(* of a clue: each writer keeps it sound.                                  *)
(***************************************************************************)
EXTENDS ClueLifecycle, SetLemmas

Statuses == {"none", "active", "unknown"} \cup Terminal

Evidence == [label : {"active", "unknown", "closed"}, at : Nat, proof : Terminal \cup {NoProof},
             pat : Nat, seen : Nat]

Pools == [pool : {"none", "store", "headquarters", "closed", "status_review"},
          alloc : {"none", "assigned", "headquarters", "pending_allocation", "pending_reassign",
                   "closed", "status_review"}]

Lead == [known : BOOLEAN, status : Statuses, at : Nat, seen : Nat,
         place : Pools, cur : BOOLEAN, anchored : BOOLEAN]

RoundStatuses == {"none", "closed_reassigned", "closed_order_verified", "closed_order_refunded",
                  "closed_order_closed", "closed_order_status_unknown"} \cup ActiveStatuses
Results == {"pending", "lost"} \cup Protecting
Round == [status : RoundStatuses, result : Results, since : Nat]
Record == [result : Results, deleted : BOOLEAN]

Displays == {"none", "active", "converted", "refunded", "closed", "status_review", "headquarters",
             "pending_reassign", "pending_allocation"}
Center == [shown : BOOLEAN, ptr : BOOLEAN, lead : Displays, round : RoundStatuses \cup Displays,
           result : Results \cup {"none"}]

Clue == [lead : Lead, round : Round, rec : Seq(Record), center : Center,
         entry : {"none", "active", "closed"}]

-----------------------------------------------------------------------------
(* When one clue is sound.                                                 *)

\* The pointers of a clue without a round, and those of one with an active round.
Linked(c) ==
  /\ c.round.status = "none" => ~c.lead.cur /\ ~c.center.ptr /\ c.rec = <<>>
  /\ ActiveRound(c) => c.lead.cur

\* Every table agrees where the lead is.
Placed(c) ==
  /\ c.lead.place.pool = "store" <=> ActiveRound(c)
  /\ c.lead.place.pool = "headquarters" <=> c.entry = "active"
  /\ ActiveRound(c) \/ c.entry = "active" => c.lead.status = "active"

\* The center copies the round it points to.
Copied(c) ==
  c.center.ptr => /\ c.center.shown
                  /\ c.center.round = c.round.status /\ c.center.result = c.round.result

\* What the records say of a round.
Since(rec) == IF Kept(rec) = {} THEN 0 ELSE Min(Kept(rec))
Result(rec) == IF Kept(rec) = {} THEN "pending" ELSE rec[Max(Kept(rec))].result

Summed(c) ==
  /\ c.round.since \in 0..Len(c.rec)
  /\ ActiveRound(c) => c.round.since = Since(c.rec) /\ c.round.result = Result(c.rec)

Sound(c) == Linked(c) /\ Placed(c) /\ Copied(c) /\ Summed(c)

\* What no writer undoes.
Onward(c, d) ==
  /\ c.lead.status \in Terminal => d.lead.status \in Terminal
  /\ d.lead.at >= c.lead.at
  /\ c.round.status # "none" /\ ~ActiveRound(c) => ~ActiveRound(d)

\* A clue whose lead has been written and whose other tables have not: what Settled
\* works on.
Unsettled(c) ==
  /\ Linked(c) /\ Copied(c) /\ Summed(c)
  /\ c.lead.status # "active" => c.lead.place.pool \notin {"store", "headquarters"}
  /\ c.lead.status = "active" => /\ c.lead.place.pool = "store" <=> ActiveRound(c)
                                 /\ c.entry = "active" => c.lead.place.pool = "headquarters"

-----------------------------------------------------------------------------
(* The parts of a clue.                                                    *)

\* The fields of a clue have their types.
LEMMA Fields ==
  ASSUME NEW c \in Clue
  PROVE  /\ c.lead \in Lead /\ c.lead.known \in BOOLEAN /\ c.lead.status \in Statuses
         /\ c.lead.at \in Nat /\ c.lead.seen \in Nat /\ c.lead.cur \in BOOLEAN
         /\ c.lead.anchored \in BOOLEAN /\ c.lead.place \in Pools
         /\ c.round \in Round /\ c.rec \in Seq(Record) /\ Len(c.rec) \in Nat
         /\ c.center \in Center
         /\ c.entry \in {"none", "active", "closed"}
BY DEF Clue, Lead

\* _lifecycle_status separates active, closed and doubtful orders.
LEMMA Lifecycles ==
  ASSUME NEW s \in Statuses
  PROVE  /\ Lifecycle(s) = "active" <=> s = "active"
         /\ Lifecycle(s) \in {"active", "closed", "status_review"}
BY DEF Lifecycle, Statuses, Terminal

\* The statuses written by a close are no active ones.
LEMMA ClosedStatuses ==
  ASSUME NEW s \in Statuses
  PROVE  /\ ClosedAs(s) \in RoundStatuses /\ ShownAs(s) \in Displays
         /\ ClosedAs(s) \notin ActiveStatuses /\ ClosedAs(s) # "none"
<1>1. s \in {"none", "active", "unknown", "verified", "refunded", "closed"}
  BY DEF Statuses, Terminal
<1> QED
  BY <1>1 DEF ClosedAs, ShownAs, ActiveStatuses, Terminal, RoundStatuses, Displays

\* Where Place puts a lead.
LEMMA Places ==
  ASSUME NEW c \in Clue, NEW s \in Statuses, NEW h \in BOOLEAN
  PROVE  /\ Place(c, Lifecycle(s), h) \in Pools
         /\ s # "active" => Place(c, Lifecycle(s), h).pool \notin {"store", "headquarters"}
         /\ s = "active" => /\ Place(c, Lifecycle(s), h).pool = "store" <=> CurrentRoundActive(c)
                            /\ Place(c, Lifecycle(s), h).pool = "headquarters"
                                 <=> h /\ ~CurrentRoundActive(c)
<1>1. /\ Lifecycle(s) = "active" <=> s = "active"
      /\ Lifecycle(s) \in {"active", "closed", "status_review"}
  BY Lifecycles
<1>2. CASE s # "active"
  <2>1. Place(c, Lifecycle(s), h) = [pool |-> Lifecycle(s), alloc |-> Lifecycle(s)]
    BY <1>1, <1>2 DEF Place
  <2> QED
    BY <1>1, <1>2, <2>1 DEF Pools
<1>3. CASE s = "active" /\ CurrentRoundActive(c)
  <2>1. Place(c, Lifecycle(s), h) = [pool |-> "store", alloc |-> "assigned"]
    BY <1>1, <1>3 DEF Place
  <2> QED
    BY <1>3, <2>1 DEF Pools
<1>4. CASE s = "active" /\ ~CurrentRoundActive(c)
  <2>1. Place(c, Lifecycle(s), h) = IF h THEN [pool |-> "headquarters", alloc |-> "headquarters"]
                                    ELSE [pool |-> "none", alloc |-> "pending_allocation"]
    BY <1>1, <1>4 DEF Place
  <2> QED
    BY <1>4, <2>1 DEF Pools
<1> QED
  BY <1>2, <1>3, <1>4

\* A round that is not active anew keeps its summary as long as the records stay.
LEMMA SummaryKept ==
  ASSUME NEW c \in Clue, NEW d \in Clue, Summed(c), d.rec = c.rec,
         d.round.since = c.round.since, ActiveRound(d) => d.round = c.round
  PROVE  Summed(d)
BY DEF Summed, ActiveRound

-----------------------------------------------------------------------------
(* Closing and settling.                                                   *)

\* close_current_headquarters_pool_entry and _close_current_assignment leave nothing
\* open behind a lead that is not active.
LEMMA ClosedSound ==
  ASSUME NEW c \in Clue, Linked(c), Copied(c), Summed(c), c.lead.status # "active",
         c.lead.place.pool \notin {"store", "headquarters"}
  PROVE  /\ Closed(c) \in Clue /\ Sound(Closed(c))
         /\ Closed(c).lead = c.lead /\ ~ActiveRound(Closed(c))
<1> DEFINE d == Closed(c)
<1>1. /\ c.lead.status \in Statuses
      /\ EntryClosed(c) \in {"none", "closed"}
  BY Fields DEF EntryClosed
<1>2. d \in Clue
  BY ZenonT(60), <1>1, ClosedStatuses DEF Closed, Clue, Round, Center
<1>3. /\ d.lead = c.lead /\ d.rec = c.rec /\ d.entry = EntryClosed(c)
      /\ d.round.since = c.round.since /\ d.round.result = c.round.result
      /\ d.round.status = IF c.lead.cur \/ c.center.ptr THEN ClosedAs(c.lead.status) ELSE c.round.status
      /\ d.center.ptr = c.center.ptr /\ d.center.shown = c.center.shown
      /\ d.center.result = c.center.result
      /\ c.center.ptr /\ c.center.shown => d.center.round = ClosedAs(c.lead.status)
  BY DEF Closed, Clue, Round, Center
<1>4. ~ActiveRound(d)
  BY <1>1, <1>3, ClosedStatuses DEF Linked, ActiveRound
<1>5. Linked(d)
  BY <1>1, <1>3, <1>4, ClosedStatuses DEF Linked
<1>6. Placed(d)
  BY <1>1, <1>3, <1>4 DEF Placed
<1>7. Copied(d)
  BY <1>3 DEF Copied
<1>8. Summed(d)
  BY <1>2, <1>3, <1>4, SummaryKept
<1> QED
  BY <1>2, <1>3, <1>4, <1>5, <1>6, <1>7, <1>8 DEF Sound

\* The second loop of the materializer brings every table in line with the lead.
LEMMA SettledSound ==
  ASSUME NEW c \in Clue, Unsettled(c)
  PROVE  /\ Settled(c) \in Clue /\ Sound(Settled(c)) /\ Settled(c).lead = c.lead
         /\ ActiveRound(Settled(c)) => ActiveRound(c)
<1>0. c.lead.status \in Statuses
  BY Fields
<1>1. CASE c.lead.status # "active"
  <2>1. Settled(c) = Closed(c)
    BY <1>0, <1>1, Lifecycles DEF Settled
  <2> QED
    BY <1>1, <2>1, ClosedSound DEF Unsettled
<1>2. CASE c.lead.status = "active" /\ c.lead.place.pool = "headquarters"
  <2> DEFINE d == [c EXCEPT !.entry = "active"]
  <2>1. Settled(c) = d
    BY <1>0, <1>2, Lifecycles DEF Settled
  <2>2. /\ d \in Clue /\ d.lead = c.lead /\ d.round = c.round /\ d.rec = c.rec
        /\ d.center = c.center /\ d.entry = "active"
    BY DEF Clue
  <2>3. Summed(d)
    BY <2>2, SummaryKept DEF Unsettled
  <2>4. Linked(d) /\ Copied(d) /\ Placed(d)
    BY <1>2, <2>2 DEF Unsettled, Linked, Copied, Placed, ActiveRound
  <2> QED
    BY <2>1, <2>2, <2>3, <2>4 DEF Sound, ActiveRound
<1>3. CASE c.lead.status = "active" /\ c.lead.place.pool # "headquarters"
  <2>1. Settled(c) = c
    BY <1>0, <1>3, Lifecycles DEF Settled
  <2>2. Placed(c)
    BY <1>3 DEF Unsettled, Placed
  <2> QED
    BY <2>1, <2>2 DEF Sound, Unsettled
<1> QED
  BY <1>1, <1>2, <1>3

-----------------------------------------------------------------------------
(* Evidence and its clock.                                                 *)

\* The greatest of two and of three numbers.
LEMMA MaxOfTwo ==
  ASSUME NEW a \in Nat, NEW b \in Nat
  PROVE  Max({a, b}) \in {a, b} /\ Max({a, b}) >= a /\ Max({a, b}) >= b
<1>1. {a, b} \subseteq 0..(a + b) /\ {a, b} # {} /\ a + b \in Nat
  OBVIOUS
<1>2. Max({a, b}) \in {a, b} /\ \A y \in {a, b} : y <= Max({a, b})
  BY <1>1, MaxIsGreatest
<1> QED
  BY <1>2

\* The greatest of three numbers.
LEMMA MaxOfThree ==
  ASSUME NEW a \in Nat, NEW b \in Nat, NEW d \in Nat
  PROVE  /\ Max({a, b, d}) \in {a, b, d}
         /\ Max({a, b, d}) >= a /\ Max({a, b, d}) >= b /\ Max({a, b, d}) >= d
<1>1. {a, b, d} \subseteq 0..(a + b + d) /\ {a, b, d} # {} /\ a + b + d \in Nat
  OBVIOUS
<1>2. Max({a, b, d}) \in {a, b, d} /\ \A y \in {a, b, d} : y <= Max({a, b, d})
  BY <1>1, MaxIsGreatest
<1> QED
  BY <1>2

\* Resolved evidence is a status, and its time is one of the evidence's clocks.
LEMMA Resolution ==
  ASSUME NEW r \in Evidence
  PROVE  /\ Resolved(r) \in Statuses \ {"none"}
         /\ ObservedAt(r) \in Nat /\ ObservedAt(r) \in {r.at, r.pat}
<1>1. r.at \in Nat /\ r.pat \in Nat /\ r.proof \in Terminal \cup {NoProof}
      /\ r.label \in {"active", "unknown", "closed"}
  BY DEF Evidence
<1>2. Resolved(r) \in Statuses \ {"none"}
  BY <1>1 DEF Resolved, Statuses, Terminal, NoProof
<1>3. ObservedAt(r) \in {r.at, r.pat}
  BY <1>1, MaxOfTwo DEF ObservedAt
<1> QED
  BY <1>1, <1>2, <1>3

\* No clock of a lead is ahead of its sources.
Clocked(c, r) ==
  /\ c.lead.at <= r.at \/ c.lead.at <= r.pat \/ c.lead.at <= r.seen
  /\ c.lead.seen <= r.seen

\* Evidence read earlier is not newer.
Older(q, r) == q.at <= r.at /\ q.pat <= r.pat /\ q.seen <= r.seen

-----------------------------------------------------------------------------
(* materialize_clue_master_leads                                           *)

\* A newer row leaves a sound clue, whatever evidence it brings.
LEMMA RefreshedSound ==
  ASSUME NEW c \in Clue, Sound(c), NEW r \in Evidence, NEW a \in BOOLEAN
  PROVE  LET d == Settled(Refreshed(c, r, a))
         IN  /\ d \in Clue /\ Sound(d) /\ Onward(c, d)
             /\ d.lead.seen = r.seen /\ d.lead.at \in {c.lead.at, ObservedAt(r)}
<1> DEFINE ok == Accepts(c, Resolved(r), ObservedAt(r))
           status == IF ok THEN Resolved(r) ELSE c.lead.status
           waits == c.entry = "active" \/ c.lead.place.pool = "headquarters" \/ ~a
           place == Place(c, Lifecycle(status), waits)
           e == Refreshed(c, r, a)
<1>1. /\ status \in Statuses /\ waits \in BOOLEAN
      /\ c.lead.at \in Nat /\ ObservedAt(r) \in Nat /\ r.seen \in Nat
  BY Fields, Resolution DEF Evidence
<1>2. /\ place \in Pools
      /\ status # "active" => place.pool \notin {"store", "headquarters"}
      /\ status = "active" => /\ place.pool = "store" <=> CurrentRoundActive(c)
                              /\ place.pool = "headquarters" <=> waits /\ ~CurrentRoundActive(c)
  <2> HIDE DEF status, waits
  <2> QED
    BY <1>1, Places
<1>3. e = [c EXCEPT !.lead = [@ EXCEPT !.known = TRUE, !.status = status, !.seen = r.seen,
                                       !.at = IF ok THEN ObservedAt(r) ELSE c.lead.at,
                                       !.anchored = a, !.place = place]]
  BY DEF Refreshed
<1>4. /\ e \in Clue /\ e.lead.status = status /\ e.lead.place = place /\ e.lead.seen = r.seen
      /\ e.lead.at = (IF ok THEN ObservedAt(r) ELSE c.lead.at) /\ e.lead.cur = c.lead.cur
      /\ e.round = c.round /\ e.rec = c.rec /\ e.center = c.center /\ e.entry = c.entry
  <2> HIDE DEF status, waits, place, ok, e
  <2> QED
    BY ZenonT(60), <1>1, <1>2, <1>3 DEF Clue, Lead
<1> HIDE DEF e, place
<1>5. Unsettled(e)
  <2>1. Summed(e)
    BY <1>4, SummaryKept DEF Sound
  <2>2. Linked(e) /\ Copied(e)
    BY <1>4 DEF Sound, Linked, Copied, ActiveRound
  <2>3. ActiveRound(e) <=> CurrentRoundActive(c)
    BY <1>4 DEF Sound, Linked, CurrentRoundActive, ActiveRound
  <2>4. c.entry = "active" => ~CurrentRoundActive(c)
    BY DEF Sound, Placed, CurrentRoundActive
  <2> QED
    BY <1>2, <1>4, <2>1, <2>2, <2>3, <2>4 DEF Unsettled
<1>6. /\ Settled(e) \in Clue /\ Sound(Settled(e)) /\ Settled(e).lead = e.lead
      /\ ActiveRound(Settled(e)) => ActiveRound(e)
  BY <1>4, <1>5, SettledSound
<1>7. Onward(c, Settled(e))
  <2>1. e.lead.at >= c.lead.at
    BY <1>1, <1>4 DEF Accepts
  <2>2. c.lead.status \in Terminal => e.lead.status \in Terminal
    BY <1>4 DEF Accepts
  <2> QED
    BY <1>4, <1>6, <2>1, <2>2 DEF Onward, ActiveRound
<1> QED
  BY <1>4, <1>6, <1>7 DEF e

\* New status evidence on a known row: what is still to be settled, and that nothing
\* is to be settled when neither place nor status moved.
LEMMA ReassessedUnsettled ==
  ASSUME NEW c \in Clue, Sound(c), NEW s \in Statuses, NEW at \in Nat, NEW m \in BOOLEAN
  PROVE  LET e == Reassessed(c, s, at, m)
         IN  /\ e \in Clue /\ e.lead.status = s /\ e.lead.at = at /\ e.lead.seen = c.lead.seen
             /\ e.round = c.round /\ e.rec = c.rec /\ e.center = c.center /\ e.entry = c.entry
             /\ e.lead.cur = c.lead.cur /\ e.lead.known = c.lead.known
             /\ e.lead.place # c.lead.place \/ s # c.lead.status \/ m \/ s \in Terminal
                  => Unsettled(e)
             /\ e.lead.place = c.lead.place /\ s = c.lead.status => Sound(e)
<1> DEFINE e == Reassessed(c, s, at, m)
           moved == s # c.lead.status \/ m
           waits == c.lead.place.pool = "headquarters" \/ ~c.lead.anchored
           place == IF Lifecycle(s) # "active" \/ moved
                    THEN Place(c, Lifecycle(s), waits) ELSE c.lead.place
<1>1. /\ waits \in BOOLEAN /\ c.lead.place \in Pools /\ c.lead.status \in Statuses
      /\ Lifecycle(s) = "active" <=> s = "active"
  BY Fields, Lifecycles
<1>2. /\ Place(c, Lifecycle(s), waits) \in Pools
      /\ s # "active" => Place(c, Lifecycle(s), waits).pool \notin {"store", "headquarters"}
      /\ s = "active" => /\ Place(c, Lifecycle(s), waits).pool = "store" <=> CurrentRoundActive(c)
                         /\ Place(c, Lifecycle(s), waits).pool = "headquarters"
                              <=> waits /\ ~CurrentRoundActive(c)
  <2> HIDE DEF waits
  <2> QED
    BY <1>1, Places
<1>3. /\ e \in Clue /\ e.lead.status = s /\ e.lead.at = at /\ e.lead.place = place
      /\ e.lead.cur = c.lead.cur /\ e.lead.seen = c.lead.seen /\ e.lead.known = c.lead.known
      /\ e.round = c.round /\ e.rec = c.rec /\ e.center = c.center /\ e.entry = c.entry
  <2>1. place \in Pools
    BY <1>1, <1>2
  <2>2. e = [c EXCEPT !.lead = [@ EXCEPT !.status = s, !.at = at, !.place = place]]
    BY DEF Reassessed
  <2> HIDE DEF e, place
  <2> QED
    BY <2>1, <2>2 DEF Clue, Lead
<1> HIDE DEF e
<1>4. Linked(e) /\ Copied(e) /\ Summed(e)
  <2>1. Summed(e)
    BY <1>3, SummaryKept DEF Sound
  <2> QED
    BY <1>3, <2>1 DEF Sound, Linked, Copied, ActiveRound
<1>5. ActiveRound(e) <=> CurrentRoundActive(c)
  BY <1>3 DEF Sound, Linked, CurrentRoundActive, ActiveRound
<1>6. c.entry = "active" <=> c.lead.place.pool = "headquarters"
  BY DEF Sound, Placed
<1>7. c.lead.place.pool = "store" <=> CurrentRoundActive(c)
  BY DEF Sound, Placed, Linked, CurrentRoundActive
<1>8. Unsettled(e)
  <2>1. CASE s # "active"
    BY <1>1, <1>2, <1>3, <1>4, <2>1 DEF Unsettled
  <2>2. CASE s = "active" /\ moved
    BY <1>1, <1>2, <1>3, <1>4, <1>5, <1>6, <1>7, <2>2 DEF Unsettled
  <2>3. CASE s = "active" /\ ~moved
    BY <1>1, <1>3, <1>4, <1>5, <1>6, <1>7, <2>3 DEF Unsettled
  <2> QED
    BY <2>1, <2>2, <2>3
<1>9. e.lead.place = c.lead.place /\ s = c.lead.status => Sound(e)
  BY <1>3, <1>4 DEF Sound, Placed, ActiveRound
<1> QED
  BY <1>3, <1>8, <1>9 DEF e

\* d may follow c when a writer has read the evidence r.
Follows(c, d, r) ==
  /\ d \in Clue /\ Sound(d) /\ Onward(c, d)
  /\ d.lead.at \in {c.lead.at, r.at, r.pat} /\ d.lead.seen \in {c.lead.seen, r.seen}

\* The materializer follows, whatever evidence it has read and however old that is.
LEMMA MaterializedFollows ==
  ASSUME NEW c \in Clue, Sound(c), NEW r \in Evidence, NEW a \in BOOLEAN, NEW m \in BOOLEAN
  PROVE  Follows(c, Materialized(c, r, a, m), r)
<1> DEFINE d == Materialized(c, r, a, m)
           s == Resolved(r)
           e == Reassessed(c, s, ObservedAt(r), m)
<1>1. /\ s \in Statuses /\ ObservedAt(r) \in Nat /\ ObservedAt(r) \in {r.at, r.pat}
      /\ c.lead.at \in Nat
  BY Resolution, Fields
<1>2. CASE ~c.lead.known \/ r.seen > c.lead.seen
  <2>1. d = Settled(Refreshed(c, r, a))
    BY <1>2 DEF Materialized
  <2> QED
    BY <1>1, <2>1, RefreshedSound DEF Follows
<1>3. CASE ~(~c.lead.known \/ r.seen > c.lead.seen) /\ ~Accepts(c, s, ObservedAt(r))
  <2>1. d = c
    BY <1>3 DEF Materialized
  <2> QED
    BY <1>1, <2>1 DEF Follows, Onward
<1>4. CASE ~(~c.lead.known \/ r.seen > c.lead.seen) /\ Accepts(c, s, ObservedAt(r))
  <2>1. /\ e \in Clue /\ e.lead.status = s /\ e.lead.at = ObservedAt(r) /\ e.lead.seen = c.lead.seen
        /\ e.round = c.round
        /\ e.lead.place # c.lead.place \/ s # c.lead.status \/ m \/ s \in Terminal => Unsettled(e)
        /\ e.lead.place = c.lead.place /\ s = c.lead.status => Sound(e)
    BY <1>1, ReassessedUnsettled
  <2>2. /\ c.lead.status \in Terminal => s \in Terminal
        /\ ObservedAt(r) >= c.lead.at
    BY <1>4 DEF Accepts
  <2> HIDE DEF e
  <2>3. CASE e.lead.place # c.lead.place \/ s # c.lead.status \/ m \/ s \in Terminal
    <3>1. d = Settled(e)
      BY <1>4, <2>3 DEF Materialized, e
    <3>2. /\ Settled(e) \in Clue /\ Sound(Settled(e)) /\ Settled(e).lead = e.lead
          /\ ActiveRound(Settled(e)) => ActiveRound(e)
      BY <2>1, <2>3, SettledSound
    <3> QED
      BY <1>1, <2>1, <2>2, <3>1, <3>2 DEF Follows, Onward, ActiveRound
  <2>4. CASE ~(e.lead.place # c.lead.place \/ s # c.lead.status \/ m \/ s \in Terminal)
    <3>1. d = e
      BY <1>4, <2>4 DEF Materialized, e
    <3> QED
      BY <1>1, <2>1, <2>2, <2>4, <3>1 DEF Follows, Onward, ActiveRound
  <2> QED
    BY <2>3, <2>4
<1> QED
  BY <1>2, <1>3, <1>4

-----------------------------------------------------------------------------
(* The other writers.                                                      *)

\* refresh_clue_center_projection changes the center alone.
LEMMA ProjectedFollows ==
  ASSUME NEW c \in Clue, Sound(c), NEW v \in BOOLEAN, NEW r
  PROVE  Follows(c, Projected(c, v), r)
<1> DEFINE d == Projected(c, v)
<1>1. /\ c.lead.status \in Statuses /\ c.round \in Round /\ c.lead.at \in Nat
  BY Fields
<1>2. DisplayState(c) \in Displays
  BY <1>1, ClosedStatuses DEF DisplayState, Displays
<1>3. /\ d.lead = c.lead /\ d.round = c.round /\ d.rec = c.rec /\ d.entry = c.entry
      /\ d.center.shown
      /\ d.center.ptr => /\ CurrentRoundActive(c)
                         /\ d.center.round = c.round.status /\ d.center.result = c.round.result
      /\ d \in Clue
  <2>1. CASE CurrentRoundActive(c)
    <3> DEFINE z == IF Lifecycle(c.lead.status) # "active" THEN ShownAs(c.lead.status)
                    ELSE IF c.round.since > 0 /\ v THEN "converted" ELSE "active"
    <3>1. z \in Displays
      BY <1>1, ClosedStatuses DEF Displays
    <3>2. d = [c EXCEPT !.center = [shown |-> TRUE, ptr |-> TRUE, round |-> c.round.status,
                                    result |-> c.round.result, lead |-> z]]
      BY <2>1 DEF Projected
    <3> HIDE DEF z
    <3>3. [shown |-> TRUE, ptr |-> TRUE, round |-> c.round.status,
           result |-> c.round.result, lead |-> z] \in Center
      BY <1>1, <3>1 DEF Round, Center
    <3> HIDE DEF d
    <3>4. /\ d \in Clue /\ d.lead = c.lead /\ d.round = c.round /\ d.rec = c.rec /\ d.entry = c.entry
          /\ d.center = [shown |-> TRUE, ptr |-> TRUE, round |-> c.round.status,
                         result |-> c.round.result, lead |-> z]
      BY <3>2, <3>3 DEF Clue
    <3> QED
      BY <2>1, <3>4
  <2>2. CASE ~CurrentRoundActive(c)
    <3> DEFINE y == IF c.round.status = "none" \/ ActiveRound(c) THEN "pending" ELSE c.round.result
    <3>1. y \in Results
      BY <1>1 DEF Results, Round
    <3>2. d = [c EXCEPT !.center = [shown |-> TRUE, ptr |-> FALSE, round |-> DisplayState(c),
                                    lead |-> DisplayState(c), result |-> y]]
      BY <2>2 DEF Projected
    <3> HIDE DEF y
    <3>3. [shown |-> TRUE, ptr |-> FALSE, round |-> DisplayState(c),
           lead |-> DisplayState(c), result |-> y] \in Center
      BY <1>2, <3>1 DEF Center
    <3> HIDE DEF d
    <3>4. /\ d \in Clue /\ d.lead = c.lead /\ d.round = c.round /\ d.rec = c.rec /\ d.entry = c.entry
          /\ d.center = [shown |-> TRUE, ptr |-> FALSE, round |-> DisplayState(c),
                         lead |-> DisplayState(c), result |-> y]
      BY <3>2, <3>3 DEF Clue
    <3> QED
      BY <3>4
  <2> QED
    BY <2>1, <2>2
<1> HIDE DEF d
<1>4. Summed(d)
  BY <1>3, SummaryKept DEF Sound
<1>5. Placed(d) /\ Copied(d)
  BY <1>3 DEF Sound, Placed, Copied, ActiveRound
<1>6. Linked(d)
  BY <1>3 DEF Sound, Linked, ActiveRound, CurrentRoundActive
<1> QED
  BY <1>1, <1>3, <1>4, <1>5, <1>6 DEF d, Follows, Sound, Onward, ActiveRound

\* What is known of a lead that waits for its first allocation.
LEMMA WaitingClue ==
  ASSUME NEW l, Waiting(l), clue[l] \in Clue, Sound(clue[l])
  PROVE  /\ clue[l].lead.status = "active" /\ clue[l].round.status = "none"
         /\ clue[l].entry = "none" /\ ~clue[l].center.ptr /\ clue[l].rec = <<>>
         /\ ~ActiveRound(clue[l])
BY DEF Waiting, Sound, Linked, ActiveRound, ActiveStatuses

\* allocate_lead that finds a store.
LEMMA AssignedFollows ==
  ASSUME NEW c \in Clue, Sound(c), NEW r, c.lead.status = "active", c.round.status = "none",
         c.entry = "none", c.rec = <<>>
  PROVE  Follows(c, Assigned(c), r)
<1> DEFINE d == Assigned(c)
           round == [status |-> "active_unfollowed", result |-> "pending", since |-> 0]
           center == [shown |-> TRUE, ptr |-> TRUE, lead |-> "active",
                      round |-> "active_unfollowed", result |-> "pending"]
<1>1. round \in Round /\ center \in Center /\ EntryClosed(c) = "none"
  BY DEF Round, Center, RoundStatuses, ActiveStatuses, Displays, Results, EntryClosed
<1>2. d = [c EXCEPT !.lead.place = [pool |-> "store", alloc |-> "assigned"], !.lead.cur = TRUE,
                    !.round = round, !.entry = EntryClosed(c), !.center = center]
  BY DEF Assigned
<1> HIDE DEF d, round, center
<1>3. /\ d \in Clue /\ d.lead.status = c.lead.status /\ d.lead.at = c.lead.at
      /\ d.lead.seen = c.lead.seen /\ d.lead.cur = TRUE /\ d.lead.place.pool = "store"
      /\ c.lead.at \in Nat
      /\ d.round = round /\ d.rec = c.rec /\ d.entry = "none" /\ d.center = center
  BY <1>1, <1>2 DEF Clue, Lead, Pools
<1>4. /\ d.round.status = "active_unfollowed" /\ d.round.result = "pending" /\ d.round.since = 0
      /\ d.center.shown /\ d.center.round = "active_unfollowed" /\ d.center.result = "pending"
  BY <1>3 DEF round, center
<1>5. ActiveRound(d)
  BY <1>4 DEF ActiveRound, ActiveStatuses
<1>6. Summed(d)
  <2>1. Kept(d.rec) = {} /\ Len(d.rec) = 0
    BY <1>3 DEF Kept
  <2> QED
    BY <1>4, <2>1 DEF Summed, Since, Result
<1> QED
  BY <1>3, <1>4, <1>5, <1>6
     DEF d, Follows, Sound, Linked, Placed, Copied, Onward, Statuses, Terminal

\* allocate_lead that finds none.
LEMMA HeadquartersFollows ==
  ASSUME NEW c \in Clue, Sound(c), NEW r, c.lead.status = "active", c.round.status = "none"
  PROVE  Follows(c, SentToHeadquarters(c), r)
<1> DEFINE d == SentToHeadquarters(c)
<1>1. /\ d \in Clue /\ d.lead.status = c.lead.status /\ d.lead.at = c.lead.at
      /\ d.lead.seen = c.lead.seen /\ d.lead.cur = c.lead.cur /\ d.lead.place.pool = "headquarters"
      /\ d.round = c.round /\ d.rec = c.rec /\ d.center = c.center /\ d.entry = "active"
      /\ c.lead.at \in Nat
  BY DEF SentToHeadquarters, Clue, Lead, Pools
<1> HIDE DEF d
<1>2. Summed(d)
  BY <1>1, SummaryKept DEF Sound
<1>3. ~ActiveRound(d)
  BY <1>1 DEF ActiveRound, ActiveStatuses
<1> QED
  BY <1>1, <1>2, <1>3 DEF d, Follows, Sound, Linked, Placed, Copied, Onward

\* refresh_terminal_evidence_for_locked_lead closes a lead that waits.
LEMMA ClosedByEvidenceFollows ==
  ASSUME NEW c \in Clue, Sound(c), NEW r \in Evidence, c.lead.status = "active",
         Resolved(r) \in Terminal
  PROVE  Follows(c, ClosedByEvidence(c, r), r)
<1> DEFINE at == Max({ObservedAt(r), c.lead.at})
           e == Reassessed(c, Resolved(r), at, FALSE)
<1>1. /\ Resolved(r) \in Statuses /\ ObservedAt(r) \in Nat /\ ObservedAt(r) \in {r.at, r.pat}
      /\ c.lead.at \in Nat
  BY Resolution, Fields
<1>2. at \in {ObservedAt(r), c.lead.at} /\ at >= c.lead.at /\ at \in Nat
  BY <1>1, MaxOfTwo
<1> HIDE DEF at
<1>3. /\ e \in Clue /\ e.lead.status = Resolved(r) /\ e.lead.at = at /\ e.lead.seen = c.lead.seen
      /\ e.round = c.round /\ Unsettled(e)
  BY ZenonT(60), <1>1, <1>2, ReassessedUnsettled
<1> HIDE DEF e
<1>4. e.lead.status # "active" /\ e.lead.place.pool \notin {"store", "headquarters"}
  BY <1>3 DEF Terminal, Unsettled
<1>5. Closed(e) \in Clue /\ Sound(Closed(e)) /\ Closed(e).lead = e.lead /\ ~ActiveRound(Closed(e))
  BY <1>3, <1>4, ClosedSound DEF Unsettled
<1>6. ClosedByEvidence(c, r) = Closed(e)
  BY DEF ClosedByEvidence, e, at
<1> QED
  BY <1>1, <1>2, <1>3, <1>5, <1>6 DEF Follows, Onward

-----------------------------------------------------------------------------
(* Follow-up records and the summary of a round.                           *)

\* The records that count are positions of the sequence.
LEMMA KeptPositions ==
  ASSUME NEW rec \in Seq(Record)
  PROVE  /\ Kept(rec) \subseteq 1..Len(rec) /\ Kept(rec) \subseteq Nat
         /\ Kept(rec) \subseteq 0..Len(rec) /\ Len(rec) \in Nat
         /\ \A i \in 1..Len(rec) : i \in Kept(rec) <=> ~rec[i].deleted
BY DEF Kept

\* The summary of records is one of a round.
LEMMA SummaryOfRecords ==
  ASSUME NEW rec \in Seq(Record)
  PROVE  /\ Since(rec) \in 0..Len(rec) /\ Result(rec) \in Results
         /\ Kept(rec) # {} => Since(rec) \in 1..Len(rec)
<1>1. CASE Kept(rec) = {}
  BY <1>1, KeptPositions DEF Since, Result, Results
<1>2. CASE Kept(rec) # {}
  <2>1. Min(Kept(rec)) \in Kept(rec) /\ Max(Kept(rec)) \in Kept(rec)
    BY <1>2, KeptPositions, MinIsLeast, MaxIsGreatest
  <2>2. Min(Kept(rec)) \in 1..Len(rec) /\ Max(Kept(rec)) \in 1..Len(rec)
    BY <2>1, KeptPositions
  <2>3. rec[Max(Kept(rec))].result \in Results
    <3>1. rec[Max(Kept(rec))] \in Record
      BY <2>2
    <3> QED
      BY <3>1 DEF Record
  <2> QED
    BY <1>2, <2>2, <2>3 DEF Since, Result
<1> QED
  BY <1>1, <1>2

\* A new record is the latest; the first one stays the first.
LEMMA SummaryOfAppended ==
  ASSUME NEW rec \in Seq(Record), NEW x \in Record, ~x.deleted
  PROVE  LET after == Append(rec, x)
         IN  /\ after \in Seq(Record) /\ Len(after) = Len(rec) + 1
             /\ Result(after) = x.result
             /\ Since(after) = IF Since(rec) = 0 THEN Len(rec) + 1 ELSE Since(rec)
<1> DEFINE after == Append(rec, x)
           n == Len(rec) + 1
<1>1. /\ after \in Seq(Record) /\ Len(after) = n /\ after[n] = x /\ n \in Nat /\ n > 0
      /\ \A i \in 1..Len(rec) : after[i] = rec[i]
  OBVIOUS
<1> HIDE DEF after
<1>2. Kept(after) = Kept(rec) \cup {n}
  BY <1>1, KeptPositions DEF Kept
<1>3. Kept(after) \subseteq Nat /\ Kept(after) # {} /\ n \in Kept(after)
  BY <1>1, <1>2, KeptPositions
<1>4. Max(Kept(after)) = n
  <2>1. \A y \in Kept(after) : y <= n
    BY <1>1, <1>2, KeptPositions
  <2> QED
    BY <1>3, <2>1, MaxIs
<1>5. Min(Kept(after)) = IF Kept(rec) = {} THEN n ELSE Min(Kept(rec))
  <2>1. CASE Kept(rec) = {}
    BY <1>1, <1>2, <1>3, <2>1, MinIs
  <2>2. CASE Kept(rec) # {}
    <3> DEFINE k == Min(Kept(rec))
    <3>1. k \in Kept(rec) /\ \A y \in Kept(rec) : k <= y
      BY <2>2, KeptPositions, MinIsLeast
    <3>2. k \in Kept(after) /\ k <= n /\ \A y \in Kept(after) : k <= y
      BY <1>1, <1>2, <3>1, KeptPositions
    <3> HIDE DEF k
    <3>3. Min(Kept(after)) = k
      BY <1>3, <3>2, MinIs
    <3> QED
      BY <2>2, <3>3 DEF k
  <2> QED
    BY <2>1, <2>2
<1>6. Since(rec) = 0 <=> Kept(rec) = {}
  BY SummaryOfRecords DEF Since
<1>7. Result(after) = x.result
  BY <1>1, <1>3, <1>4 DEF Result
<1>8. Since(after) = IF Since(rec) = 0 THEN n ELSE Since(rec)
  BY <1>3, <1>5, <1>6 DEF Since
<1> QED
  BY <1>1, <1>7, <1>8 DEF after

\* An operable clue is exactly one with an active round.
LEMMA OperableIsActive ==
  ASSUME NEW c \in Clue, Linked(c), Placed(c)
  PROVE  /\ Operable(c) <=> ActiveRound(c)
         /\ ActiveRound(c) => /\ c.lead.status = "active" /\ c.lead.cur /\ c.entry # "active"
                              /\ c.lead.place.pool = "store" /\ c.round.status # "none"
BY DEF Operable, CurrentRoundActive, Linked, Placed, ActiveRound, ActiveStatuses

\* The center after its round was summarised anew.
Recopied(center, shown, status, result) ==
  IF center.ptr THEN [center EXCEPT !.lead = shown, !.round = status, !.result = result] ELSE center

\* A center summarised anew still shows its round.
LEMMA RecopiedCenter ==
  ASSUME NEW z \in Center, NEW shown \in Displays, NEW status \in RoundStatuses, NEW result \in Results
  PROVE  LET y == Recopied(z, shown, status, result)
         IN  /\ y \in Center /\ y.ptr = z.ptr /\ y.shown = z.shown
             /\ z.ptr => y.round = status /\ y.result = result
<1>1. CASE z.ptr
  BY <1>1 DEF Recopied, Center
<1>2. CASE ~z.ptr
  BY <1>2 DEF Recopied, Center
<1> QED
  BY <1>1, <1>2

\* _apply_visible_summary: another record of an active round.
LEMMA FollowedUpFollows ==
  ASSUME NEW c \in Clue, Sound(c), ActiveRound(c), NEW result \in Protecting, NEW r
  PROVE  Follows(c, FollowedUp(c, result), r)
<1> DEFINE d == FollowedUp(c, result)
           n == Len(c.rec) + 1
           x == [result |-> result, deleted |-> FALSE]
           round == [status |-> "active_followed", result |-> result,
                     since |-> IF c.round.since = 0 THEN n ELSE c.round.since]
           center == Recopied(c.center, "active", "active_followed", result)
<1>1. /\ c.lead.status = "active" /\ c.lead.cur /\ c.entry # "active" /\ c.lead.place.pool = "store"
      /\ c.round.since \in 0..Len(c.rec) /\ c.round.since = Since(c.rec)
      /\ c.rec \in Seq(Record) /\ Len(c.rec) \in Nat /\ c.round.since \in Nat /\ c.lead.at \in Nat
      /\ c.center \in Center /\ result \in Results
  BY OperableIsActive, Fields DEF Sound, Summed, Results, Round
<1>2. x \in Record /\ ~x.deleted /\ x.result = result
  BY <1>1 DEF Record
<1>3. /\ Append(c.rec, x) \in Seq(Record) /\ Len(Append(c.rec, x)) = n
      /\ Result(Append(c.rec, x)) = result
      /\ Since(Append(c.rec, x)) = IF Since(c.rec) = 0 THEN n ELSE Since(c.rec)
  BY <1>1, <1>2, SummaryOfAppended
<1>4. /\ round \in Round /\ round.status = "active_followed" /\ round.result = result
      /\ round.since = IF c.round.since = 0 THEN n ELSE c.round.since
  BY <1>1 DEF Round, RoundStatuses, ActiveStatuses
<1>5. /\ center \in Center /\ center.ptr = c.center.ptr /\ center.shown = c.center.shown
      /\ c.center.ptr => center.round = "active_followed" /\ center.result = result
  <2>1. "active" \in Displays /\ "active_followed" \in RoundStatuses
    BY DEF Displays, RoundStatuses, ActiveStatuses
  <2> QED
    BY <1>1, <2>1, RecopiedCenter
<1>6. d = [c EXCEPT !.rec = Append(c.rec, x), !.round = round, !.center = center]
  BY DEF FollowedUp, Clue, Recopied
<1> HIDE DEF d, round, center, x
<1>7. /\ d \in Clue /\ d.lead = c.lead /\ d.entry = c.entry
      /\ d.rec = Append(c.rec, x) /\ d.round = round /\ d.center = center
  BY <1>3, <1>4, <1>5, <1>6 DEF Clue
<1>8. ActiveRound(d) /\ d.round.status # "none"
  BY <1>4, <1>7 DEF ActiveRound, ActiveStatuses
<1>9. Summed(d)
  BY <1>1, <1>3, <1>4, <1>7 DEF Summed
<1>10. Linked(d) /\ Placed(d)
  BY <1>1, <1>7, <1>8 DEF Linked, Placed
<1>11. Copied(d)
  BY <1>4, <1>5, <1>7 DEF Copied, Sound
<1> QED
  BY <1>1, <1>7, <1>9, <1>10, <1>11 DEF d, Follows, Sound, Onward

\* _close_for_reassignment: the round is given up.
LEMMA GivenUpFollows ==
  ASSUME NEW c \in Clue, Sound(c), ActiveRound(c), NEW r
  PROVE  Follows(c, GivenUp(c), r)
<1> DEFINE d == GivenUp(c)
           x == [result |-> "lost", deleted |-> FALSE]
           place == [pool |-> "none", alloc |-> "pending_reassign"]
           round == [c.round EXCEPT !.status = "closed_reassigned", !.result = "lost"]
           center == Recopied(c.center, "pending_reassign", "closed_reassigned", "lost")
<1>1. /\ c.lead.status = "active" /\ c.entry # "active"
      /\ c.round.since \in 0..Len(c.rec) /\ c.round \in Round
      /\ c.rec \in Seq(Record) /\ Len(c.rec) \in Nat /\ c.lead.at \in Nat /\ c.center \in Center
  BY OperableIsActive, Fields DEF Sound, Summed
<1>2. /\ Append(c.rec, x) \in Seq(Record) /\ Len(Append(c.rec, x)) = Len(c.rec) + 1
  <2>1. x \in Record
    BY DEF Record, Results
  <2> QED
    BY <1>1, <2>1
<1>3. /\ round \in Round /\ round.status = "closed_reassigned" /\ round.result = "lost"
      /\ round.since = c.round.since
  BY <1>1 DEF Round, RoundStatuses, Results
<1>4. /\ center \in Center /\ center.ptr = c.center.ptr /\ center.shown = c.center.shown
      /\ c.center.ptr => center.round = "closed_reassigned" /\ center.result = "lost"
  <2>1. "pending_reassign" \in Displays /\ "closed_reassigned" \in RoundStatuses /\ "lost" \in Results
    BY DEF Displays, RoundStatuses, Results
  <2> QED
    BY <1>1, <2>1, RecopiedCenter
<1>5. d = [c EXCEPT !.rec = Append(c.rec, x), !.round = round, !.lead.cur = FALSE,
                    !.lead.place = place, !.center = center]
  BY DEF GivenUp, Clue, Recopied
<1>6. place \in Pools /\ place.pool = "none"
  BY DEF Pools
<1> HIDE DEF d, round, center, x, place
<1>7. /\ d \in Clue /\ d.lead.status = c.lead.status /\ d.lead.at = c.lead.at
      /\ d.lead.seen = c.lead.seen /\ d.lead.place = place /\ d.entry = c.entry
      /\ d.rec = Append(c.rec, x) /\ d.round = round /\ d.center = center
  BY <1>2, <1>3, <1>4, <1>5, <1>6 DEF Clue, Lead
<1>8. ~ActiveRound(d) /\ d.round.status # "none"
  BY <1>3, <1>7 DEF ActiveRound, ActiveStatuses
<1>9. Summed(d)
  BY <1>1, <1>2, <1>3, <1>7, <1>8 DEF Summed
<1>10. Linked(d) /\ Placed(d)
  BY <1>1, <1>6, <1>7, <1>8 DEF Linked, Placed
<1>11. Copied(d)
  BY <1>3, <1>4, <1>7 DEF Copied, Sound
<1> QED
  BY <1>1, <1>7, <1>8, <1>9, <1>10, <1>11 DEF d, Follows, Sound, Onward

\* soft_delete_follow_up_record: the summary of an active round is computed anew, that
\* of a closed one stays.
LEMMA DeletedFollows ==
  ASSUME NEW c \in Clue, Sound(c), NEW i \in Kept(c.rec), NEW r
  PROVE  LET e == [c EXCEPT !.rec[i].deleted = TRUE]
         IN  Follows(c, IF Operable(e) THEN Recalculated(e) ELSE e, r)
<1> DEFINE e == [c EXCEPT !.rec[i].deleted = TRUE]
<1>1. /\ c.rec \in Seq(Record) /\ i \in 1..Len(c.rec) /\ Len(c.rec) \in Nat /\ c.lead.at \in Nat
      /\ c.center \in Center
  BY Fields, KeptPositions
<1>2. /\ e \in Clue /\ e.lead = c.lead /\ e.round = c.round /\ e.center = c.center /\ e.entry = c.entry
      /\ e.rec \in Seq(Record) /\ Len(e.rec) = Len(c.rec)
  <2> DEFINE x == [c.rec[i] EXCEPT !.deleted = TRUE]
             rec == [c.rec EXCEPT ![i] = x]
  <2>1. x \in Record
    <3>1. c.rec[i] \in Record
      BY <1>1
    <3> QED
      BY <3>1 DEF Record
  <2>2. e = [c EXCEPT !.rec = rec]
    OBVIOUS
  <2> HIDE DEF x, e
  <2>3. rec \in Seq(Record) /\ Len(rec) = Len(c.rec)
    BY <1>1, <2>1
  <2> HIDE DEF rec
  <2> QED
    BY <2>2, <2>3 DEF Clue
<1> HIDE DEF e
<1>3. Linked(e) /\ Placed(e) /\ Copied(e)
  BY <1>1, <1>2 DEF Sound, Linked, Placed, Copied, ActiveRound
<1>4. CASE ~Operable(e)
  <2>1. ~ActiveRound(e)
    BY <1>2, <1>3, <1>4, OperableIsActive
  <2>2. Summed(e)
    BY <1>2, <2>1 DEF Sound, Summed
  <2> QED
    BY <1>1, <1>2, <1>3, <1>4, <2>2 DEF Follows, Sound, Onward, ActiveRound, e
<1>5. CASE Operable(e)
  <2> DEFINE status == IF Kept(e.rec) = {} THEN "active_unfollowed" ELSE "active_followed"
             round == [status |-> status, result |-> Result(e.rec), since |-> Since(e.rec)]
             center == Recopied(e.center, "active", round.status, round.result)
             d == Recalculated(e)
  <2>1. /\ e.lead.status = "active" /\ e.lead.cur /\ e.entry # "active"
        /\ e.lead.place.pool = "store"
    BY <1>2, <1>3, <1>5, OperableIsActive
  <2>2. Since(e.rec) \in 0..Len(e.rec) /\ Since(e.rec) \in Nat /\ Result(e.rec) \in Results
    BY <1>1, <1>2, SummaryOfRecords
  <2>3. /\ round \in Round /\ round.status \in ActiveStatuses /\ round.result = Result(e.rec)
        /\ round.since = Since(e.rec) /\ round.status \in RoundStatuses /\ round.result \in Results
    BY <2>2 DEF Round, RoundStatuses, ActiveStatuses
  <2>4. d = [e EXCEPT !.round = round, !.center = center]
    <3>1. round = IF Kept(e.rec) = {} THEN [status |-> "active_unfollowed", result |-> "pending", since |-> 0]
                  ELSE [status |-> "active_followed", result |-> e.rec[Max(Kept(e.rec))].result,
                        since |-> Min(Kept(e.rec))]
      BY DEF Result, Since
    <3> HIDE DEF round
    <3>2. center = IF e.center.ptr THEN [e.center EXCEPT !.lead = "active", !.round = round.status,
                                                         !.result = round.result] ELSE e.center
      BY DEF Recopied
    <3> HIDE DEF center
    <3> QED
      BY <3>1, <3>2, <1>2 DEF Recalculated, Clue
  <2> HIDE DEF round
  <2>5. /\ center \in Center /\ center.ptr = e.center.ptr /\ center.shown = e.center.shown
        /\ e.center.ptr => center.round = round.status /\ center.result = round.result
    <3>1. "active" \in Displays
      BY DEF Displays
    <3> QED
      BY <1>1, <1>2, <2>3, <3>1, RecopiedCenter
  <2> HIDE DEF d, center
  <2>6. /\ d \in Clue /\ d.lead = e.lead /\ d.entry = e.entry /\ d.rec = e.rec
        /\ d.round = round /\ d.center = center
    BY <1>2, <2>3, <2>4, <2>5 DEF Clue
  <2>7. ActiveRound(d) /\ d.round.status # "none"
    BY <2>3, <2>6 DEF ActiveRound, ActiveStatuses
  <2>8. Linked(d) /\ Placed(d)
    BY <2>1, <2>6, <2>7 DEF Linked, Placed
  <2>9. Copied(d)
    BY <1>3, <2>5, <2>6 DEF Copied
  <2>10. Summed(d)
    BY <2>2, <2>3, <2>6 DEF Summed
  <2>11. Onward(c, d)
    <3>1. ActiveRound(c)
      BY <1>2, <1>3, <1>5, OperableIsActive DEF ActiveRound
    <3> QED
      BY <1>1, <1>2, <2>6, <3>1 DEF Onward
  <2> QED
    BY <1>2, <1>5, <2>6, <2>8, <2>9, <2>10, <2>11 DEF Follows, Sound, d, e
<1> QED
  BY <1>4, <1>5

-----------------------------------------------------------------------------
(* The repair commands.                                                    *)

\* refresh_unknown_clue_master_statuses: a lead of unknown status has neither an active
\* round nor a pool entry, so the label alone decides where it goes.
LEMMA RefreshUnknownFollows ==
  ASSUME NEW c \in Clue, Sound(c), NEW s \in {"active", "unknown", "closed"}, NEW r,
         c.lead.status = "unknown"
  PROVE  LET place == IF Lifecycle(s) = "active" /\ c.lead.place.pool = "headquarters"
                      THEN c.lead.place ELSE Place(c, Lifecycle(s), FALSE)
             next == [c EXCEPT !.lead.status = s, !.lead.place = place]
         IN  Follows(c, IF Lifecycle(s) = "active" THEN next ELSE Closed(next), r)
<1> DEFINE place == IF Lifecycle(s) = "active" /\ c.lead.place.pool = "headquarters"
                    THEN c.lead.place ELSE Place(c, Lifecycle(s), FALSE)
           next == [c EXCEPT !.lead.status = s, !.lead.place = place]
<1>1. s \in Statuses /\ c.lead.at \in Nat
  BY Fields DEF Statuses, Terminal
<1>2. Lifecycle(s) = "active" <=> s = "active"
  BY <1>1, Lifecycles
<1>3. ~ActiveRound(c) /\ ~CurrentRoundActive(c) /\ c.entry # "active"
      /\ c.lead.place.pool \notin {"store", "headquarters"}
  BY DEF Sound, Placed, CurrentRoundActive
<1>4. place \in Pools /\ place.pool \notin {"store", "headquarters"}
  BY <1>1, <1>3, Places
<1> HIDE DEF place
<1>5. /\ next \in Clue /\ next.lead.status = s /\ next.lead.at = c.lead.at
      /\ next.lead.seen = c.lead.seen /\ next.lead.cur = c.lead.cur /\ next.lead.place = place
      /\ next.round = c.round /\ next.rec = c.rec /\ next.center = c.center /\ next.entry = c.entry
  BY <1>1, <1>4 DEF Clue, Lead
<1> HIDE DEF next
<1>6. ~ActiveRound(next) /\ Linked(next) /\ Copied(next) /\ Placed(next)
  BY <1>3, <1>4, <1>5 DEF Sound, Linked, Copied, Placed, ActiveRound
<1>7. Summed(next)
  BY <1>5, SummaryKept DEF Sound
<1>8. CASE s = "active"
  BY <1>1, <1>2, <1>5, <1>6, <1>7, <1>8 DEF Follows, Sound, Onward, Terminal, next, place
<1>9. CASE s # "active"
  <2>1. /\ Closed(next) \in Clue /\ Sound(Closed(next))
        /\ Closed(next).lead = next.lead /\ ~ActiveRound(Closed(next))
    BY <1>4, <1>5, <1>6, <1>7, <1>9, ClosedSound
  <2>2. Follows(c, Closed(next), r)
    BY <1>1, <1>5, <2>1 DEF Follows, Onward, Terminal
  <2> QED
    BY <1>2, <1>9, <2>2 DEF next, place
<1> QED
  BY <1>8, <1>9

\* synchronize_non_active_clue_states on a lead that is not active.
LEMMA SynchronizedFollows ==
  ASSUME NEW c \in Clue, Sound(c), NEW r, c.lead.status # "active"
  PROVE  LET differs == c.center.lead # ShownAs(c.lead.status) \/ c.center.round # ClosedAs(c.lead.status)
             round == IF ActiveRound(c) \/ (c.center.ptr /\ differs) THEN ClosedAs(c.lead.status)
                      ELSE c.round.status
             next == [c EXCEPT !.entry = EntryClosed(c),
                               !.round.status = round,
                               !.center.lead = IF c.center.shown THEN ShownAs(c.lead.status) ELSE @,
                               !.center.round = IF c.center.shown THEN ClosedAs(c.lead.status) ELSE @]
         IN  Follows(c, next, r)
<1> DEFINE differs == c.center.lead # ShownAs(c.lead.status) \/ c.center.round # ClosedAs(c.lead.status)
           round == IF ActiveRound(c) \/ (c.center.ptr /\ differs) THEN ClosedAs(c.lead.status)
                    ELSE c.round.status
           next == [c EXCEPT !.entry = EntryClosed(c),
                             !.round.status = round,
                             !.center.lead = IF c.center.shown THEN ShownAs(c.lead.status) ELSE @,
                             !.center.round = IF c.center.shown THEN ClosedAs(c.lead.status) ELSE @]
<1>1. /\ c.lead.status \in Statuses /\ c.lead.at \in Nat /\ c.round \in Round /\ c.center \in Center
      /\ EntryClosed(c) \in {"none", "closed"} /\ c.round.status \in RoundStatuses
  BY Fields DEF EntryClosed, Round
<1>2. /\ ClosedAs(c.lead.status) \in RoundStatuses /\ ShownAs(c.lead.status) \in Displays
      /\ ClosedAs(c.lead.status) \notin ActiveStatuses /\ ClosedAs(c.lead.status) # "none"
  BY <1>1, ClosedStatuses
<1>3. ~ActiveRound(c) /\ c.entry # "active" /\ c.lead.place.pool \notin {"store", "headquarters"}
  BY DEF Sound, Placed
<1>4. /\ round \in RoundStatuses /\ round \notin ActiveStatuses
      /\ c.center.ptr => round = ClosedAs(c.lead.status)
      /\ round = "none" => c.round.status = "none"
  BY <1>1, <1>2, <1>3 DEF Sound, Copied, ActiveRound
<1> HIDE DEF round
<1>5. /\ next \in Clue /\ next.lead = c.lead /\ next.rec = c.rec /\ next.entry = EntryClosed(c)
      /\ next.round.status = round /\ next.round.since = c.round.since
      /\ next.round.result = c.round.result
      /\ next.center.ptr = c.center.ptr /\ next.center.shown = c.center.shown
      /\ next.center.result = c.center.result
      /\ c.center.shown => next.center.round = ClosedAs(c.lead.status)
  BY <1>1, <1>2, <1>4 DEF Clue, Round, Center
<1> HIDE DEF next
<1>6. ~ActiveRound(next)
  BY <1>4, <1>5 DEF ActiveRound
<1>7. Summed(next)
  BY <1>5, <1>6, SummaryKept DEF Sound
<1>8. Linked(next) /\ Placed(next) /\ Copied(next)
  BY <1>1, <1>3, <1>4, <1>5, <1>6 DEF Sound, Linked, Placed, Copied
<1> QED
  BY <1>1, <1>5, <1>6, <1>7, <1>8 DEF Follows, Sound, Onward, next, round

-----------------------------------------------------------------------------
(* The inductive invariant: sources, the page a materializer holds, the    *)
(* batch, and clues that are sound and not ahead of their sources.         *)

Sources ==
  /\ raw \in [Leads -> Evidence]
  /\ \A l \in Leads : raw[l].proof \in Proofs \cup {NoProof}
  /\ task \in [Leads -> SUBSET {"raw", "center", "notify"}]

Held ==
  /\ mat.by \in {"none", "daily", "repair"}
  /\ DOMAIN mat.read \subseteq Leads
  /\ \A l \in DOMAIN mat.read : mat.read[l] \in Evidence /\ Older(mat.read[l], raw[l])

Batches == [pc : {"idle", "read", "write", "project", "select", "allocate", "save"},
            exact : SUBSET Leads, todo : SUBSET Leads, key : 0..MaxLead]

Batched ==
  /\ batch \in Batches
  /\ batch.pc \in {"read", "write", "project", "allocate"} => batch.todo # {}
  /\ batch.pc = "write" <=> mat.by = "repair"
  /\ cursor \in [alloc : 0..MaxLead, repair : 0..MaxLead]
  /\ faults \in 0..MaxFaults

Clues ==
  /\ clue \in [Leads -> Clue]
  /\ \A l \in Leads : Sound(clue[l]) /\ Clocked(clue[l], raw[l])

ClueInv == Sources /\ Held /\ Batched /\ Clues

\* What any step does to the clues: each stays or follows evidence that is not newer
\* than its sources.
Written ==
  /\ clue' \in [Leads -> Clue]
  /\ \A l \in Leads : \/ clue'[l] = clue[l]
                      \/ \E q \in Evidence : Older(q, raw[l]) /\ Follows(clue[l], clue'[l], q)

-----------------------------------------------------------------------------
(* The initial state.                                                      *)

\* A clue nothing has been heard of is sound.
LEMMA Initially ==
  Init => ClueInv
<1> SUFFICES ASSUME Init PROVE ClueInv
  OBVIOUS
<1> USE ClueAssumption
<1> DEFINE none == [label |-> "unknown", at |-> 0, proof |-> NoProof, pat |-> 0, seen |-> 0]
           lead == [known |-> FALSE, status |-> "none", at |-> 0, seen |-> 0,
                    place |-> NoPlace, cur |-> FALSE, anchored |-> TRUE]
           round == [status |-> "none", result |-> "pending", since |-> 0]
           center == [shown |-> FALSE, ptr |-> FALSE, lead |-> "none", round |-> "none", result |-> "none"]
           c == [lead |-> lead, round |-> round, rec |-> <<>>, center |-> center, entry |-> "none"]
<1>1. raw = [l \in Leads |-> none] /\ clue = [l \in Leads |-> c] /\ task = [l \in Leads |-> {}]
  BY DEF Init
<1>2. none \in Evidence /\ none.proof = NoProof /\ none.at = 0 /\ none.pat = 0 /\ none.seen = 0
  BY DEF Evidence
<1>3. /\ lead \in Lead /\ lead.cur = FALSE /\ lead.status = "none" /\ lead.place.pool = "none"
      /\ lead.at = 0 /\ lead.seen = 0
  BY DEF Lead, Statuses, Pools, NoPlace
<1>4. round \in Round /\ round.status = "none" /\ round.since = 0
  BY DEF Round, RoundStatuses, Results
<1>5. center \in Center /\ center.ptr = FALSE
  BY DEF Center, RoundStatuses, Displays
<1> HIDE DEF none, lead, round, center
<1>6. /\ c \in Clue /\ c.lead = lead /\ c.round = round /\ c.rec = <<>> /\ c.center = center
      /\ c.entry = "none"
  BY <1>3, <1>4, <1>5 DEF Clue
<1> HIDE DEF c
<1>7. Sound(c) /\ Clocked(c, none)
  BY <1>2, <1>3, <1>4, <1>5, <1>6
     DEF Sound, Linked, Placed, Copied, Summed, ActiveRound, ActiveStatuses, Clocked
<1>8. Sources
  BY <1>1, <1>2 DEF Sources
<1>9. Clues
  BY <1>1, <1>6, <1>7 DEF Clues
<1>10. Held
  BY DEF Init, NoMat, Held
<1>11. Batched
  <2>1. batch \in Batches /\ batch.pc = "idle" /\ mat.by = "none" /\ faults = 0
        /\ cursor \in [alloc : 0..MaxLead, repair : 0..MaxLead]
    BY DEF Init, Idle, NoMat, Batches
  <2> QED
    BY <2>1 DEF Batched
<1> QED
  BY <1>8, <1>9, <1>10, <1>11 DEF ClueInv

-----------------------------------------------------------------------------
(* What each step writes.                                                  *)

\* A step that leaves the clues alone.
LEMMA UnchangedWritten ==
  ASSUME Clues, clue' = clue
  PROVE  Written
BY DEF Clues, Written

\* A step that writes one clue by its present evidence.
LEMMA OneWritten ==
  ASSUME Sources, Clues, NEW l \in Leads, NEW d, clue' = [clue EXCEPT ![l] = d],
         Follows(clue[l], d, raw[l])
  PROVE  Written
<1>1. d \in Clue
  BY DEF Follows
<1>2. clue' \in [Leads -> Clue] /\ clue'[l] = d /\ \A k \in Leads \ {l} : clue'[k] = clue[k]
  BY <1>1 DEF Clues
<1>3. raw[l] \in Evidence
  BY DEF Sources
<1>4. Older(raw[l], raw[l])
  BY <1>3 DEF Older, Evidence
<1> QED
  BY <1>2, <1>3, <1>4 DEF Written

\* A materializer that writes the page it has read, however long ago.
LEMMA PageWritten ==
  ASSUME Held, Clues, Writes
  PROVE  Written
<1> DEFINE page == DOMAIN mat.read
<1>1. PICK a \in [page -> BOOLEAN], m \in [page -> BOOLEAN] :
        clue' = [l \in Leads |-> IF l \in page THEN Materialized(clue[l], mat.read[l], a[l], m[l])
                                 ELSE clue[l]]
  BY DEF Writes
<1>2. \A l \in Leads : /\ clue'[l] \in Clue
                       /\ \/ clue'[l] = clue[l]
                          \/ \E q \in Evidence : Older(q, raw[l]) /\ Follows(clue[l], clue'[l], q)
  <2> SUFFICES ASSUME NEW l \in Leads
               PROVE  /\ clue'[l] \in Clue
                      /\ \/ clue'[l] = clue[l]
                         \/ \E q \in Evidence : Older(q, raw[l]) /\ Follows(clue[l], clue'[l], q)
    OBVIOUS
  <2>1. clue[l] \in Clue /\ Sound(clue[l])
    BY DEF Clues
  <2>2. CASE l \notin page
    BY <1>1, <2>1, <2>2
  <2>3. CASE l \in page
    <3>1. mat.read[l] \in Evidence /\ Older(mat.read[l], raw[l]) /\ a[l] \in BOOLEAN /\ m[l] \in BOOLEAN
      BY <2>3 DEF Held
    <3>2. Follows(clue[l], Materialized(clue[l], mat.read[l], a[l], m[l]), mat.read[l])
      BY <2>1, <3>1, MaterializedFollows
    <3>3. clue'[l] = Materialized(clue[l], mat.read[l], a[l], m[l])
      BY <1>1, <2>3
    <3> QED
      BY <3>1, <3>2, <3>3 DEF Follows
  <2> QED
    BY <2>2, <2>3
<1>3. clue' \in [Leads -> Clue]
  BY <1>1, <1>2
<1> QED
  BY <1>2, <1>3 DEF Written

\* A projection of any centers.
LEMMA CentersWritten ==
  ASSUME Sources, Clues, NEW S, RefreshedCenters(S)
  PROVE  Written
<1>1. PICK skipped : clue' = [l \in Leads |-> IF l \in S \ skipped /\ Projectable(clue[l])
                                THEN Projected(clue[l], raw[l].proof = "verified") ELSE clue[l]]
  BY DEF RefreshedCenters
<1>2. \A l \in Leads : /\ clue'[l] \in Clue
                       /\ \/ clue'[l] = clue[l]
                          \/ raw[l] \in Evidence /\ Older(raw[l], raw[l]) /\ Follows(clue[l], clue'[l], raw[l])
  <2> SUFFICES ASSUME NEW l \in Leads
               PROVE  /\ clue'[l] \in Clue
                      /\ \/ clue'[l] = clue[l]
                         \/ raw[l] \in Evidence /\ Older(raw[l], raw[l]) /\ Follows(clue[l], clue'[l], raw[l])
    OBVIOUS
  <2>1. clue[l] \in Clue /\ Sound(clue[l]) /\ raw[l] \in Evidence
    BY DEF Clues, Sources
  <2>2. Older(raw[l], raw[l])
    BY <2>1 DEF Older, Evidence
  <2> DEFINE v == raw[l].proof = "verified"
  <2>3. v \in BOOLEAN
    OBVIOUS
  <2> HIDE DEF v
  <2>4. Follows(clue[l], Projected(clue[l], v), raw[l])
    BY <2>1, <2>3, ProjectedFollows
  <2>5. clue'[l] = clue[l] \/ clue'[l] = Projected(clue[l], v)
    BY <1>1 DEF v
  <2> QED
    BY <2>1, <2>2, <2>4, <2>5 DEF Follows
<1>3. clue' \in [Leads -> Clue]
  BY <1>1, <1>2
<1> QED
  BY <1>2, <1>3 DEF Written

\* allocate_lead on a lead of the page.
LEMMA AllocateWritten ==
  ASSUME Sources, Clues, NEW l \in Leads, Allocate(l)
  PROVE  Written
<1>1. clue[l] \in Clue /\ Sound(clue[l]) /\ raw[l] \in Evidence
  BY DEF Clues, Sources
<1>2. CASE clue' = clue
  BY <1>2, UnchangedWritten
<1>3. CASE clue' # clue
  <2>1. Eligible(l)
    BY <1>3 DEF Allocate
  <2>2. /\ clue[l].lead.status = "active" /\ clue[l].round.status = "none"
        /\ clue[l].entry = "none" /\ clue[l].rec = <<>>
    BY <1>1, <2>1, WaitingClue DEF Eligible
  <2>3. CASE HasTerminalEvidence(l)
    <3>1. clue' = [clue EXCEPT ![l] = ClosedByEvidence(clue[l], raw[l])]
      BY <1>3, <2>3 DEF Allocate
    <3>2. Follows(clue[l], ClosedByEvidence(clue[l], raw[l]), raw[l])
      BY <1>1, <2>2, <2>3, ClosedByEvidenceFollows DEF HasTerminalEvidence
    <3> QED
      BY <3>1, <3>2, OneWritten
  <2>4. CASE ~HasTerminalEvidence(l)
    <3>1. PICK d \in {Assigned(clue[l]), SentToHeadquarters(clue[l])} : clue' = [clue EXCEPT ![l] = d]
      BY <1>3, <2>4 DEF Allocate
    <3>2. Follows(clue[l], d, raw[l])
      BY <1>1, <2>2, <3>1, AssignedFollows, HeadquartersFollows
    <3> QED
      BY <3>1, <3>2, OneWritten
  <2> QED
    BY <2>3, <2>4
<1> QED
  BY <1>2, <1>3

\* apply_follow_up_action
LEMMA FollowUpWritten ==
  ASSUME Sources, Clues, NEW l \in Leads, FollowUp(l)
  PROVE  Written
<1>1. clue[l] \in Clue /\ Sound(clue[l]) /\ ActiveRound(clue[l])
  BY DEF Clues, FollowUp, Operable, CurrentRoundActive
<1>2. PICK d \in {FollowedUp(clue[l], r) : r \in Protecting} \cup {GivenUp(clue[l])} :
        clue' = [clue EXCEPT ![l] = d]
  BY DEF FollowUp
<1>3. Follows(clue[l], d, raw[l])
  BY <1>1, <1>2, FollowedUpFollows, GivenUpFollows
<1> QED
  BY <1>2, <1>3, OneWritten

\* soft_delete_follow_up_record
LEMMA DeleteWritten ==
  ASSUME Sources, Clues, NEW l \in Leads, DeleteRecord(l)
  PROVE  Written
<1>1. clue[l] \in Clue /\ Sound(clue[l])
  BY DEF Clues
<1>2. PICK i \in Kept(clue[l].rec) :
        LET c == [clue[l] EXCEPT !.rec[i].deleted = TRUE] IN
          clue' = [clue EXCEPT ![l] = IF Operable(c) THEN Recalculated(c) ELSE c]
  BY DEF DeleteRecord
<1> DEFINE c == [clue[l] EXCEPT !.rec[i].deleted = TRUE]
           d == IF Operable(c) THEN Recalculated(c) ELSE c
<1>3. Follows(clue[l], d, raw[l])
  BY <1>1, DeletedFollows
<1>4. clue' = [clue EXCEPT ![l] = d]
  BY <1>2
<1> HIDE DEF d
<1> QED
  BY <1>3, <1>4, OneWritten

\* refresh_unknown_clue_master_statuses and synchronize_non_active_clue_states
LEMMA RepairsWritten ==
  ASSUME Sources, Clues, NEW l \in Leads, RefreshUnknown(l) \/ SynchronizeClosed(l)
  PROVE  Written
<1> DEFINE c == clue[l]
<1>1. c \in Clue /\ Sound(c) /\ raw[l].label \in {"active", "unknown", "closed"}
  BY DEF Clues, Sources, Evidence
<1>2. CASE RefreshUnknown(l)
  <2> DEFINE s == raw[l].label
             place == IF Lifecycle(s) = "active" /\ c.lead.place.pool = "headquarters"
                      THEN c.lead.place ELSE Place(c, Lifecycle(s), FALSE)
             next == [c EXCEPT !.lead.status = s, !.lead.place = place]
             d == IF Lifecycle(s) = "active" THEN next ELSE Closed(next)
  <2>1. c.lead.status = "unknown" /\ clue' = [clue EXCEPT ![l] = d]
    BY <1>2 DEF RefreshUnknown
  <2> HIDE DEF s
  <2>2. Follows(c, d, raw[l])
    BY Zenon, <1>1, <2>1, RefreshUnknownFollows DEF s
  <2> HIDE DEF d
  <2> QED
    BY Zenon, <2>1, <2>2, OneWritten
<1>3. CASE SynchronizeClosed(l)
  <2> DEFINE differs == c.center.lead # ShownAs(c.lead.status) \/ c.center.round # ClosedAs(c.lead.status)
             round == IF ActiveRound(c) \/ (c.center.ptr /\ differs) THEN ClosedAs(c.lead.status)
                      ELSE c.round.status
             d == [c EXCEPT !.entry = EntryClosed(c),
                            !.round.status = round,
                            !.center.lead = IF c.center.shown THEN ShownAs(c.lead.status) ELSE @,
                            !.center.round = IF c.center.shown THEN ClosedAs(c.lead.status) ELSE @]
  <2>1. c.lead.status # "active" /\ clue' = [clue EXCEPT ![l] = d]
    BY <1>3 DEF SynchronizeClosed, Lifecycle, Terminal
  <2>2. Follows(c, d, raw[l])
    BY Zenon, <1>1, <2>1, SynchronizedFollows
  <2> HIDE DEF d
  <2> QED
    BY <2>1, <2>2, OneWritten
<1> QED
  BY <1>2, <1>3

\* Every step of the system.
LEMMA StepWritten ==
  ASSUME ClueInv, [Next]_vars
  PROVE  Written
<1> USE DEF ClueInv
<1>1. CASE clue' = clue
  BY <1>1, UnchangedWritten
<1>2. CASE MaterializeCommits \/ RepairCommits
  BY <1>2, PageWritten DEF MaterializeCommits, RepairCommits
<1>3. CASE RepairProjects \/ \E l \in Leads : RefreshCenter(l)
  BY <1>3, CentersWritten DEF RepairProjects, RefreshCenter
<1>4. CASE AllocateNext
  <2> DEFINE l == Min(batch.todo)
  <2>1. Allocate(l) /\ batch.todo # {} /\ batch.todo \subseteq Leads
    BY <1>4 DEF AllocateNext, Batched, Batches
  <2>2. l \in Leads
    BY <2>1, MinIsLeast DEF Leads
  <2> QED
    BY <2>1, <2>2, AllocateWritten
<1>5. ASSUME NEW l \in Leads, FollowUp(l) PROVE Written
  BY <1>5, FollowUpWritten
<1>6. ASSUME NEW l \in Leads, DeleteRecord(l) PROVE Written
  BY <1>6, DeleteWritten
<1>7. ASSUME NEW l \in Leads, RefreshUnknown(l) \/ SynchronizeClosed(l) PROVE Written
  BY <1>7, RepairsWritten
<1>8. CASE Compensate \/ RepairReads \/ SelectPage \/ SaveCursor \/ BatchStops \/ MaterializeFails
  BY <1>1, <1>8 DEF Compensate, RepairReads, SelectPage, SaveCursor, BatchStops, MaterializeFails
<1>9. ASSUME NEW l \in Leads,
             CollectClue(l) \/ CollectOrder(l) \/ CollectProof(l) \/ MaterializeReads(l) \/ Notify(l)
      PROVE Written
  BY Zenon, <1>1, <1>9 DEF CollectClue, CollectOrder, CollectProof, Collected, MaterializeReads, Notify
<1>10. CASE UNCHANGED vars
  BY <1>1, <1>10 DEF vars
<1> QED
  BY <1>2, <1>3, <1>4, <1>5, <1>6, <1>7, <1>8, <1>9, <1>10 DEF Next, Batch

-----------------------------------------------------------------------------
(* What each step leaves of the sources, the page and the batch.           *)

\* The clock of a lead's sources.
LEMMA Clock ==
  ASSUME Sources, NEW l \in Leads
  PROVE  /\ Now(l) \in Nat /\ Now(l) >= raw[l].at /\ Now(l) >= raw[l].pat /\ Now(l) >= raw[l].seen
<1>1. raw[l].at \in Nat /\ raw[l].pat \in Nat /\ raw[l].seen \in Nat
  BY DEF Sources, Evidence
<1> QED
  BY <1>1, MaxOfThree DEF Now

\* The reports of a clue row, an order and a terminal source at time n.
WithClue(e, n, s) == [e EXCEPT !.seen = n + 1, !.label = s, !.at = IF s = e.label THEN e.at ELSE n + 1]
WithOrder(e, n, s) == [e EXCEPT !.label = s, !.at = n + 1]
WithProof(e, n, p) == [e EXCEPT !.proof = p, !.pat = n + 1]

\* Each report is evidence newer than what it replaces.
LEMMA NewerEvidence ==
  ASSUME NEW e \in Evidence, NEW n \in Nat, n >= e.at, n >= e.pat, n >= e.seen
  PROVE  /\ \A s \in {"active", "unknown", "closed"} :
              /\ WithClue(e, n, s) \in Evidence /\ Older(e, WithClue(e, n, s))
              /\ WithClue(e, n, s).proof = e.proof
              /\ WithOrder(e, n, s) \in Evidence /\ Older(e, WithOrder(e, n, s))
              /\ WithOrder(e, n, s).proof = e.proof
         /\ \A p \in Terminal :
              /\ WithProof(e, n, p) \in Evidence /\ Older(e, WithProof(e, n, p))
              /\ WithProof(e, n, p).proof = p
<1>1. e.at \in Nat /\ e.pat \in Nat /\ e.seen \in Nat /\ n + 1 \in Nat /\ n + 1 >= n
  BY DEF Evidence
<1>2. ASSUME NEW s \in {"active", "unknown", "closed"}
      PROVE  /\ WithClue(e, n, s) \in Evidence /\ Older(e, WithClue(e, n, s))
             /\ WithClue(e, n, s).proof = e.proof
  <2> DEFINE at == IF s = e.label THEN e.at ELSE n + 1
             r == WithClue(e, n, s)
  <2>1. at \in Nat /\ at >= e.at
    BY <1>1
  <2>2. r = [e EXCEPT !.seen = n + 1, !.label = s, !.at = at]
    BY DEF WithClue
  <2> HIDE DEF at, r
  <2>3. r \in Evidence
    BY <1>1, <2>1, <2>2 DEF Evidence
  <2>4. r.seen = n + 1 /\ r.at = at /\ r.pat = e.pat /\ r.proof = e.proof
    BY <2>2 DEF Evidence
  <2> QED
    BY <1>1, <2>1, <2>3, <2>4 DEF r, Older
<1>3. ASSUME NEW s \in {"active", "unknown", "closed"}
      PROVE  /\ WithOrder(e, n, s) \in Evidence /\ Older(e, WithOrder(e, n, s))
             /\ WithOrder(e, n, s).proof = e.proof
  <2> DEFINE r == WithOrder(e, n, s)
  <2>1. r \in Evidence
    BY <1>1 DEF Evidence, WithOrder
  <2>2. r.seen = e.seen /\ r.at = n + 1 /\ r.pat = e.pat /\ r.proof = e.proof
    BY DEF Evidence, WithOrder
  <2> QED
    BY <1>1, <2>1, <2>2 DEF Older
<1>4. ASSUME NEW p \in Terminal
      PROVE  /\ WithProof(e, n, p) \in Evidence /\ Older(e, WithProof(e, n, p))
             /\ WithProof(e, n, p).proof = p
  <2> DEFINE r == WithProof(e, n, p)
  <2>1. r \in Evidence
    BY <1>1 DEF Evidence, WithProof
  <2>2. r.seen = e.seen /\ r.at = e.at /\ r.pat = n + 1 /\ r.proof = p
    BY DEF Evidence, WithProof
  <2> QED
    BY <1>1, <2>1, <2>2 DEF Older
<1> QED
  BY <1>2, <1>3, <1>4

\* Sources keep their types and only grow newer.
LEMMA SourcesStep ==
  ASSUME Sources, [Next]_vars
  PROVE  Sources' /\ \A l \in Leads : Older(raw[l], raw'[l])
<1>0. /\ Labels \subseteq {"active", "unknown", "closed"} /\ Proofs \subseteq Terminal
      /\ \A l \in Leads : /\ raw[l] \in Evidence /\ Now(l) \in Nat /\ Now(l) >= raw[l].at
                          /\ Now(l) >= raw[l].pat /\ Now(l) >= raw[l].seen
  BY ClueAssumption, Clock DEF Sources
<1>1. CASE raw' = raw /\ task' \in [Leads -> SUBSET {"raw", "center", "notify"}]
  BY <1>1 DEF Sources, Older, Evidence
<1>2. ASSUME NEW l \in Leads, NEW r, Collected(l, r), r \in Evidence, Older(raw[l], r),
             r.proof \in Proofs \cup {NoProof}
      PROVE  Sources' /\ \A k \in Leads : Older(raw[k], raw'[k])
  <2>1. /\ raw' = [raw EXCEPT ![l] = r] /\ task' = [task EXCEPT ![l] = @ \cup {"raw"}]
    BY <1>2 DEF Collected
  <2>2. raw' \in [Leads -> Evidence] /\ raw'[l] = r /\ \A k \in Leads \ {l} : raw'[k] = raw[k]
    BY <1>2, <2>1 DEF Sources
  <2>3. \A k \in Leads : Older(raw[k], raw[k])
    BY DEF Sources, Older, Evidence
  <2>4. task' \in [Leads -> SUBSET {"raw", "center", "notify"}]
    BY <2>1 DEF Sources
  <2> QED
    BY <1>2, <2>2, <2>3, <2>4 DEF Sources
<1>3. ASSUME NEW l \in Leads, CollectClue(l) \/ CollectOrder(l) \/ CollectProof(l)
      PROVE  Sources' /\ \A k \in Leads : Older(raw[k], raw'[k])
  <2> DEFINE e == raw[l]
             n == Now(l)
             newer(r) == r \in Evidence /\ Older(e, r) /\ r.proof \in Proofs \cup {NoProof}
  <2>1. /\ e \in Evidence /\ n \in Nat /\ n >= e.at /\ n >= e.pat /\ n >= e.seen
        /\ e.label \in {"active", "unknown", "closed"} /\ e.proof \in Proofs \cup {NoProof}
        /\ "closed" \in Terminal
    BY SMTT(60), <1>0 DEF Sources, Evidence, Terminal
  <2>2. \/ \E s \in Labels \cup {e.label} : Collected(l, WithClue(e, n, s))
        \/ \E s \in Labels : Collected(l, WithOrder(e, n, s))
        \/ \E p \in Proofs : Collected(l, WithProof(e, n, p))
    BY Zenon, <1>3 DEF CollectClue, CollectOrder, CollectProof, WithClue, WithOrder, WithProof
  <2> HIDE DEF e, n
  <2>3. \A s \in Labels \cup {e.label} : newer(WithClue(e, n, s)) /\ newer(WithOrder(e, n, s))
    BY <1>0, <2>1, NewerEvidence
  <2>4. \A p \in Proofs : newer(WithProof(e, n, p))
    BY <1>0, <2>1, NewerEvidence
  <2>5. PICK r : Collected(l, r) /\ newer(r)
    BY <2>2, <2>3, <2>4
  <2> QED
    BY <1>2, <2>5 DEF e
<1>6. CASE raw' = raw /\ task' = task
  BY <1>1, <1>6 DEF Sources
<1>7. CASE MaterializeCommits \/ \E l \in Leads : RefreshCenter(l) \/ Notify(l)
  <2> DEFINE P == SUBSET {"raw", "center", "notify"}
  <2>1. \A l \in Leads : /\ task[l] \in P /\ task[l] \ {"raw"} \in P /\ task[l] \ {"notify"} \in P
                         /\ (task[l] \ {"center"}) \cup {"notify"} \in P
                         /\ (task[l] \ {"raw"}) \cup {"center"} \in P /\ task[l] \cup {"center"} \in P
    BY DEF Sources
  <2>2. raw' = raw /\ task \in [Leads -> P]
    BY <1>7 DEF MaterializeCommits, RefreshCenter, Notify, Sources
  <2> HIDE DEF P
  <2>3. ASSUME MaterializeCommits PROVE task' \in [Leads -> P]
    BY <2>1, <2>2, <2>3 DEF MaterializeCommits
  <2>4. ASSUME NEW l \in Leads, RefreshCenter(l) \/ Notify(l) PROVE task' \in [Leads -> P]
    BY Zenon, <2>1, <2>2, <2>4 DEF RefreshCenter, Notify
  <2>5. raw' = raw /\ task' \in [Leads -> SUBSET {"raw", "center", "notify"}]
    BY <1>7, <2>2, <2>3, <2>4 DEF P
  <2> QED
    BY <1>1, <2>5
<1>8. CASE Batch \/ BatchStops \/ MaterializeFails
           \/ \E l \in Leads : \/ MaterializeReads(l) \/ FollowUp(l) \/ DeleteRecord(l)
                               \/ RefreshUnknown(l) \/ SynchronizeClosed(l)
  BY ZenonT(60), <1>6, <1>8
     DEF Batch, Compensate, RepairReads, RepairCommits, RepairProjects, SelectPage, AllocateNext,
         SaveCursor, BatchStops, MaterializeFails, MaterializeReads, FollowUp, DeleteRecord,
         RefreshUnknown, SynchronizeClosed
<1>9. CASE UNCHANGED vars
  BY <1>6, <1>9 DEF vars
<1> QED
  BY <1>3, <1>7, <1>8, <1>9 DEF Next

\* Newer sources leave a clue's clocks behind them.
LEMMA CluesStep ==
  ASSUME ClueInv, Written, Sources', \A l \in Leads : Older(raw[l], raw'[l])
  PROVE  Clues'
<1> SUFFICES ASSUME NEW l \in Leads
             PROVE  Sound(clue'[l]) /\ Clocked(clue'[l], raw'[l])
  BY DEF Clues, Written
<1>1. /\ clue[l] \in Clue /\ Sound(clue[l]) /\ Clocked(clue[l], raw[l])
      /\ raw[l] \in Evidence /\ raw'[l] \in Evidence /\ Older(raw[l], raw'[l])
  BY DEF ClueInv, Clues, Sources
<1>2. /\ clue[l].lead.at \in Nat /\ clue[l].lead.seen \in Nat
      /\ raw[l].at \in Nat /\ raw[l].pat \in Nat /\ raw[l].seen \in Nat
      /\ raw'[l].at \in Nat /\ raw'[l].pat \in Nat /\ raw'[l].seen \in Nat
  BY <1>1, Fields DEF Evidence
<1>3. CASE clue'[l] = clue[l]
  BY <1>1, <1>2, <1>3 DEF Clocked, Older
<1>4. ASSUME NEW q \in Evidence, Older(q, raw[l]), Follows(clue[l], clue'[l], q)
      PROVE  Sound(clue'[l]) /\ Clocked(clue'[l], raw'[l])
  <2>1. q.at \in Nat /\ q.pat \in Nat /\ q.seen \in Nat
    BY DEF Evidence
  <2>2. /\ Sound(clue'[l]) /\ clue'[l].lead.at \in {clue[l].lead.at, q.at, q.pat}
        /\ clue'[l].lead.seen \in {clue[l].lead.seen, q.seen}
    BY <1>4 DEF Follows
  <2> QED
    BY <1>1, <1>2, <1>4, <2>1, <2>2 DEF Clocked, Older
<1> QED
  BY <1>3, <1>4 DEF Written

\* A materializer reads sources as they are.
LEMMA ReadsHeld ==
  ASSUME Sources', raw' = raw, NEW page, page \subseteq Leads, NEW by \in {"daily", "repair"},
         Reads(page, by)
  PROVE  Held' /\ mat'.by = by /\ mat.by = "none"
<1>1. mat' = [by |-> by, read |-> [l \in page |-> raw[l]]] /\ mat = NoMat
  BY DEF Reads
<1>2. mat'.by = by /\ mat'.read = [l \in page |-> raw[l]] /\ mat.by = "none"
  BY <1>1 DEF NoMat
<1>3. \A l \in page : mat'.read[l] = raw'[l] /\ raw'[l] \in Evidence
  BY <1>2 DEF Sources
<1>4. \A l \in page : Older(raw'[l], raw'[l])
  BY <1>3 DEF Older, Evidence
<1>5. DOMAIN mat'.read = page
  BY <1>2
<1> QED
  BY <1>2, <1>3, <1>4, <1>5 DEF Held

\* What a materializer holds grows old, but stays what its sources once said.
LEMMA HeldStep ==
  ASSUME Sources, Held, Batched, Sources', \A l \in Leads : Older(raw[l], raw'[l]), [Next]_vars
  PROVE  Held'
<1>1. CASE mat' = mat
  <2> SUFFICES ASSUME NEW l \in DOMAIN mat.read PROVE Older(mat.read[l], raw'[l])
    BY <1>1 DEF Held
  <2>1. l \in Leads /\ mat.read[l] \in Evidence /\ Older(mat.read[l], raw[l])
    BY DEF Held
  <2>2. Older(raw[l], raw'[l]) /\ raw[l] \in Evidence /\ raw'[l] \in Evidence
    BY <2>1 DEF Sources
  <2> QED
    BY <2>1, <2>2 DEF Older, Evidence
<1>2. CASE mat' = NoMat
  BY <1>2 DEF NoMat, Held
<1>3. CASE MaterializeCommits \/ RepairCommits \/ MaterializeFails \/ BatchStops
  BY <1>1, <1>2, <1>3 DEF MaterializeCommits, RepairCommits, MaterializeFails, BatchStops, Writes
<1>4. ASSUME NEW l \in Leads, MaterializeReads(l) PROVE Held'
  <2>1. Reads({l}, "daily") /\ raw' = raw /\ {l} \subseteq Leads
    BY <1>4 DEF MaterializeReads
  <2> QED
    BY <2>1, ReadsHeld
<1>5. CASE RepairReads
  <2>1. raw' = raw /\ batch.todo \subseteq Leads /\ (mat' = mat \/ Reads(batch.todo, "repair"))
    BY SMTT(60), <1>5 DEF RepairReads, Batched, Batches
  <2> QED
    BY <1>1, <2>1, ReadsHeld
<1>6. CASE \/ Compensate \/ RepairProjects \/ SelectPage \/ AllocateNext \/ SaveCursor
           \/ \E l \in Leads : \/ CollectClue(l) \/ CollectOrder(l) \/ CollectProof(l)
                               \/ RefreshCenter(l) \/ Notify(l) \/ FollowUp(l) \/ DeleteRecord(l)
                               \/ RefreshUnknown(l) \/ SynchronizeClosed(l)
  BY ZenonT(60), <1>1, <1>6
     DEF Compensate, RepairProjects, SelectPage, AllocateNext, SaveCursor, CollectClue, CollectOrder,
         CollectProof, Collected, RefreshCenter, Notify, FollowUp, DeleteRecord, RefreshUnknown,
         SynchronizeClosed
<1>7. CASE UNCHANGED vars
  BY <1>1, <1>7 DEF vars
<1> QED
  BY <1>3, <1>4, <1>5, <1>6, <1>7 DEF Next, Batch

\* A page is taken from the leads that are looked for.
LEMMA PageOf ==
  ASSUME NEW S, NEW after, NEW exact
  PROVE  Page(S, after, exact) \subseteq S
BY DEF Page

\* A cursor is set to a key or stays.
LEMMA CursorSaved ==
  ASSUME cursor \in [alloc : 0..MaxLead, repair : 0..MaxLead], NEW which \in {"alloc", "repair"},
         NEW value \in 0..MaxLead, NEW exact, Save(which, value, exact)
  PROVE  cursor' \in [alloc : 0..MaxLead, repair : 0..MaxLead]
BY DEF Save

\* The first phase of a batch: a page to repair, or nothing to repair.
LEMMA BatchStarted ==
  ASSUME Batched, mat' = mat, faults' = faults, NEW exact \in SUBSET Leads, batch = Idle,
         StartBatch(exact)
  PROVE  Batched'
<1> DEFINE found == Page({l \in Leads : Waiting(l) /\ ~clue[l].center.shown}, cursor.repair, exact)
           pc == IF found = {} THEN "select" ELSE "read"
<1>1. /\ batch' = [pc |-> pc, exact |-> exact, todo |-> found, key |-> 0]
      /\ IF found = {} THEN Save("repair", 0, exact) ELSE UNCHANGED cursor
  BY DEF StartBatch
<1>2. found \subseteq Leads /\ 0 \in 0..MaxLead
  BY PageOf, ClueAssumption
<1>3. cursor' \in [alloc : 0..MaxLead, repair : 0..MaxLead]
  BY <1>1, <1>2, CursorSaved DEF Batched
<1>4. pc \in {"select", "read"} /\ (pc = "read" => found # {})
  OBVIOUS
<1> HIDE DEF found, pc
<1>5. batch' \in Batches /\ batch'.pc = pc /\ batch'.todo = found
  BY <1>1, <1>2, <1>4 DEF Batches
<1>6. mat.by # "repair"
  BY DEF Batched, Idle
<1> QED
  BY <1>3, <1>4, <1>5, <1>6 DEF Batched

\* Every step of the batch and of the materializers keeps the batch in order: the
\* repair alone holds a page while it has one to write.
LEMMA BatchedStep ==
  ASSUME Held, Batched, [Next]_vars
  PROVE  Batched'
<1> USE ClueAssumption
<1>0. /\ batch \in Batches /\ cursor \in [alloc : 0..MaxLead, repair : 0..MaxLead]
      /\ batch.todo \subseteq Leads /\ batch.exact \subseteq Leads /\ batch.key \in 0..MaxLead
      /\ faults \in 0..MaxFaults /\ Idle \in Batches /\ Idle.pc = "idle" /\ 0 \in 0..MaxLead
      /\ Leads \subseteq 0..MaxLead
  BY DEF Batched, Batches, Idle, Leads
<1>1. CASE UNCHANGED <<mat, batch, cursor, faults>>
  BY <1>1 DEF Batched
<1>2. CASE Compensate
  BY <1>2, BatchStarted DEF Compensate
<1>3. ASSUME NEW l \in Leads, Notify(l) PROVE Batched'
  <2>1. CASE batch = Idle
    BY <1>3, <2>1, BatchStarted DEF Notify
  <2>2. CASE batch # Idle
    BY <1>1, <1>3, <2>2 DEF Notify
  <2> QED
    BY <2>1, <2>2
<1>4. CASE RepairReads
  <2>1. CASE Reads(batch.todo, "repair") /\ batch' = [batch EXCEPT !.pc = "write"]
    <3>1. mat'.by = "repair" /\ batch.todo # {} /\ cursor' = cursor /\ faults' = faults
      BY <1>4, <2>1 DEF Reads, RepairReads, Batched
    <3>2. batch' \in Batches /\ batch'.pc = "write" /\ batch'.todo = batch.todo
      BY <1>0, <2>1 DEF Batches
    <3> QED
      BY <1>0, <3>1, <3>2 DEF Batched
  <2>2. CASE UNCHANGED mat /\ batch' = [batch EXCEPT !.pc = "select", !.todo = {}]
    <3>1. batch.pc = "read" /\ cursor' = cursor /\ faults' = faults
      BY <1>4 DEF RepairReads
    <3>2. batch' \in Batches /\ batch'.pc = "select"
      BY <1>0, <2>2 DEF Batches
    <3> QED
      BY <1>0, <2>2, <3>1, <3>2 DEF Batched
  <2> QED
    BY <1>4, <2>1, <2>2 DEF RepairReads
<1>5. CASE RepairCommits
  <2>1. /\ mat' = NoMat /\ batch.todo # {} /\ batch' = [batch EXCEPT !.pc = "project"]
        /\ cursor' = cursor /\ faults' = faults
    BY <1>5 DEF RepairCommits, Writes, Batched
  <2>2. batch' \in Batches /\ batch'.pc = "project" /\ batch'.todo = batch.todo
    BY <1>0, <2>1 DEF Batches
  <2>3. mat'.by = "none"
    BY <2>1 DEF NoMat
  <2> QED
    BY <1>0, <2>1, <2>2, <2>3 DEF Batched
<1>6. CASE RepairProjects
  <2>1. /\ batch.pc = "project" /\ batch.todo # {} /\ mat' = mat /\ faults' = faults
        /\ batch' = [batch EXCEPT !.pc = "select", !.todo = {}]
        /\ Save("repair", Max(batch.todo), batch.exact)
    BY <1>6 DEF RepairProjects, Batched
  <2>2. Max(batch.todo) \in 0..MaxLead
    BY <1>0, <2>1, MaxIsGreatest
  <2>3. batch' \in Batches /\ batch'.pc = "select"
    BY <1>0, <2>1 DEF Batches
  <2>4. cursor' \in [alloc : 0..MaxLead, repair : 0..MaxLead]
    BY <1>0, <2>1, <2>2, CursorSaved
  <2> QED
    BY <1>0, <2>1, <2>3, <2>4 DEF Batched
<1>7. CASE SelectPage
  <2> DEFINE found == Page({l \in Leads : Eligible(l)}, cursor.alloc, batch.exact)
  <2>1. /\ batch.pc = "select" /\ mat' = mat /\ faults' = faults
        /\ batch' = IF found = {} THEN Idle ELSE [batch EXCEPT !.pc = "allocate", !.todo = found]
        /\ IF found = {} THEN Save("alloc", 0, batch.exact) ELSE UNCHANGED cursor
    BY <1>7 DEF SelectPage
  <2>2. found \subseteq Leads
    BY PageOf
  <2>3. cursor' \in [alloc : 0..MaxLead, repair : 0..MaxLead]
    BY <1>0, <2>1, CursorSaved
  <2> HIDE DEF found
  <2>4. /\ batch' \in Batches
        /\ batch'.pc = "idle" \/ (batch'.pc = "allocate" /\ batch'.todo = found /\ found # {})
    <3>1. CASE found = {}
      BY <1>0, <2>1, <3>1
    <3>2. CASE found # {}
      BY <1>0, <2>1, <2>2, <3>2 DEF Batches
    <3> QED
      BY <3>1, <3>2
  <2> QED
    BY <1>0, <2>1, <2>3, <2>4 DEF Batched
<1>8. CASE AllocateNext
  <2> DEFINE l == Min(batch.todo)
  <2>1. /\ batch.pc = "allocate" /\ batch.todo # {} /\ mat' = mat /\ faults' = faults
        /\ cursor' = cursor /\ batch' = [batch EXCEPT !.pc = "save", !.todo = batch.todo \ {l}, !.key = l]
    BY <1>8 DEF AllocateNext, Batched, Batches
  <2>2. l \in Leads /\ l \in 0..MaxLead
    BY <1>0, <2>1, MinIsLeast
  <2> HIDE DEF l
  <2>3. batch' \in Batches /\ batch'.pc = "save"
    BY <1>0, <2>1, <2>2 DEF Batches
  <2> QED
    BY <1>0, <2>1, <2>3 DEF Batched
<1>9. CASE SaveCursor
  <2>1. /\ batch.pc = "save" /\ mat' = mat /\ faults' = faults
        /\ batch' = IF batch.todo = {} THEN Idle ELSE [batch EXCEPT !.pc = "allocate", !.key = 0]
        /\ Save("alloc", batch.key, batch.exact)
    BY <1>9 DEF SaveCursor
  <2>2. cursor' \in [alloc : 0..MaxLead, repair : 0..MaxLead]
    BY <1>0, <2>1, CursorSaved
  <2>3. /\ batch' \in Batches
        /\ batch'.pc = "idle" \/ (batch'.pc = "allocate" /\ batch'.todo # {})
    <3>1. CASE batch.todo = {}
      BY <1>0, <2>1, <3>1
    <3>2. CASE batch.todo # {}
      BY <1>0, <2>1, <3>2 DEF Batches
    <3> QED
      BY <3>1, <3>2
  <2> QED
    BY <1>0, <2>1, <2>2, <2>3 DEF Batched
<1>10. CASE BatchStops
  <2>1. batch' = Idle /\ mat'.by # "repair" /\ faults' \in 0..MaxFaults /\ cursor' = cursor
    BY <1>0, <1>10 DEF BatchStops, NoMat
  <2> QED
    BY <1>0, <2>1 DEF Batched
<1>11. CASE MaterializeFails \/ MaterializeCommits
  <2>1. mat.by = "daily" /\ mat' = NoMat /\ batch' = batch /\ cursor' = cursor
        /\ faults' \in 0..MaxFaults
    BY <1>0, <1>11 DEF MaterializeFails, MaterializeCommits, Writes
  <2>2. mat'.by = "none"
    BY <2>1 DEF NoMat
  <2> QED
    BY <1>0, <2>1, <2>2 DEF Batched
<1>12. ASSUME NEW l \in Leads, MaterializeReads(l) PROVE Batched'
  <2>1. mat = NoMat /\ mat' = [by |-> "daily", read |-> [k \in {l} |-> raw[k]]]
        /\ UNCHANGED <<batch, cursor, faults>>
    BY <1>12 DEF MaterializeReads, Reads
  <2>2. mat.by = "none" /\ mat'.by = "daily"
    BY SMTT(60), <2>1 DEF NoMat
  <2> QED
    BY <2>1, <2>2 DEF Batched
<1>13. CASE \E l \in Leads : \/ CollectClue(l) \/ CollectOrder(l) \/ CollectProof(l) \/ RefreshCenter(l)
                             \/ FollowUp(l) \/ DeleteRecord(l) \/ RefreshUnknown(l) \/ SynchronizeClosed(l)
  BY ZenonT(60), <1>1, <1>13
     DEF CollectClue, CollectOrder, CollectProof, Collected, RefreshCenter, FollowUp, DeleteRecord,
         RefreshUnknown, SynchronizeClosed
<1>14. CASE UNCHANGED vars
  BY <1>1, <1>14 DEF vars
<1> QED
  BY <1>2, <1>3, <1>4, <1>5, <1>6, <1>7, <1>8, <1>9, <1>10, <1>11, <1>12, <1>13, <1>14 DEF Next, Batch

-----------------------------------------------------------------------------
(* The theorems.                                                           *)

\* Every step keeps the invariant.
LEMMA ClueInvKept ==
  ClueInv /\ [Next]_vars => ClueInv'
<1> SUFFICES ASSUME ClueInv, [Next]_vars PROVE ClueInv'
  OBVIOUS
<1>1. Sources /\ Held /\ Batched /\ Clues
  BY DEF ClueInv
<1>2. Sources' /\ \A l \in Leads : Older(raw[l], raw'[l])
  BY <1>1, SourcesStep
<1>3. Held' /\ Batched'
  BY <1>1, <1>2, HeldStep, BatchedStep
<1>4. Clues'
  BY <1>2, StepWritten, CluesStep
<1> QED
  BY <1>2, <1>3, <1>4 DEF ClueInv

\* In every reachable state the sources, the page a materializer holds, the batch and
\* the clues are as the invariant says.
THEOREM ClueInvariant ==
  Spec => []ClueInv
BY Initially, ClueInvKept, PTL DEF Spec

\* The type invariant: clocks behind their sources, pointers only to rounds that exist,
\* and only the repair holds a page it has not written.
THEOREM CluesAreTyped ==
  Spec => []ClueOK
<1>1. ClueInv => ClueOK
  <2> SUFFICES ASSUME ClueInv PROVE ClueOK
    OBVIOUS
  <2>1. Sources /\ Held /\ Batched /\ Clues
    BY DEF ClueInv
  <2>2. ASSUME NEW l \in Leads
        PROVE  /\ raw[l].label \in {"active", "unknown", "closed"} /\ raw[l].proof \in Proofs \cup {NoProof}
               /\ task[l] \subseteq {"raw", "center", "notify"}
               /\ clue[l].entry \in {"none", "active", "closed"}
               /\ clue[l].round.since \in 0..Len(clue[l].rec)
               /\ clue[l].lead.at <= Now(l) /\ clue[l].lead.seen <= raw[l].seen
               /\ clue[l].round.status = "none" => ~clue[l].lead.cur /\ ~clue[l].center.ptr
    <3>1. raw[l] \in Evidence /\ raw[l].proof \in Proofs \cup {NoProof}
          /\ task[l] \subseteq {"raw", "center", "notify"}
      BY <2>1 DEF Sources
    <3>2. clue[l] \in Clue /\ Sound(clue[l]) /\ Clocked(clue[l], raw[l])
      BY <2>1 DEF Clues
    <3>3. clue[l].entry \in {"none", "active", "closed"} /\ clue[l].lead.at \in Nat
      BY <3>2, Fields
    <3>4. clue[l].lead.at <= Now(l)
      BY <2>1, <3>1, <3>2, <3>3, Clock DEF Clocked, Evidence
    <3> QED
      BY <3>1, <3>2, <3>3, <3>4 DEF Evidence, Sound, Summed, Linked, Clocked
  <2>3. /\ mat.by \in {"none", "daily", "repair"} /\ DOMAIN mat.read \subseteq Leads
        /\ batch.todo \subseteq Leads /\ batch.exact \subseteq Leads
        /\ (batch.pc = "write") = (mat.by = "repair")
        /\ cursor.alloc \in 0..MaxLead /\ cursor.repair \in 0..MaxLead
        /\ faults \in 0..MaxFaults
    BY <2>1 DEF Held, Batched, Batches
  <2> QED
    BY <2>2, <2>3 DEF ClueOK
<1> QED
  BY <1>1, ClueInvariant, PTL

\* A lead is in one place and every table agrees which, whatever the order in which
\* materializer, batch, stores and repair commands write.
THEOREM LeadInOnePlace ==
  Spec => []OnePlace
<1>1. ClueInv => OnePlace
  <2> SUFFICES ASSUME ClueInv, NEW l \in Leads
               PROVE  /\ (clue[l].lead.place.pool = "store") = ActiveRound(clue[l])
                      /\ ActiveRound(clue[l]) => clue[l].lead.cur /\ clue[l].lead.status = "active"
                      /\ (clue[l].lead.place.pool = "headquarters") = (clue[l].entry = "active")
    BY DEF OnePlace
  <2>1. Linked(clue[l]) /\ Placed(clue[l])
    BY DEF ClueInv, Clues, Sound
  <2>2. /\ ActiveRound(clue[l]) => clue[l].lead.cur /\ clue[l].lead.status = "active"
        /\ (clue[l].lead.place.pool = "headquarters") = (clue[l].entry = "active")
    BY <2>1 DEF Linked, Placed
  <2>3. (clue[l].lead.place.pool = "store") = ActiveRound(clue[l])
    BY <2>1 DEF Placed, ActiveRound
  <2> QED
    BY <2>2, <2>3
<1> QED
  BY <1>1, ClueInvariant, PTL

\* The first kept record, as a round counts it.
LEMMA SinceFirst ==
  ASSUME NEW rec \in Seq(Record)
  PROVE  Since(rec) = Min(Kept(rec) \cup {Len(rec) + 1}) % (Len(rec) + 1)
<1> DEFINE n == Len(rec) + 1
           all == Kept(rec) \cup {n}
<1>1. Kept(rec) \subseteq 1..Len(rec) /\ Len(rec) \in Nat /\ n \in Nat
  BY KeptPositions
<1>2. all \subseteq Nat /\ n \in all
  BY <1>1
<1>3. CASE Kept(rec) = {}
  <2>1. Min(all) = n
    BY SMTT(60), <1>1, <1>2, <1>3, MinIs
  <2>2. n % n = 0
    BY <1>1
  <2> QED
    BY <1>3, <2>1, <2>2 DEF Since
<1>4. CASE Kept(rec) # {}
  <2> DEFINE k == Min(Kept(rec))
  <2>1. k \in Kept(rec) /\ \A y \in Kept(rec) : k <= y
    BY <1>1, <1>4, MinIsLeast
  <2>2. k \in 1..Len(rec)
    BY <1>1, <2>1
  <2>3. k \in all /\ \A y \in all : k <= y
    BY <1>1, <2>1, <2>2
  <2> HIDE DEF k
  <2>4. Min(all) = k
    BY <1>2, <2>3, MinIs
  <2>5. k % n = k
    BY <1>1, <2>2
  <2> QED
    BY <1>4, <2>4, <2>5 DEF Since, k
<1> QED
  BY <1>3, <1>4

\* The center shows the round it points to, and an active round says what its records
\* say.
THEOREM SummariesInStep ==
  Spec => []SummaryInStep
<1>1. ClueInv => SummaryInStep
  <2> SUFFICES ASSUME ClueInv, NEW l \in Leads
               PROVE  LET c == clue[l]  kept == Kept(c.rec) IN
                        /\ c.center.ptr => c.center.round = c.round.status /\ c.center.result = c.round.result
                        /\ ActiveRound(c) =>
                             /\ c.round.since = Min(kept \cup {Len(c.rec) + 1}) % (Len(c.rec) + 1)
                             /\ c.round.result = IF kept = {} THEN "pending" ELSE c.rec[Max(kept)].result
    BY DEF SummaryInStep
  <2>1. clue[l] \in Clue /\ Copied(clue[l]) /\ Summed(clue[l])
    BY DEF ClueInv, Clues, Sound
  <2>2. clue[l].rec \in Seq(Record)
    BY <2>1, Fields
  <2> QED
    BY <2>1, <2>2, SinceFirst DEF Copied, Summed, Result
<1> QED
  BY <1>1, ClueInvariant, PTL

\* No step reopens a closed lead or a closed round or turns the evidence clock back.
THEOREM NothingIsReopened ==
  Spec => NothingReopens
<1> DEFINE A == \A l \in Leads :
                  /\ clue[l].lead.status \in Terminal => clue'[l].lead.status \in Terminal
                  /\ clue'[l].lead.at >= clue[l].lead.at
                  /\ clue[l].round.status # "none" /\ ~ActiveRound(clue[l]) => ~ActiveRound(clue'[l])
<1>1. ClueInv /\ [Next]_vars => A
  <2> SUFFICES ASSUME ClueInv, [Next]_vars, NEW l \in Leads
               PROVE  Onward(clue[l], clue'[l])
    BY DEF Onward
  <2>1. clue[l] \in Clue
    BY DEF ClueInv, Clues
  <2>2. clue[l].lead.at \in Nat
    BY <2>1, Fields
  <2>3. CASE clue'[l] = clue[l]
    BY <2>2, <2>3 DEF Onward
  <2>4. CASE clue'[l] # clue[l]
    BY <2>4, StepWritten DEF Written, Follows
  <2> QED
    BY <2>3, <2>4
<1>2. ClueInv /\ [Next]_vars => [A]_vars
  BY <1>1
<1> HIDE DEF A
<1>3. Spec => [][A]_vars
  BY <1>2, ClueInvariant, PTL DEF Spec
<1> QED
  BY <1>3 DEF A, NothingReopens
=============================================================================
