-------------------------- MODULE SettlementProofs --------------------------
(***************************************************************************)
(* The publication of settlement figures, for any number of months, jobs,  *)
(* workers and versions: one claim holds the heavy slot, a publication is  *)
(* never lost nor repeated, every reader of the active pointer finds a     *)
(* sound chain of generations, what readers see is what SettlementView     *)
(* allows, what reviewers were shown, and what stores are billed.          *)
(***************************************************************************)
EXTENDS SettlementPublication, SetLemmas

Ended == {"absent", "queued", "retry_wait", "success", "superseded", "failed"}
Rows == [status : Ended \cup {"running"}, attempts : 0..MaxAttempts,
         claim : Workers \cup {NoOne}, lease : {"none", "live", "expired"}]
Runs == [job : Jobs \cup {NoOne},
         pc : {"idle", "claimed", "page", "publish", "plan", "freeze", "start", "build", "finish"},
         base : Nat, months : SUBSET Months, gen : Nat, todo : SUBSET Months]

-----------------------------------------------------------------------------
(* The heavy slot.                                                         *)

\* A claim and its lease belong to a running row, which has used an attempt.
RowOK(x) ==
  /\ x \in Rows
  /\ x.status = "running" <=> x.claim # NoOne
  /\ x.status = "running" <=> x.lease # "none"
  /\ x.status = "running" => x.attempts > 0

RowsOK == row \in [Jobs -> Rows] /\ \A j \in Jobs : RowOK(row[j])

\* One row at most is running.
Exclusive == \A j, k \in Jobs : row[j].status = "running" /\ row[k].status = "running" => j = k

\* A recorded publication: only a settlement rebuild goes on after it.
Recorded ==
  /\ event \subseteq Jobs
  /\ \A j \in event : /\ row[j].status \in {"running", "success"}
                      /\ j \notin SettlementJobs => row[j].status = "success"

\* Every settlement row has its place in the order of the queue.
Ordered ==
  /\ order \in Seq(SettlementJobs)
  /\ \A j \in SettlementJobs : row[j].status # "absent" => \E i \in 1..Len(order) : order[i] = j

\* A holder that has published only has to finish.
Once == \A w \in Workers : Held(w) /\ run[w].job \in event => run[w].pc = "finish"

SlotInv ==
  /\ RowsOK /\ Exclusive /\ Recorded /\ Ordered
  /\ run \in [Workers -> Runs]
  /\ LiveClaimOwnsHead /\ Once

\* What a claim says of its row.
LEMMA HeldRow ==
  ASSUME NEW w \in Workers, run \in [Workers -> Runs], Held(w)
  PROVE  /\ run[w].job \in Jobs /\ row[run[w].job].status = "running"
         /\ row[run[w].job].claim = w /\ row[run[w].job].lease = "live"
<1>1. run[w].job \in Jobs \cup {NoOne} /\ run[w].job # NoOne
  BY DEF Held, Runs
<1>2. row[run[w].job] = [status |-> "running", attempts |-> row[run[w].job].attempts,
                         claim |-> w, lease |-> "live"]
  BY DEF Held
<1> QED
  BY <1>1, <1>2

\* One worker at most holds the slot.
LEMMA OneHolder ==
  ASSUME RowsOK, Exclusive, run \in [Workers -> Runs], NEW w \in Workers, NEW v \in Workers, Held(w), Held(v)
  PROVE  v = w
<1>1. run[w].job = run[v].job
  BY HeldRow DEF Exclusive
<1> QED
  BY <1>1, HeldRow

\* A row without a claim, and a claimed row.
LEMMA RowsMade ==
  /\ \A s \in Ended, a \in 0..MaxAttempts : RowOK(Row(s, a)) /\ Row(s, a).status = s
  /\ \A w \in Workers, a \in 1..MaxAttempts :
       LET x == [status |-> "running", attempts |-> a, claim |-> w, lease |-> "live"]
       IN  RowOK(x) /\ x.status = "running" /\ x.claim = w
<1>1. NoOne \notin Workers
  BY PublicationAssumption
<1>2. ASSUME NEW s \in Ended, NEW a \in 0..MaxAttempts PROVE RowOK(Row(s, a)) /\ Row(s, a).status = s
  <2> DEFINE x == Row(s, a)
  <2>1. x \in Rows /\ x.status = s /\ x.claim = NoOne /\ x.lease = "none"
    BY DEF Row, Rows
  <2>2. s # "running"
    BY DEF Ended
  <2> QED
    BY <2>1, <2>2 DEF RowOK
<1>3. ASSUME NEW w \in Workers, NEW a \in 1..MaxAttempts
      PROVE  LET x == [status |-> "running", attempts |-> a, claim |-> w, lease |-> "live"]
             IN  RowOK(x) /\ x.status = "running" /\ x.claim = w
  <2> DEFINE x == [status |-> "running", attempts |-> a, claim |-> w, lease |-> "live"]
  <2>1. /\ x.status = "running" /\ x.attempts = a /\ x.claim = w /\ x.lease = "live"
        /\ a \in 0..MaxAttempts /\ a > 0
    BY PublicationAssumption
  <2>2. x \in Rows
    BY <2>1 DEF Rows
  <2> QED
    BY <1>1, <2>1, <2>2 DEF RowOK
<1> QED
  BY <1>2, <1>3

\* What happens to a row that is not being claimed.
Falls(k) ==
  \/ row'[k] = row[k]
  \/ /\ RowOK(row'[k])
     /\ \/ row'[k].status # "running" /\ (k \in event => row'[k].status = "success")
        \/ row[k].status = "running" /\ row'[k].status = "running" /\ row'[k].lease = "expired"

\* No such step moves a claim or publishes.
LEMMA FallsKeeps ==
  ASSUME SlotInv, row' \in [Jobs -> Rows], \A k \in Jobs : Falls(k), Ordered',
         run' \in [Workers -> Runs], \A v \in Workers : run'[v] = run[v] \/ run'[v] = Idle,
         event' = event, active' = active
  PROVE  SlotInv'
<1> USE DEF SlotInv
<1>1. RowsOK'
  BY DEF RowsOK, Falls
<1>2. \A k \in Jobs : row'[k].status = "running" => row[k].status = "running"
  BY DEF Falls
<1>3. Exclusive'
  BY <1>2 DEF Exclusive
<1>4. Recorded'
  <2>1. \A j \in event : j \in Jobs /\ Falls(j)
    BY DEF Recorded
  <2>2. ASSUME NEW j \in event
        PROVE  /\ row'[j].status \in {"running", "success"}
               /\ j \notin SettlementJobs => row'[j].status = "success"
    BY <2>1 DEF Recorded, Falls
  <2> QED
    BY <2>2 DEF Recorded
<1>5. ASSUME NEW v \in Workers, Held(v)' PROVE Held(v) /\ run'[v] = run[v]
  <2>1. /\ run'[v].job \in Jobs /\ row'[run'[v].job].status = "running"
        /\ row'[run'[v].job].claim = v /\ row'[run'[v].job].lease = "live"
    <3>1. run'[v].job \in Jobs \cup {NoOne} /\ run'[v].job # NoOne
      BY <1>5 DEF Held, Runs
    <3>2. row'[run'[v].job] = [status |-> "running", attempts |-> row'[run'[v].job].attempts,
                               claim |-> v, lease |-> "live"]
      BY <1>5 DEF Held
    <3> QED
      BY <3>1, <3>2
  <2>2. run'[v] = run[v]
    <3>1. Idle.job = NoOne /\ NoOne \notin Jobs
      BY PublicationAssumption DEF Idle
    <3> QED
      BY <2>1, <3>1
  <2>3. row'[run[v].job] = row[run[v].job]
    BY <2>1, <2>2 DEF Falls
  <2> QED
    BY <1>5, <2>2, <2>3 DEF Held
<1>6. LiveClaimOwnsHead' /\ Once'
  BY <1>5 DEF LiveClaimOwnsHead, Once
<1> QED
  BY <1>1, <1>3, <1>4, <1>6

\* A claim: the slot is free, or its row is reclaimed; nothing is known to the claimant.
LEMMA ClaimKeeps ==
  ASSUME SlotInv, NEW w \in Workers, NEW j \in Jobs, NEW r \in Runs,
         no_other_running_heavy_job(j), j \notin event,
         row' \in [Jobs -> Rows], RowOK(row'[j]), row'[j].status = "running", row'[j].claim = w,
         \A k \in Jobs \ {j} : Falls(k), Ordered',
         run' = [run EXCEPT ![w] = r], r.job = j, r.base = 0, event' = event, active' = active
  PROVE  SlotInv'
<1> USE DEF SlotInv
<1>1. RowsOK'
  BY DEF RowsOK, Falls
<1>2. \A k \in Jobs \ {j} : row'[k].status # "running"
  BY DEF Falls, no_other_running_heavy_job
<1>3. Exclusive'
  BY <1>2 DEF Exclusive
<1>4. Recorded'
  <2>1. \A k \in event : k \in Jobs \ {j} /\ Falls(k)
    BY DEF Recorded
  <2>2. ASSUME NEW k \in event
        PROVE  /\ row'[k].status \in {"running", "success"}
               /\ k \notin SettlementJobs => row'[k].status = "success"
    BY <2>1 DEF Recorded, Falls
  <2> QED
    BY <2>2 DEF Recorded
<1>5. run' \in [Workers -> Runs] /\ run'[w] = r /\ \A v \in Workers \ {w} : run'[v] = run[v]
  OBVIOUS
<1>6. ASSUME NEW v \in Workers, Held(v)' PROVE v = w
  <2>1. /\ run'[v].job \in Jobs \cup {NoOne} /\ run'[v].job # NoOne
    BY <1>5, <1>6 DEF Held, Runs
  <2>2. row'[run'[v].job] = [status |-> "running", attempts |-> row'[run'[v].job].attempts,
                             claim |-> v, lease |-> "live"]
    BY <1>6 DEF Held
  <2>3. row'[run'[v].job].status = "running" /\ row'[run'[v].job].claim = v
    BY <2>2
  <2>4. run'[v].job = j
    BY <1>2, <2>1, <2>3
  <2> QED
    BY <2>3, <2>4
<1>7. LiveClaimOwnsHead' /\ Once'
  BY <1>5, <1>6 DEF LiveClaimOwnsHead, Once
<1> QED
  BY <1>1, <1>3, <1>4, <1>5, <1>7

\* A step of the holder that neither publishes nor gives the slot back.
LEMMA WorkKeeps ==
  ASSUME SlotInv, NEW w \in Workers, NEW r \in Runs, Held(w), run[w].pc # "finish",
         r.job = run[w].job, r.base # 0 /\ r.pc # "finish" => active = r.base,
         run' = [run EXCEPT ![w] = r], UNCHANGED <<active, row, order, event>>
  PROVE  SlotInv'
<1> USE DEF SlotInv
<1>1. run' \in [Workers -> Runs] /\ run'[w] = r /\ \A v \in Workers \ {w} : run'[v] = run[v]
  OBVIOUS
<1>2. RowsOK' /\ Exclusive' /\ Recorded' /\ Ordered'
  BY DEF RowsOK, Exclusive, Recorded, Ordered
<1>3. \A v \in Workers : Held(v)' => Held(v)
  BY <1>1 DEF Held
<1>4. LiveClaimOwnsHead'
  BY <1>1, <1>3 DEF LiveClaimOwnsHead
<1>5. run[w].job \notin event
  BY DEF Once
<1>6. Once'
  BY <1>1, <1>3, <1>5 DEF Once
<1> QED
  BY <1>1, <1>2, <1>4, <1>6

\* Publication by a rebuild: the holder goes on to finish.
LEMMA PublishKeeps ==
  ASSUME SlotInv, NEW w \in Workers, NEW r \in Runs, Held(w), run[w].job \in SettlementJobs,
         r.job = run[w].job, r.pc = "finish",
         run' = [run EXCEPT ![w] = r], event' = event \cup {run[w].job}, UNCHANGED <<row, order>>
  PROVE  SlotInv'
<1> USE DEF SlotInv
<1>1. run' \in [Workers -> Runs] /\ run'[w] = r /\ \A v \in Workers \ {w} : run'[v] = run[v]
  OBVIOUS
<1>2. RowsOK' /\ Exclusive' /\ Ordered'
  BY DEF RowsOK, Exclusive, Ordered
<1>3. Recorded'
  BY HeldRow DEF Recorded
<1>4. ASSUME NEW v \in Workers, Held(v)' PROVE v = w
  <2>1. Held(v)
    BY <1>1, <1>4 DEF Held
  <2> QED
    BY <2>1, OneHolder
<1>5. LiveClaimOwnsHead' /\ Once'
  BY <1>1, <1>4 DEF LiveClaimOwnsHead, Once
<1> QED
  BY <1>1, <1>2, <1>3, <1>5

\* Publication in the transaction that closes the row.
LEMMA PublishEnds ==
  ASSUME SlotInv, NEW w \in Workers, NEW j \in Jobs, Held(w), run[w].job = j,
         row' = [row EXCEPT ![j] = Row("success", row[j].attempts)],
         run' = [run EXCEPT ![w] = Idle], event' = event \cup {j}, order' = order
  PROVE  SlotInv'
<1> USE DEF SlotInv
<1>1. /\ run' \in [Workers -> Runs] /\ run'[w] = Idle /\ \A v \in Workers \ {w} : run'[v] = run[v]
      /\ Idle.job = NoOne
  <2>1. Idle \in Runs /\ Idle.job = NoOne
    BY DEF Idle, Runs
  <2> QED
    BY <2>1
<1>2. row[j].attempts \in 0..MaxAttempts /\ row[j].status = "running"
  BY HeldRow DEF RowsOK, Rows
<1>3. RowOK(Row("success", row[j].attempts)) /\ Row("success", row[j].attempts).status = "success"
  BY <1>2, RowsMade DEF Ended
<1>4. /\ row' \in [Jobs -> Rows] /\ row'[j] = Row("success", row[j].attempts)
      /\ \A k \in Jobs \ {j} : row'[k] = row[k]
  BY <1>3 DEF RowsOK, RowOK
<1>5. RowsOK' /\ Exclusive'
  BY <1>3, <1>4 DEF RowsOK, Exclusive
<1>6. Recorded' /\ Ordered'
  BY <1>2, <1>3, <1>4 DEF Recorded, Ordered
<1>7. ASSUME NEW v \in Workers PROVE ~Held(v)'
  <2> SUFFICES ASSUME Held(v)' PROVE FALSE
    OBVIOUS
  <2>1. v # w
    BY <1>1 DEF Held
  <2>2. run'[v] = run[v] /\ run[v].job # NoOne /\ run[v].job \in Jobs
    BY <1>1, <2>1 DEF Held, Runs
  <2>3. row'[run[v].job].status = "running" /\ row'[run[v].job].claim = v
    <3>1. row'[run[v].job] = [status |-> "running", attempts |-> row'[run[v].job].attempts,
                              claim |-> v, lease |-> "live"]
      BY <2>2 DEF Held
    <3> QED
      BY <3>1
  <2>4. run[v].job # j
    BY <1>3, <1>4, <2>3
  <2> QED
    BY <1>2, <1>4, <2>2, <2>3, <2>4 DEF Exclusive
<1>8. LiveClaimOwnsHead' /\ Once'
  BY <1>7 DEF LiveClaimOwnsHead, Once
<1> QED
  BY <1>1, <1>5, <1>6, <1>8

-----------------------------------------------------------------------------
(* The slot, action by action.                                             *)

\* A job that is not recorded as published when its row says so.
LEMMA Unrecorded ==
  ASSUME Recorded, NEW j \in Jobs,
         \/ row[j].status \notin {"running", "success"}
         \/ j \notin SettlementJobs /\ row[j].status # "success"
  PROVE  j \notin event
BY DEF Recorded

\* Closing or requeueing one row, with or without its worker.
LEMMA OneFalls ==
  ASSUME SlotInv, NEW j \in Jobs, NEW s \in Ended \ {"absent"}, NEW a \in 0..MaxAttempts,
         j \in event => s = "success", row[j].status # "absent" \/ j \notin SettlementJobs,
         row' = [row EXCEPT ![j] = Row(s, a)], run' \in [Workers -> Runs],
         \A v \in Workers : run'[v] = run[v] \/ run'[v] = Idle,
         UNCHANGED <<event, active, order>>
  PROVE  SlotInv'
<1>1. RowOK(Row(s, a)) /\ Row(s, a).status = s /\ Row(s, a) \in Rows
  BY RowsMade DEF RowOK
<1>2. /\ row' \in [Jobs -> Rows] /\ row'[j] = Row(s, a) /\ \A k \in Jobs \ {j} : row'[k] = row[k]
  BY <1>1 DEF SlotInv, RowsOK
<1>3. \A k \in Jobs : Falls(k)
  BY <1>1, <1>2 DEF Falls, Ended
<1>4. Ordered'
  BY <1>2 DEF SlotInv, Ordered
<1> QED
  BY <1>2, <1>3, <1>4, FallsKeeps

\* A step that leaves rows, workers and head alone.
LEMMA NothingFalls ==
  ASSUME SlotInv, UNCHANGED <<row, run, event, active, order>>
  PROVE  SlotInv'
<1>1. run' \in [Workers -> Runs] /\ row' \in [Jobs -> Rows] /\ Ordered'
  BY DEF SlotInv, RowsOK, Ordered
<1>2. \A k \in Jobs : Falls(k)
  BY DEF Falls
<1> QED
  BY <1>1, <1>2, FallsKeeps

\* The worker's memory is cleared.
LEMMA Cleared ==
  ASSUME run \in [Workers -> Runs], NEW w \in Workers, run' = [run EXCEPT ![w] = Idle]
  PROVE  run' \in [Workers -> Runs] /\ \A v \in Workers : run'[v] = run[v] \/ run'[v] = Idle
<1>1. Idle \in Runs
  BY DEF Idle, Runs
<1> QED
  BY <1>1

\* The newest queued row is queued.
LEMMA NewestQueued ==
  ASSUME Ordered, Queued # {}
  PROVE  Newest(Queued) \in Queued
<1>1. \A j \in Queued : Position(j) \in 1..Len(order)
  BY DEF Ordered, Queued, Position
<1> DEFINE T == {Position(j) : j \in Queued}
<1>2. T # {} /\ T \subseteq 0..Len(order) /\ Len(order) \in Nat
  BY <1>1 DEF Ordered
<1>3. PICK p \in T : \A y \in T : y <= p
  BY <1>2, GreatestNat
<1>4. PICK j \in Queued : p = Position(j)
  BY <1>3
<1>5. \A k \in Queued : Position(k) <= Position(j)
  BY <1>3, <1>4
<1> QED
  BY <1>4, <1>5 DEF Newest

\* Moving a row to the end of the queue loses none.
LEMMA MovedLastKeeps ==
  ASSUME order \in Seq(SettlementJobs), NEW j \in SettlementJobs, \E i \in 1..Len(order) : order[i] = j
  PROVE  /\ MovedLast(j) \in Seq(SettlementJobs)
         /\ \A k \in SettlementJobs : (\E i \in 1..Len(order) : order[i] = k)
              => \E i \in 1..Len(MovedLast(j)) : MovedLast(j)[i] = k
<1> DEFINE p == Position(j)
           n == Len(order)
           a == SubSeq(order, 1, p - 1)
           b == SubSeq(order, p + 1, n)
           new == MovedLast(j)
<1>1. p \in 1..n /\ order[p] = j /\ n \in Nat
  BY DEF Position
<1> HIDE DEF p
<1>2. /\ a \in Seq(SettlementJobs) /\ Len(a) = p - 1 /\ \A i \in 1..(p - 1) : a[i] = order[i]
  BY <1>1
<1>3. /\ b \in Seq(SettlementJobs) /\ Len(b) = n - p /\ \A i \in 1..(n - p) : b[i] = order[p + i]
  BY <1>1
<1>4. new = Append(a \o b, j)
  BY DEF MovedLast, p
<1> HIDE DEF a, b, n, new
<1>5. /\ new \in Seq(SettlementJobs) /\ Len(new) = n /\ new[n] = j
      /\ \A i \in 1..(p - 1) : new[i] = a[i]
      /\ \A i \in p..(n - 1) : new[i] = b[i - p + 1]
  <2> DEFINE c == a \o b
  <2>1. /\ c \in Seq(SettlementJobs) /\ Len(c) = n - 1
        /\ \A i \in 1..(p - 1) : c[i] = a[i]
        /\ \A i \in p..(n - 1) : c[i] = b[i - p + 1]
    <3>1. /\ c \in Seq(SettlementJobs) /\ Len(c) = Len(a) + Len(b)
          /\ \A i \in 1..(Len(a) + Len(b)) : c[i] = IF i <= Len(a) THEN a[i] ELSE b[i - Len(a)]
      <4>1. a \in Seq(SettlementJobs) /\ b \in Seq(SettlementJobs)
        BY <1>2, <1>3
      <4>2. c \in Seq(SettlementJobs) /\ Len(c) = Len(a) + Len(b)
        BY <4>1
      <4>3. \A i \in 1..(Len(a) + Len(b)) : c[i] = IF i <= Len(a) THEN a[i] ELSE b[i - Len(a)]
        BY <4>1
      <4> QED
        BY <4>2, <4>3
    <3> HIDE DEF c
    <3>2. Len(c) = n - 1 /\ \A i \in 1..(n - 1) : c[i] = IF i <= p - 1 THEN a[i] ELSE b[i - (p - 1)]
      <4>1. Len(a) = p - 1 /\ Len(a) + Len(b) = n - 1
        BY <1>1, <1>2, <1>3
      <4> QED
        BY <3>1, <4>1
    <3>3. \A i \in p..(n - 1) : i \in 1..(n - 1) /\ ~(i <= p - 1) /\ i - (p - 1) = i - p + 1
      BY <1>1
    <3>4. \A i \in 1..(p - 1) : i \in 1..(n - 1) /\ i <= p - 1
      BY <1>1
    <3> QED
      BY <3>1, <3>2, <3>3, <3>4
  <2> HIDE DEF c
  <2>2. /\ Append(c, j) \in Seq(SettlementJobs) /\ Len(Append(c, j)) = n /\ Append(c, j)[n] = j
        /\ \A i \in 1..(n - 1) : Append(c, j)[i] = c[i]
    BY <1>1, <2>1
  <2> QED
    BY <1>1, <1>4, <2>1, <2>2 DEF c
<1>6. ASSUME NEW k \in SettlementJobs, NEW i \in 1..n, order[i] = k
      PROVE  \E x \in 1..Len(new) : new[x] = k
  <2>1. CASE i < p
    <3>1. i \in 1..(p - 1) /\ i \in 1..Len(new) /\ new[i] = k
      BY <1>1, <1>2, <1>5, <1>6, <2>1
    <3> QED
      BY <3>1
  <2>2. CASE i = p
    <3>1. n \in 1..Len(new) /\ new[n] = k
      BY <1>1, <1>5, <1>6, <2>2
    <3> QED
      BY <3>1
  <2>3. CASE i > p
    <3>1. i - 1 \in p..(n - 1) /\ i - 1 \in 1..Len(new) /\ i - p \in 1..(n - p)
      BY <1>1, <1>5, <2>3
    <3>2. new[i - 1] = b[(i - 1) - p + 1] /\ (i - 1) - p + 1 = i - p
      BY <1>1, <1>5, <3>1
    <3>3. b[i - p] = order[p + (i - p)] /\ p + (i - p) = i
      BY <1>1, <1>3, <3>1
    <3>4. new[i - 1] = k
      BY <1>6, <3>2, <3>3
    <3> QED
      BY <3>1, <3>4
  <2> QED
    BY <1>1, <2>1, <2>2, <2>3
<1> QED
  BY <1>5, <1>6 DEF new, n

-----------------------------------------------------------------------------
(* The generations and the tables around them.                             *)

Gens == Generation(Months, Versions, Jobs \cup {NoOne})

TableOK ==
  /\ gens \in Seq(Gens) /\ active \in 1..Len(gens)
  /\ target \in [Compactions -> Nat]
  /\ src \in [Months -> Versions]
  /\ bill \in [Months -> [src : Versions, status : {"pending"} \cup Protected]]

\* Every step of a holder that does not publish leaves it with the same job, and with
\* the base it had or the head.
LEMMA WorkMoves ==
  ASSUME SlotInv, TableOK, NEW w \in Workers,
         \/ StartCompaction(w) \/ CompactReady(w) \/ CalculateFees(w) \/ Plan(w) \/ PlanNothing(w)
         \/ Freeze(w) \/ StartBuild(w) \/ WritePartition(w) \/ MarkReady(w)
  PROVE  \E r \in Runs : /\ run' = [run EXCEPT ![w] = r] /\ r.job = run[w].job
                         /\ r.base \in {run[w].base, active} /\ run[w].pc # "finish"
<1>0. /\ run \in [Workers -> Runs] /\ run[w] \in Runs /\ active \in Nat /\ Len(gens) \in Nat
      /\ run[w].job \in Jobs \cup {NoOne} /\ run[w].base \in Nat
  BY DEF SlotInv, TableOK, Runs
<1> DEFINE Goal == \E r \in Runs : /\ run' = [run EXCEPT ![w] = r] /\ r.job = run[w].job
                                   /\ r.base \in {run[w].base, active} /\ run[w].pc # "finish"
<1>1. CASE StartCompaction(w)
  <2> DEFINE c == run[w].job
             existing == CHOOSE g \in CompactOf(c) : TRUE
  <2>1. target[c] = active /\ run[w].pc = "claimed"
    BY Zenon, <1>1 DEF StartCompaction
  <2>2. CASE CompactOf(c) = {}
    <3> DEFINE n == Len(gens) + 1
               r == [run[w] EXCEPT !.pc = "page", !.gen = n, !.base = active]
    <3>0. n \in Nat
      BY <1>0
    <3>1. run' = [run EXCEPT ![w].pc = "page", ![w].gen = n, ![w].base = active]
      BY <1>1, <2>1, <2>2 DEF StartCompaction
    <3> HIDE DEF n
    <3>2. run' = [run EXCEPT ![w] = r]
      BY <1>0, <3>1 DEF Runs
    <3>3. r \in Runs /\ r.job = run[w].job /\ r.base = active
      BY <1>0, <3>0 DEF Runs
    <3> QED
      BY <2>1, <3>2, <3>3
  <2>3. CASE CompactOf(c) # {}
    <3> DEFINE pc == IF gens[existing].state = "ready" THEN "publish" ELSE "page"
               r == [run[w] EXCEPT !.pc = pc, !.gen = existing, !.base = active]
    <3>0. existing \in Nat
      BY <2>3 DEF CompactOf
    <3>1. run' = [run EXCEPT ![w].pc = pc, ![w].gen = existing, ![w].base = active]
      BY Zenon, <1>1, <2>1, <2>3 DEF StartCompaction
    <3>2. pc \in {"publish", "page"}
      OBVIOUS
    <3> HIDE DEF pc, existing
    <3>3. run' = [run EXCEPT ![w] = r]
      BY <1>0, <3>1 DEF Runs
    <3>4. r \in Runs /\ r.job = run[w].job /\ r.base = active
      BY <1>0, <3>0, <3>2 DEF Runs
    <3> QED
      BY Zenon, <2>1, <3>3, <3>4
  <2> QED
    BY SMTT(60), <2>2, <2>3
<1>2. CASE CompactReady(w)
  <2> DEFINE r == [run[w] EXCEPT !.pc = "publish"]
  <2>1. run' = [run EXCEPT ![w] = r] /\ run[w].pc = "page"
    BY <1>0, <1>2 DEF CompactReady
  <2>2. r \in Runs /\ r.job = run[w].job /\ r.base = run[w].base
    BY <1>0 DEF Runs
  <2> QED
    BY <2>1, <2>2
<1>3. CASE CalculateFees(w)
  <2> DEFINE r == [run[w] EXCEPT !.pc = "plan"]
  <2>1. run' = [run EXCEPT ![w] = r] /\ run[w].pc = "claimed"
    BY <1>0, <1>3 DEF CalculateFees
  <2>2. r \in Runs /\ r.job = run[w].job /\ r.base = run[w].base
    BY <1>0 DEF Runs
  <2> QED
    BY <2>1, <2>2
<1>4. CASE Plan(w)
  <2> DEFINE months == Scope[run[w].job] \ Locked
             pc == IF run[w].job \in Finalizers THEN "start" ELSE "freeze"
             r == [run[w] EXCEPT !.pc = pc, !.base = active, !.months = months]
  <2>1. run' = [run EXCEPT ![w].pc = pc, ![w].base = active, ![w].months = months] /\ run[w].pc = "plan"
    BY <1>4 DEF Plan
  <2>2. pc \in {"start", "freeze"} /\ months \in SUBSET Months
    <3>1. run[w].job \in Jobs
      BY <1>4 DEF Plan, Jobs
    <3>2. Scope[run[w].job] \in SUBSET Months
      BY <3>1, PublicationAssumption
    <3> QED
      BY <3>2
  <2> HIDE DEF pc, months
  <2>3. run' = [run EXCEPT ![w] = r]
    BY <1>0, <2>1 DEF Runs
  <2>4. r \in Runs /\ r.job = run[w].job /\ r.base = active
    BY <1>0, <2>2 DEF Runs
  <2> QED
    BY <2>1, <2>3, <2>4
<1>5. CASE PlanNothing(w)
  <2> DEFINE r == [run[w] EXCEPT !.pc = "finish"]
  <2>1. run' = [run EXCEPT ![w] = r] /\ run[w].pc = "plan"
    BY <1>0, <1>5 DEF PlanNothing
  <2>2. r \in Runs /\ r.job = run[w].job /\ r.base = run[w].base
    BY <1>0 DEF Runs
  <2> QED
    BY <2>1, <2>2
<1>6. CASE Freeze(w)
  <2> DEFINE mine == Identity(run[w].job, run[w].base, run[w].months)
             gen == IF mine # {} THEN CHOOSE g \in mine : TRUE ELSE Len(gens) + 1
             r == [run[w] EXCEPT !.pc = "start", !.gen = gen]
  <2>1. run' = [run EXCEPT ![w].pc = "start", ![w].gen = gen] /\ run[w].pc = "freeze"
    BY <1>6 DEF Freeze
  <2>2. gen \in Nat
    BY <1>0 DEF Identity
  <2> HIDE DEF gen
  <2>3. run' = [run EXCEPT ![w] = r]
    BY <1>0, <2>1 DEF Runs
  <2>4. r \in Runs /\ r.job = run[w].job /\ r.base = run[w].base
    BY <1>0, <2>2 DEF Runs
  <2> QED
    BY <2>1, <2>3, <2>4
<1>7. CASE StartBuild(w)
  <2> DEFINE mine == Identity(run[w].job, run[w].base, run[w].months)
             g == IF mine = {} THEN Len(gens) + 1 ELSE CHOOSE x \in mine : TRUE
  <2>1. g \in Nat
    BY SMTT(60), <1>0 DEF Identity
  <2>2. /\ run[w].pc = "start"
        /\ \/ run' = [run EXCEPT ![w].pc = "publish", ![w].gen = g]
           \/ run' = [run EXCEPT ![w].pc = "build", ![w].gen = g, ![w].todo = run[w].months]
    BY Zenon, <1>7 DEF StartBuild
  <2> HIDE DEF g
  <2>3. CASE run' = [run EXCEPT ![w].pc = "publish", ![w].gen = g]
    <3> DEFINE r == [run[w] EXCEPT !.pc = "publish", !.gen = g]
    <3>1. run' = [run EXCEPT ![w] = r]
      BY <1>0, <2>3 DEF Runs
    <3>2. r \in Runs /\ r.job = run[w].job /\ r.base = run[w].base
      BY <1>0, <2>1 DEF Runs
    <3> QED
      BY <2>2, <3>1, <3>2
  <2>4. CASE run' = [run EXCEPT ![w].pc = "build", ![w].gen = g, ![w].todo = run[w].months]
    <3> DEFINE r == [run[w] EXCEPT !.pc = "build", !.gen = g, !.todo = run[w].months]
    <3>1. run' = [run EXCEPT ![w] = r]
      BY <1>0, <2>4 DEF Runs
    <3>2. r \in Runs /\ r.job = run[w].job /\ r.base = run[w].base
      BY <1>0, <2>1 DEF Runs
    <3> QED
      BY <2>2, <3>1, <3>2
  <2> QED
    BY <2>2, <2>3, <2>4
<1>8. CASE WritePartition(w)
  <2> DEFINE r == [run[w] EXCEPT !.todo = run[w].todo \ {Least(run[w].todo)}]
  <2>1. run' = [run EXCEPT ![w] = r] /\ run[w].pc = "build"
    BY <1>0, <1>8 DEF WritePartition, Runs
  <2>2. r \in Runs /\ r.job = run[w].job /\ r.base = run[w].base
    BY <1>0 DEF Runs
  <2> QED
    BY <2>1, <2>2
<1>9. CASE MarkReady(w)
  <2> DEFINE r == [run[w] EXCEPT !.pc = "publish"]
  <2>1. run' = [run EXCEPT ![w] = r] /\ run[w].pc = "build"
    BY <1>0, <1>9 DEF MarkReady
  <2>2. r \in Runs /\ r.job = run[w].job /\ r.base = run[w].base
    BY <1>0 DEF Runs
  <2> QED
    BY <2>1, <2>2
<1> QED
  BY <1>1, <1>2, <1>3, <1>4, <1>5, <1>6, <1>7, <1>8, <1>9

\* The holder's own steps.
LEMMA HolderSlot ==
  ASSUME SlotInv, TableOK, NEW w \in Workers, Step(w)
  PROVE  SlotInv'
<1>0. run \in [Workers -> Runs] /\ Held(w) /\ run[w] \in Runs
  BY Zenon DEF SlotInv, Step, StartCompaction, CompactPage, CompactReady, PublishCompaction, CalculateFees,
         Plan, PlanNothing, Freeze, StartBuild, WritePartition, MarkReady, Publish, PublishFinalize, Finish
<1>1. CASE \/ StartCompaction(w) \/ CompactReady(w) \/ CalculateFees(w) \/ Plan(w) \/ PlanNothing(w)
           \/ Freeze(w) \/ StartBuild(w) \/ WritePartition(w) \/ MarkReady(w)
  <2>1. PICK r \in Runs : /\ run' = [run EXCEPT ![w] = r] /\ r.job = run[w].job
                          /\ r.base \in {run[w].base, active} /\ run[w].pc # "finish"
    BY <1>1, WorkMoves
  <2>2. r.base # 0 /\ r.pc # "finish" => active = r.base
    BY <1>0, <2>1 DEF SlotInv, LiveClaimOwnsHead
  <2>3. UNCHANGED <<active, row, order, event>>
    BY Zenon, <1>1 DEF StartCompaction, CompactReady, CalculateFees, Plan, PlanNothing, Freeze, StartBuild,
                WritePartition, MarkReady
  <2> QED
    BY Zenon, <1>0, <2>1, <2>2, <2>3, WorkKeeps
<1>2. CASE CompactPage(w)
  BY <1>2, NothingFalls DEF CompactPage
<1>3. CASE Publish(w)
  <2> DEFINE r == [run[w] EXCEPT !.pc = "finish"]
  <2>1. /\ run' = [run EXCEPT ![w] = r] /\ run[w].job \in SettlementJobs
        /\ event' = event \cup {run[w].job} /\ UNCHANGED <<row, order>>
    BY <1>0, <1>3 DEF Publish
  <2>2. r \in Runs /\ r.job = run[w].job /\ r.pc = "finish"
    BY <1>0 DEF Runs
  <2> HIDE DEF r
  <2> QED
    BY <1>0, <2>1, <2>2, PublishKeeps
<1>4. CASE PublishFinalize(w) \/ PublishCompaction(w)
  <2>1. run[w].job \in Jobs
    BY <1>0, HeldRow
  <2> QED
    BY <1>0, <1>4, <2>1, PublishEnds DEF PublishFinalize, PublishCompaction
<1>5. CASE Finish(w)
  <2>1. run[w].job \in Jobs /\ row[run[w].job].status = "running"
        /\ row[run[w].job].attempts \in 0..MaxAttempts
    BY <1>0, HeldRow DEF SlotInv, RowsOK, Rows
  <2>2. /\ row' = [row EXCEPT ![run[w].job] = Row("success", row[run[w].job].attempts)]
        /\ run' = [run EXCEPT ![w] = Idle] /\ UNCHANGED <<event, active, order>>
    BY <1>5 DEF Finish
  <2>3. run' \in [Workers -> Runs] /\ \A v \in Workers : run'[v] = run[v] \/ run'[v] = Idle
    BY <1>0, <2>2, Cleared
  <2>4. "success" \in Ended \ {"absent"}
    BY DEF Ended
  <2> QED
    BY <2>1, <2>2, <2>3, <2>4, OneFalls
<1> QED
  BY SMTT(60), <1>1, <1>2, <1>3, <1>4, <1>5 DEF Step

\* Claims on the slot.
LEMMA ClaimSlot ==
  ASSUME SlotInv, NEW w \in Workers,
         Claim(w) \/ \E j \in Reviewed : ApplyReviewed(w, j)
  PROVE  SlotInv'
<1> DEFINE A == MaxAttempts
<1>0. /\ run \in [Workers -> Runs] /\ row \in [Jobs -> Rows] /\ Recorded /\ Ordered /\ A \in Nat \ {0}
      /\ \A j \in Jobs : RowOK(row[j]) /\ row[j].attempts \in 0..A
  BY PublicationAssumption DEF SlotInv, RowsOK, Rows
<1>1. ASSUME NEW j \in Jobs PROVE /\ Holding(j) \in Runs /\ Holding(j).job = j /\ Holding(j).base = 0
                                  /\ [Holding(j) EXCEPT !.pc = "plan"] \in Runs
                                  /\ [Holding(j) EXCEPT !.pc = "plan"].job = j
                                  /\ [Holding(j) EXCEPT !.pc = "plan"].base = 0
  BY DEF Holding, Idle, Runs
<1>2. ASSUME NEW j \in Jobs, row[j].attempts < A
      PROVE  RowOK(Claimed(j, w)) /\ Claimed(j, w).status = "running" /\ Claimed(j, w).claim = w
             /\ Claimed(j, w) \in Rows
  <2>1. row[j].attempts + 1 \in 1..A
    BY <1>0, <1>2
  <2> QED
    BY <2>1, RowsMade DEF Claimed, RowOK
<1>3. CASE ClaimLatest(w)
  <2> DEFINE j == Newest(Queued)
             r == Holding(j)
  <2>1. /\ Queued # {} /\ no_other_running_heavy_job(j) /\ row[j].attempts < A
        /\ row' = [k \in Jobs |->
                     IF k = j THEN Claimed(j, w)
                     ELSE IF k \in Obsolete(j) THEN Row("superseded", row[k].attempts)
                     ELSE row[k]]
        /\ order' = MovedLast(j) /\ run' = [run EXCEPT ![w] = Holding(j)]
        /\ event' = event /\ active' = active
    BY <1>3 DEF ClaimLatest
  <2>2. j \in Queued
    BY <1>0, <2>1, NewestQueued
  <2> HIDE DEF j
  <2>3. j \in SettlementJobs /\ j \in Jobs /\ row[j].status = "queued"
    BY <2>2 DEF Queued, SettlementJobs, Publishers, Jobs
  <2>4. j \notin event
    BY <1>0, <2>3, Unrecorded
  <2>5. ASSUME NEW k \in Obsolete(j)
        PROVE  /\ k \in Jobs /\ k \in SettlementJobs /\ k \notin event /\ row[k].status # "absent"
               /\ RowOK(Row("superseded", row[k].attempts))
               /\ Row("superseded", row[k].attempts) \in Rows
               /\ Row("superseded", row[k].attempts).status = "superseded"
    <3>1. k \in SettlementJobs /\ k \in Jobs /\ row[k].status \in {"queued", "retry_wait"}
      BY <2>5 DEF Obsolete, Pending, SettlementJobs, Publishers, Jobs
    <3>2. k \notin event
      BY <1>0, <3>1, Unrecorded
    <3> QED
      BY <1>0, <3>1, <3>2, RowsMade DEF Ended, RowOK
  <2>6. \A k \in Jobs : row'[k] \in Rows
    BY <1>0, <1>2, <2>1, <2>3, <2>5
  <2>7. row' \in [Jobs -> Rows] /\ row'[j] = Claimed(j, w)
    BY <2>1, <2>3, <2>6
  <2>8. \A k \in Jobs \ {j} : Falls(k)
    BY <2>1, <2>5 DEF Falls
  <2>9. Ordered'
    <3>1. \E i \in 1..Len(order) : order[i] = j
      BY <1>0, <2>3 DEF Ordered
    <3>2. /\ order' \in Seq(SettlementJobs)
          /\ \A k \in SettlementJobs : (\E i \in 1..Len(order) : order[i] = k)
               => \E i \in 1..Len(order') : order'[i] = k
      BY ZenonT(60), <1>0, <2>1, <2>3, <3>1, MovedLastKeeps DEF Ordered
    <3>3. \A k \in SettlementJobs : k \in Jobs /\ (row'[k].status # "absent" => row[k].status # "absent")
      BY <2>1, <2>3, <2>5 DEF SettlementJobs, Publishers, Jobs
    <3> QED
      BY <1>0, <3>2, <3>3 DEF Ordered
  <2>10. r \in Runs /\ r.job = j /\ r.base = 0 /\ run' = [run EXCEPT ![w] = r]
    BY <1>1, <2>1, <2>3
  <2> HIDE DEF r
  <2>11. RowOK(row'[j]) /\ row'[j].status = "running" /\ row'[j].claim = w
    BY <1>2, <2>1, <2>3, <2>7
  <2> QED
    BY <2>1, <2>3, <2>4, <2>7, <2>8, <2>9, <2>10, <2>11, ClaimKeeps
<1>4. ASSUME NEW j \in Jobs \ SettlementJobs, NEW r \in Runs, r.job = j, r.base = 0,
             row[j].status # "success", row[j].attempts < A, no_other_running_heavy_job(j),
             row' = [row EXCEPT ![j] = Claimed(j, w)], run' = [run EXCEPT ![w] = r],
             UNCHANGED <<order, event, active>>
      PROVE  SlotInv'
  <2>1. j \notin event
    BY <1>0, <1>4, Unrecorded
  <2>2. /\ row' \in [Jobs -> Rows] /\ row'[j] = Claimed(j, w) /\ \A k \in Jobs \ {j} : row'[k] = row[k]
    BY <1>0, <1>2, <1>4
  <2>3. \A k \in Jobs \ {j} : Falls(k)
    BY <2>2 DEF Falls
  <2>4. Ordered'
    <3>1. \A k \in SettlementJobs : k \in Jobs \ {j}
      BY <1>4 DEF SettlementJobs, Publishers, Jobs
    <3> QED
      BY <1>0, <1>4, <2>2, <3>1 DEF Ordered
  <2>5. RowOK(row'[j]) /\ row'[j].status = "running" /\ row'[j].claim = w
    BY <1>2, <1>4, <2>2
  <2> QED
    BY <1>4, <2>1, <2>2, <2>3, <2>4, <2>5, ClaimKeeps
<1>5. ASSUME NEW j \in Finalizers, ClaimFinalize(w, j) PROVE SlotInv'
  <2> DEFINE r == [Holding(j) EXCEPT !.pc = "plan"]
  <2>1. j \in Jobs \ SettlementJobs
    BY PublicationAssumption DEF Jobs, Publishers
  <2>2. r \in Runs /\ r.job = j /\ r.base = 0
    BY <1>1, <2>1
  <2>3. /\ row[j].status # "success" /\ row[j].attempts < A /\ no_other_running_heavy_job(j)
        /\ row' = [row EXCEPT ![j] = Claimed(j, w)] /\ run' = [run EXCEPT ![w] = r]
        /\ UNCHANGED <<order, event, active>>
    BY <1>5 DEF ClaimFinalize
  <2> HIDE DEF r
  <2> QED
    BY <1>4, <2>1, <2>2, <2>3
<1>6. ASSUME NEW j \in Compactions, ClaimCompaction(w, j) PROVE SlotInv'
  <2> DEFINE r == Holding(j)
  <2>1. j \in Jobs \ SettlementJobs
    BY PublicationAssumption DEF Jobs, Publishers, SettlementJobs
  <2>2. r \in Runs /\ r.job = j /\ r.base = 0
    BY <1>1, <2>1
  <2>3. /\ row[j].status # "success" /\ row[j].attempts < A /\ no_other_running_heavy_job(j)
        /\ row' = [row EXCEPT ![j] = Claimed(j, w)] /\ run' = [run EXCEPT ![w] = r]
        /\ UNCHANGED <<order, event, active>>
    BY <1>6 DEF ClaimCompaction
  <2> HIDE DEF r
  <2> QED
    BY <1>4, <2>1, <2>2, <2>3
<1>7. ASSUME NEW j \in Reviewed, ApplyReviewed(w, j) PROVE SlotInv'
  <2> DEFINE r == [Holding(j) EXCEPT !.pc = "plan"]
             x == [status |-> "running", attempts |-> A, claim |-> w, lease |-> "live"]
  <2>1. j \in Jobs /\ j \in SettlementJobs
    BY DEF Jobs, Publishers, SettlementJobs
  <2>2. r \in Runs /\ r.job = j /\ r.base = 0
    BY <1>1, <2>1
  <2>3. /\ row[j].status = "absent" /\ no_other_running_heavy_job(j)
        /\ row' = [row EXCEPT ![j] = x] /\ run' = [run EXCEPT ![w] = r]
        /\ order' = Append(order, j) /\ UNCHANGED <<event, active>>
    BY <1>7 DEF ApplyReviewed
  <2>4. RowOK(x) /\ x.status = "running" /\ x.claim = w /\ x \in Rows
    <3>1. A \in 1..A
      BY <1>0
    <3> QED
      BY <3>1, RowsMade DEF RowOK
  <2> HIDE DEF r, x
  <2>5. j \notin event
    BY <1>0, <2>1, <2>3, Unrecorded
  <2>6. /\ row' \in [Jobs -> Rows] /\ row'[j] = x /\ \A k \in Jobs \ {j} : row'[k] = row[k]
    BY <1>0, <2>1, <2>3, <2>4
  <2>7. \A k \in Jobs \ {j} : Falls(k)
    BY <2>6 DEF Falls
  <2>8. Ordered'
    <3>1. /\ order' \in Seq(SettlementJobs) /\ Len(order') = Len(order) + 1 /\ order'[Len(order) + 1] = j
          /\ Len(order) \in Nat /\ \A i \in 1..Len(order) : order'[i] = order[i]
      BY <1>0, <2>1, <2>3 DEF Ordered
    <3>2. ASSUME NEW k \in SettlementJobs, row'[k].status # "absent"
          PROVE  \E i \in 1..Len(order') : order'[i] = k
      <4>1. CASE k = j
        BY <3>1, <4>1
      <4>2. CASE k # j
        <5>1. row[k].status # "absent"
          BY <2>6, <3>2, <4>2 DEF SettlementJobs, Publishers, Jobs
        <5>2. PICK i \in 1..Len(order) : order[i] = k
          BY <1>0, <5>1 DEF Ordered
        <5> QED
          BY <3>1, <5>2
      <4> QED
        BY <4>1, <4>2
    <3> QED
      BY <3>1, <3>2 DEF Ordered
  <2> QED
    BY <2>1, <2>2, <2>3, <2>4, <2>5, <2>6, <2>7, <2>8, ClaimKeeps
<1> QED
  BY <1>3, <1>5, <1>6, <1>7 DEF Claim

\* Requests, failures, recovery and everything outside the slot.
LEMMA OtherSlot ==
  ASSUME SlotInv,
         \/ \E w \in Workers : Fail(w) \/ FailCompaction(w) \/ DeferCompaction(w) \/ Die(w)
         \/ \E j \in Reviewed : Preview(j)
         \/ \E j \in Jobs : Enqueue(j) \/ Expire(j) \/ ReleaseRetry(j) \/ Recover(j)
         \/ \E c \in Compactions : EnqueueCompaction(c) \/ ReconcileCompaction(c)
         \/ \E m \in Months : MaterializeFees(m) \/ Confirm(m) \/ Dispute(m) \/ CloseDispute(m)
  PROVE  SlotInv'
<1>0. /\ run \in [Workers -> Runs] /\ row \in [Jobs -> Rows] /\ Recorded /\ Ordered
      /\ \A j \in Jobs : RowOK(row[j]) /\ row[j].attempts \in 0..MaxAttempts /\ row[j] \in Rows
      /\ MaxAttempts \in Nat /\ 0 \in 0..MaxAttempts
      /\ \A c \in Compactions : c \in Jobs /\ c \notin SettlementJobs
      /\ Automatic \subseteq Compactions
  BY PublicationAssumption DEF SlotInv, RowsOK, Rows, Jobs, Publishers, SettlementJobs
<1> DEFINE Pure(s) == s \in Ended \ {"absent"}
<1>1. Pure("queued") /\ Pure("retry_wait") /\ Pure("success") /\ Pure("failed")
  BY DEF Ended
<1> HIDE DEF Pure
<1>2. ASSUME NEW j \in Jobs, NEW s, Pure(s), NEW a \in 0..MaxAttempts, j \in event => s = "success",
             row[j].status # "absent" \/ j \notin SettlementJobs,
             row' = [row EXCEPT ![j] = Row(s, a)], UNCHANGED <<event, active, order>>,
             run' = run \/ \E w \in Workers : run' = [run EXCEPT ![w] = Idle]
      PROVE  SlotInv'
  <2>1. run' \in [Workers -> Runs] /\ \A v \in Workers : run'[v] = run[v] \/ run'[v] = Idle
    BY <1>0, <1>2, Cleared
  <2> QED
    BY <1>2, <2>1, OneFalls DEF Pure
<1>3. ASSUME NEW w \in Workers, row' = row, run' = [run EXCEPT ![w] = Idle],
             UNCHANGED <<event, active, order>>
      PROVE  SlotInv'
  <2>1. run' \in [Workers -> Runs] /\ \A v \in Workers : run'[v] = run[v] \/ run'[v] = Idle
    BY <1>0, <1>3, Cleared
  <2>2. row' \in [Jobs -> Rows] /\ (\A k \in Jobs : Falls(k)) /\ Ordered'
    BY <1>0, <1>3 DEF Falls, Ordered
  <2> QED
    BY <1>3, <2>1, <2>2, FallsKeeps
<1>4. ASSUME NEW w \in Workers, Fail(w) PROVE SlotInv'
  <2> DEFINE j == run[w].job
             s == FailedStatus(j, NewJobRequired(w))
  <2>1. CASE ~Held(w)
    BY <1>3, <1>4, <2>1 DEF Fail
  <2>2. CASE Held(w)
    <3>1. j \in Jobs /\ row[j].status = "running"
      BY <1>0, <2>2, HeldRow
    <3>2. Pure(s) /\ (j \in event => s = "success")
      BY <1>1 DEF FailedStatus
    <3> HIDE DEF s
    <3>3. /\ row' = [row EXCEPT ![j] = Row(s, row[j].attempts)] /\ run' = [run EXCEPT ![w] = Idle]
          /\ UNCHANGED <<event, active, order>>
      BY <1>4, <2>2 DEF Fail, s
    <3> QED
      BY <1>0, <1>2, <3>1, <3>2, <3>3
  <2> QED
    BY <2>1, <2>2
<1>5. ASSUME NEW w \in Workers, FailCompaction(w) PROVE SlotInv'
  <2> DEFINE c == run[w].job
             s == IF row[c].attempts < MaxAttempts THEN "queued" ELSE "failed"
  <2>1. CASE ~Held(w)
    BY <1>3, <1>5, <2>1 DEF FailCompaction
  <2>2. CASE Held(w)
    <3>1. c \in Jobs /\ row[c].status = "running" /\ c \notin SettlementJobs
      BY <1>0, <1>5, <2>2, HeldRow DEF FailCompaction
    <3>2. Pure(s) /\ c \notin event
      BY <1>0, <1>1, <3>1, Unrecorded
    <3> HIDE DEF s
    <3>3. /\ row' = [row EXCEPT ![c] = Row(s, row[c].attempts)] /\ run' = [run EXCEPT ![w] = Idle]
          /\ UNCHANGED <<event, active, order>>
      BY <1>5, <2>2 DEF FailCompaction, s
    <3> QED
      BY <1>0, <1>2, <3>1, <3>2, <3>3
  <2> QED
    BY <2>1, <2>2
<1>6. ASSUME NEW w \in Workers, DeferCompaction(w) PROVE SlotInv'
  <2> DEFINE c == run[w].job
             s == IF target[c] = active THEN "queued" ELSE "failed"
             a == row[c].attempts - 1
  <2>1. c \in Jobs /\ row[c].status = "running" /\ c \notin SettlementJobs
    BY <1>0, <1>6, HeldRow DEF DeferCompaction
  <2>2. Pure(s) /\ c \notin event
    BY <1>0, <1>1, <2>1, Unrecorded
  <2>3. a \in 0..MaxAttempts
    <3>1. row[c].attempts \in 0..MaxAttempts /\ row[c].attempts > 0
      BY <1>0, <2>1 DEF RowOK
    <3> QED
      BY <1>0, <3>1
  <2> HIDE DEF s, a
  <2>4. /\ row' = [row EXCEPT ![c] = Row(s, a)] /\ run' = [run EXCEPT ![w] = Idle]
        /\ UNCHANGED <<event, active, order>>
    BY <1>6 DEF DeferCompaction, s, a
  <2> QED
    BY <1>2, <2>1, <2>2, <2>3, <2>4
<1>7. ASSUME NEW w \in Workers, Die(w) PROVE SlotInv'
  BY <1>3, <1>7 DEF Die
<1>8. ASSUME NEW j \in Jobs, Enqueue(j) PROVE SlotInv'
  <2>1. j \notin event /\ row[j].status = "absent"
    BY <1>0, <1>8, Unrecorded DEF Enqueue
  <2>2. CASE j \in Rebuilds
    <3>0. j \in SettlementJobs
      BY <2>2 DEF SettlementJobs
    <3>1. RowOK(Row("queued", 0)) /\ Row("queued", 0).status = "queued" /\ Row("queued", 0) \in Rows
      BY <1>0, RowsMade DEF Ended, RowOK
    <3>2. /\ row' = [row EXCEPT ![j] = Row("queued", 0)] /\ order' = Append(order, j)
          /\ UNCHANGED <<run, event, active>>
      BY <1>8, <2>2 DEF Enqueue
    <3>3. /\ row' \in [Jobs -> Rows] /\ row'[j] = Row("queued", 0)
          /\ \A k \in Jobs \ {j} : row'[k] = row[k]
      BY <1>0, <3>1, <3>2
    <3>4. \A k \in Jobs : Falls(k)
      BY <2>1, <3>1, <3>3 DEF Falls
    <3>5. /\ order' \in Seq(SettlementJobs) /\ Len(order') = Len(order) + 1 /\ order'[Len(order) + 1] = j
          /\ Len(order) \in Nat /\ \A i \in 1..Len(order) : order'[i] = order[i]
      BY <1>0, <3>0, <3>2 DEF Ordered
    <3>6. ASSUME NEW k \in SettlementJobs, row'[k].status # "absent"
          PROVE  \E i \in 1..Len(order') : order'[i] = k
      <4>1. CASE k = j
        BY <3>5, <4>1
      <4>2. CASE k # j
        <5>1. row[k].status # "absent"
          BY <3>3, <3>6, <4>2 DEF SettlementJobs, Publishers, Jobs
        <5>2. PICK i \in 1..Len(order) : order[i] = k
          BY <1>0, <5>1 DEF Ordered
        <5> QED
          BY <3>5, <5>2
      <4> QED
        BY <4>1, <4>2
    <3>7. Ordered'
      BY <3>5, <3>6 DEF Ordered
    <3> QED
      BY <1>0, <3>2, <3>3, <3>4, <3>7, FallsKeeps
  <2>3. CASE j \notin Rebuilds
    <3>1. j \notin SettlementJobs
      BY <1>8, <2>3, PublicationAssumption DEF Enqueue, SettlementJobs
    <3> QED
      BY <1>0, <1>1, <1>2, <1>8, <2>1, <2>3, <3>1 DEF Enqueue
  <2> QED
    BY <2>2, <2>3
<1>9. ASSUME NEW j \in Jobs, Expire(j) PROVE SlotInv'
  <2> DEFINE x == [row[j] EXCEPT !.lease = "expired"]
  <2>1. row[j] \in Rows /\ RowOK(row[j]) /\ row[j].lease = "live" /\ row[j].status = "running"
    BY <1>0, <1>9 DEF Expire, RowOK
  <2>2. /\ x \in Rows /\ x.status = "running" /\ x.lease = "expired" /\ x.claim = row[j].claim
        /\ x.attempts = row[j].attempts
    BY <2>1 DEF Rows
  <2>3. row' = [row EXCEPT ![j] = x] /\ UNCHANGED <<run, event, active, order>>
    BY <1>9 DEF Expire
  <2> HIDE DEF x
  <2>4. RowOK(x)
    BY <2>1, <2>2 DEF RowOK
  <2>5. row' \in [Jobs -> Rows] /\ row'[j] = x /\ \A k \in Jobs \ {j} : row'[k] = row[k]
    BY <1>0, <2>2, <2>3
  <2>6. \A k \in Jobs : Falls(k)
    BY <2>1, <2>2, <2>4, <2>5 DEF Falls
  <2>7. \A k \in SettlementJobs : k \in Jobs /\ (row'[k].status # "absent" => row[k].status # "absent")
    BY <2>1, <2>2, <2>5 DEF SettlementJobs, Publishers, Jobs
  <2>8. Ordered'
    BY <1>0, <2>3, <2>7 DEF Ordered
  <2> QED
    BY <1>0, <2>3, <2>5, <2>6, <2>8, FallsKeeps
<1>10. ASSUME NEW j \in Jobs, ReleaseRetry(j) PROVE SlotInv'
  <2>1. j \notin event
    BY <1>0, <1>10, Unrecorded DEF ReleaseRetry
  <2> QED
    BY <1>0, <1>1, <1>2, <1>10, <2>1 DEF ReleaseRetry
<1>11. ASSUME NEW j \in Jobs, Recover(j) PROVE SlotInv'
  <2> DEFINE s == RecoveredStatus(j)
  <2>1. Pure(s) /\ (j \in event => s = "success")
    BY <1>1 DEF RecoveredStatus
  <2> HIDE DEF s
  <2>2. /\ row' = [row EXCEPT ![j] = Row(s, row[j].attempts)] /\ row[j].status = "running"
        /\ UNCHANGED <<run, event, active, order>>
    BY <1>11 DEF Recover, s
  <2> QED
    BY <1>0, <1>2, <2>1, <2>2
<1>12. ASSUME NEW c \in Compactions, EnqueueCompaction(c) PROVE SlotInv'
  <2>1. c \notin event
    BY <1>0, <1>12, Unrecorded DEF EnqueueCompaction
  <2> QED
    BY <1>0, <1>1, <1>2, <1>12, <2>1 DEF EnqueueCompaction
<1>13. ASSUME NEW c \in Compactions, ReconcileCompaction(c) PROVE SlotInv'
  <2>1. CASE c \in event
    BY <1>0, <1>1, <1>2, <1>13, <2>1 DEF ReconcileCompaction
  <2>2. CASE c \notin event
    BY <1>0, <1>1, <1>2, <1>13, <2>2 DEF ReconcileCompaction
  <2> QED
    BY <2>1, <2>2
<1>14. ASSUME NEW j \in Reviewed, Preview(j) PROVE SlotInv'
  BY <1>14, NothingFalls DEF Preview
<1>15. ASSUME NEW m \in Months, MaterializeFees(m) \/ Confirm(m) \/ Dispute(m) \/ CloseDispute(m)
       PROVE  SlotInv'
  BY <1>15, NothingFalls DEF MaterializeFees, Confirm, Dispute, CloseDispute
<1> QED
  BY <1>4, <1>5, <1>6, <1>7, <1>8, <1>9, <1>10, <1>11, <1>12, <1>13, <1>14, <1>15

\* Every step of the system keeps the slot in order.
LEMMA SlotStep ==
  ASSUME SlotInv, TableOK, [Next]_vars
  PROVE  SlotInv'
<1>1. CASE UNCHANGED vars
  BY <1>1, NothingFalls DEF vars
<1>2. CASE Next
  BY <1>2, HolderSlot, ClaimSlot, OtherSlot DEF Next
<1> QED
  BY <1>1, <1>2

-----------------------------------------------------------------------------
(* Reading a chain of generations.  Both readers are recursive functions;  *)
(* that the recursion has one solution follows from bases lying below the  *)
(* generations that rest on them.                                          *)

Founded(gs, g) == \A n \in 1..g : gs[n].base \in 0..(n - 1)

\* What resolve computes for every generation up to g, given what f has for their bases.
Owners(gs, g, m, f) ==
  [n \in 1..g |-> IF gs[n].part[m] # 0 THEN gs[n].part[m]
                  ELSE IF gs[n].base = 0 THEN 0 ELSE f[gs[n].base]]

\* The recursion of resolve has a solution.
LEMMA OwnersExist ==
  ASSUME NEW gs, NEW g \in Nat, NEW m, Founded(gs, g)
  PROVE  \E f : f = Owners(gs, g, m, f)
<1> DEFINE T == {k \in 0..g : ~\E f : f = Owners(gs, k, m, f)}
<1>1. SUFFICES T = {}
  OBVIOUS
<1>2. SUFFICES ASSUME T # {} PROVE FALSE
  OBVIOUS
<1>3. PICK k \in T : \A y \in T : k <= y
  <2>1. T \subseteq Nat
    OBVIOUS
  <2> HIDE DEF T
  <2> QED
    BY <1>2, <2>1, LeastNat
<1>4. k \in 0..g /\ ~\E f : f = Owners(gs, k, m, f)
  BY <1>3
<1>5. CASE k = 0
  <2> DEFINE f == [n \in 1..0 |-> 0]
  <2>1. f = Owners(gs, 0, m, f)
    BY DEF Owners
  <2> QED
    BY <1>4, <1>5, <2>1
<1>6. CASE k > 0
  <2>1. k - 1 \in 0..g /\ k - 1 \notin T
    BY <1>3, <1>4, <1>6
  <2>2. PICK f : f = Owners(gs, k - 1, m, f)
    BY <2>1
  <2> DEFINE v == IF gs[k].part[m] # 0 THEN gs[k].part[m]
                  ELSE IF gs[k].base = 0 THEN 0 ELSE f[gs[k].base]
             h == [n \in 1..k |-> IF n = k THEN v ELSE f[n]]
  <2>3. \A n \in 1..k : gs[n].base \in 0..(n - 1)
    BY <1>4 DEF Founded
  <2>4. \A n \in 1..k : h[n] = IF n = k THEN v ELSE f[n]
    OBVIOUS
  <2>5. \A n \in 1..(k - 1) : f[n] = IF gs[n].part[m] # 0 THEN gs[n].part[m]
                                     ELSE IF gs[n].base = 0 THEN 0 ELSE f[gs[n].base]
    BY <2>2 DEF Owners
  <2>6. \A n \in 1..(k - 1) : h[n] = f[n]
    BY <1>4, <2>4
  <2>7. ASSUME NEW n \in 1..k
        PROVE  h[n] = IF gs[n].part[m] # 0 THEN gs[n].part[m]
                      ELSE IF gs[n].base = 0 THEN 0 ELSE h[gs[n].base]
    <3>1. gs[n].base # 0 => gs[n].base \in 1..(k - 1) /\ h[gs[n].base] = f[gs[n].base]
      BY <1>4, <2>3, <2>6
    <3>2. CASE n = k
      BY <2>4, <3>1, <3>2
    <3>3. CASE n # k
      <4>1. n \in 1..(k - 1)
        BY <1>4, <3>3
      <4> HIDE DEF h
      <4> QED
        BY <2>5, <2>6, <3>1, <4>1
    <3> QED
      BY <3>2, <3>3
  <2>8. h = [n \in 1..k |-> h[n]]
    OBVIOUS
  <2> HIDE DEF h
  <2>9. h = Owners(gs, k, m, h)
    BY <2>7, <2>8 DEF Owners
  <2> QED
    BY <1>4, <2>9
<1> QED
  BY <1>4, <1>5, <1>6

\* It has one only, whatever its length.
LEMMA OwnersAgree ==
  ASSUME NEW gs, NEW g \in Nat, NEW k \in Nat, NEW m, Founded(gs, g), k <= g,
         NEW f, f = Owners(gs, g, m, f), NEW h, h = Owners(gs, k, m, h)
  PROVE  \A n \in 1..k : f[n] = h[n]
<1> DEFINE T == {n \in 1..k : f[n] # h[n]}
<1>1. SUFFICES ASSUME T # {} PROVE FALSE
  OBVIOUS
<1>2. T \subseteq Nat
  OBVIOUS
<1>3. PICK n \in T : \A y \in T : n <= y
  <2> HIDE DEF T
  <2> QED
    BY <1>1, <1>2, LeastNat
<1>4. n \in 1..k /\ n \in 1..g /\ f[n] # h[n] /\ gs[n].base \in 0..(n - 1)
  BY <1>3 DEF Founded
<1>5. gs[n].base # 0 => f[gs[n].base] = h[gs[n].base]
  <2> SUFFICES ASSUME gs[n].base # 0 PROVE f[gs[n].base] = h[gs[n].base]
    OBVIOUS
  <2>1. gs[n].base \in 1..k /\ ~(n <= gs[n].base)
    BY <1>4
  <2> QED
    BY <1>3, <2>1
<1>6. f[n] = IF gs[n].part[m] # 0 THEN gs[n].part[m] ELSE IF gs[n].base = 0 THEN 0 ELSE f[gs[n].base]
  BY <1>4 DEF Owners
<1>7. h[n] = IF gs[n].part[m] # 0 THEN gs[n].part[m] ELSE IF gs[n].base = 0 THEN 0 ELSE h[gs[n].base]
  BY <1>4 DEF Owners
<1> QED
  BY <1>4, <1>5, <1>6, <1>7

\* resolve_projection_partitions, one generation at a time.
LEMMA ResolveStep ==
  ASSUME NEW gs, NEW g \in Nat \ {0}, NEW m, Founded(gs, g)
  PROVE  resolve(gs, g, m) = IF gs[g].part[m] # 0 THEN gs[g].part[m]
                             ELSE IF gs[g].base = 0 THEN 0 ELSE resolve(gs, gs[g].base, m)
<1> DEFINE Sol(k) == CHOOSE f : f = Owners(gs, k, m, f)
<1>1. ASSUME NEW k \in 1..g PROVE resolve(gs, k, m) = Sol(k)[k] /\ Sol(k) = Owners(gs, k, m, Sol(k))
  <2>1. Founded(gs, k)
    BY DEF Founded
  <2>2. \E f : f = Owners(gs, k, m, f)
    BY <2>1, OwnersExist
  <2>3. Sol(k) = Owners(gs, k, m, Sol(k))
    BY <2>2
  <2>4. resolve(gs, k, m) = Sol(k)[k]
    BY DEF resolve, Owners
  <2> QED
    BY <2>3, <2>4
<1> HIDE DEF Sol
<1>2. g \in 1..g /\ gs[g].base \in 0..(g - 1)
  BY DEF Founded
<1>3. resolve(gs, g, m) = IF gs[g].part[m] # 0 THEN gs[g].part[m]
                          ELSE IF gs[g].base = 0 THEN 0 ELSE Sol(g)[gs[g].base]
  <2>1. resolve(gs, g, m) = Owners(gs, g, m, Sol(g))[g]
    BY <1>1, <1>2
  <2> QED
    BY <1>2, <2>1 DEF Owners
<1>4. gs[g].base # 0 => Sol(g)[gs[g].base] = resolve(gs, gs[g].base, m)
  <2> SUFFICES ASSUME gs[g].base # 0 PROVE Sol(g)[gs[g].base] = resolve(gs, gs[g].base, m)
    OBVIOUS
  <2> DEFINE b == gs[g].base
  <2>1. b \in 1..g /\ b \in Nat /\ b <= g
    BY <1>2
  <2> HIDE DEF b
  <2>2. \A n \in 1..b : Sol(g)[n] = Sol(b)[n]
    BY <1>1, <1>2, <2>1, OwnersAgree
  <2> QED
    BY <1>1, <2>1, <2>2 DEF b
<1> QED
  BY <1>3, <1>4

\* What lineage_ids computes for every generation up to g.
Chains(gs, g, f) ==
  [n \in 1..g |-> IF gs[n].base = 0 THEN <<n>> ELSE <<n>> \o f[gs[n].base]]

\* The recursion of lineage_ids has a solution.
LEMMA ChainsExist ==
  ASSUME NEW gs, NEW g \in Nat, Founded(gs, g)
  PROVE  \E f : f = Chains(gs, g, f)
<1> DEFINE T == {k \in 0..g : ~\E f : f = Chains(gs, k, f)}
<1>1. SUFFICES T = {}
  OBVIOUS
<1>2. SUFFICES ASSUME T # {} PROVE FALSE
  OBVIOUS
<1>3. PICK k \in T : \A y \in T : k <= y
  <2>1. T \subseteq Nat
    OBVIOUS
  <2> HIDE DEF T
  <2> QED
    BY <1>2, <2>1, LeastNat
<1>4. k \in 0..g /\ ~\E f : f = Chains(gs, k, f)
  BY <1>3
<1>5. CASE k = 0
  <2> DEFINE f == [n \in 1..0 |-> 0]
  <2>1. f = Chains(gs, 0, f)
    BY DEF Chains
  <2> QED
    BY <1>4, <1>5, <2>1
<1>6. CASE k > 0
  <2>1. k - 1 \in 0..g /\ k - 1 \notin T
    BY <1>3, <1>4, <1>6
  <2>2. PICK f : f = Chains(gs, k - 1, f)
    BY <2>1
  <2> DEFINE v == IF gs[k].base = 0 THEN <<k>> ELSE <<k>> \o f[gs[k].base]
             h == [n \in 1..k |-> IF n = k THEN v ELSE f[n]]
  <2>3. \A n \in 1..k : gs[n].base \in 0..(n - 1)
    BY <1>4 DEF Founded
  <2>4. \A n \in 1..k : h[n] = IF n = k THEN v ELSE f[n]
    BY SMTT(60)
  <2>5. \A n \in 1..(k - 1) : f[n] = IF gs[n].base = 0 THEN <<n>> ELSE <<n>> \o f[gs[n].base]
    BY <2>2 DEF Chains
  <2>6. \A n \in 1..(k - 1) : h[n] = f[n]
    BY <1>4, <2>4
  <2>7. ASSUME NEW n \in 1..k
        PROVE  h[n] = IF gs[n].base = 0 THEN <<n>> ELSE <<n>> \o h[gs[n].base]
    <3>1. gs[n].base # 0 => gs[n].base \in 1..(k - 1) /\ h[gs[n].base] = f[gs[n].base]
      BY <1>4, <2>3, <2>6
    <3>2. CASE n = k
      <4>1. h[n] = IF gs[k].base = 0 THEN <<k>> ELSE <<k>> \o f[gs[k].base]
        BY <2>4, <3>2
      <4> HIDE DEF h
      <4> QED
        BY <3>1, <3>2, <4>1
    <3>3. CASE n # k
      <4>1. n \in 1..(k - 1)
        BY <1>4, <3>3
      <4> HIDE DEF h
      <4> QED
        BY <2>5, <2>6, <3>1, <4>1
    <3> QED
      BY <3>2, <3>3
  <2>8. h = [n \in 1..k |-> h[n]]
    BY SMTT(60)
  <2> HIDE DEF h
  <2>9. h = Chains(gs, k, h)
    BY <2>7, <2>8 DEF Chains
  <2> QED
    BY <1>4, <2>9
<1> QED
  BY <1>4, <1>5, <1>6

\* It has one only.
LEMMA ChainsAgree ==
  ASSUME NEW gs, NEW g \in Nat, NEW k \in Nat, Founded(gs, g), k <= g,
         NEW f, f = Chains(gs, g, f), NEW h, h = Chains(gs, k, h)
  PROVE  \A n \in 1..k : f[n] = h[n]
<1> DEFINE T == {n \in 1..k : f[n] # h[n]}
<1>1. SUFFICES ASSUME T # {} PROVE FALSE
  OBVIOUS
<1>2. T \subseteq Nat
  OBVIOUS
<1>3. PICK n \in T : \A y \in T : n <= y
  <2> HIDE DEF T
  <2> QED
    BY <1>1, <1>2, LeastNat
<1>4. n \in 1..k /\ n \in 1..g /\ f[n] # h[n] /\ gs[n].base \in 0..(n - 1)
  BY <1>3 DEF Founded
<1>5. gs[n].base # 0 => f[gs[n].base] = h[gs[n].base]
  <2> SUFFICES ASSUME gs[n].base # 0 PROVE f[gs[n].base] = h[gs[n].base]
    OBVIOUS
  <2>1. gs[n].base \in 1..k /\ ~(n <= gs[n].base)
    BY <1>4
  <2> QED
    BY <1>3, <2>1
<1>6. f[n] = IF gs[n].base = 0 THEN <<n>> ELSE <<n>> \o f[gs[n].base]
  BY <1>4 DEF Chains
<1>7. h[n] = IF gs[n].base = 0 THEN <<n>> ELSE <<n>> \o h[gs[n].base]
  BY <1>4 DEF Chains
<1> QED
  BY <1>4, <1>5, <1>6, <1>7

\* lineage_ids, one generation at a time.
LEMMA LineageStep ==
  ASSUME NEW gs, NEW g \in Nat \ {0}, Founded(gs, g)
  PROVE  lineage_ids(gs, g) = IF gs[g].base = 0 THEN <<g>> ELSE <<g>> \o lineage_ids(gs, gs[g].base)
<1> DEFINE Sol(k) == CHOOSE f : f = Chains(gs, k, f)
<1>1. ASSUME NEW k \in 1..g PROVE lineage_ids(gs, k) = Sol(k)[k] /\ Sol(k) = Chains(gs, k, Sol(k))
  <2>1. Founded(gs, k)
    BY DEF Founded
  <2>2. \E f : f = Chains(gs, k, f)
    BY <2>1, ChainsExist
  <2>3. Sol(k) = Chains(gs, k, Sol(k))
    BY <2>2
  <2>4. lineage_ids(gs, k) = Sol(k)[k]
    BY DEF lineage_ids, Chains
  <2> QED
    BY <2>3, <2>4
<1> HIDE DEF Sol
<1>2. g \in 1..g /\ gs[g].base \in 0..(g - 1)
  BY DEF Founded
<1>3. lineage_ids(gs, g) = IF gs[g].base = 0 THEN <<g>> ELSE <<g>> \o Sol(g)[gs[g].base]
  <2>1. lineage_ids(gs, g) = Chains(gs, g, Sol(g))[g]
    BY <1>1, <1>2
  <2> QED
    BY <1>2, <2>1 DEF Chains
<1>4. gs[g].base # 0 => Sol(g)[gs[g].base] = lineage_ids(gs, gs[g].base)
  <2> SUFFICES ASSUME gs[g].base # 0 PROVE Sol(g)[gs[g].base] = lineage_ids(gs, gs[g].base)
    OBVIOUS
  <2> DEFINE b == gs[g].base
  <2>1. b \in 1..g /\ b \in Nat /\ b <= g
    BY <1>2
  <2> HIDE DEF b
  <2>2. \A n \in 1..b : Sol(g)[n] = Sol(b)[n]
    BY <1>1, <1>2, <2>1, ChainsAgree
  <2> QED
    BY <1>1, <2>1, <2>2 DEF b
<1> QED
  BY <1>3, <1>4

-----------------------------------------------------------------------------
(* The shape of the generations.                                           *)

\* A generation x at position n above the generations gs: the bootstrapped root; an
\* overlay of a published base with months of its job; or a restatement of what the
\* chain of a published generation resolves to, complete once it is ready.
IsRoot(n, x) ==
  /\ x.kind = "root" /\ x.base = 0 /\ x.depth = 0 /\ x.state = "published" /\ x.job = NoOne
  /\ x.months = Months /\ \A m \in Months : x.part[m] = n

IsOverlay(gs, n, x) ==
  /\ x.kind = "lineage" /\ x.base \in 1..(n - 1) /\ x.job \in Publishers
  /\ gs[x.base].state = "published" /\ x.depth = gs[x.base].depth + 1
  /\ x.months \subseteq Scope[x.job]
  /\ \A m \in Months : x.part[m] = 0 \/ (x.part[m] = n /\ m \in x.months)

IsCompact(gs, n, x) ==
  /\ x.kind = "compact" /\ x.base = 0 /\ x.depth = 0 /\ x.from \in 1..(n - 1) /\ x.job = NoOne
  /\ x.months = Months /\ gs[x.from].state = "published"
  /\ \A m \in Months : x.part[m] \in {0, resolve(gs, x.from, m)}
  /\ x.state \in {"ready", "published"} => \A m \in Months : x.part[m] # 0

GenOK(gs, n, x) == IsRoot(n, x) \/ IsOverlay(gs, n, x) \/ IsCompact(gs, n, x)

Sound(gs) == \A n \in 1..Len(gs) : GenOK(gs, n, gs[n])

\* What a generation is never changes; what is published never changes at all; at most
\* one generation is added.
Alike(x, y) ==
  /\ x.kind = y.kind /\ x.base = y.base /\ x.from = y.from /\ x.depth = y.depth
  /\ x.job = y.job /\ x.months = y.months

Grows(gs, hs) ==
  /\ Len(hs) \in {Len(gs), Len(gs) + 1}
  /\ \A n \in 1..Len(gs) : /\ Alike(gs[n], hs[n])
                           /\ gs[n].state = "published" => hs[n] = gs[n]

\* What a worker remembers is about generations of its job.
RunOK(gs, r) ==
  /\ r.gen \in 0..Len(gs)
  /\ r.job \in Publishers /\ r.pc \in {"freeze", "start", "build", "publish"} =>
       r.months \subseteq Scope[r.job]
  /\ r.job \in Publishers /\ r.pc \in {"build", "publish"} =>
       /\ r.gen # 0
       /\ gs[r.gen].job = r.job /\ gs[r.gen].base = r.base /\ gs[r.gen].months = r.months
  /\ r.pc = "build" => r.todo \subseteq r.months
  /\ r.job \in Compactions =>
       /\ r.pc \in {"claimed", "page", "publish"}
       /\ r.pc # "claimed" => r.gen # 0 /\ gs[r.gen].kind = "compact"

ChainInv ==
  /\ Sound(gens)
  /\ gens[active].state = "published"
  /\ \A w \in Workers : RunOK(gens, run[w])

\* Bases lie below the generations that rest on them.
LEMMA SoundFounded ==
  ASSUME NEW gs, Sound(gs), Len(gs) \in Nat, NEW g \in 0..Len(gs)
  PROVE  Founded(gs, g)
<1> SUFFICES ASSUME NEW n \in 1..g PROVE gs[n].base \in 0..(n - 1)
  BY DEF Founded
<1>1. n \in 1..Len(gs)
  OBVIOUS
<1>2. GenOK(gs, n, gs[n])
  BY <1>1 DEF Sound
<1> QED
  BY <1>1, <1>2 DEF GenOK, IsRoot, IsOverlay, IsCompact

\* The reader of a published generation finds the rows of every month.
Found(gs, g, m) ==
  /\ resolve(gs, g, m) \in 1..g
  /\ gs[resolve(gs, g, m)].state = "published"
  /\ m \in gs[resolve(gs, g, m)].months
  /\ gs[resolve(gs, g, m)].kind # "compact"

\* Every published generation resolves every month to a published partition.
LEMMA OwnerFound ==
  ASSUME NEW gs, Sound(gs), Len(gs) \in Nat, NEW g \in 1..Len(gs), gs[g].state = "published",
         NEW m \in Months
  PROVE  Found(gs, g, m)
<1> DEFINE T == {n \in 1..Len(gs) : gs[n].state = "published" /\ ~Found(gs, n, m)}
<1>1. SUFFICES ASSUME T # {} PROVE FALSE
  OBVIOUS
<1>2. T \subseteq Nat
  OBVIOUS
<1>3. PICK n \in T : \A y \in T : n <= y
  <2> HIDE DEF T
  <2> QED
    BY <1>1, <1>2, LeastNat
<1>4. n \in 1..Len(gs) /\ gs[n].state = "published" /\ ~Found(gs, n, m) /\ GenOK(gs, n, gs[n])
  BY <1>3 DEF Sound
<1>5. ASSUME NEW k \in 1..(n - 1), gs[k].state = "published" PROVE Found(gs, k, m)
  <2>1. k \in 1..Len(gs) /\ ~(n <= k)
    BY <1>4
  <2>2. k \notin T
    BY <1>3, <2>1
  <2> QED
    BY <1>5, <2>1, <2>2
<1> DEFINE u == resolve(gs, n, m)
<1>6. u = IF gs[n].part[m] # 0 THEN gs[n].part[m]
          ELSE IF gs[n].base = 0 THEN 0 ELSE resolve(gs, gs[n].base, m)
  <2>1. n \in Nat \ {0} /\ Founded(gs, n)
    BY <1>4, SoundFounded
  <2> QED
    BY <2>1, ResolveStep
<1>7. ASSUME NEW k \in 1..(n - 1), gs[k].state = "published", u = resolve(gs, k, m) PROVE FALSE
  <2>1. Found(gs, k, m)
    BY <1>5, <1>7
  <2>2. u \in 1..k /\ gs[u].state = "published" /\ m \in gs[u].months /\ gs[u].kind # "compact"
    BY <1>7, <2>1 DEF Found
  <2>3. u \in 1..n
    BY <1>4, <2>2
  <2> QED
    BY <1>4, <2>2, <2>3 DEF Found
<1>8. ASSUME u = n, m \in gs[n].months, gs[n].kind # "compact" PROVE FALSE
  BY <1>4, <1>8 DEF Found
<1>9. n # 0
  BY <1>4
<1> HIDE DEF u
<1>10. CASE IsRoot(n, gs[n])
  BY <1>6, <1>8, <1>9, <1>10 DEF IsRoot
<1>11. CASE IsOverlay(gs, n, gs[n])
  <2>1. CASE gs[n].part[m] = 0
    BY <1>6, <1>7, <1>11, <2>1 DEF IsOverlay
  <2>2. CASE gs[n].part[m] # 0
    BY <1>6, <1>8, <1>11, <2>2 DEF IsOverlay
  <2> QED
    BY <2>1, <2>2
<1>12. CASE IsCompact(gs, n, gs[n])
  <2>1. gs[n].part[m] = resolve(gs, gs[n].from, m) /\ gs[n].part[m] # 0
    BY <1>4, <1>12 DEF IsCompact
  <2> QED
    BY <1>6, <1>7, <1>12, <2>1 DEF IsCompact
<1> QED
  BY <1>4, <1>10, <1>11, <1>12 DEF GenOK

\* Its chain counts its depth and is published throughout.
Linked(gs, g) ==
  /\ lineage_ids(gs, g) \in Seq(Nat)
  /\ Len(lineage_ids(gs, g)) = gs[g].depth + 1
  /\ \A i \in 1..Len(lineage_ids(gs, g)) : gs[lineage_ids(gs, g)[i]].state = "published"

\* The chain of a published generation is as long as its depth says.
LEMMA ChainLinked ==
  ASSUME NEW gs, gs \in Seq(Gens), Sound(gs), NEW g \in 1..Len(gs), gs[g].state = "published"
  PROVE  Linked(gs, g)
<1> DEFINE T == {n \in 1..Len(gs) : gs[n].state = "published" /\ ~Linked(gs, n)}
<1>0. Len(gs) \in Nat
  OBVIOUS
<1>1. SUFFICES ASSUME T # {} PROVE FALSE
  OBVIOUS
<1>2. T \subseteq Nat
  OBVIOUS
<1>3. PICK n \in T : \A y \in T : n <= y
  <2> HIDE DEF T
  <2> QED
    BY <1>1, <1>2, LeastNat
<1>4. n \in 1..Len(gs) /\ gs[n].state = "published" /\ ~Linked(gs, n) /\ GenOK(gs, n, gs[n])
  BY <1>3 DEF Sound
<1> DEFINE u == lineage_ids(gs, n)
<1>5. u = IF gs[n].base = 0 THEN <<n>> ELSE <<n>> \o lineage_ids(gs, gs[n].base)
  <2>1. n \in Nat \ {0} /\ Founded(gs, n)
    BY <1>0, <1>4, SoundFounded
  <2> QED
    BY <2>1, LineageStep
<1>6. CASE gs[n].base = 0
  <2>1. gs[n].depth = 0
    BY <1>4, <1>6 DEF GenOK, IsRoot, IsOverlay, IsCompact
  <2>2. u = <<n>> /\ n \in Nat
    BY <1>4, <1>5, <1>6
  <2>3. u \in Seq(Nat) /\ Len(u) = 1 /\ u[1] = n
    BY <2>2
  <2> QED
    BY <1>4, <2>1, <2>3 DEF Linked
<1>7. CASE gs[n].base # 0
  <2> DEFINE b == gs[n].base
             v == lineage_ids(gs, b)
  <2>1. b \in 1..(n - 1) /\ gs[b].state = "published" /\ gs[n].depth = gs[b].depth + 1
    BY <1>4, <1>7 DEF GenOK, IsRoot, IsOverlay, IsCompact
  <2>2. b \in 1..Len(gs) /\ ~(n <= b) /\ gs[b] \in Gens
    BY <1>4, <2>1
  <2>3. Linked(gs, b) /\ gs[b].depth \in Nat
    <3>1. b \notin T
      BY <1>3, <2>2
    <3>2. gs[b].depth \in Nat
      BY <2>2 DEF Gens, Generation
    <3> QED
      BY <2>1, <2>2, <3>1, <3>2
  <2>4. u = <<n>> \o v
    BY <1>5, <1>7
  <2>5. v \in Seq(Nat) /\ Len(v) = gs[b].depth + 1 /\ \A i \in 1..Len(v) : gs[v[i]].state = "published"
    BY <2>3 DEF Linked
  <2>6. n \in Nat
    BY <1>4, <2>1
  <2> HIDE DEF u, v, b
  <2>7. v \in Seq(Nat) /\ <<n>> \in Seq(Nat)
    BY <2>5, <2>6
  <2>8. u \in Seq(Nat)
    BY <2>4, <2>7
  <2>9. Len(u) = Len(v) + 1
    BY <2>4, <2>7
  <2>10. \A i \in 1..Len(u) : u[i] = IF i = 1 THEN n ELSE v[i - 1]
    <3>1. Len(<<n>>) = 1 /\ <<n>>[1] = n
      OBVIOUS
    <3> QED
      BY <2>4, <2>7, <2>9, <3>1
  <2>11. ASSUME NEW i \in 1..Len(u) PROVE gs[u[i]].state = "published"
    <3>1. Len(v) \in Nat
      BY <2>5
    <3>2. CASE i = 1
      BY <1>4, <2>10, <3>2
    <3>3. CASE i # 1
      <4>1. i - 1 \in 1..Len(v)
        BY <2>9, <3>1, <3>3
      <4> QED
        BY <2>5, <2>10, <3>3, <4>1
    <3> QED
      BY <3>2, <3>3
  <2>12. Len(u) = gs[n].depth + 1
    BY <2>1, <2>3, <2>5, <2>9
  <2> QED
    BY <1>4, <2>8, <2>11, <2>12 DEF Linked, u
<1> QED
  BY <1>6, <1>7

\* What a published generation resolves to does not change while the generations grow.
LEMMA OwnerStays ==
  ASSUME NEW gs, NEW hs, Sound(gs), Len(gs) \in Nat, Grows(gs, hs), NEW g \in 1..Len(gs),
         gs[g].state = "published", NEW m \in Months
  PROVE  resolve(hs, g, m) = resolve(gs, g, m)
<1> DEFINE T == {n \in 1..Len(gs) : gs[n].state = "published" /\ resolve(hs, n, m) # resolve(gs, n, m)}
<1>1. SUFFICES ASSUME T # {} PROVE FALSE
  OBVIOUS
<1>2. T \subseteq Nat
  OBVIOUS
<1>3. PICK n \in T : \A y \in T : n <= y
  <2> HIDE DEF T
  <2> QED
    BY <1>1, <1>2, LeastNat
<1>4. /\ n \in 1..Len(gs) /\ gs[n].state = "published" /\ resolve(hs, n, m) # resolve(gs, n, m)
      /\ GenOK(gs, n, gs[n]) /\ hs[n] = gs[n]
  BY <1>3 DEF Sound, Grows
<1>5. n \in Nat \ {0} /\ Founded(gs, n) /\ Founded(hs, n)
  <2>1. n \in Nat \ {0} /\ Founded(gs, n)
    BY <1>4, SoundFounded
  <2>2. \A k \in 1..n : k \in 1..Len(gs)
    BY <1>4
  <2>3. \A k \in 1..n : hs[k].base = gs[k].base
    BY <2>2 DEF Grows, Alike
  <2> QED
    BY <2>1, <2>3 DEF Founded
<1>6. resolve(gs, n, m) = IF gs[n].part[m] # 0 THEN gs[n].part[m]
                          ELSE IF gs[n].base = 0 THEN 0 ELSE resolve(gs, gs[n].base, m)
  BY <1>5, ResolveStep
<1>7. resolve(hs, n, m) = IF gs[n].part[m] # 0 THEN gs[n].part[m]
                          ELSE IF gs[n].base = 0 THEN 0 ELSE resolve(hs, gs[n].base, m)
  BY <1>4, <1>5, ResolveStep
<1>8. gs[n].base # 0 => gs[n].base \in 1..(n - 1) /\ gs[gs[n].base].state = "published"
  BY <1>4 DEF GenOK, IsRoot, IsOverlay, IsCompact
<1>9. gs[n].base # 0 => resolve(hs, gs[n].base, m) = resolve(gs, gs[n].base, m)
  <2> SUFFICES ASSUME gs[n].base # 0 PROVE resolve(hs, gs[n].base, m) = resolve(gs, gs[n].base, m)
    OBVIOUS
  <2>1. gs[n].base \in 1..Len(gs) /\ ~(n <= gs[n].base)
    BY <1>4, <1>8
  <2> QED
    BY <1>3, <1>8, <2>1
<1> QED
  BY <1>4, <1>6, <1>7, <1>9

\* A step that leaves sound generations sound.
Grown(gs, hs) ==
  /\ Grows(gs, hs) /\ hs \in Seq(Gens)
  /\ \A n \in 1..Len(hs) : GenOK(gs, n, hs[n])

\* Sound generations stay sound.
LEMMA GrownSound ==
  ASSUME NEW gs \in Seq(Gens), NEW hs, Sound(gs), Grown(gs, hs)
  PROVE  Sound(hs)
<1> SUFFICES ASSUME NEW n \in 1..Len(hs) PROVE GenOK(hs, n, hs[n])
  BY DEF Sound
<1> DEFINE x == hs[n]
<1>0. Len(gs) \in Nat /\ Grows(gs, hs) /\ n \in 1..(Len(gs) + 1)
  BY DEF Grown, Grows
<1>1. GenOK(gs, n, x)
  BY DEF Grown
<1>2. ASSUME NEW k \in 1..(n - 1) PROVE k \in 1..Len(gs)
  BY <1>0
<1>3. ASSUME NEW k \in 1..(n - 1), gs[k].state = "published"
      PROVE  hs[k] = gs[k] /\ \A m \in Months : resolve(hs, k, m) = resolve(gs, k, m)
  BY <1>0, <1>2, <1>3, OwnerStays DEF Grows
<1> HIDE DEF x
<1>4. CASE IsRoot(n, x)
  BY <1>4 DEF GenOK, x
<1>5. CASE IsOverlay(gs, n, x)
  <2>1. hs[x.base] = gs[x.base]
    BY <1>3, <1>5 DEF IsOverlay
  <2>2. IsOverlay(hs, n, x)
    BY <1>5, <2>1 DEF IsOverlay
  <2> QED
    BY <2>2 DEF GenOK, x
<1>6. CASE IsCompact(gs, n, x)
  <2>1. hs[x.from] = gs[x.from] /\ \A m \in Months : resolve(hs, x.from, m) = resolve(gs, x.from, m)
    BY <1>3, <1>6 DEF IsCompact
  <2>2. IsCompact(hs, n, x)
    BY <1>6, <2>1 DEF IsCompact
  <2> QED
    BY <2>2 DEF GenOK, x
<1> QED
  BY <1>1, <1>4, <1>5, <1>6 DEF GenOK

\* Nothing happened.
LEMMA SameGrown ==
  ASSUME NEW gs \in Seq(Gens), Sound(gs)
  PROVE  Grown(gs, gs)
BY DEF Grown, Grows, Alike, Sound

\* A new generation.
LEMMA AppendGrown ==
  ASSUME NEW gs \in Seq(Gens), Sound(gs), NEW x \in Gens, NEW n, n = Len(gs) + 1, GenOK(gs, n, x)
  PROVE  Grown(gs, Append(gs, x)) /\ Append(gs, x)[n] = x /\ Len(Append(gs, x)) = n
<1> DEFINE hs == Append(gs, x)
<1>1. /\ hs \in Seq(Gens) /\ Len(hs) = Len(gs) + 1 /\ Len(gs) \in Nat
      /\ \A k \in 1..Len(gs) : hs[k] = gs[k]
      /\ hs[n] = x
  OBVIOUS
<1> HIDE DEF hs
<1>2. Grows(gs, hs)
  BY <1>1 DEF Grows, Alike
<1>3. ASSUME NEW k \in 1..Len(hs) PROVE GenOK(gs, k, hs[k])
  <2>1. CASE k = n
    BY <1>1, <2>1
  <2>2. CASE k # n
    <3>1. k \in 1..Len(gs)
      BY <1>1, <2>2
    <3> QED
      BY <1>1, <3>1 DEF Sound
  <2> QED
    BY <2>1, <2>2
<1>4. Grown(gs, hs)
  BY <1>1, <1>2, <1>3 DEF Grown
<1> QED
  BY <1>1, <1>4 DEF hs

\* An unpublished generation goes on.
LEMMA ReplaceGrown ==
  ASSUME NEW gs \in Seq(Gens), Sound(gs), NEW g \in 1..Len(gs), NEW x \in Gens,
         gs[g].state # "published", Alike(gs[g], x), GenOK(gs, g, x)
  PROVE  Grown(gs, [gs EXCEPT ![g] = x])
<1> DEFINE hs == [gs EXCEPT ![g] = x]
<1>1. hs \in Seq(Gens) /\ Len(hs) = Len(gs) /\ Len(gs) \in Nat
  OBVIOUS
<1>2. \A k \in 1..Len(gs) : hs[k] = IF k = g THEN x ELSE gs[k]
  OBVIOUS
<1> HIDE DEF hs
<1>3. Grows(gs, hs)
  BY <1>1, <1>2 DEF Grows, Alike
<1>4. ASSUME NEW k \in 1..Len(hs) PROVE GenOK(gs, k, hs[k])
  <2>1. k \in 1..Len(gs)
    BY <1>1
  <2> QED
    BY <1>2, <2>1 DEF Sound
<1>5. Grown(gs, hs)
  BY <1>1, <1>3, <1>4 DEF Grown
<1> QED
  BY <1>5 DEF hs

\* What a worker remembers stays true of grown generations.
LEMMA RunStays ==
  ASSUME NEW gs, NEW hs, Len(gs) \in Nat, Grows(gs, hs), NEW r, RunOK(gs, r)
  PROVE  RunOK(hs, r)
<1>1. r.gen \in 0..Len(gs) /\ r.gen \in 0..Len(hs)
  BY DEF RunOK, Grows
<1>2. r.gen # 0 => Alike(gs[r.gen], hs[r.gen])
  BY <1>1 DEF Grows
<1>3. r.gen # 0 => /\ hs[r.gen].job = gs[r.gen].job /\ hs[r.gen].base = gs[r.gen].base
                   /\ hs[r.gen].months = gs[r.gen].months /\ hs[r.gen].kind = gs[r.gen].kind
  BY <1>2 DEF Alike
<1> QED
  BY <1>1, <1>3 DEF RunOK

-----------------------------------------------------------------------------
(* The steps that write generations.                                       *)

PublicationInv == SlotInv /\ TableOK /\ ChainInv

States == {"captured", "staging", "ready", "published", "failed", "superseded"}

\* What the invariant says about one generation and one worker.
LEMMA AtHand ==
  ASSUME PublicationInv
  PROVE  /\ gens \in Seq(Gens) /\ Sound(gens) /\ Len(gens) \in Nat
         /\ active \in 1..Len(gens) /\ gens[active].state = "published"
         /\ run \in [Workers -> Runs]
         /\ \A w \in Workers : run[w] \in Runs /\ RunOK(gens, run[w])
         /\ \A g \in 1..Len(gens) : gens[g] \in Gens /\ GenOK(gens, g, gens[g])
<1>1. gens \in Seq(Gens) /\ active \in 1..Len(gens)
  BY DEF PublicationInv, TableOK
<1>2. run \in [Workers -> Runs]
  BY DEF PublicationInv, SlotInv
<1>3. Sound(gens) /\ gens[active].state = "published" /\ \A w \in Workers : RunOK(gens, run[w])
  BY DEF PublicationInv, ChainInv
<1>4. Len(gens) \in Nat /\ \A g \in 1..Len(gens) : gens[g] \in Gens
  BY <1>1
<1> QED
  BY <1>1, <1>2, <1>3, <1>4 DEF Sound

\* An unpublished generation takes another state.
Turned(x, s) == [x EXCEPT !.state = s]

\* Such a change keeps the generations sound.
LEMMA TurnedGrown ==
  ASSUME NEW gs \in Seq(Gens), Sound(gs), NEW g \in 1..Len(gs), gs[g].state # "published",
         NEW s \in States,
         s \in {"ready", "published"} /\ gs[g].kind = "compact" =>
           gs[g].state = "ready" \/ \A m \in Months : gs[g].part[m] # 0
  PROVE  /\ Grown(gs, [gs EXCEPT ![g].state = s])
         /\ [gs EXCEPT ![g].state = s][g] = Turned(gs[g], s) /\ Turned(gs[g], s).state = s
         /\ Alike(gs[g], Turned(gs[g], s)) /\ Turned(gs[g], s).part = gs[g].part
<1> DEFINE x == gs[g]
           y == Turned(x, s)
<1>1. x \in Gens /\ GenOK(gs, g, x) /\ x.state # "published"
  BY DEF Sound
<1>2. [gs EXCEPT ![g].state = s] = [gs EXCEPT ![g] = y]
  BY DEF Turned
<1>3. s \in {"ready", "published"} /\ x.kind = "compact" => x.state = "ready" \/ \A m \in Months : x.part[m] # 0
  OBVIOUS
<1> HIDE DEF x
<1>4. y \in Gens
  BY <1>1 DEF Gens, Generation, Turned, States
<1>5. /\ y.state = s /\ y.kind = x.kind /\ y.base = x.base /\ y.from = x.from /\ y.depth = x.depth
      /\ y.job = x.job /\ y.months = x.months /\ y.part = x.part
  BY <1>1 DEF Gens, Generation, Turned
<1> HIDE DEF y
<1>6. ASSUME IsOverlay(gs, g, x) PROVE GenOK(gs, g, y)
  BY <1>5, <1>6 DEF IsOverlay, GenOK
<1>7. ASSUME IsCompact(gs, g, x) PROVE GenOK(gs, g, y)
  <2>1. s \in {"ready", "published"} => \A m \in Months : x.part[m] # 0
    BY <1>3, <1>7 DEF IsCompact
  <2>2. IsCompact(gs, g, y)
    BY <1>5, <1>7, <2>1 DEF IsCompact
  <2> QED
    BY <2>2 DEF GenOK
<1>8. GenOK(gs, g, y)
  BY <1>1, <1>6, <1>7 DEF GenOK, IsRoot
<1>9. Alike(x, y)
  BY <1>5 DEF Alike
<1>10. Grown(gs, [gs EXCEPT ![g] = y])
  BY <1>4, <1>8, <1>9, ReplaceGrown DEF x
<1>11. [gs EXCEPT ![g] = y][g] = y
  OBVIOUS
<1> QED
  BY <1>2, <1>5, <1>9, <1>10, <1>11 DEF x, y

\* A worker of a publishing job has a generation that overlays its base.
LEMMA MineOK ==
  ASSUME PublicationInv, NEW w \in Workers, run[w].job \in Publishers, run[w].pc \in {"build", "publish"}
  PROVE  /\ run[w].gen \in 1..Len(gens) /\ gens[run[w].gen] \in Gens
         /\ IsOverlay(gens, run[w].gen, gens[run[w].gen])
         /\ gens[run[w].gen].job = run[w].job /\ gens[run[w].gen].base = run[w].base
         /\ gens[run[w].gen].months = run[w].months /\ gens[run[w].gen].kind = "lineage"
<1> DEFINE r == run[w]
<1>1. RunOK(gens, r) /\ Len(gens) \in Nat
  BY AtHand
<1>2. /\ r.gen \in 0..Len(gens) /\ r.gen # 0 /\ gens[r.gen].job = r.job /\ gens[r.gen].base = r.base
      /\ gens[r.gen].months = r.months
  BY <1>1 DEF RunOK
<1>3. r.gen \in 1..Len(gens)
  BY <1>1, <1>2
<1>4. gens[r.gen] \in Gens /\ GenOK(gens, r.gen, gens[r.gen])
  BY <1>3, AtHand
<1>5. gens[r.gen].job # NoOne
  BY SMTT(60), <1>2, PublicationAssumption DEF Jobs
<1>6. IsOverlay(gens, r.gen, gens[r.gen])
  BY <1>4, <1>5 DEF GenOK, IsRoot, IsCompact
<1> QED
  BY <1>2, <1>3, <1>4, <1>6 DEF IsOverlay

\* A worker of a compaction job has a generation that restates its chain.
LEMMA OursOK ==
  ASSUME PublicationInv, NEW w \in Workers, run[w].job \in Compactions, run[w].pc # "claimed"
  PROVE  /\ run[w].gen \in 1..Len(gens) /\ gens[run[w].gen] \in Gens
         /\ IsCompact(gens, run[w].gen, gens[run[w].gen]) /\ gens[run[w].gen].kind = "compact"
<1> DEFINE r == run[w]
<1>1. RunOK(gens, r) /\ Len(gens) \in Nat
  BY AtHand
<1>2. r.gen \in 0..Len(gens) /\ r.gen # 0 /\ gens[r.gen].kind = "compact"
  BY <1>1 DEF RunOK
<1>3. r.gen \in 1..Len(gens)
  BY <1>1, <1>2
<1>4. gens[r.gen] \in Gens /\ GenOK(gens, r.gen, gens[r.gen])
  BY <1>3, AtHand
<1> QED
  BY <1>2, <1>3, <1>4 DEF GenOK, IsRoot, IsOverlay

\* The overlay that a rebuild or a finalize job starts.
LEMMA NewOverlay ==
  ASSUME PublicationInv, NEW j \in Publishers, NEW months \in SUBSET Months, months \subseteq Scope[j],
         NEW s \in {"captured", "staging"}, NEW fr \in [Months -> Versions], NEW n, n = Len(gens) + 1
  PROVE  /\ NewGeneration(j, active, months, s, fr) \in Gens
         /\ GenOK(gens, n, NewGeneration(j, active, months, s, fr))
         /\ NewGeneration(j, active, months, s, fr).job = j
         /\ NewGeneration(j, active, months, s, fr).base = active
         /\ NewGeneration(j, active, months, s, fr).months = months
<1> DEFINE d == gens[active].depth + 1
           x == NewGeneration(j, active, months, s, fr)
           none == [m \in Months |-> 0]
<1>1. active \in 1..Len(gens) /\ gens[active].state = "published" /\ gens[active] \in Gens /\ Len(gens) \in Nat
  BY AtHand
<1>2. d \in Nat /\ d = gens[active].depth + 1
  BY <1>1 DEF Gens, Generation
<1>3. x = [kind |-> "lineage", base |-> active, from |-> 0, depth |-> d, job |-> j, state |-> s,
           months |-> months, part |-> none, frozen |-> fr, rows |-> none]
  BY DEF NewGeneration
<1>4. none \in [Months -> Nat] /\ none \in [Months -> Versions] /\ \A m \in Months : none[m] = 0
  BY PublicationAssumption DEF Versions
<1>5. j \in Jobs \cup {NoOne} /\ active \in Nat /\ active \in 1..(n - 1)
  BY <1>1 DEF Jobs
<1> HIDE DEF d, none, x
<1>6. x \in Gens
  BY <1>2, <1>3, <1>4, <1>5 DEF Gens, Generation
<1>7. x.kind = "lineage" /\ x.base = active /\ x.depth = d /\ x.job = j /\ x.months = months /\ x.part = none
  BY <1>3
<1>8. IsOverlay(gens, n, x)
  BY <1>1, <1>2, <1>4, <1>5, <1>7 DEF IsOverlay
<1> QED
  BY <1>6, <1>7, <1>8 DEF GenOK, x

\* What is captured has a version.
LEMMA CapturedOK ==
  ASSUME TableOK, NEW months
  PROVE  Captured(months) \in [Months -> Versions] /\ \A m \in Months : authority(m) \in Versions
<1>1. \A m \in Months : authority(m) \in Versions
  BY DEF TableOK, authority
<1>2. 0 \in Versions
  BY PublicationAssumption DEF Versions
<1> QED
  BY <1>1, <1>2 DEF Captured

\* The generation of a job, its base and its months, if there is one.
LEMMA IdentityOK ==
  ASSUME PublicationInv, NEW j \in Publishers, NEW base, NEW months, Identity(j, base, months) # {},
         NEW g, g = CHOOSE x \in Identity(j, base, months) : TRUE
  PROVE  /\ g \in 1..Len(gens) /\ gens[g].job = j /\ gens[g].base = base /\ gens[g].months = months
         /\ gens[g].kind = "lineage"
<1>1. g \in Identity(j, base, months)
  OBVIOUS
<1>2. g \in 1..Len(gens) /\ gens[g].job = j /\ gens[g].base = base /\ gens[g].months = months
  BY <1>1 DEF Identity
<1>3. GenOK(gens, g, gens[g])
  BY <1>2, AtHand
<1>4. j # NoOne
  BY PublicationAssumption DEF Jobs
<1> QED
  BY <1>2, <1>3, <1>4 DEF GenOK, IsRoot, IsOverlay, IsCompact

\* Only a publishing job plans, freezes and builds.
LEMMA Publishes ==
  ASSUME PublicationInv, NEW w \in Workers, Held(w), run[w].pc \in {"plan", "freeze", "start", "build", "finish"}
  PROVE  run[w].job \in Publishers
<1>1. run[w].job \in Jobs
  BY AtHand, HeldRow
<1>2. RunOK(gens, run[w])
  BY AtHand
<1>3. run[w].job \notin Compactions
  BY <1>2 DEF RunOK
<1> QED
  BY <1>1, <1>3 DEF Jobs

\* A step of worker w is sound: the generations grow, w remembers what is true of them,
\* the other workers are not touched.
Advances(w, r) == Grown(gens, gens') /\ run' = [run EXCEPT ![w] = r] /\ RunOK(gens', r)

\* The freeze captures a new overlay of the head, or finds its own.
LEMMA FreezeAdvances ==
  ASSUME PublicationInv, NEW w \in Workers, Freeze(w)
  PROVE  \E r : Advances(w, r)
<1> DEFINE j == run[w].job
           months == run[w].months
           mine == Identity(j, run[w].base, months)
           g == IF mine # {} THEN CHOOSE x \in mine : TRUE ELSE Len(gens) + 1
           r == [run[w] EXCEPT !.pc = "start", !.gen = g]
<1>1. /\ Held(w) /\ run[w].pc = "freeze" /\ active = run[w].base
      /\ gens' = IF mine # {} THEN gens
                 ELSE Append(gens, NewGeneration(j, active, months, "captured", Captured(months)))
      /\ run' = [run EXCEPT ![w].pc = "start", ![w].gen = g]
  BY DEF Freeze
<1>2. j \in Publishers /\ run[w] \in Runs /\ RunOK(gens, run[w]) /\ gens \in Seq(Gens) /\ Sound(gens)
      /\ run \in [Workers -> Runs] /\ Len(gens) \in Nat
  BY <1>1, AtHand, Publishes
<1>3. months \subseteq Scope[j] /\ months \in SUBSET Months /\ run[w].job \in Publishers
  BY <1>1, <1>2 DEF RunOK, Runs
<1>4. /\ Grown(gens, gens') /\ g \in 0..Len(gens')
  <2>1. CASE mine # {}
    <3>1. g \in 1..Len(gens)
      BY <1>2, <2>1, IdentityOK
    <3>2. gens' = gens
      BY <1>1, <2>1
    <3> HIDE DEF g, mine
    <3> QED
      BY <1>2, <3>1, <3>2, SameGrown
  <2>2. CASE mine = {}
    <3> DEFINE fr == Captured(months)
               n == Len(gens) + 1
               x == NewGeneration(j, active, months, "captured", fr)
    <3>1. fr \in [Months -> Versions]
      BY CapturedOK DEF PublicationInv
    <3>2. gens' = Append(gens, x) /\ g = n
      BY <1>1, <2>2
    <3> HIDE DEF fr, g, mine
    <3>3. x \in Gens /\ GenOK(gens, n, x)
      BY <1>2, <1>3, <3>1, NewOverlay
    <3> HIDE DEF x
    <3>4. Grown(gens, gens') /\ Len(gens') = n
      BY <1>2, <3>2, <3>3, AppendGrown
    <3> QED
      BY <1>2, <3>2, <3>4
  <2> QED
    BY <2>1, <2>2
<1> HIDE DEF g
<1>5. run' = [run EXCEPT ![w] = r]
  BY <1>1, <1>2 DEF Runs
<1>6. r.pc = "start" /\ r.gen = g /\ r.job = j /\ r.months = months
  BY <1>2 DEF Runs
<1>7. r.job \notin Compactions
  BY <1>2, <1>6, PublicationAssumption
<1> HIDE DEF r
<1>8. RunOK(gens', r)
  BY <1>3, <1>4, <1>6, <1>7 DEF RunOK
<1> QED
  BY <1>4, <1>5, <1>8 DEF Advances

\* The build starts on the captured generation.
LEMMA StartBuildAdvances ==
  ASSUME PublicationInv, NEW w \in Workers, StartBuild(w)
  PROVE  \E r : Advances(w, r)
<1> DEFINE j == run[w].job
           months == run[w].months
           mine == Identity(j, run[w].base, months)
           g == IF mine = {} THEN Len(gens) + 1 ELSE CHOOSE x \in mine : TRUE
           none == [m \in Months |-> 0]
<1>1. /\ Held(w) /\ run[w].pc = "start" /\ active = run[w].base
      /\ mine # {} => gens[g].state \in {"captured", "staging", "ready"}
      /\ gens' = IF mine = {} THEN Append(gens, NewGeneration(j, active, months, "staging", none))
                 ELSE IF gens[g].state = "captured" THEN [gens EXCEPT ![g].state = "staging"] ELSE gens
      /\ \/ run' = [run EXCEPT ![w].pc = "publish", ![w].gen = g]
         \/ run' = [run EXCEPT ![w].pc = "build", ![w].gen = g, ![w].todo = months]
  BY ZenonT(60) DEF StartBuild
<1>2. j \in Publishers /\ run[w] \in Runs /\ RunOK(gens, run[w]) /\ gens \in Seq(Gens) /\ Sound(gens)
      /\ run \in [Workers -> Runs] /\ Len(gens) \in Nat
  BY ZenonT(60), <1>1, AtHand, Publishes
<1>3. months \subseteq Scope[j] /\ months \in SUBSET Months /\ run[w].job \in Publishers
  BY Zenon, <1>1, <1>2 DEF RunOK, Runs
<1>4. /\ Grown(gens, gens') /\ g \in 1..Len(gens')
      /\ gens'[g].job = j /\ gens'[g].base = active /\ gens'[g].months = months
  <2>1. CASE mine = {}
    <3> DEFINE n == Len(gens) + 1
               x == NewGeneration(j, active, months, "staging", none)
    <3>1. none \in [Months -> Versions]
      BY PublicationAssumption DEF Versions
    <3>2. gens' = Append(gens, x) /\ g = n
      BY <1>1, <2>1
    <3> HIDE DEF none, g, mine
    <3>3. x \in Gens /\ GenOK(gens, n, x) /\ x.job = j /\ x.base = active /\ x.months = months
      <4>1. j \in Publishers /\ months \in SUBSET Months /\ months \subseteq Scope[j] /\ n = Len(gens) + 1
        BY <1>2, <1>3
      <4> HIDE DEF j, months, n
      <4> QED
        BY ZenonT(60), <3>1, <4>1, NewOverlay
    <3> HIDE DEF x
    <3>4. Grown(gens, gens') /\ Len(gens') = n /\ gens'[n] = x
      BY <1>2, <3>2, <3>3, AppendGrown
    <3> QED
      BY <1>2, <3>2, <3>3, <3>4
  <2>2. CASE mine # {}
    <3>1. /\ g \in 1..Len(gens) /\ gens[g].job = j /\ gens[g].base = active /\ gens[g].months = months
          /\ gens[g].kind = "lineage"
      <4>1. g = CHOOSE x \in Identity(j, run[w].base, months) : TRUE
        BY <2>2
      <4> HIDE DEF g
      <4>2. /\ g \in 1..Len(gens) /\ gens[g].job = j /\ gens[g].base = run[w].base
            /\ gens[g].months = months /\ gens[g].kind = "lineage"
        BY <1>2, <2>2, <4>1, IdentityOK
      <4> QED
        BY <1>1, <4>2
    <3>2. /\ gens[g].state # "published"
          /\ gens' = gens \/ gens' = [gens EXCEPT ![g].state = "staging"]
      BY Zenon, <1>1, <2>2
    <3> HIDE DEF g, mine
    <3>3. CASE gens' = gens
      BY <1>2, <3>1, <3>3, SameGrown
    <3>4. CASE gens' = [gens EXCEPT ![g].state = "staging"]
      <4>1. "staging" \in States
        BY DEF States
      <4>2. Grown(gens, gens')
        BY <1>2, <3>1, <3>2, <3>4, <4>1, TurnedGrown
      <4>3. Len(gens') \in {Len(gens), Len(gens) + 1} /\ Alike(gens[g], gens'[g])
        BY <3>1, <4>2 DEF Grown, Grows
      <4> QED
        BY <1>2, <3>1, <4>2, <4>3 DEF Alike
    <3> QED
      BY <3>2, <3>3, <3>4
  <2> QED
    BY <2>1, <2>2
<1> HIDE DEF g, mine
<1>5. ASSUME NEW r, r.gen = g, r.job = j, r.months = months, r.base = active,
             r.pc = "publish" \/ (r.pc = "build" /\ r.todo = months)
      PROVE  RunOK(gens', r)
  <2>1. r.job \notin Compactions
    BY <1>2, <1>5, PublicationAssumption
  <2>2. r.gen \in 0..Len(gens') /\ r.gen # 0
    BY <1>4, <1>5
  <2> QED
    BY <1>3, <1>4, <1>5, <2>1, <2>2 DEF RunOK
<1>6. CASE run' = [run EXCEPT ![w].pc = "publish", ![w].gen = g]
  <2> DEFINE r == [run[w] EXCEPT !.pc = "publish", !.gen = g]
  <2>1. run' = [run EXCEPT ![w] = r]
    BY <1>2, <1>6 DEF Runs
  <2>2. r.pc = "publish" /\ r.gen = g /\ r.job = j /\ r.months = months /\ r.base = active
    BY <1>1, <1>2 DEF Runs
  <2> HIDE DEF r
  <2> QED
    BY <1>4, <1>5, <2>1, <2>2 DEF Advances
<1>7. CASE run' = [run EXCEPT ![w].pc = "build", ![w].gen = g, ![w].todo = months]
  <2> DEFINE r == [run[w] EXCEPT !.pc = "build", !.gen = g, !.todo = months]
  <2>1. run' = [run EXCEPT ![w] = r]
    BY <1>2, <1>7 DEF Runs
  <2>2. r.pc = "build" /\ r.gen = g /\ r.job = j /\ r.months = months /\ r.base = active /\ r.todo = months
    BY <1>1, <1>2 DEF Runs
  <2> HIDE DEF r
  <2> QED
    BY <1>4, <1>5, <2>1, <2>2 DEF Advances
<1> QED
  BY SMTT(60), <1>1, <1>6, <1>7

\* The least month of a nonempty set is one of its months.
LEMMA LeastMonth ==
  ASSUME NEW S \in SUBSET Months, S # {}
  PROVE  Least(S) \in S
<1>1. S \subseteq Nat
  BY DEF Months
<1> QED
  BY <1>1, LeastNat DEF Least

\* The plan takes the head and the months it is built for.
LEMMA PlanAdvances ==
  ASSUME PublicationInv, NEW w \in Workers, Plan(w)
  PROVE  \E r : Advances(w, r)
<1> DEFINE j == run[w].job
           months == Scope[j] \ Locked
           pc == IF j \in Finalizers THEN "start" ELSE "freeze"
           r == [run[w] EXCEPT !.pc = pc, !.base = active, !.months = months]
           Retired(g) == /\ gens[g].job = j /\ g \notin Identity(j, active, months)
                         /\ gens[g].state \in {"staging", "ready"}
<1>1. /\ Held(w) /\ run[w].pc = "plan" /\ j \in Publishers
      /\ run' = [run EXCEPT ![w].pc = pc, ![w].base = active, ![w].months = months]
      /\ gens' = IF j \in Finalizers THEN gens
                 ELSE [g \in 1..Len(gens) |->
                         IF Retired(g) THEN [gens[g] EXCEPT !.state = "superseded"] ELSE gens[g]]
  BY DEF Plan
<1>2. run[w] \in Runs /\ RunOK(gens, run[w]) /\ gens \in Seq(Gens) /\ Sound(gens)
      /\ run \in [Workers -> Runs] /\ Len(gens) \in Nat
  BY <1>1, AtHand
<1>3. Grown(gens, gens')
  <2>1. CASE j \in Finalizers
    BY <1>1, <1>2, <2>1, SameGrown
  <2>2. CASE j \notin Finalizers
    <3> DEFINE hs == [g \in 1..Len(gens) |-> IF Retired(g) THEN Turned(gens[g], "superseded") ELSE gens[g]]
    <3>1. gens' = hs
      BY <1>1, <2>2 DEF Turned
    <3>2. ASSUME NEW g \in 1..Len(gens), Retired(g)
          PROVE  /\ Turned(gens[g], "superseded") \in Gens /\ Alike(gens[g], Turned(gens[g], "superseded"))
                 /\ GenOK(gens, g, Turned(gens[g], "superseded")) /\ gens[g].state # "published"
      <4> DEFINE hs2 == [gens EXCEPT ![g].state = "superseded"]
      <4>1. "superseded" \in States /\ gens[g].state # "published"
        BY <3>2 DEF States
      <4>2. Grown(gens, hs2) /\ hs2[g] = Turned(gens[g], "superseded")
            /\ Alike(gens[g], Turned(gens[g], "superseded"))
        BY <1>2, <4>1, TurnedGrown
      <4>3. hs2 \in Seq(Gens) /\ Len(hs2) = Len(gens)
        BY <1>2, <4>2 DEF Grown
      <4> HIDE DEF hs2
      <4>4. hs2[g] \in Gens /\ GenOK(gens, g, hs2[g])
        BY <4>2, <4>3 DEF Grown
      <4> QED
        BY <4>1, <4>2, <4>4
    <3> HIDE DEF Retired
    <3>3. \A g \in 1..Len(gens) : hs[g] = IF Retired(g) THEN Turned(gens[g], "superseded") ELSE gens[g]
      OBVIOUS
    <3>4. \A g \in 1..Len(gens) : hs[g] \in Gens
      BY <1>2, <3>2
    <3>5. hs \in Seq(Gens) /\ Len(hs) = Len(gens)
      <4>1. hs \in [1..Len(gens) -> Gens]
        BY <1>2, <3>2
      <4> HIDE DEF hs
      <4> QED
        BY <1>2, <4>1
    <3> HIDE DEF hs
    <3>6. Grows(gens, hs)
      BY <1>2, <3>2, <3>3, <3>5 DEF Grows, Alike
    <3>7. \A g \in 1..Len(hs) : GenOK(gens, g, hs[g])
      BY <1>2, <3>2, <3>3, <3>5 DEF Sound
    <3> QED
      BY <3>1, <3>5, <3>6, <3>7 DEF Grown
  <2> QED
    BY <2>1, <2>2
<1>4. pc \in {"start", "freeze"} /\ months \subseteq Scope[j]
  OBVIOUS
<1>5. run[w].gen \in 0..Len(gens')
  BY <1>2, <1>3 DEF RunOK, Grown, Grows
<1> HIDE DEF pc, months, Retired
<1>6. run' = [run EXCEPT ![w] = r]
  BY <1>1, <1>2 DEF Runs
<1>7. r.pc = pc /\ r.gen = run[w].gen /\ r.job = j /\ r.months = months
  BY <1>2 DEF Runs
<1>8. r.job \notin Compactions
  BY <1>1, <1>7, PublicationAssumption
<1> HIDE DEF r
<1>9. RunOK(gens', r)
  BY <1>4, <1>5, <1>7, <1>8 DEF RunOK
<1> QED
  BY <1>3, <1>6, <1>9 DEF Advances

\* A partition is written into a generation that is still being built.
LEMMA WritePartitionAdvances ==
  ASSUME PublicationInv, NEW w \in Workers, WritePartition(w)
  PROVE  \E r : Advances(w, r)
<1> DEFINE g == run[w].gen
           x == gens[g]
           m == Least(run[w].todo)
           v == authority(m)
           y == [x EXCEPT !.rows[m] = v, !.part[m] = g]
           r == [run[w] EXCEPT !.todo = run[w].todo \ {m}]
<1>1. /\ Held(w) /\ run[w].pc = "build" /\ run[w].todo # {} /\ gens[g].state = "staging"
      /\ gens' = [gens EXCEPT ![g].rows[m] = v, ![g].part[m] = g]
      /\ run' = [run EXCEPT ![w].todo = run[w].todo \ {m}]
  <2>1. run \in [Workers -> Runs]
    BY AtHand
  <2> QED
    BY <2>1 DEF WritePartition
<1>2. run[w].job \in Publishers /\ run[w] \in Runs /\ RunOK(gens, run[w]) /\ gens \in Seq(Gens) /\ Sound(gens)
      /\ run \in [Workers -> Runs] /\ Len(gens) \in Nat
  BY <1>1, AtHand, Publishes
<1>3. run[w].todo \subseteq run[w].months /\ run[w].todo \in SUBSET Months
  BY <1>1, <1>2 DEF RunOK, Runs
<1>4. m \in run[w].todo /\ m \in Months /\ v \in Versions
  <2>1. m \in run[w].todo
    BY <1>1, <1>3, LeastMonth
  <2>2. \A k \in Months : authority(k) \in Versions
    BY CapturedOK DEF PublicationInv
  <2> QED
    BY <1>3, <2>1, <2>2
<1>5. g \in 1..Len(gens) /\ x \in Gens /\ IsOverlay(gens, g, x) /\ x.months = run[w].months
  BY <1>1, <1>2, MineOK
<1>6. x.state # "published" /\ m \in x.months /\ g \in Nat
  BY <1>1, <1>2, <1>3, <1>4, <1>5
<1>7. run' = [run EXCEPT ![w] = r]
  BY <1>1
<1>8. gens' = [gens EXCEPT ![g] = y]
  BY <1>1, <1>2, <1>5
<1> HIDE DEF g, x, m, v
<1>9. x.part \in [Months -> Nat] /\ x.rows \in [Months -> Versions]
  BY <1>5 DEF Gens, Generation
<1>10. y = [x EXCEPT !.rows = [x.rows EXCEPT ![m] = v], !.part = [x.part EXCEPT ![m] = g]]
  BY <1>5 DEF Gens, Generation
<1>11. [x.part EXCEPT ![m] = g] \in [Months -> Nat] /\ [x.rows EXCEPT ![m] = v] \in [Months -> Versions]
  BY <1>4, <1>6, <1>9
<1>12. \A k \in Months : [x.part EXCEPT ![m] = g][k] = IF k = m THEN g ELSE x.part[k]
  BY <1>9
<1> DEFINE pp == [x.part EXCEPT ![m] = g]
           rr == [x.rows EXCEPT ![m] = v]
<1> HIDE DEF pp, rr, y
<1>13. y = [x EXCEPT !.rows = rr, !.part = pp]
  BY <1>10 DEF pp, rr
<1>14. pp \in [Months -> Nat] /\ rr \in [Months -> Versions] /\ \A k \in Months : pp[k] = IF k = m THEN g ELSE x.part[k]
  BY <1>11, <1>12 DEF pp, rr
<1>15. y \in Gens
  BY <1>5, <1>13, <1>14 DEF Gens, Generation
<1>16. /\ y.kind = x.kind /\ y.base = x.base /\ y.from = x.from /\ y.depth = x.depth /\ y.state = x.state
       /\ y.job = x.job /\ y.months = x.months /\ y.part = pp
  BY <1>5, <1>13 DEF Gens, Generation
<1>17. GenOK(gens, g, y)
  BY <1>5, <1>6, <1>14, <1>16 DEF IsOverlay, GenOK
<1>18. Grown(gens, gens')
  <2>1. Alike(x, y)
    BY <1>16 DEF Alike
  <2> QED
    BY <1>2, <1>5, <1>6, <1>8, <1>15, <1>17, <2>1, ReplaceGrown DEF x
<1>19. RunOK(gens', run[w])
  BY <1>2, <1>18, RunStays DEF Grown
<1>20. /\ r.pc = run[w].pc /\ r.gen = run[w].gen /\ r.job = run[w].job /\ r.months = run[w].months
       /\ r.base = run[w].base /\ r.todo \subseteq run[w].todo
  BY <1>2 DEF Runs
<1> HIDE DEF r
<1>21. RunOK(gens', r)
  BY <1>3, <1>19, <1>20 DEF RunOK
<1> QED
  BY <1>7, <1>18, <1>21 DEF Advances

\* Ready, or published, or no more: a generation of worker w turns.
LEMMA MarkReadyAdvances ==
  ASSUME PublicationInv, NEW w \in Workers, MarkReady(w)
  PROVE  \E r : Advances(w, r)
<1> DEFINE g == run[w].gen
           r == [run[w] EXCEPT !.pc = "publish"]
<1>1. /\ Held(w) /\ run[w].pc = "build" /\ gens[g].state = "staging"
      /\ gens' = [gens EXCEPT ![g].state = "ready"]
      /\ run' = [run EXCEPT ![w] = r]
  BY DEF MarkReady
<1>2. run[w].job \in Publishers /\ run[w] \in Runs /\ RunOK(gens, run[w]) /\ gens \in Seq(Gens) /\ Sound(gens)
      /\ run \in [Workers -> Runs] /\ Len(gens) \in Nat
  BY <1>1, AtHand, Publishes
<1>3. g \in 1..Len(gens) /\ gens[g].kind = "lineage" /\ gens[g].state # "published" /\ "ready" \in States
  BY <1>1, <1>2, MineOK DEF States
<1>4. Grown(gens, gens')
  BY <1>1, <1>2, <1>3, TurnedGrown
<1>5. RunOK(gens', run[w])
  BY <1>2, <1>4, RunStays DEF Grown
<1>6. /\ r.pc = "publish" /\ r.gen = run[w].gen /\ r.job = run[w].job /\ r.months = run[w].months
      /\ r.base = run[w].base
  BY <1>2 DEF Runs
<1>7. r.job \notin Compactions
  BY <1>2, <1>6, PublicationAssumption
<1> HIDE DEF r
<1>8. RunOK(gens', r)
  BY <1>1, <1>2, <1>5, <1>6, <1>7 DEF RunOK
<1> QED
  BY <1>1, <1>4, <1>8 DEF Advances

\* A publication moves the pointer to the generation of its worker.
LEMMA PublishTurns ==
  ASSUME PublicationInv, NEW w \in Workers, Publish(w) \/ PublishFinalize(w) \/ PublishCompaction(w),
         NEW g, g = run[w].gen
  PROVE  /\ g \in 1..Len(gens) /\ Grown(gens, gens') /\ active' = g /\ Len(gens') = Len(gens)
         /\ gens'[g].state = "published" /\ Alike(gens[g], gens'[g]) /\ gens'[g].part = gens[g].part
         /\ gens[g].state = "ready"
<1>1. /\ gens' = [gens EXCEPT ![g].state = "published"] /\ active' = g /\ gens[g].state = "ready"
      /\ run[w].pc = "publish" /\ run[w].job \in Publishers \cup Compactions
  BY DEF Publish, PublishFinalize, PublishCompaction, Publishers, SettlementJobs
<1>2. gens \in Seq(Gens) /\ Sound(gens)
  BY AtHand
<1>3. g \in 1..Len(gens)
  BY <1>1, MineOK, OursOK
<1>4. "published" \in States /\ gens[g].state # "published"
  BY <1>1 DEF States
<1>5. /\ Grown(gens, gens') /\ gens'[g] = Turned(gens[g], "published")
      /\ Turned(gens[g], "published").state = "published" /\ Alike(gens[g], Turned(gens[g], "published"))
      /\ Turned(gens[g], "published").part = gens[g].part
  BY ZenonT(60), <1>1, <1>2, <1>3, <1>4, TurnedGrown
<1>6. Len(gens') = Len(gens)
  BY <1>1, <1>2
<1> QED
  BY <1>1, <1>3, <1>5, <1>6

\* Nothing in progress.
LEMMA IdleOK ==
  ASSUME NEW gs, Len(gs) \in Nat
  PROVE  RunOK(gs, Idle)
<1>1. Idle.gen = 0 /\ Idle.job = NoOne /\ Idle.pc = "idle"
  BY DEF Idle
<1>2. NoOne \notin Publishers /\ NoOne \notin Compactions
  BY PublicationAssumption DEF Jobs
<1> QED
  BY <1>1, <1>2 DEF RunOK

\* The worker of a rebuild still has to close its row, any other is done.
LEMMA PublishAdvances ==
  ASSUME PublicationInv, NEW w \in Workers, Publish(w) \/ PublishFinalize(w) \/ PublishCompaction(w)
  PROVE  \E r : Advances(w, r)
<1>1. Grown(gens, gens')
  BY PublishTurns
<1>2. run[w] \in Runs /\ RunOK(gens, run[w]) /\ run \in [Workers -> Runs] /\ Len(gens) \in Nat
  BY AtHand
<1>3. RunOK(gens', run[w]) /\ Len(gens') \in Nat
  BY <1>1, <1>2, RunStays DEF Grown, Grows
<1>4. CASE Publish(w)
  <2> DEFINE r == [run[w] EXCEPT !.pc = "finish"]
  <2>1. run' = [run EXCEPT ![w] = r] /\ run[w].job \in Publishers
    BY <1>4 DEF Publish, SettlementJobs, Publishers
  <2>2. r.pc = "finish" /\ r.gen = run[w].gen /\ r.job = run[w].job
    BY <1>2 DEF Runs
  <2>3. r.job \notin Compactions
    BY <2>1, <2>2, PublicationAssumption
  <2> HIDE DEF r
  <2>4. RunOK(gens', r)
    BY <1>3, <2>2, <2>3 DEF RunOK
  <2> QED
    BY <1>1, <2>1, <2>4 DEF Advances
<1>5. CASE PublishFinalize(w) \/ PublishCompaction(w)
  <2>1. run' = [run EXCEPT ![w] = Idle]
    BY <1>5 DEF PublishFinalize, PublishCompaction
  <2> QED
    BY <1>1, <1>3, <2>1, IdleOK DEF Advances
<1> QED
  BY <1>4, <1>5

\* The generation that a compaction starts, or starts again.
Fresh(c) == [Root EXCEPT !.kind = "compact", !.from = target[c], !.state = "staging",
                         !.part = [m \in Months |-> 0]]

\* It is a sound generation whose months are all still to be copied.
LEMMA FreshOK ==
  ASSUME PublicationInv, NEW c \in Compactions, target[c] = active, NEW n \in Nat, active < n
  PROVE  /\ Fresh(c) \in Gens /\ GenOK(gens, n, Fresh(c)) /\ Fresh(c).kind = "compact"
         /\ Fresh(c) = [kind |-> "compact", base |-> 0, from |-> active, depth |-> 0, job |-> NoOne,
                        state |-> "staging", months |-> Months, part |-> [m \in Months |-> 0],
                        frozen |-> [m \in Months |-> 0], rows |-> [m \in Months |-> 0]]
<1> DEFINE none == [m \in Months |-> 0]
           x == Fresh(c)
<1>1. active \in 1..Len(gens) /\ gens[active].state = "published" /\ Len(gens) \in Nat
  BY AtHand
<1>2. none \in [Months -> Nat] /\ none \in [Months -> Versions] /\ \A m \in Months : none[m] = 0
  BY PublicationAssumption DEF Versions
<1>3. x = [kind |-> "compact", base |-> 0, from |-> active, depth |-> 0, job |-> NoOne,
           state |-> "staging", months |-> Months, part |-> none, frozen |-> none, rows |-> none]
  <2> DEFINE one == [m \in Months |-> 1]
             t == target[c]
  <2>1. Root = [kind |-> "root", base |-> 0, from |-> 0, depth |-> 0, job |-> NoOne, state |-> "published",
                months |-> Months, part |-> one, frozen |-> none, rows |-> none]
    BY DEF Root
  <2>2. x = [Root EXCEPT !.kind = "compact", !.from = t, !.state = "staging", !.part = none]
    BY DEF Fresh
  <2>3. t = active
    OBVIOUS
  <2> HIDE DEF one, none, t, x
  <2> QED
    BY <2>1, <2>2, <2>3
<1>4. active \in Nat /\ active \in 1..(n - 1)
  BY <1>1
<1> HIDE DEF none, x
<1>5. x \in Gens
  BY <1>2, <1>3, <1>4 DEF Gens, Generation
<1>6. x.kind = "compact" /\ x.base = 0 /\ x.depth = 0 /\ x.from = active /\ x.job = NoOne
      /\ x.state = "staging" /\ x.part = none /\ x.months = Months
  BY <1>3
<1>7. IsCompact(gens, n, x)
  BY <1>1, <1>2, <1>4, <1>6 DEF IsCompact
<1> QED
  BY <1>3, <1>5, <1>6, <1>7 DEF GenOK, none, x

\* A compaction starts a generation of its own, or starts its own again.
LEMMA StartCompactionAdvances ==
  ASSUME PublicationInv, NEW w \in Workers, StartCompaction(w)
  PROVE  \E r : Advances(w, r)
<1> DEFINE c == run[w].job
           e == CHOOSE g \in CompactOf(c) : TRUE
<1>1. /\ c \in Compactions /\ run[w].pc = "claimed" /\ active = target[c]
      /\ CompactOf(c) = {} =>
           /\ gens' = Append(gens, Fresh(c))
           /\ run' = [run EXCEPT ![w].pc = "page", ![w].gen = Len(gens) + 1, ![w].base = target[c]]
      /\ CompactOf(c) # {} =>
           /\ gens' = IF gens[e].state = "failed" THEN [gens EXCEPT ![e] = Fresh(c)] ELSE gens
           /\ run' = [run EXCEPT ![w].pc = IF gens[e].state = "ready" THEN "publish" ELSE "page",
                                 ![w].gen = e, ![w].base = target[c]]
  BY Zenon DEF StartCompaction, Fresh
<1>2. run[w] \in Runs /\ RunOK(gens, run[w]) /\ gens \in Seq(Gens) /\ Sound(gens)
      /\ run \in [Workers -> Runs] /\ Len(gens) \in Nat /\ active \in 1..Len(gens)
  BY SMTT(60), AtHand
<1>3. c \notin Publishers
  BY ZenonT(60), <1>1, PublicationAssumption
<1>4. ASSUME NEW r, r.job = c, r.pc \in {"page", "publish"}, r.gen \in 1..Len(gens'),
             gens'[r.gen].kind = "compact"
      PROVE  RunOK(gens', r)
  <2>1. r.gen \in 0..Len(gens') /\ r.gen # 0
    BY <1>4
  <2> QED
    BY Zenon, <1>1, <1>3, <1>4, <2>1 DEF RunOK
<1>5. CASE CompactOf(c) = {}
  <2> DEFINE n == Len(gens) + 1
             x == Fresh(c)
             r == [run[w] EXCEPT !.pc = "page", !.gen = n, !.base = active]
  <2>1. n \in Nat /\ n = Len(gens) + 1 /\ active < n
    BY <1>2
  <2>2. x \in Gens /\ GenOK(gens, n, x) /\ x.kind = "compact"
    BY Zenon, <1>1, <2>1, FreshOK
  <2>3. gens' = Append(gens, x) /\ run' = [run EXCEPT ![w].pc = "page", ![w].gen = n, ![w].base = active]
    BY <1>1, <1>5
  <2> HIDE DEF x, n
  <2>4. Grown(gens, gens') /\ gens'[n] = x /\ Len(gens') = n
    BY <1>2, <2>1, <2>2, <2>3, AppendGrown
  <2>5. run' = [run EXCEPT ![w] = r]
    BY <1>2, <2>3 DEF Runs
  <2>6. r.job = c /\ r.pc = "page" /\ r.gen = n
    BY <1>2 DEF Runs
  <2>7. n \in 1..Len(gens')
    BY <1>2, <2>1, <2>4
  <2> HIDE DEF r
  <2>8. RunOK(gens', r)
    BY <1>4, <2>2, <2>4, <2>6, <2>7
  <2> QED
    BY <2>4, <2>5, <2>8 DEF Advances
<1>6. CASE CompactOf(c) # {}
  <2> DEFINE pc == IF gens[e].state = "ready" THEN "publish" ELSE "page"
             r == [run[w] EXCEPT !.pc = pc, !.gen = e, !.base = active]
  <2>1. e \in 1..Len(gens) /\ gens[e].kind = "compact" /\ gens[e].from = active
    <3>1. e \in CompactOf(c)
      BY SMTT(60), <1>6
    <3> QED
      BY Zenon, <1>1, <3>1 DEF CompactOf
  <2>2. /\ gens' = gens \/ (gens[e].state = "failed" /\ gens' = [gens EXCEPT ![e] = Fresh(c)])
        /\ run' = [run EXCEPT ![w].pc = pc, ![w].gen = e, ![w].base = active]
    BY Zenon, <1>1, <1>6
  <2>3. pc \in {"page", "publish"} /\ e \in Nat
    BY <2>1
  <2> HIDE DEF pc, e
  <2>4. Grown(gens, gens')
    <3>1. CASE gens' = gens
      BY <1>2, <3>1, SameGrown
    <3>2. CASE gens[e].state = "failed" /\ gens' = [gens EXCEPT ![e] = Fresh(c)]
      <4>1. gens[e] \in Gens /\ IsCompact(gens, e, gens[e])
        BY <2>1, AtHand DEF GenOK, IsRoot, IsOverlay
      <4>2. active < e
        BY <2>1, <2>3, <4>1 DEF IsCompact
      <4>3. /\ Fresh(c) \in Gens /\ GenOK(gens, e, Fresh(c))
            /\ Fresh(c) = [kind |-> "compact", base |-> 0, from |-> active, depth |-> 0, job |-> NoOne,
                           state |-> "staging", months |-> Months, part |-> [m \in Months |-> 0],
                           frozen |-> [m \in Months |-> 0], rows |-> [m \in Months |-> 0]]
        BY <1>1, <2>3, <4>2, FreshOK
      <4>4. Alike(gens[e], Fresh(c))
        BY <2>1, <4>1, <4>3 DEF Alike, IsCompact
      <4> QED
        BY <1>2, <2>1, <3>2, <4>3, <4>4, ReplaceGrown
    <3> QED
      BY <2>2, <3>1, <3>2
  <2>5. run' = [run EXCEPT ![w] = r]
    BY <1>2, <2>2 DEF Runs
  <2>6. r.job = c /\ r.pc = pc /\ r.gen = e
    BY <1>2 DEF Runs
  <2>7. e \in 1..Len(gens') /\ gens'[e].kind = "compact"
    BY <1>2, <2>1, <2>4 DEF Grown, Grows, Alike
  <2> HIDE DEF r
  <2>8. RunOK(gens', r)
    BY <1>4, <2>3, <2>6, <2>7
  <2> QED
    BY <2>4, <2>5, <2>8 DEF Advances
<1> QED
  BY SMTT(60), <1>5, <1>6

\* A page copies the partition that the chain resolves to.
LEMMA CompactPageAdvances ==
  ASSUME PublicationInv, NEW w \in Workers, CompactPage(w)
  PROVE  Grown(gens, gens')
<1> DEFINE g == run[w].gen
           x == gens[g]
           m == Least(Unpaged(g))
           v == resolve(gens, x.from, m)
           y == [x EXCEPT !.part[m] = v]
<1>1. /\ run[w].job \in Compactions /\ run[w].pc = "page" /\ x.state = "staging" /\ Unpaged(g) # {}
      /\ gens' = [gens EXCEPT ![g].part[m] = v]
  BY DEF CompactPage, PageRef
<1>2. gens \in Seq(Gens) /\ Sound(gens) /\ Len(gens) \in Nat
  BY AtHand
<1>3. g \in 1..Len(gens) /\ x \in Gens /\ IsCompact(gens, g, x)
  BY <1>1, OursOK
<1>4. m \in Months
  <2>1. Unpaged(g) \in SUBSET Months
    BY DEF Unpaged
  <2> QED
    BY <1>1, <2>1, LeastMonth
<1>5. x.from \in 1..Len(gens) /\ gens[x.from].state = "published"
  BY <1>2, <1>3 DEF IsCompact
<1>6. v \in Nat
  <2>1. Found(gens, x.from, m)
    BY <1>2, <1>4, <1>5, OwnerFound
  <2>2. v \in 1..x.from
    BY <2>1 DEF Found
  <2> HIDE DEF v
  <2> QED
    BY <2>2
<1>7. gens' = [gens EXCEPT ![g] = y] /\ x.state # "published"
  BY <1>1, <1>2, <1>3
<1> DEFINE pp == [x.part EXCEPT ![m] = v]
<1>8. x.part \in [Months -> Nat]
  BY <1>3 DEF Gens, Generation
<1>9. y = [x EXCEPT !.part = pp] /\ v = resolve(gens, x.from, m)
  BY <1>3 DEF Gens, Generation
<1> HIDE DEF g, x, m, v, y
<1>10. pp \in [Months -> Nat] /\ \A k \in Months : pp[k] = IF k = m THEN v ELSE x.part[k]
  BY <1>4, <1>6, <1>8
<1> HIDE DEF pp
<1>11. y \in Gens
  BY <1>3, <1>9, <1>10 DEF Gens, Generation
<1>12. /\ y.kind = x.kind /\ y.base = x.base /\ y.from = x.from /\ y.depth = x.depth /\ y.state = "staging"
       /\ y.job = x.job /\ y.months = x.months /\ y.part = pp
  BY <1>1, <1>3, <1>9 DEF Gens, Generation
<1>13. IsCompact(gens, g, y)
  <2>1. \A k \in Months : pp[k] \in {0, resolve(gens, x.from, k)}
    BY <1>3, <1>9, <1>10 DEF IsCompact
  <2> QED
    BY <1>3, <1>12, <2>1 DEF IsCompact
<1>14. Alike(x, y) /\ GenOK(gens, g, y)
  BY <1>12, <1>13 DEF Alike, GenOK
<1> QED
  BY <1>2, <1>3, <1>7, <1>11, <1>14, ReplaceGrown DEF x

\* A compacted generation is ready when every month is copied.
LEMMA CompactReadyAdvances ==
  ASSUME PublicationInv, NEW w \in Workers, CompactReady(w)
  PROVE  \E r : Advances(w, r)
<1> DEFINE g == run[w].gen
           r == [run[w] EXCEPT !.pc = "publish"]
<1>1. /\ run[w].job \in Compactions /\ run[w].pc = "page" /\ gens[g].state = "staging" /\ Unpaged(g) = {}
      /\ gens' = [gens EXCEPT ![g].state = "ready"]
      /\ run' = [run EXCEPT ![w] = r]
  BY DEF CompactReady
<1>2. run[w] \in Runs /\ RunOK(gens, run[w]) /\ gens \in Seq(Gens) /\ Sound(gens)
      /\ run \in [Workers -> Runs] /\ Len(gens) \in Nat
  BY AtHand
<1>3. g \in 1..Len(gens) /\ gens[g].state # "published" /\ "ready" \in States
  BY <1>1, OursOK DEF States
<1>4. \A m \in Months : gens[g].part[m] # 0
  BY <1>1 DEF Unpaged
<1>5. Grown(gens, gens')
  BY <1>1, <1>2, <1>3, <1>4, TurnedGrown
<1>6. RunOK(gens', run[w])
  BY <1>2, <1>5, RunStays DEF Grown
<1>7. r.pc = "publish" /\ r.gen = run[w].gen /\ r.job = run[w].job
  BY <1>2 DEF Runs
<1>8. r.job \notin Publishers
  BY <1>1, <1>7, PublicationAssumption
<1> HIDE DEF r
<1>9. RunOK(gens', r)
  BY <1>1, <1>6, <1>7, <1>8 DEF RunOK
<1> QED
  BY <1>1, <1>5, <1>9 DEF Advances

\* A builder that fails may fail its generation.
LEMMA FailCompactionAdvances ==
  ASSUME PublicationInv, NEW w \in Workers, FailCompaction(w)
  PROVE  \E r : Advances(w, r)
<1> DEFINE g == run[w].gen
<1>1. /\ run' = [run EXCEPT ![w] = Idle]
      /\ \/ gens' = gens
         \/ g # 0 /\ gens[g].state \in {"staging", "ready"} /\ gens' = [gens EXCEPT ![g].state = "failed"]
  BY DEF FailCompaction
<1>2. RunOK(gens, run[w]) /\ gens \in Seq(Gens) /\ Sound(gens) /\ Len(gens) \in Nat
  BY AtHand
<1>3. g \in 0..Len(gens) /\ "failed" \in States
  BY <1>2 DEF RunOK, States
<1>4. Grown(gens, gens')
  <2>1. CASE gens' = gens
    BY <1>2, <2>1, SameGrown
  <2>2. CASE g # 0 /\ gens[g].state \in {"staging", "ready"} /\ gens' = [gens EXCEPT ![g].state = "failed"]
    <3>1. g \in 1..Len(gens) /\ gens[g].state # "published"
      BY <1>2, <1>3, <2>2
    <3> QED
      BY <1>2, <1>3, <2>2, <3>1, TurnedGrown
  <2> QED
    BY <1>1, <2>1, <2>2
<1>5. Len(gens') \in Nat
  BY <1>2, <1>4 DEF Grown, Grows
<1> QED
  BY <1>1, <1>4, <1>5, IdleOK DEF Advances

\* Steps that write no generation.
LEMMA OtherAdvances ==
  ASSUME PublicationInv, NEW w \in Workers, UNCHANGED gens,
         \/ CalculateFees(w) \/ PlanNothing(w) \/ Finish(w) \/ Fail(w) \/ DeferCompaction(w) \/ Die(w)
         \/ \E j \in Jobs : run' = [run EXCEPT ![w] = Holding(j)]
         \/ \E j \in Publishers : run' = [run EXCEPT ![w] = [Holding(j) EXCEPT !.pc = "plan"]]
  PROVE  \E r : Advances(w, r)
<1>1. run[w] \in Runs /\ RunOK(gens, run[w]) /\ run \in [Workers -> Runs] /\ Len(gens) \in Nat
      /\ Grown(gens, gens')
  BY AtHand, SameGrown
<1>2. CASE CalculateFees(w) \/ PlanNothing(w)
  <2>1. PICK p \in {"plan", "finish"} : run' = [run EXCEPT ![w].pc = p] /\ run[w].job \in Publishers
    BY <1>2 DEF CalculateFees, PlanNothing, WholeWindow, Publishers
  <2> DEFINE r == [run[w] EXCEPT !.pc = p]
  <2>2. run' = [run EXCEPT ![w] = r]
    BY <2>1
  <2>3. r.pc = p /\ r.gen = run[w].gen /\ r.job = run[w].job
    BY <1>1 DEF Runs
  <2>4. r.job \notin Compactions
    BY <2>1, <2>3, PublicationAssumption
  <2> HIDE DEF r
  <2>5. RunOK(gens', r)
    BY <1>1, <2>1, <2>3, <2>4 DEF RunOK
  <2> QED
    BY <1>1, <2>2, <2>5 DEF Advances
<1>3. CASE Finish(w) \/ Fail(w) \/ DeferCompaction(w) \/ Die(w)
  <2>1. run' = [run EXCEPT ![w] = Idle]
    BY <1>3 DEF Finish, Fail, DeferCompaction, Die
  <2> QED
    BY <1>1, <2>1, IdleOK DEF Advances
<1>4. CASE \E j \in Jobs : run' = [run EXCEPT ![w] = Holding(j)]
  <2>1. PICK j \in Jobs : run' = [run EXCEPT ![w] = Holding(j)]
    BY <1>4
  <2> DEFINE r == Holding(j)
  <2>2. r.pc = "claimed" /\ r.gen = 0
    BY Zenon DEF Holding, Idle
  <2> HIDE DEF r
  <2>3. RunOK(gens', r)
    BY <1>1, <2>2 DEF RunOK
  <2> QED
    BY <1>1, <2>1, <2>3 DEF Advances, r
<1>5. CASE \E j \in Publishers : run' = [run EXCEPT ![w] = [Holding(j) EXCEPT !.pc = "plan"]]
  <2>1. PICK j \in Publishers : run' = [run EXCEPT ![w] = [Holding(j) EXCEPT !.pc = "plan"]]
    BY <1>5
  <2> DEFINE r == [Holding(j) EXCEPT !.pc = "plan"]
  <2>2. r.pc = "plan" /\ r.gen = 0 /\ r.job = j
    BY Zenon DEF Holding, Idle
  <2>3. r.job \notin Compactions
    BY <2>2, PublicationAssumption
  <2> HIDE DEF r
  <2>4. RunOK(gens', r)
    BY <1>1, <2>2, <2>3 DEF RunOK
  <2> QED
    BY <1>1, <2>1, <2>4 DEF Advances, r
<1> QED
  BY <1>2, <1>3, <1>4, <1>5

-----------------------------------------------------------------------------
(* The invariant.                                                          *)

\* Actions that concern neither a generation nor a worker.
Elsewhere ==
  \/ UNCHANGED vars
  \/ \E j \in Reviewed : Preview(j)
  \/ \E j \in Jobs : Enqueue(j) \/ Expire(j) \/ ReleaseRetry(j) \/ Recover(j)
  \/ \E c \in Compactions : EnqueueCompaction(c) \/ ReconcileCompaction(c)
  \/ \E m \in Months : MaterializeFees(m) \/ Confirm(m) \/ Dispute(m) \/ CloseDispute(m)

\* Steps elsewhere touch no generation and no worker.
LEMMA ElsewhereKeeps ==
  ASSUME Elsewhere
  PROVE  UNCHANGED <<gens, active, run, event>>
BY DEF Elsewhere, vars, Preview, Enqueue, Expire, ReleaseRetry, Recover, EnqueueCompaction,
       ReconcileCompaction, MaterializeFees, Confirm, Dispute, CloseDispute

\* A claim puts a job into the hands of a worker.
LEMMA ClaimTakes ==
  ASSUME PublicationInv, NEW w \in Workers, Claim(w) \/ \E j \in Reviewed : ApplyReviewed(w, j)
  PROVE  /\ UNCHANGED <<gens, active, src, bill, target, event>>
         /\ \/ \E j \in Jobs : run' = [run EXCEPT ![w] = Holding(j)]
            \/ \E j \in Publishers : run' = [run EXCEPT ![w] = [Holding(j) EXCEPT !.pc = "plan"]]
<1>1. CASE ClaimLatest(w)
  <2>1. Newest(Queued) \in Queued
    <3>1. Queued # {}
      BY <1>1 DEF ClaimLatest
    <3> QED
      BY <3>1, NewestQueued DEF PublicationInv, SlotInv
  <2>2. Newest(Queued) \in Jobs
    BY <2>1 DEF Queued, SettlementJobs, Publishers, Jobs
  <2> QED
    BY <1>1, <2>2 DEF ClaimLatest
<1>2. CASE \E j \in Finalizers : ClaimFinalize(w, j)
  BY <1>2 DEF ClaimFinalize, Publishers
<1>3. CASE \E c \in Compactions : ClaimCompaction(w, c)
  BY <1>3 DEF ClaimCompaction, Jobs
<1>4. CASE \E j \in Reviewed : ApplyReviewed(w, j)
  BY <1>4 DEF ApplyReviewed, Publishers
<1> QED
  BY <1>1, <1>2, <1>3, <1>4 DEF Claim

\* Every step advances one worker, copies a page, or happens elsewhere.
LEMMA StepKinds ==
  ASSUME PublicationInv, [Next]_vars
  PROVE  \/ \E w \in Workers : \E r : Advances(w, r)
         \/ \E w \in Workers : CompactPage(w)
         \/ Elsewhere
<1>1. ASSUME NEW w \in Workers, Step(w), ~CompactPage(w) PROVE \E r : Advances(w, r)
  <2>1. CASE CalculateFees(w) \/ PlanNothing(w) \/ Finish(w)
    <3>1. UNCHANGED gens
      BY <2>1 DEF CalculateFees, PlanNothing, Finish
    <3> QED
      BY <2>1, <3>1, OtherAdvances
  <2> QED
    BY <1>1, <2>1, StartCompactionAdvances, CompactReadyAdvances, PublishAdvances, PlanAdvances,
       FreezeAdvances, StartBuildAdvances, WritePartitionAdvances, MarkReadyAdvances DEF Step
<1>2. ASSUME NEW w \in Workers, Claim(w) \/ \E j \in Reviewed : ApplyReviewed(w, j)
      PROVE  \E r : Advances(w, r)
  <2>1. /\ UNCHANGED gens
        /\ \/ \E j \in Jobs : run' = [run EXCEPT ![w] = Holding(j)]
           \/ \E j \in Publishers : run' = [run EXCEPT ![w] = [Holding(j) EXCEPT !.pc = "plan"]]
    BY <1>2, ClaimTakes
  <2> QED
    BY <2>1, OtherAdvances
<1>3. ASSUME NEW w \in Workers, Fail(w) \/ DeferCompaction(w) \/ Die(w) PROVE \E r : Advances(w, r)
  <2>1. UNCHANGED gens
    BY <1>3 DEF Fail, DeferCompaction, Die
  <2> QED
    BY <1>3, <2>1, OtherAdvances
<1>4. CASE \E w \in Workers : Step(w) \/ Claim(w) \/ Fail(w) \/ FailCompaction(w) \/ DeferCompaction(w) \/ Die(w)
  BY <1>1, <1>2, <1>3, <1>4, FailCompactionAdvances
<1>5. CASE \E w \in Workers, j \in Reviewed : ApplyReviewed(w, j)
  BY <1>2, <1>5
<1>6. Next \/ UNCHANGED vars
  OBVIOUS
<1> QED
  BY <1>4, <1>5, <1>6 DEF Next, Elsewhere

\* The generations grow, and what the workers remember stays true of them.
LEMMA GenerationsGrow ==
  ASSUME PublicationInv, [Next]_vars
  PROVE  Grown(gens, gens') /\ \A w \in Workers : RunOK(gens', run'[w])
<1>1. gens \in Seq(Gens) /\ Sound(gens) /\ Len(gens) \in Nat /\ run \in [Workers -> Runs]
      /\ \A w \in Workers : RunOK(gens, run[w])
  BY AtHand
<1>2. ASSUME Grown(gens, gens'), NEW w \in Workers PROVE RunOK(gens', run[w])
  <2>1. Grows(gens, gens')
    BY <1>2 DEF Grown
  <2> QED
    BY <1>1, <2>1, RunStays
<1>3. CASE \E w \in Workers : \E r : Advances(w, r)
  <2>1. PICK w \in Workers : \E r : Advances(w, r)
    BY <1>3
  <2>2. PICK r : Advances(w, r)
    BY <2>1
  <2>3. Grown(gens, gens') /\ run' = [run EXCEPT ![w] = r] /\ RunOK(gens', r)
    BY <2>2 DEF Advances
  <2>4. \A v \in Workers : run'[v] = IF v = w THEN r ELSE run[v]
    BY <1>1, <2>3
  <2> QED
    BY <1>2, <2>3, <2>4
<1>4. CASE \E w \in Workers : CompactPage(w)
  <2>1. Grown(gens, gens') /\ run' = run
    BY Zenon, <1>4, CompactPageAdvances DEF CompactPage
  <2> QED
    BY <1>2, <2>1
<1>5. CASE Elsewhere
  <2>1. gens' = gens /\ run' = run
    BY <1>5, ElsewhereKeeps
  <2> QED
    BY <1>1, <2>1, SameGrown
<1> QED
  BY <1>3, <1>4, <1>5, StepKinds

\* The pointer stays, or a worker publishes.
LEMMA HeadMoves ==
  ASSUME PublicationInv, [Next]_vars
  PROVE  \/ active' = active /\ event' = event
         \/ \E w \in Workers : Publish(w) \/ PublishFinalize(w) \/ PublishCompaction(w)
<1>1. ASSUME NEW w \in Workers, Step(w)
      PROVE  \/ active' = active /\ event' = event
             \/ Publish(w) \/ PublishFinalize(w) \/ PublishCompaction(w)
  BY Zenon, <1>1 DEF Step, StartCompaction, CompactPage, CompactReady, CalculateFees, Plan, PlanNothing, Freeze,
              StartBuild, WritePartition, MarkReady, Finish
<1>2. ASSUME NEW w \in Workers, Claim(w) \/ \E j \in Reviewed : ApplyReviewed(w, j)
      PROVE  active' = active /\ event' = event
  BY <1>2, ClaimTakes
<1>3. ASSUME NEW w \in Workers, Fail(w) \/ FailCompaction(w) \/ DeferCompaction(w) \/ Die(w)
      PROVE  active' = active /\ event' = event
  BY <1>3 DEF Fail, FailCompaction, DeferCompaction, Die
<1>4. CASE Elsewhere
  BY <1>4, ElsewhereKeeps
<1>5. Next \/ UNCHANGED vars
  OBVIOUS
<1> QED
  BY <1>1, <1>2, <1>3, <1>4, <1>5 DEF Next, Elsewhere

\* Versions, bills and compaction targets stay what they are.
LEMMA TablesStep ==
  ASSUME PublicationInv, [Next]_vars
  PROVE  /\ src' \in [Months -> Versions] /\ target' \in [Compactions -> Nat]
         /\ bill' \in [Months -> [src : Versions, status : {"pending"} \cup Protected]]
<1> DEFINE Bills == [src : Versions, status : {"pending"} \cup Protected]
           Goal == src' \in [Months -> Versions] /\ target' \in [Compactions -> Nat] /\ bill' \in [Months -> Bills]
<1>1. /\ src \in [Months -> Versions] /\ target \in [Compactions -> Nat] /\ bill \in [Months -> Bills]
      /\ active \in Nat
  BY DEF PublicationInv, TableOK
<1>2. \A v \in Versions : v < MaxVersion => v + 1 \in Versions
  BY PublicationAssumption DEF Versions
<1>3. ASSUME NEW w \in Workers, Publish(w) PROVE Goal
  <2> DEFINE g == run[w].gen
             fr == gens[g].frozen
  <2>1. g \in 1..Len(gens)
    BY <1>3, PublishTurns
  <2>2. gens[g] \in Gens
    BY <2>1, AtHand
  <2>3. fr \in [Months -> Versions]
    BY <2>2 DEF Gens, Generation
  <2>4. /\ src' = src /\ target' = target
        /\ bill' = [m \in Months |-> IF m \in run[w].months /\ bill[m].status \notin Protected
                                     THEN [src |-> fr[m], status |-> "pending"] ELSE bill[m]]
    BY <1>3 DEF Publish, Billed
  <2> HIDE DEF fr, g
  <2>5. \A m \in Months : [src |-> fr[m], status |-> "pending"] \in Bills
    BY <2>3
  <2> HIDE DEF Bills
  <2> QED
    BY <1>1, <2>4, <2>5
<1>4. ASSUME NEW w \in Workers, CalculateFees(w) PROVE Goal
  <2>1. /\ bill' = bill /\ target' = target
        /\ \E changed \in SUBSET {m \in Scope[run[w].job] : src[m] < MaxVersion} :
             src' = [m \in Months |-> IF m \in changed THEN src[m] + 1 ELSE src[m]]
    BY <1>4 DEF CalculateFees
  <2>2. src' \in [Months -> Versions]
    BY <1>1, <1>2, <2>1
  <2> QED
    BY <1>1, <2>1, <2>2
<1>5. ASSUME NEW m \in Months, MaterializeFees(m) \/ Confirm(m) \/ Dispute(m) \/ CloseDispute(m) PROVE Goal
  <2>1. CASE MaterializeFees(m)
    BY <1>1, <1>2, <2>1 DEF MaterializeFees
  <2>2. CASE Confirm(m) \/ Dispute(m) \/ CloseDispute(m)
    <3>1. PICK s \in {"pending"} \cup Protected : bill' = [bill EXCEPT ![m].status = s]
      BY <2>2 DEF Confirm, Dispute, CloseDispute, Protected
    <3>2. bill' \in [Months -> Bills]
      BY <1>1, <3>1
    <3> QED
      BY <1>1, <2>2, <3>2 DEF Confirm, Dispute, CloseDispute
  <2> QED
    BY <1>5, <2>1, <2>2
<1>6. ASSUME NEW c \in Compactions, EnqueueCompaction(c) PROVE Goal
  BY <1>1, <1>6 DEF EnqueueCompaction
<1>7. ASSUME UNCHANGED <<src, bill, target>> PROVE Goal
  BY SMTT(60), <1>1, <1>7
<1>8. ASSUME NEW w \in Workers, Step(w), ~Publish(w), ~CalculateFees(w) PROVE UNCHANGED <<src, bill, target>>
  BY Zenon, <1>8 DEF Step, StartCompaction, CompactPage, CompactReady, Plan, PlanNothing, Freeze,
              StartBuild, WritePartition, MarkReady, Finish, PublishFinalize, PublishCompaction
<1>9. ASSUME NEW w \in Workers, Fail(w) \/ FailCompaction(w) \/ DeferCompaction(w) \/ Die(w)
      PROVE  UNCHANGED <<src, bill, target>>
  BY <1>9 DEF Fail, FailCompaction, DeferCompaction, Die
<1>10. ASSUME NEW w \in Workers, Claim(w) \/ \E j \in Reviewed : ApplyReviewed(w, j)
       PROVE  UNCHANGED <<src, bill, target>>
  BY <1>10, ClaimTakes
<1>11. ASSUME \/ \E j \in Reviewed : Preview(j)
              \/ \E j \in Jobs : Enqueue(j) \/ Expire(j) \/ ReleaseRetry(j) \/ Recover(j)
              \/ \E c \in Compactions : ReconcileCompaction(c)
              \/ UNCHANGED vars
       PROVE  UNCHANGED <<src, bill, target>>
  BY <1>11 DEF vars, Preview, Enqueue, Expire, ReleaseRetry, Recover, ReconcileCompaction
<1>12. Next \/ UNCHANGED vars
  OBVIOUS
<1> HIDE DEF Goal
<1>13. Goal
  BY <1>3, <1>4, <1>5, <1>6, <1>7, <1>8, <1>9, <1>10, <1>11, <1>12 DEF Next
<1> QED
  BY <1>13 DEF Goal

\* The invariant is kept.
LEMMA PublicationStep ==
  ASSUME PublicationInv, [Next]_vars
  PROVE  PublicationInv'
<1>1. SlotInv'
  BY SlotStep DEF PublicationInv
<1>2. Grown(gens, gens') /\ \A w \in Workers : RunOK(gens', run'[w])
  BY GenerationsGrow
<1>3. gens \in Seq(Gens) /\ Sound(gens) /\ Len(gens) \in Nat /\ active \in 1..Len(gens)
      /\ gens[active].state = "published"
  BY AtHand
<1>4. Sound(gens') /\ gens' \in Seq(Gens)
  BY <1>2, <1>3, GrownSound DEF Grown
<1>5. active' \in 1..Len(gens') /\ gens'[active'].state = "published"
  <2>1. CASE active' = active
    BY <1>2, <1>3, <2>1 DEF Grown, Grows
  <2>2. CASE \E w \in Workers : Publish(w) \/ PublishFinalize(w) \/ PublishCompaction(w)
    BY <2>2, PublishTurns
  <2> QED
    BY <2>1, <2>2, HeadMoves
<1>6. TableOK'
  BY <1>4, <1>5, TablesStep DEF TableOK
<1>7. ChainInv'
  BY <1>2, <1>4, <1>5 DEF ChainInv
<1> QED
  BY <1>1, <1>6, <1>7 DEF PublicationInv

\* The bootstrapped root satisfies it.
LEMMA PublicationInit ==
  ASSUME Init
  PROVE  PublicationInv
<1> DEFINE none == [m \in Months |-> 0]
           one == [m \in Months |-> 1]
<1>1. none \in [Months -> Versions] /\ one \in [Months -> Nat] /\ (\A m \in Months : one[m] = 1)
  BY PublicationAssumption DEF Versions
<1>2. Root = [kind |-> "root", base |-> 0, from |-> 0, depth |-> 0, job |-> NoOne, state |-> "published",
              months |-> Months, part |-> one, frozen |-> none, rows |-> none]
  BY DEF Root
<1>3. Root \in Gens /\ IsRoot(1, Root) /\ Root.state = "published"
  <2> HIDE DEF none, one
  <2>1. Root \in Gens
    BY <1>1, <1>2 DEF Gens, Generation
  <2>2. IsRoot(1, Root) /\ Root.state = "published"
    BY <1>1, <1>2 DEF IsRoot
  <2> QED
    BY <2>1, <2>2
<1>4. gens = <<Root>> /\ active = 1
  BY DEF Init
<1>5. gens \in Seq(Gens) /\ Len(gens) = 1 /\ gens[1] = Root
  BY <1>3, <1>4
<1>6. Sound(gens)
  BY <1>3, <1>5 DEF Sound, GenOK
<1>7. Idle \in Runs /\ Idle.job = NoOne
  BY DEF Idle, Runs
<1>8. /\ run = [w \in Workers |-> Idle] /\ row = [j \in Jobs |-> Row("absent", 0)] /\ order = <<>>
      /\ event = {} /\ target = [c \in Compactions |-> 0] /\ src = none
      /\ bill \in [Months -> [src : Versions, status : {"pending"} \cup Protected]]
  <2>1. 0 \in Versions
    BY PublicationAssumption DEF Versions
  <2> QED
    BY <2>1 DEF Init, Protected
<1>9. RowOK(Row("absent", 0)) /\ Row("absent", 0) \in Rows /\ Row("absent", 0).status = "absent"
  <2>1. "absent" \in Ended /\ 0 \in 0..MaxAttempts
    BY PublicationAssumption DEF Ended
  <2> QED
    BY <2>1, RowsMade DEF RowOK
<1>10. RowsOK /\ Exclusive /\ Recorded
  BY <1>8, <1>9 DEF RowsOK, Exclusive, Recorded
<1>11. Ordered
  BY <1>8, <1>9 DEF Ordered, SettlementJobs, Jobs, Publishers
<1>12. run \in [Workers -> Runs] /\ \A w \in Workers : run[w] = Idle /\ ~Held(w)
  BY <1>7, <1>8 DEF Held
<1>13. LiveClaimOwnsHead /\ Once
  BY <1>12 DEF LiveClaimOwnsHead, Once
<1>14. SlotInv
  BY <1>10, <1>11, <1>12, <1>13 DEF SlotInv
<1>15. TableOK
  BY <1>1, <1>4, <1>5, <1>8 DEF TableOK
<1>16. ChainInv
  BY <1>3, <1>4, <1>5, <1>6, <1>12, IdleOK DEF ChainInv
<1> QED
  BY <1>14, <1>15, <1>16 DEF PublicationInv

\* The settlement publication keeps its invariant (refresh_active_settlement_lineage,
\* publish_settlement_compaction, claim_latest_settlement_rebuild_job).
THEOREM PublicationInvariant == Spec => []PublicationInv
<1>1. Init => PublicationInv
  BY PublicationInit
<1>2. PublicationInv /\ [Next]_vars => PublicationInv'
  BY PublicationStep
<1> QED
  BY <1>1, <1>2, PTL DEF Spec

\* The rows, generations and bills keep their types, and a claim and its lease belong
\* to a running row (JobRun, SettlementProjectionGeneration).
THEOREM PublicationTyped == Spec => []TypeOK
<1>1. ASSUME PublicationInv PROVE TypeOK
  <2>1. SlotInv /\ TableOK
    BY <1>1 DEF PublicationInv
  <2>2. row \in [Jobs -> Rows] /\ \A j \in Jobs : RowOK(row[j])
    BY <2>1 DEF SlotInv, RowsOK
  <2>3. row \in [Jobs -> [status : {"absent", "queued", "running", "retry_wait", "success",
                                    "superseded", "failed"},
                          attempts : 0..MaxAttempts, claim : Workers \cup {NoOne},
                          lease : {"none", "live", "expired"}]]
    <3>1. Ended \cup {"running"} = {"absent", "queued", "running", "retry_wait", "success",
                                    "superseded", "failed"}
      BY DEF Ended
    <3> QED
      BY <2>2, <3>1 DEF Rows
  <2>4. /\ \A j \in Jobs : (row[j].status = "running") = (row[j].claim # NoOne)
        /\ \A j \in Jobs : (row[j].status = "running") = (row[j].lease # "none")
    BY <2>2 DEF RowOK
  <2>5. order \in Seq(SettlementJobs) /\ event \subseteq Jobs
    BY <2>1 DEF SlotInv, Ordered, Recorded
  <2> QED
    BY <2>1, <2>3, <2>4, <2>5 DEF TypeOK, TableOK, Gens
<1> QED
  BY <1>1, PublicationInvariant, PTL

\* A live claim still finds the base it chose at the head: the compare-and-set of a
\* publication refuses only a worker that has lost its lease.
THEOREM HeadIsOwned == Spec => []LiveClaimOwnsHead
<1>1. PublicationInv => LiveClaimOwnsHead
  BY DEF PublicationInv, SlotInv
<1> QED
  BY <1>1, PublicationInvariant, PTL

\* A job whose publication is recorded is running or has succeeded, however its worker
\* ended (_fail_claimed_settlement_rebuild, _recover_stale_settlement_rebuilds).
THEOREM NoPublicationIsLost == Spec => []PublicationNotLost
<1>1. PublicationInv => PublicationNotLost
  BY DEF PublicationInv, SlotInv, Recorded, PublicationNotLost
<1> QED
  BY <1>1, PublicationInvariant, PTL

\* Every reader of the active pointer finds a sound chain (lineage_ids,
\* resolve_projection_partitions).
THEOREM LineageIsSound == Spec => []LineageSound
<1>1. ASSUME PublicationInv PROVE LineageSound
  <2>1. gens \in Seq(Gens) /\ Sound(gens) /\ Len(gens) \in Nat /\ active \in 1..Len(gens)
        /\ gens[active].state = "published" /\ gens[active] \in Gens
    BY <1>1, AtHand
  <2>2. Linked(gens, active) /\ \A m \in Months : Found(gens, active, m)
    BY <2>1, ChainLinked, OwnerFound
  <2>3. /\ \A i \in 1..Len(Lineage) : gens[Lineage[i]].state = "published"
        /\ Len(Lineage) = gens[active].depth + 1
    BY <2>2 DEF Linked, Lineage
  <2>4. gens[active].depth = Len(Lineage) - 1
    <3>1. gens[active].depth \in Nat
      BY <2>1 DEF Gens, Generation
    <3> QED
      BY <2>3, <3>1
  <2>5. ASSUME NEW m \in Months
        PROVE  /\ Owner(m) # 0 /\ gens[Owner(m)].state = "published"
               /\ m \in gens[Owner(m)].months /\ gens[Owner(m)].kind # "compact"
    <3>1. Found(gens, active, m)
      BY <2>2
    <3>2. Owner(m) \in 1..active /\ gens[Owner(m)].state = "published"
          /\ m \in gens[Owner(m)].months /\ gens[Owner(m)].kind # "compact"
      BY <3>1 DEF Found, Owner
    <3> QED
      BY <3>2
  <2> QED
    BY <2>3, <2>4, <2>5 DEF LineageSound
<1> QED
  BY <1>1, PublicationInvariant, PTL

-----------------------------------------------------------------------------
(* What readers see.                                                       *)

Seen(gs, a) == [m \in Months |-> gs[resolve(gs, a, m)].rows[m]]

\* What a published generation shows does not change.
LEMMA SeenStays ==
  ASSUME PublicationInv, Grown(gens, gens'), NEW g \in 1..Len(gens), gens[g].state = "published",
         NEW m \in Months
  PROVE  /\ resolve(gens', g, m) = resolve(gens, g, m)
         /\ gens'[resolve(gens, g, m)] = gens[resolve(gens, g, m)]
         /\ resolve(gens, g, m) # 0
<1> DEFINE o == resolve(gens, g, m)
<1>1. Sound(gens) /\ Len(gens) \in Nat /\ Grows(gens, gens')
  BY AtHand DEF Grown
<1>2. resolve(gens', g, m) = o
  BY <1>1, OwnerStays
<1>3. Found(gens, g, m)
  BY <1>1, OwnerFound
<1>4. o \in 1..g /\ gens[o].state = "published"
  BY <1>3 DEF Found
<1> HIDE DEF o
<1>5. o \in 1..Len(gens) /\ o # 0
  BY <1>1, <1>4
<1>6. gens'[o] = gens[o]
  BY <1>1, <1>4, <1>5 DEF Grows
<1> QED
  BY <1>2, <1>5, <1>6 DEF o

\* What readers see has a version in every month.
LEMMA SeenTyped ==
  ASSUME PublicationInv
  PROVE  Seen(gens, active) \in [Months -> Versions]
<1> SUFFICES ASSUME NEW m \in Months PROVE gens[resolve(gens, active, m)].rows[m] \in Versions
  BY DEF Seen
<1>1. Sound(gens) /\ Len(gens) \in Nat /\ active \in 1..Len(gens) /\ gens[active].state = "published"
  BY AtHand
<1> DEFINE o == resolve(gens, active, m)
<1>2. o \in 1..active
  BY <1>1, OwnerFound DEF Found
<1> HIDE DEF o
<1>3. gens[o] \in Gens
  <2>1. o \in 1..Len(gens)
    BY <1>1, <1>2
  <2> QED
    BY <2>1, AtHand
<1>4. gens[o].rows \in [Months -> Versions]
  BY SMTT(60), <1>3 DEF Gens, Generation
<1> QED
  BY <1>4 DEF o

\* What the generation of a publication resolves to, once it is the head.
LEMMA PublishResolves ==
  ASSUME PublicationInv, [Next]_vars, NEW w \in Workers, Publish(w) \/ PublishFinalize(w) \/ PublishCompaction(w),
         NEW g, g = run[w].gen
  PROVE  /\ g \in 1..Len(gens) /\ active' = g /\ gens[g].state = "ready" /\ GenOK(gens, g, gens[g])
         /\ \A m \in Months :
              resolve(gens', active', m) =
                IF gens[g].part[m] # 0 THEN gens[g].part[m]
                ELSE IF gens[g].base = 0 THEN 0 ELSE resolve(gens', gens[g].base, m)
<1>1. Sound(gens) /\ Len(gens) \in Nat /\ gens \in Seq(Gens) /\ Grown(gens, gens')
  BY AtHand, GenerationsGrow
<1>2. /\ g \in 1..Len(gens) /\ active' = g /\ Len(gens') = Len(gens) /\ gens[g].state = "ready"
      /\ gens'[g].part = gens[g].part /\ gens'[g].base = gens[g].base
  BY PublishTurns DEF Alike
<1>3. g \in Nat \ {0} /\ Founded(gens', g)
  <2>1. Sound(gens')
    BY <1>1, GrownSound
  <2>2. Len(gens') \in Nat /\ g \in 0..Len(gens')
    BY <1>1, <1>2
  <2> QED
    BY <1>2, <2>1, <2>2, SoundFounded
<1>4. \A m \in Months : resolve(gens', g, m) =
        IF gens'[g].part[m] # 0 THEN gens'[g].part[m]
        ELSE IF gens'[g].base = 0 THEN 0 ELSE resolve(gens', gens'[g].base, m)
  BY <1>3, ResolveStep
<1>5. GenOK(gens, g, gens[g])
  BY <1>2, AtHand
<1> QED
  BY <1>2, <1>4, <1>5

\* A step that does not move the pointer, and one that moves it to a compacted chain,
\* change nothing for the readers; any other publication replaces months of its job
\* only, and its job had not published before.
LEMMA SeenStep ==
  ASSUME PublicationInv, [Next]_vars
  PROVE  \/ Seen(gens', active') = Seen(gens, active) /\ event' \cap Publishers = event \cap Publishers
         \/ \E j \in Publishers :
              /\ j \notin event /\ event' = event \cup {j}
              /\ \A m \in Months \ Scope[j] : Seen(gens', active')[m] = Seen(gens, active)[m]
<1>0. Grown(gens, gens')
  BY GenerationsGrow
<1>1. active \in 1..Len(gens) /\ gens[active].state = "published" /\ Len(gens) \in Nat /\ gens \in Seq(Gens)
      /\ Sound(gens)
  BY AtHand
<1>2. ASSUME NEW m \in Months, resolve(gens', active', m) = resolve(gens', active, m)
             \/ resolve(gens', active', m) = resolve(gens, active, m)
      PROVE  Seen(gens', active')[m] = Seen(gens, active)[m]
  <2>1. /\ resolve(gens', active, m) = resolve(gens, active, m)
        /\ gens'[resolve(gens, active, m)] = gens[resolve(gens, active, m)]
    BY <1>0, <1>1, SeenStays
  <2>2. resolve(gens', active', m) = resolve(gens, active, m)
    BY <1>2, <2>1
  <2> QED
    BY <2>1, <2>2 DEF Seen
<1>3. ASSUME \A m \in Months : Seen(gens', active')[m] = Seen(gens, active)[m]
      PROVE  Seen(gens', active') = Seen(gens, active)
  BY <1>3 DEF Seen
<1>4. CASE active' = active /\ event' = event
  BY <1>2, <1>3, <1>4
<1>5. ASSUME NEW w \in Workers, Publish(w) \/ PublishFinalize(w) \/ PublishCompaction(w),
             NEW g, g = run[w].gen, NEW j, j = run[w].job
      PROVE  /\ Held(w) /\ run[w].pc = "publish" /\ event' = event \cup {j}
             /\ g \in 1..Len(gens) /\ active' = g /\ gens[g].state = "ready" /\ GenOK(gens, g, gens[g])
             /\ \A m \in Months :
                  resolve(gens', active', m) =
                    IF gens[g].part[m] # 0 THEN gens[g].part[m]
                    ELSE IF gens[g].base = 0 THEN 0 ELSE resolve(gens', gens[g].base, m)
  <2>1. Held(w) /\ run[w].pc = "publish" /\ event' = event \cup {j}
    BY <1>5 DEF Publish, PublishFinalize, PublishCompaction
  <2> QED
    BY <1>5, <2>1, PublishResolves
<1>6. CASE \E w \in Workers : PublishCompaction(w)
  <2>1. PICK w \in Workers : PublishCompaction(w)
    BY <1>6
  <2> DEFINE g == run[w].gen
             c == run[w].job
  <2>2. c \in Compactions /\ active = gens[g].from /\ run[w].pc = "publish"
    BY <2>1 DEF PublishCompaction
  <2>3. IsCompact(gens, g, gens[g])
    BY <2>2, OursOK
  <2>4. event' \cap Publishers = event \cap Publishers
    <3>1. c \notin Publishers
      BY <2>2, PublicationAssumption
    <3> QED
      BY <1>5, <2>1, <3>1
  <2>5. ASSUME NEW m \in Months PROVE resolve(gens', active', m) = resolve(gens, active, m)
    <3>1. gens[g].part[m] # 0 /\ gens[g].part[m] = resolve(gens, active, m)
      <4>1. gens[g].state = "ready"
        BY <1>5, <2>1
      <4> QED
        BY <2>2, <2>3, <4>1 DEF IsCompact
    <3>2. resolve(gens', active', m) =
            IF gens[g].part[m] # 0 THEN gens[g].part[m]
            ELSE IF gens[g].base = 0 THEN 0 ELSE resolve(gens', gens[g].base, m)
      BY <1>5, <2>1
    <3> QED
      BY <3>1, <3>2
  <2> QED
    BY <1>2, <1>3, <2>4, <2>5
<1>7. CASE \E w \in Workers : Publish(w) \/ PublishFinalize(w)
  <2>1. PICK w \in Workers : Publish(w) \/ PublishFinalize(w)
    BY <1>7
  <2> DEFINE g == run[w].gen
             j == run[w].job
  <2>2. j \in Publishers /\ active = run[w].base /\ run[w].pc = "publish" /\ Held(w)
    BY <2>1 DEF Publish, PublishFinalize, SettlementJobs, Publishers
  <2>3. IsOverlay(gens, g, gens[g]) /\ gens[g].base = active /\ gens[g].job = j
    BY <2>2, MineOK
  <2>4. j \notin event
    BY <2>2 DEF PublicationInv, SlotInv, Once
  <2>5. event' = event \cup {j}
    BY <1>5, <2>1
  <2>6. ASSUME NEW m \in Months \ Scope[j] PROVE resolve(gens', active', m) = resolve(gens', active, m)
    <3>1. gens[g].part[m] = 0 /\ gens[g].base # 0
      <4>1. m \notin gens[g].months
        BY <2>3 DEF IsOverlay
      <4>2. gens[g].base # 0
        BY <1>1, <2>3
      <4> QED
        BY <2>3, <4>1, <4>2 DEF IsOverlay
    <3>2. resolve(gens', active', m) =
            IF gens[g].part[m] # 0 THEN gens[g].part[m]
            ELSE IF gens[g].base = 0 THEN 0 ELSE resolve(gens', gens[g].base, m)
      BY <1>5, <2>1
    <3> QED
      BY <2>3, <3>1, <3>2
  <2>7. \A m \in Months \ Scope[j] : Seen(gens', active')[m] = Seen(gens, active)[m]
    BY <1>2, <2>6
  <2> HIDE DEF j
  <2> QED
    BY <2>2, <2>4, <2>5, <2>7
<1> QED
  BY <1>4, <1>6, <1>7, HeadMoves

Shown == View \in [Months -> Versions]

\* Readers see what SettlementView allows: each publishing job replaces its own months,
\* once, at one moment; retries, crashes, lost leases and compactions change nothing
\* (refresh_active_settlement_lineage, publish_settlement_compaction).
THEOREM ReadersAreServed == Spec => ServedView
<1>1. Init => Served!Init
  <2> SUFFICES ASSUME Init PROVE Served!Init
    OBVIOUS
  <2>1. PublicationInv
    BY PublicationInit
  <2>2. gens = <<Root>> /\ active = 1 /\ event = {}
    BY DEF Init
  <2>3. gens[1] = Root /\ Len(gens) = 1
    BY <2>2
  <2>4. Root.part = [m \in Months |-> 1] /\ Root.rows = [m \in Months |-> 0] /\ Root.base = 0
    BY DEF Root
  <2>5. Founded(gens, 1)
    BY <2>3, <2>4 DEF Founded
  <2>6. \A m \in Months : resolve(gens, 1, m) = 1
    BY <2>3, <2>4, <2>5, ResolveStep
  <2>7. View = [m \in Months |-> 0]
    BY <2>2, <2>3, <2>4, <2>6 DEF View, Owner
  <2> QED
    BY <2>2, <2>7 DEF Served!Init
<1>2. PublicationInv => Shown
  BY SeenTyped DEF Shown, View, Owner, Seen
<1>3. PublicationInv /\ Shown' /\ [Next]_vars => [Served!Next]_<<View, event \cap Publishers>>
  <2> SUFFICES ASSUME PublicationInv, Shown', [Next]_vars
               PROVE  [Served!Next]_<<View, event \cap Publishers>>
    OBVIOUS
  <2>1. View = Seen(gens, active) /\ View' = Seen(gens', active')
    BY DEF View, Owner, Seen
  <2>2. View' \in [Months -> Versions]
    BY DEF Shown
  <2>3. ASSUME NEW j \in Publishers, j \notin event, event' = event \cup {j},
               \A m \in Months \ Scope[j] : View'[m] = View[m]
        PROVE  Served!Next
    <3>1. Served!Publish(j)
      BY <2>2, <2>3 DEF Served!Publish
    <3> QED
      BY <3>1 DEF Served!Next
  <2> QED
    BY <2>1, <2>3, SeenStep
<1> QED
  BY <1>1, <1>2, <1>3, PublicationInvariant, PTL DEF Spec, ServedView, Served!Spec

-----------------------------------------------------------------------------
(* What reviewers were shown, and what stores are billed.                  *)

\* How a row moves when no worker claims it: it never disappears, a reviewed
\* publication is not queued, and no claim gets a new holder.
Settles(k) ==
  /\ row[k].status # "absent" => row'[k].status # "absent"
  /\ k \in Reviewed /\ row[k].status = "absent" => row'[k].status = "absent"
  /\ row'[k] = row[k] \/ row'[k].claim = NoOne \/ row'[k].lease = "expired"

\* Closing or requeueing one row.
LEMMA OneSettles ==
  ASSUME SlotInv, NEW j \in Jobs, NEW s, s # "absent", NEW a, row[j].status # "absent" \/ j \notin Reviewed,
         row' = [row EXCEPT ![j] = Row(s, a)], NEW k \in Jobs
  PROVE  Settles(k)
<1>1. Row(s, a).status = s /\ Row(s, a).claim = NoOne
  BY DEF Row
<1>2. row'[j] = Row(s, a) /\ (k # j => row'[k] = row[k])
  BY DEF SlotInv, RowsOK
<1> QED
  BY <1>1, <1>2 DEF Settles

\* A step that is not a claim.
LEMMA RowsSettle ==
  ASSUME SlotInv, NEW k \in Jobs,
         \/ UNCHANGED vars
         \/ \E w \in Workers : Step(w) \/ Fail(w) \/ FailCompaction(w) \/ DeferCompaction(w) \/ Die(w)
         \/ Elsewhere
  PROVE  Settles(k)
<1>0. ASSUME row' = row PROVE Settles(k)
  BY <1>0 DEF Settles
<1>1. ASSUME NEW w \in Workers, Held(w), NEW s, s # "absent", NEW a, row' = [row EXCEPT ![run[w].job] = Row(s, a)]
      PROVE  Settles(k)
  <2>1. run[w].job \in Jobs /\ row[run[w].job].status = "running"
    BY <1>1, HeldRow DEF SlotInv
  <2> QED
    BY <1>1, <2>1, OneSettles
<1>2. ASSUME NEW w \in Workers, Step(w) PROVE Settles(k)
  <2>1. CASE Finish(w)
    BY <1>1, <2>1 DEF Finish
  <2>2. CASE PublishFinalize(w)
    BY <1>1, <2>2 DEF PublishFinalize
  <2>3. CASE PublishCompaction(w)
    BY <1>1, <2>3 DEF PublishCompaction
  <2>4. CASE ~Finish(w) /\ ~PublishFinalize(w) /\ ~PublishCompaction(w)
    <3>1. row' = row
      BY Zenon, <1>2, <2>4 DEF Step, StartCompaction, CompactPage, CompactReady, CalculateFees, Plan, PlanNothing,
                         Freeze, StartBuild, WritePartition, MarkReady, Publish
    <3> QED
      BY <1>0, <3>1
  <2> QED
    BY <2>1, <2>2, <2>3, <2>4
<1>3. ASSUME NEW w \in Workers, Fail(w) PROVE Settles(k)
  <2> DEFINE s == FailedStatus(run[w].job, NewJobRequired(w))
  <2>1. s # "absent"
    BY DEF FailedStatus
  <2> HIDE DEF s
  <2>2. row' = row \/ (Held(w) /\ row' = [row EXCEPT ![run[w].job] = Row(s, row[run[w].job].attempts)])
    BY <1>3 DEF Fail, s
  <2> QED
    BY <1>0, <1>1, <2>1, <2>2
<1>4. ASSUME NEW w \in Workers, FailCompaction(w) PROVE Settles(k)
  <2> DEFINE s == IF row[run[w].job].attempts < MaxAttempts THEN "queued" ELSE "failed"
  <2>1. s # "absent"
    BY SMTT(60)
  <2> HIDE DEF s
  <2>2. row' = row \/ (Held(w) /\ row' = [row EXCEPT ![run[w].job] = Row(s, row[run[w].job].attempts)])
    BY <1>4 DEF FailCompaction, s
  <2> QED
    BY <1>0, <1>1, <2>1, <2>2
<1>5. ASSUME NEW w \in Workers, DeferCompaction(w) PROVE Settles(k)
  <2> DEFINE s == IF target[run[w].job] = active THEN "queued" ELSE "failed"
  <2>1. s # "absent"
    OBVIOUS
  <2> HIDE DEF s
  <2>2. Held(w) /\ row' = [row EXCEPT ![run[w].job] = Row(s, row[run[w].job].attempts - 1)]
    BY <1>5 DEF DeferCompaction, s
  <2> QED
    BY <1>1, <2>1, <2>2
<1>6. ASSUME NEW w \in Workers, Die(w) PROVE Settles(k)
  BY <1>0, <1>6 DEF Die
<1>7. ASSUME NEW j \in Jobs, Enqueue(j) PROVE Settles(k)
  <2>1. j \notin Reviewed
    BY <1>7, PublicationAssumption DEF Enqueue, SettlementJobs
  <2> QED
    BY <1>7, <2>1, OneSettles DEF Enqueue
<1>8. ASSUME NEW j \in Jobs, Expire(j) PROVE Settles(k)
  <2>1. row \in [Jobs -> Rows] /\ row' = [row EXCEPT ![j].lease = "expired"]
    BY <1>8 DEF Expire, SlotInv, RowsOK
  <2>2. row[j] \in Rows /\ (k # j => row'[k] = row[k]) /\ row'[j] = [row[j] EXCEPT !.lease = "expired"]
    BY <2>1
  <2>3. row'[j].lease = "expired" /\ row'[j].status = row[j].status
    BY <2>2 DEF Rows
  <2> QED
    BY <2>2, <2>3 DEF Settles
<1>9. ASSUME NEW j \in Jobs, ReleaseRetry(j) PROVE Settles(k)
  BY <1>9, OneSettles DEF ReleaseRetry
<1>10. ASSUME NEW j \in Jobs, Recover(j) PROVE Settles(k)
  <2>1. RecoveredStatus(j) # "absent"
    BY DEF RecoveredStatus
  <2> QED
    BY <1>10, <2>1, OneSettles DEF Recover
<1>11. ASSUME NEW c \in Compactions, EnqueueCompaction(c) \/ ReconcileCompaction(c) PROVE Settles(k)
  <2>1. c \in Jobs /\ c \notin Reviewed
    BY PublicationAssumption DEF Jobs, Publishers
  <2>2. PICK s \in {"queued", "success", "failed"} : \E a : row' = [row EXCEPT ![c] = Row(s, a)]
    BY <1>11 DEF EnqueueCompaction, ReconcileCompaction
  <2> QED
    BY <2>1, <2>2, OneSettles
<1>12. ASSUME NEW j \in Reviewed, Preview(j) PROVE Settles(k)
  BY <1>0, <1>12 DEF Preview
<1>13. ASSUME NEW m \in Months, MaterializeFees(m) \/ Confirm(m) \/ Dispute(m) \/ CloseDispute(m)
       PROVE  Settles(k)
  BY <1>0, <1>13 DEF MaterializeFees, Confirm, Dispute, CloseDispute
<1>14. CASE UNCHANGED vars
  BY <1>0, <1>14 DEF vars
<1>15. CASE Elsewhere
  BY <1>7, <1>8, <1>9, <1>10, <1>11, <1>12, <1>13, <1>14, <1>15 DEF Elsewhere
<1> QED
  BY <1>2, <1>3, <1>4, <1>5, <1>6, <1>14, <1>15

\* A claim: the worker holds the job of its row, and has not started; the other rows
\* settle.
Claims(w, j) ==
  /\ run'[w].pc \in {"claimed", "plan"} /\ run'[w].job = j /\ row'[j].claim = w /\ row'[j].status = "running"
  /\ \A v \in Workers \ {w} : run'[v] = run[v]
  /\ row[j].status # "absent" \/ ApplyReviewed(w, j)
  /\ \A k \in Jobs \ {j} : Settles(k)

\* Every claim is one.
LEMMA ClaimClaims ==
  ASSUME PublicationInv, NEW w \in Workers, Claim(w) \/ \E j \in Reviewed : ApplyReviewed(w, j)
  PROVE  \E j \in Jobs : Claims(w, j)
<1>0. run \in [Workers -> Runs] /\ row \in [Jobs -> Rows] /\ SlotInv
  BY DEF PublicationInv, SlotInv, RowsOK
<1>1. \A j : /\ Holding(j).pc = "claimed" /\ Holding(j).job = j
             /\ [Holding(j) EXCEPT !.pc = "plan"].pc = "plan" /\ [Holding(j) EXCEPT !.pc = "plan"].job = j
  BY DEF Holding, Idle
<1>2. \A j : Claimed(j, w).claim = w /\ Claimed(j, w).status = "running"
  BY DEF Claimed
<1>3. CASE ClaimLatest(w)
  <2> DEFINE j == Newest(Queued)
  <2>1. /\ Queued # {}
        /\ row' = [k \in Jobs |->
                     IF k = j THEN Claimed(j, w)
                     ELSE IF k \in Obsolete(j) THEN Row("superseded", row[k].attempts)
                     ELSE row[k]]
        /\ run' = [run EXCEPT ![w] = Holding(j)]
    BY <1>3 DEF ClaimLatest
  <2>2. j \in Queued
    BY <1>0, <2>1, NewestQueued DEF SlotInv
  <2> HIDE DEF j
  <2>3. j \in Jobs /\ row[j].status = "queued"
    BY <2>2 DEF Queued, SettlementJobs, Publishers, Jobs
  <2>4. ASSUME NEW k \in Jobs \ {j} PROVE Settles(k)
    <3>1. CASE k \in Obsolete(j)
      <4>1. row'[k] = Row("superseded", row[k].attempts) /\ row[k].status # "absent"
        BY <2>1, <3>1 DEF Obsolete, Pending
      <4>2. row'[k].status = "superseded" /\ row'[k].claim = NoOne
        BY <4>1 DEF Row
      <4> QED
        BY <4>1, <4>2 DEF Settles
    <3>2. CASE k \notin Obsolete(j)
      BY <2>1, <3>2 DEF Settles
    <3> QED
      BY <3>1, <3>2
  <2>5. run'[w] = Holding(j) /\ row'[j] = Claimed(j, w) /\ \A v \in Workers \ {w} : run'[v] = run[v]
    BY <1>0, <2>1, <2>3
  <2> QED
    BY <1>1, <1>2, <2>3, <2>4, <2>5 DEF Claims
<1>4. ASSUME NEW j \in Jobs, NEW x, NEW r, row' = [row EXCEPT ![j] = x], run' = [run EXCEPT ![w] = r],
             r.pc \in {"claimed", "plan"}, r.job = j, x.claim = w, x.status = "running",
             row[j].status # "absent" \/ ApplyReviewed(w, j)
      PROVE  Claims(w, j)
  <2>1. /\ run'[w] = r /\ row'[j] = x /\ (\A v \in Workers \ {w} : run'[v] = run[v])
        /\ \A k \in Jobs \ {j} : row'[k] = row[k]
    BY <1>0, <1>4
  <2> QED
    BY <1>4, <2>1 DEF Claims, Settles
<1>5. CASE \E j \in Finalizers : ClaimFinalize(w, j)
  <2>1. PICK j \in Finalizers : ClaimFinalize(w, j)
    BY <1>5
  <2>2. /\ j \in Jobs /\ row[j].status # "absent" /\ row' = [row EXCEPT ![j] = Claimed(j, w)]
        /\ run' = [run EXCEPT ![w] = [Holding(j) EXCEPT !.pc = "plan"]]
    BY <2>1 DEF ClaimFinalize, Publishers, Jobs
  <2> DEFINE x == Claimed(j, w)
             r == [Holding(j) EXCEPT !.pc = "plan"]
  <2>3. x.claim = w /\ x.status = "running" /\ r.pc = "plan" /\ r.job = j
    BY <1>1, <1>2
  <2> HIDE DEF x, r
  <2>4. Claims(w, j)
    BY <1>4, <2>2, <2>3 DEF x, r
  <2> QED
    BY <2>2, <2>4
<1>6. CASE \E c \in Compactions : ClaimCompaction(w, c)
  <2>1. PICK c \in Compactions : ClaimCompaction(w, c)
    BY <1>6
  <2>2. /\ c \in Jobs /\ row[c].status # "absent" /\ row' = [row EXCEPT ![c] = Claimed(c, w)]
        /\ run' = [run EXCEPT ![w] = Holding(c)]
    BY <2>1 DEF ClaimCompaction, Jobs
  <2> DEFINE x == Claimed(c, w)
             r == Holding(c)
  <2>3. x.claim = w /\ x.status = "running" /\ r.pc = "claimed" /\ r.job = c
    BY <1>1, <1>2
  <2> HIDE DEF x, r
  <2>4. Claims(w, c)
    BY <1>4, <2>2, <2>3 DEF x, r
  <2> QED
    BY <2>2, <2>4
<1>7. CASE \E j \in Reviewed : ApplyReviewed(w, j)
  <2>1. PICK j \in Reviewed : ApplyReviewed(w, j)
    BY <1>7
  <2> DEFINE x == [status |-> "running", attempts |-> MaxAttempts, claim |-> w, lease |-> "live"]
  <2>2. /\ j \in Jobs /\ row' = [row EXCEPT ![j] = x] /\ run' = [run EXCEPT ![w] = [Holding(j) EXCEPT !.pc = "plan"]]
    BY <2>1 DEF ApplyReviewed, Publishers, Jobs
  <2> DEFINE r == [Holding(j) EXCEPT !.pc = "plan"]
  <2>3. x.claim = w /\ x.status = "running" /\ r.pc = "plan" /\ r.job = j
    BY <1>1
  <2> HIDE DEF x, r
  <2>4. Claims(w, j)
    BY <1>4, <2>1, <2>2, <2>3 DEF r
  <2> QED
    BY <2>2, <2>4
<1> QED
  BY <1>3, <1>5, <1>6, <1>7 DEF Claim

\* Every step claims, or settles the rows.
LEMMA RowsMove ==
  ASSUME PublicationInv, [Next]_vars
  PROVE  \/ \A k \in Jobs : Settles(k)
         \/ \E w \in Workers, j \in Jobs : Claims(w, j) /\ (Claim(w) \/ (ApplyReviewed(w, j) /\ j \in Reviewed))
<1>1. SlotInv
  BY DEF PublicationInv
<1>2. ASSUME NEW w \in Workers, Claim(w)
      PROVE  \E v \in Workers, j \in Jobs : Claims(v, j) /\ (Claim(v) \/ (ApplyReviewed(v, j) /\ j \in Reviewed))
  BY <1>2, ClaimClaims
<1>3. ASSUME NEW w \in Workers, NEW j \in Reviewed, ApplyReviewed(w, j)
      PROVE  \E v \in Workers, k \in Jobs : Claims(v, k) /\ (Claim(v) \/ (ApplyReviewed(v, k) /\ k \in Reviewed))
  <2>1. PICK k \in Jobs : Claims(w, k)
    BY <1>3, ClaimClaims
  <2>2. run'[w].job = j
    <3>1. [Holding(j) EXCEPT !.pc = "plan"].job = j
      BY DEF Holding, Idle
    <3> QED
      BY <1>1, <1>3, <3>1 DEF ApplyReviewed, SlotInv
  <2>3. k = j
    BY <2>1, <2>2 DEF Claims
  <2> QED
    BY <1>3, <2>1, <2>3
<1>4. Next \/ UNCHANGED vars
  OBVIOUS
<1> QED
  BY <1>1, <1>2, <1>3, <1>4, RowsSettle DEF Next, Elsewhere

\* Bills of months nobody disputes.
Undisputed == \A m \in Months \ Disputed : bill[m].status # "disputed"

\* Such a bill, once protected, stays; its sources change with a publication only.
LEMMA BillsMove ==
  ASSUME PublicationInv, [Next]_vars, NEW m \in Months \ Disputed, bill[m].status # "disputed"
  PROVE  /\ bill'[m].status # "disputed"
         /\ bill[m].status \in Protected => bill'[m] = bill[m]
         /\ \/ bill'[m].src = bill[m].src
            \/ \E w \in Workers : Publish(w) /\ m \in run[w].months
<1> DEFINE Bills == [src : Versions, status : {"pending"} \cup Protected]
           Goal == /\ bill'[m].status # "disputed"
                   /\ bill[m].status \in Protected => bill'[m] = bill[m]
                   /\ \/ bill'[m].src = bill[m].src
                      \/ \E w \in Workers : Publish(w) /\ m \in run[w].months
<1>1. bill \in [Months -> Bills] /\ m \in Months
  BY DEF PublicationInv, TableOK
<1>2. ASSUME bill' = bill PROVE Goal
  BY <1>2
<1>3. ASSUME NEW w \in Workers, Publish(w) PROVE Goal
  <2>1. bill' = Billed(w)
    BY <1>3 DEF Publish
  <2>2. bill'[m] = IF m \in run[w].months /\ bill[m].status \notin Protected
                   THEN [src |-> gens[run[w].gen].frozen[m], status |-> "pending"] ELSE bill[m]
    BY <1>1, <2>1 DEF Billed
  <2>3. CASE m \in run[w].months /\ bill[m].status \notin Protected
    <3>1. bill'[m].status = "pending"
      BY <2>2, <2>3
    <3> QED
      BY <1>3, <2>3, <3>1
  <2>4. CASE ~(m \in run[w].months /\ bill[m].status \notin Protected)
    BY <2>2, <2>4
  <2> QED
    BY <2>3, <2>4
<1>4. ASSUME NEW k \in Months, Confirm(k) \/ Dispute(k) \/ CloseDispute(k) PROVE Goal
  <2>1. CASE k # m
    <3>1. bill'[m] = bill[m]
      BY <1>1, <1>4, <2>1 DEF Confirm, Dispute, CloseDispute
    <3> QED
      BY <3>1
  <2>2. CASE k = m
    <3>1. bill[m].status = "pending" /\ bill' = [bill EXCEPT ![m].status = "confirmed"]
      BY <1>4, <2>2 DEF Confirm, Dispute, CloseDispute
    <3>2. bill'[m] = [bill[m] EXCEPT !.status = "confirmed"] /\ bill[m] \in Bills
      BY <1>1, <3>1
    <3>3. bill'[m].status = "confirmed" /\ bill'[m].src = bill[m].src
      BY <3>2
    <3> QED
      BY <3>1, <3>3 DEF Protected
  <2> QED
    BY <2>1, <2>2
<1>5. ASSUME NEW w \in Workers, Step(w), ~Publish(w) PROVE bill' = bill
  BY Zenon, <1>5 DEF Step, StartCompaction, CompactPage, CompactReady, Plan, PlanNothing, Freeze, CalculateFees,
              StartBuild, WritePartition, MarkReady, Finish, PublishFinalize, PublishCompaction
<1>6. ASSUME NEW w \in Workers, Fail(w) \/ FailCompaction(w) \/ DeferCompaction(w) \/ Die(w) PROVE bill' = bill
  BY <1>6 DEF Fail, FailCompaction, DeferCompaction, Die
<1>7. ASSUME NEW w \in Workers, Claim(w) \/ \E j \in Reviewed : ApplyReviewed(w, j) PROVE bill' = bill
  BY <1>7, ClaimTakes
<1>8. ASSUME \/ \E j \in Reviewed : Preview(j)
             \/ \E j \in Jobs : Enqueue(j) \/ Expire(j) \/ ReleaseRetry(j) \/ Recover(j)
             \/ \E c \in Compactions : EnqueueCompaction(c) \/ ReconcileCompaction(c)
             \/ \E k \in Months : MaterializeFees(k)
             \/ UNCHANGED vars
      PROVE  bill' = bill
  BY <1>8 DEF vars, Preview, Enqueue, Expire, ReleaseRetry, Recover, EnqueueCompaction, ReconcileCompaction,
              MaterializeFees
<1>9. Next \/ UNCHANGED vars
  OBVIOUS
<1> HIDE DEF Goal
<1>10. Goal
  BY <1>2, <1>3, <1>4, <1>5, <1>6, <1>7, <1>8, <1>9 DEF Next
<1> QED
  BY <1>10 DEF Goal

\* A preview is shown only before its publication is admitted.
LEMMA ReviewsMove ==
  ASSUME PublicationInv, [Next]_vars, review = [k \in Reviewed |-> review[k]]
  PROVE  /\ review' = [k \in Reviewed |-> review'[k]]
         /\ \A j \in Reviewed : review'[j] = review[j] \/ (row[j].status = "absent" /\ row' = row)
<1> DEFINE Goal == /\ review' = [k \in Reviewed |-> review'[k]]
                   /\ \A j \in Reviewed : review'[j] = review[j] \/ (row[j].status = "absent" /\ row' = row)
<1>1. ASSUME review' = review PROVE Goal
  BY <1>1
<1>2. ASSUME NEW i \in Reviewed, Preview(i) PROVE Goal
  <2>1. review' = [review EXCEPT ![i] = preview(i)] /\ row[i].status = "absent" /\ row' = row
    BY <1>2 DEF Preview
  <2>2. review' = [k \in Reviewed |-> IF k = i THEN preview(i) ELSE review[k]]
    BY <2>1
  <2> HIDE DEF Goal
  <2>3. review' = [k \in Reviewed |-> review'[k]] /\ \A j \in Reviewed : i # j => review'[j] = review[j]
    BY <2>2
  <2> QED
    BY <2>1, <2>3 DEF Goal
<1>3. ASSUME NEW w \in Workers, Step(w) PROVE review' = review
  BY Zenon, <1>3 DEF Step, StartCompaction, CompactPage, CompactReady, Plan, PlanNothing, Freeze, CalculateFees,
              StartBuild, WritePartition, MarkReady, Finish, Publish, PublishFinalize, PublishCompaction
<1>4. ASSUME NEW w \in Workers, Fail(w) \/ FailCompaction(w) \/ DeferCompaction(w) \/ Die(w) PROVE review' = review
  BY <1>4 DEF Fail, FailCompaction, DeferCompaction, Die
<1>5. ASSUME NEW w \in Workers, Claim(w) \/ \E i \in Reviewed : ApplyReviewed(w, i) PROVE review' = review
  BY <1>5 DEF Claim, ClaimLatest, ClaimFinalize, ClaimCompaction, ApplyReviewed
<1>6. ASSUME \/ \E i \in Jobs : Enqueue(i) \/ Expire(i) \/ ReleaseRetry(i) \/ Recover(i)
             \/ \E c \in Compactions : EnqueueCompaction(c) \/ ReconcileCompaction(c)
             \/ \E k \in Months : MaterializeFees(k) \/ Confirm(k) \/ Dispute(k) \/ CloseDispute(k)
             \/ UNCHANGED vars
      PROVE  review' = review
  BY <1>6 DEF vars, Enqueue, Expire, ReleaseRetry, Recover, EnqueueCompaction, ReconcileCompaction,
              MaterializeFees, Confirm, Dispute, CloseDispute
<1>7. Next \/ UNCHANGED vars
  OBVIOUS
<1> HIDE DEF Goal
<1>8. Goal
  BY <1>1, <1>2, <1>3, <1>4, <1>5, <1>6, <1>7 DEF Next
<1> QED
  BY <1>8 DEF Goal

\* The fees of a month that only the slot writes change while its holder computes them.
LEMMA FeesMove ==
  ASSUME PublicationInv, [Next]_vars, NEW m \in Months \ FeeWriters
  PROVE  src'[m] = src[m] \/ \E w \in Workers : CalculateFees(w)
<1>1. src \in [Months -> Versions]
  BY DEF PublicationInv, TableOK
<1>2. ASSUME NEW w \in Workers, Step(w), ~CalculateFees(w) PROVE src' = src
  BY Zenon, <1>2 DEF Step, StartCompaction, CompactPage, CompactReady, Plan, PlanNothing, Freeze, Publish,
              StartBuild, WritePartition, MarkReady, Finish, PublishFinalize, PublishCompaction
<1>3. ASSUME NEW w \in Workers, Fail(w) \/ FailCompaction(w) \/ DeferCompaction(w) \/ Die(w) PROVE src' = src
  BY <1>3 DEF Fail, FailCompaction, DeferCompaction, Die
<1>4. ASSUME NEW w \in Workers, Claim(w) \/ \E i \in Reviewed : ApplyReviewed(w, i) PROVE src' = src
  BY <1>4, ClaimTakes
<1>5. ASSUME \/ \E i \in Jobs : Enqueue(i) \/ Expire(i) \/ ReleaseRetry(i) \/ Recover(i)
             \/ \E j \in Reviewed : Preview(j)
             \/ \E c \in Compactions : EnqueueCompaction(c) \/ ReconcileCompaction(c)
             \/ \E k \in Months : Confirm(k) \/ Dispute(k) \/ CloseDispute(k)
             \/ UNCHANGED vars
      PROVE  src' = src
  BY <1>5 DEF vars, Enqueue, Expire, ReleaseRetry, Recover, EnqueueCompaction, ReconcileCompaction,
              Preview, Confirm, Dispute, CloseDispute
<1>6. ASSUME NEW k \in Months, MaterializeFees(k) PROVE src'[m] = src[m]
  <2>1. k # m /\ src' = [src EXCEPT ![k] = @ + 1]
    BY <1>6 DEF MaterializeFees
  <2> QED
    BY <1>1, <2>1
<1>7. Next \/ UNCHANGED vars
  OBVIOUS
<1> QED
  BY <1>2, <1>3, <1>4, <1>5, <1>6, <1>7 DEF Next

\* What a generation holds, and whether it can be published, stays.
Same(x, y) == y.rows = x.rows /\ y.part = x.part /\ y.frozen = x.frozen
Stays(n) == /\ n \in 1..Len(gens) /\ Same(gens[n], gens'[n])
            /\ gens'[n].state \in {"ready", "published"} => gens'[n].state = gens[n].state

\* Worker w adds an overlay without partitions: over what it captured, if it froze it.
Begins(w, n) ==
  /\ n = Len(gens) + 1 /\ gens'[n].job = run[w].job /\ gens'[n].base = active /\ gens'[n].months = run[w].months
  /\ gens'[n].state \in {"captured", "staging"} /\ (\A m \in Months : gens'[n].part[m] = 0)
  /\ \/ Freeze(w) /\ gens'[n].frozen = Captured(run[w].months)
     \/ StartBuild(w) /\ Identity(run[w].job, run[w].base, run[w].months) = {}

\* Worker w writes a partition of its overlay.
Fills(w, n) ==
  /\ WritePartition(w) /\ n = run[w].gen /\ n \in 1..Len(gens) /\ gens'[n].frozen = gens[n].frozen
  /\ gens'[n].state = gens[n].state
  /\ \A m \in Months : /\ gens'[n].part[m] = IF m = Least(run[w].todo) THEN n ELSE gens[n].part[m]
                       /\ gens'[n].rows[m] = IF m = Least(run[w].todo) THEN authority(m) ELSE gens[n].rows[m]

\* Worker w completes or publishes its overlay.
Turns(w, n) ==
  /\ MarkReady(w) \/ Publish(w) \/ PublishFinalize(w)
  /\ n = run[w].gen /\ n \in 1..Len(gens) /\ Same(gens[n], gens'[n])

\* A generation takes another state and keeps what it holds.
LEMMA TurnKeeps ==
  ASSUME gens \in Seq(Gens), NEW g \in 1..Len(gens), NEW s, gens' = [gens EXCEPT ![g].state = s],
         NEW n \in 1..Len(gens)
  PROVE  Same(gens[n], gens'[n]) /\ gens'[n].state = IF n = g THEN s ELSE gens[n].state
<1>1. gens[g] \in Gens /\ gens'[n] = IF n = g THEN [gens[g] EXCEPT !.state = s] ELSE gens[n]
  OBVIOUS
<1>2. CASE n = g
  <2>1. gens[n] \in Gens /\ gens'[n] = [gens[n] EXCEPT !.state = s]
    BY <1>1, <1>2
  <2> QED
    BY <1>2, <2>1 DEF Same, Gens, Generation
<1>3. CASE n # g
  BY <1>1, <1>3 DEF Same
<1> QED
  BY <1>2, <1>3

\* An overlay that a worker starts.
LEMMA BeginsOK ==
  ASSUME PublicationInv, NEW w \in Workers, NEW s \in {"captured", "staging"}, NEW fr \in [Months -> Versions],
         gens' = Append(gens, NewGeneration(run[w].job, active, run[w].months, s, fr)),
         \/ Freeze(w) /\ fr = Captured(run[w].months)
         \/ StartBuild(w) /\ Identity(run[w].job, run[w].base, run[w].months) = {},
         NEW n \in 1..Len(gens')
  PROVE  (n \in 1..Len(gens) /\ gens'[n] = gens[n]) \/ Begins(w, n)
<1> DEFINE x == NewGeneration(run[w].job, active, run[w].months, s, fr)
<1>1. gens \in Seq(Gens) /\ Len(gens) \in Nat
  BY AtHand
<1>2. /\ x.job = run[w].job /\ x.base = active /\ x.months = run[w].months /\ x.state = s /\ x.frozen = fr
      /\ x.part = [m \in Months |-> 0]
  BY DEF NewGeneration
<1> HIDE DEF x
<1>3. /\ Len(gens') = Len(gens) + 1 /\ gens'[Len(gens) + 1] = x
      /\ \A k \in 1..Len(gens) : gens'[k] = gens[k]
  BY <1>1 DEF x
<1>4. n \in 1..Len(gens) \/ n = Len(gens) + 1
  BY <1>1, <1>3
<1>5. n = Len(gens) + 1 => Begins(w, n)
  BY <1>2, <1>3 DEF Begins
<1> QED
  BY <1>3, <1>4, <1>5

\* Writing a partition does that.
LEMMA WriteFills ==
  ASSUME PublicationInv, NEW w \in Workers, WritePartition(w)
  PROVE  /\ Fills(w, run[w].gen) /\ Len(gens') = Len(gens)
         /\ \A n \in 1..Len(gens) : n # run[w].gen => gens'[n] = gens[n]
         /\ Least(run[w].todo) \in run[w].todo
<1> DEFINE g == run[w].gen
           k == Least(run[w].todo)
           v == authority(k)
           z == [gens[g] EXCEPT !.rows[k] = v, !.part[k] = g]
<1>0. gens \in Seq(Gens) /\ Len(gens) \in Nat
  BY AtHand
<1>1. /\ Held(w) /\ run[w].pc = "build" /\ run[w].todo # {}
      /\ gens' = [gens EXCEPT ![g].rows[k] = v, ![g].part[k] = g]
  BY DEF WritePartition
<1>2. run[w].job \in Publishers
  BY <1>1, Publishes
<1>3. g \in 1..Len(gens) /\ gens[g] \in Gens
  BY <1>1, <1>2, MineOK
<1>4. k \in Months /\ k \in run[w].todo
  <2>1. run[w].todo \in SUBSET Months
    BY AtHand DEF Runs
  <2> QED
    BY <1>1, <2>1, LeastMonth
<1>5. gens' = [gens EXCEPT ![g] = z]
  BY <1>0, <1>1, <1>3
<1> HIDE DEF k, v, g, z
<1>6. /\ Len(gens') = Len(gens) /\ gens'[g] = z
      /\ \A n \in 1..Len(gens) : n # g => gens'[n] = gens[n]
  BY <1>0, <1>3, <1>5
<1> DEFINE x == gens[g]
           y == gens'[g]
<1>7. x \in Gens /\ y = [x EXCEPT !.rows[k] = v, !.part[k] = g]
  BY <1>3, <1>6 DEF z
<1> HIDE DEF x, y
<1>8. x.part \in [Months -> Nat] /\ x.rows \in [Months -> Versions]
  BY <1>7 DEF Gens, Generation
<1>9. /\ y.frozen = x.frozen /\ y.state = x.state /\ y.part = [x.part EXCEPT ![k] = g]
      /\ y.rows = [x.rows EXCEPT ![k] = v]
  BY <1>7 DEF Gens, Generation
<1>10. \A m \in Months : /\ y.part[m] = IF m = k THEN g ELSE x.part[m]
                         /\ y.rows[m] = IF m = k THEN v ELSE x.rows[m]
  BY <1>4, <1>8, <1>9
<1>11. \A m \in Months : /\ y.part[m] = IF m = k THEN g ELSE x.part[m]
                         /\ y.rows[m] = IF m = k THEN authority(m) ELSE x.rows[m]
  BY SMTT(60), <1>10 DEF v
<1>12. Fills(w, g)
  BY <1>3, <1>9, <1>11 DEF Fills, x, y, g, k
<1> QED
  BY <1>4, <1>6, <1>12 DEF g, k

\* The steps of the slot's holder, as an overlay sees them.
LEMMA OverlayWork ==
  ASSUME PublicationInv, NEW w \in Workers, Step(w), NEW n \in 1..Len(gens'), gens'[n].kind = "lineage"
  PROVE  Stays(n) \/ Begins(w, n) \/ Fills(w, n) \/ Turns(w, n)
<1>0. gens \in Seq(Gens) /\ Len(gens) \in Nat /\ Grown(gens, gens')
  <2>1. [Next]_vars
    BY DEF Next
  <2> QED
    BY <2>1, AtHand, GenerationsGrow
<1>1. ASSUME n \in 1..Len(gens), gens'[n] = gens[n] PROVE Stays(n)
  BY <1>1 DEF Stays, Same
<1>2. ASSUME gens' = gens PROVE Stays(n)
  BY <1>1, <1>2
<1>3. ASSUME n \in 1..Len(gens) PROVE gens[n].kind = "lineage"
  BY <1>0, <1>3 DEF Grown, Grows, Alike
<1>4. ASSUME NEW g \in 1..Len(gens), gens[g].kind = "compact", Len(gens') = Len(gens),
             \A k \in 1..Len(gens) : k # g => gens'[k] = gens[k]
      PROVE  Stays(n)
  <2>1. n \in 1..Len(gens) /\ n # g
    BY <1>3, <1>4
  <2> QED
    BY <1>1, <1>4, <2>1
<1>5. CASE StartCompaction(w)
  <2> DEFINE c == run[w].job
             e == CHOOSE g \in CompactOf(c) : TRUE
  <2>1. /\ CompactOf(c) = {} => gens' = Append(gens, Fresh(c))
        /\ CompactOf(c) # {} => gens' = IF gens[e].state = "failed" THEN [gens EXCEPT ![e] = Fresh(c)] ELSE gens
    BY Zenon, <1>5 DEF StartCompaction, Fresh
  <2>2. CASE CompactOf(c) = {}
    <3>1. Fresh(c).kind = "compact"
      BY DEF Fresh, Root
    <3> HIDE DEF c
    <3>2. /\ Len(gens') = Len(gens) + 1 /\ gens'[Len(gens) + 1] = Fresh(c)
          /\ \A k \in 1..Len(gens) : gens'[k] = gens[k]
      BY <1>0, <2>1, <2>2
    <3>3. n \in 1..Len(gens)
      BY <1>0, <3>1, <3>2
    <3> QED
      BY <1>1, <3>2, <3>3
  <2>3. CASE CompactOf(c) # {}
    <3>1. e \in 1..Len(gens) /\ gens[e].kind = "compact"
      <4>1. e \in CompactOf(c)
        BY <2>3
      <4> QED
        BY Zenon, <4>1 DEF CompactOf
    <3> HIDE DEF e, c
    <3>2. gens' = gens \/ gens' = [gens EXCEPT ![e] = Fresh(c)]
      BY <2>1, <2>3
    <3>3. Len(gens') = Len(gens) /\ \A k \in 1..Len(gens) : k # e => gens'[k] = gens[k]
      BY <1>0, <3>2
    <3> QED
      BY <1>4, <3>1, <3>3
  <2> QED
    BY <2>2, <2>3
<1>6. CASE CompactPage(w) \/ CompactReady(w) \/ PublishCompaction(w)
  <2> DEFINE g == run[w].gen
  <2>1. run[w].job \in Compactions /\ run[w].pc # "claimed"
    BY <1>6 DEF CompactPage, CompactReady, PublishCompaction
  <2>2. g \in 1..Len(gens) /\ gens[g].kind = "compact"
    BY <2>1, OursOK
  <2>3. Len(gens') = Len(gens) /\ \A k \in 1..Len(gens) : k # g => gens'[k] = gens[k]
    BY <1>0, <1>6, <2>2 DEF CompactPage, CompactReady, PublishCompaction
  <2> QED
    BY <1>4, <2>2, <2>3
<1>7. CASE CalculateFees(w) \/ PlanNothing(w) \/ Finish(w)
  BY <1>2, <1>7 DEF CalculateFees, PlanNothing, Finish
<1>8. CASE Plan(w)
  <2> DEFINE j == run[w].job
             months == Scope[j] \ Locked
             Retired(g) == /\ gens[g].job = j /\ g \notin Identity(j, active, months)
                           /\ gens[g].state \in {"staging", "ready"}
  <2>1. gens' = gens \/ gens' = [g \in 1..Len(gens) |->
                         IF Retired(g) THEN [gens[g] EXCEPT !.state = "superseded"] ELSE gens[g]]
    BY <1>8 DEF Plan
  <2> HIDE DEF Retired
  <2>2. CASE gens' # gens
    <3>0. n \in 1..Len(gens)
      BY <1>0, <2>1, <2>2
    <3>1. gens[n] \in Gens /\ gens'[n] \in {gens[n], [gens[n] EXCEPT !.state = "superseded"]}
      BY <1>0, <2>1, <2>2, <3>0
    <3>2. CASE gens'[n] = [gens[n] EXCEPT !.state = "superseded"]
      <4>1. Same(gens[n], gens'[n]) /\ gens'[n].state = "superseded"
        BY <3>1, <3>2 DEF Same, Gens, Generation
      <4> QED
        BY <3>0, <4>1 DEF Stays
    <3> QED
      BY <1>1, <3>0, <3>1, <3>2
  <2> QED
    BY <1>2, <2>2
<1>9. CASE Freeze(w)
  <2> DEFINE fr == Captured(run[w].months)
  <2>1. gens' = gens \/ gens' = Append(gens, NewGeneration(run[w].job, active, run[w].months, "captured", fr))
    BY <1>9 DEF Freeze
  <2>2. fr \in [Months -> Versions]
    BY CapturedOK DEF PublicationInv
  <2> HIDE DEF fr
  <2>3. ASSUME gens' = Append(gens, NewGeneration(run[w].job, active, run[w].months, "captured", fr))
        PROVE  (n \in 1..Len(gens) /\ gens'[n] = gens[n]) \/ Begins(w, n)
    BY <1>9, <2>2, <2>3, BeginsOK DEF fr
  <2> QED
    BY <1>1, <1>2, <2>1, <2>3
<1>10. CASE StartBuild(w)
  <2> DEFINE mine == Identity(run[w].job, run[w].base, run[w].months)
             e == CHOOSE x \in mine : TRUE
             none == [m \in Months |-> 0]
  <2>1. /\ mine = {} => gens' = Append(gens, NewGeneration(run[w].job, active, run[w].months, "staging", none))
        /\ mine # {} => gens' = gens \/ gens' = [gens EXCEPT ![e].state = "staging"]
    BY ZenonT(60), <1>10 DEF StartBuild
  <2>2. CASE mine = {}
    <3>1. none \in [Months -> Versions]
      BY PublicationAssumption DEF Versions
    <3> HIDE DEF none
    <3>2. gens' = Append(gens, NewGeneration(run[w].job, active, run[w].months, "staging", none))
      BY <2>1, <2>2
    <3>3. (n \in 1..Len(gens) /\ gens'[n] = gens[n]) \/ Begins(w, n)
      BY <1>10, <2>2, <3>1, <3>2, BeginsOK
    <3> QED
      BY <1>1, <3>3
  <2>3. CASE mine # {}
    <3>1. e \in 1..Len(gens)
      BY <2>3 DEF Identity
    <3> HIDE DEF e, mine
    <3>2. CASE gens' = [gens EXCEPT ![e].state = "staging"]
      <4>1. Len(gens') = Len(gens)
        BY <1>0, <3>2
      <4>2. Same(gens[n], gens'[n]) /\ gens'[n].state = IF n = e THEN "staging" ELSE gens[n].state
        BY <1>0, <3>1, <3>2, <4>1, TurnKeeps
      <4> QED
        BY <4>1, <4>2 DEF Stays
    <3> QED
      BY <1>2, <2>1, <2>3, <3>2
  <2> QED
    BY <2>2, <2>3
<1>11. CASE WritePartition(w)
  <2>1. Fills(w, run[w].gen) /\ Len(gens') = Len(gens)
        /\ \A k \in 1..Len(gens) : k # run[w].gen => gens'[k] = gens[k]
    BY <1>11, WriteFills
  <2> QED
    BY <1>1, <2>1
<1>12. CASE MarkReady(w) \/ Publish(w) \/ PublishFinalize(w)
  <2> DEFINE g == run[w].gen
  <2>0. Held(w) /\ run[w].pc \in {"build", "publish"} /\ (MarkReady(w) \/ run[w].job \in Publishers)
    BY <1>12 DEF MarkReady, Publish, PublishFinalize, SettlementJobs, Publishers
  <2>1. run[w].job \in Publishers
    BY <2>0, Publishes DEF MarkReady
  <2>2. g \in 1..Len(gens)
    BY <2>0, <2>1, MineOK
  <2>3. PICK s : gens' = [gens EXCEPT ![g].state = s]
    BY <1>12 DEF MarkReady, Publish, PublishFinalize
  <2>4. Len(gens') = Len(gens)
    BY <1>0, <2>3
  <2>5. Same(gens[n], gens'[n]) /\ gens'[n].state = IF n = g THEN s ELSE gens[n].state
    BY ZenonT(60), <1>0, <2>2, <2>3, <2>4, TurnKeeps
  <2> QED
    BY <1>12, <2>4, <2>5 DEF Stays, Turns
<1> QED
  BY SMTT(60), <1>5, <1>6, <1>7, <1>8, <1>9, <1>10, <1>11, <1>12 DEF Step

\* What happens to an overlay.
LEMMA OverlayMoves ==
  ASSUME PublicationInv, [Next]_vars, NEW n \in 1..Len(gens'), gens'[n].kind = "lineage"
  PROVE  Stays(n) \/ \E w \in Workers : Begins(w, n) \/ Fills(w, n) \/ Turns(w, n)
<1>0. gens \in Seq(Gens) /\ Len(gens) \in Nat /\ Grown(gens, gens')
  BY AtHand, GenerationsGrow
<1>1. ASSUME gens' = gens PROVE Stays(n)
  BY <1>1 DEF Stays, Same
<1>2. ASSUME NEW w \in Workers, Claim(w) \/ \E j \in Reviewed : ApplyReviewed(w, j) PROVE Stays(n)
  BY <1>1, <1>2, ClaimTakes
<1>3. ASSUME NEW w \in Workers, Fail(w) \/ DeferCompaction(w) \/ Die(w) PROVE Stays(n)
  BY <1>1, <1>3 DEF Fail, DeferCompaction, Die
<1>4. ASSUME NEW w \in Workers, FailCompaction(w) PROVE Stays(n)
  <2> DEFINE g == run[w].gen
  <2>1. gens' = gens \/ (g # 0 /\ gens' = [gens EXCEPT ![g].state = "failed"])
    BY <1>4 DEF FailCompaction
  <2>2. CASE g # 0 /\ gens' = [gens EXCEPT ![g].state = "failed"]
    <3>1. g \in 1..Len(gens)
      BY <1>0, <2>2, AtHand DEF RunOK
    <3>2. Len(gens') = Len(gens)
      BY <1>0, <2>2
    <3>3. Same(gens[n], gens'[n]) /\ gens'[n].state = IF n = g THEN "failed" ELSE gens[n].state
      BY ZenonT(60), <1>0, <2>2, <3>1, <3>2, TurnKeeps
    <3> QED
      BY <3>2, <3>3 DEF Stays
  <2> QED
    BY <1>1, <2>1, <2>2
<1>5. CASE Elsewhere
  BY <1>1, <1>5, ElsewhereKeeps
<1>6. Next \/ UNCHANGED vars
  OBVIOUS
<1> QED
  BY <1>2, <1>3, <1>4, <1>5, <1>6, OverlayWork DEF Next, Elsewhere

\* A worker that is to start, or builds, had come that far, or just has.
LEMMA BuildersMove ==
  ASSUME PublicationInv, [Next]_vars, NEW w \in Workers, run'[w].pc \in {"start", "build"}
  PROVE  \/ run'[w] = run[w]
         \/ Plan(w) /\ run[w].job \in Finalizers /\ run'[w].job = run[w].job /\ run'[w].pc = "start"
         \/ /\ Freeze(w) /\ run'[w].pc = "start"
            /\ run'[w].job = run[w].job /\ run'[w].base = run[w].base /\ run'[w].months = run[w].months
         \/ /\ StartBuild(w) /\ run'[w].pc = "build" /\ run'[w].todo = run[w].months
            /\ run'[w].job = run[w].job /\ run'[w].base = run[w].base /\ run'[w].months = run[w].months
         \/ /\ WritePartition(w) /\ run'[w].pc = "build" /\ run'[w].todo = run[w].todo \ {Least(run[w].todo)}
            /\ run'[w].job = run[w].job /\ run'[w].base = run[w].base /\ run'[w].months = run[w].months
            /\ run'[w].gen = run[w].gen
<1> DEFINE Goal ==
         \/ run'[w] = run[w]
         \/ Plan(w) /\ run[w].job \in Finalizers /\ run'[w].job = run[w].job /\ run'[w].pc = "start"
         \/ /\ Freeze(w) /\ run'[w].pc = "start"
            /\ run'[w].job = run[w].job /\ run'[w].base = run[w].base /\ run'[w].months = run[w].months
         \/ /\ StartBuild(w) /\ run'[w].pc = "build" /\ run'[w].todo = run[w].months
            /\ run'[w].job = run[w].job /\ run'[w].base = run[w].base /\ run'[w].months = run[w].months
         \/ /\ WritePartition(w) /\ run'[w].pc = "build" /\ run'[w].todo = run[w].todo \ {Least(run[w].todo)}
            /\ run'[w].job = run[w].job /\ run'[w].base = run[w].base /\ run'[w].months = run[w].months
            /\ run'[w].gen = run[w].gen
<1>0. run \in [Workers -> Runs] /\ run[w] \in Runs
  BY AtHand
<1>1. ASSUME NEW v \in Workers, NEW r, run' = [run EXCEPT ![v] = r], r.pc \notin {"start", "build"} PROVE Goal
  <2>1. v # w
    BY <1>0, <1>1
  <2>2. run'[w] = run[w]
    BY <1>0, <1>1, <2>1
  <2> QED
    BY <2>2
<1>2. ASSUME NEW v \in Workers, NEW r, run' = [run EXCEPT ![v] = r], v # w PROVE Goal
  <2>1. run'[w] = run[w]
    BY <1>0, <1>2
  <2> QED
    BY <2>1
<1>3. Idle.pc = "idle"
  BY DEF Idle
<1>4. ASSUME run' = run PROVE Goal
  BY <1>4
<1>5. ASSUME NEW v \in Workers, run' = [run EXCEPT ![v] = Idle] PROVE Goal
  BY <1>1, <1>3, <1>5
<1>6. ASSUME NEW v \in Workers, Step(v) PROVE Goal
  <2>0. run[v] \in Runs
    BY <1>0
  <2>1. ASSUME NEW p, p \notin {"start", "build"}, run' = [run EXCEPT ![v].pc = p] PROVE Goal
    <3> DEFINE r == [run[v] EXCEPT !.pc = p]
    <3>1. run' = [run EXCEPT ![v] = r]
      BY <2>1
    <3>2. r.pc = p
      BY <2>0 DEF Runs
    <3> HIDE DEF r, Goal
    <3> QED
      BY <1>1, <2>1, <3>1, <3>2
  <2>2. CASE CompactReady(v) \/ CalculateFees(v) \/ PlanNothing(v) \/ MarkReady(v) \/ Publish(v)
    <3>1. PICK p \in {"publish", "plan", "finish"} : run' = [run EXCEPT ![v].pc = p]
      BY <2>2 DEF CompactReady, CalculateFees, PlanNothing, MarkReady, Publish
    <3> QED
      BY <2>1, <3>1
  <2>3. CASE StartCompaction(v)
    <3> DEFINE c == run[v].job
               e == CHOOSE x \in CompactOf(c) : TRUE
               q == IF gens[e].state = "ready" THEN "publish" ELSE "page"
    <3>1. \/ run' = [run EXCEPT ![v].pc = "page", ![v].gen = Len(gens) + 1, ![v].base = target[c]]
          \/ run' = [run EXCEPT ![v].pc = q, ![v].gen = e, ![v].base = target[c]]
      BY Zenon, <2>3 DEF StartCompaction
    <3>2. q # "start" /\ q # "build"
      OBVIOUS
    <3> HIDE DEF c, e, q
    <3>3. ASSUME NEW p, p # "start", p # "build", NEW g, NEW b,
                 run' = [run EXCEPT ![v].pc = p, ![v].gen = g, ![v].base = b]
          PROVE  Goal
      <4> DEFINE r == [run[v] EXCEPT !.pc = p, !.gen = g, !.base = b]
      <4>1. run' = [run EXCEPT ![v] = r]
        BY <1>0, <3>3 DEF Runs
      <4>2. r.pc = p
        BY <2>0 DEF Runs
      <4> HIDE DEF r, Goal
      <4>3. r.pc \notin {"start", "build"}
        BY <3>3, <4>2
      <4> QED
        BY <1>1, <4>1, <4>3
    <3>4. CASE run' = [run EXCEPT ![v].pc = "page", ![v].gen = Len(gens) + 1, ![v].base = target[c]]
      <4> HIDE DEF Goal
      <4>1. "page" # "start" /\ "page" # "build"
        OBVIOUS
      <4> QED
        BY Zenon, <3>3, <3>4, <4>1
    <3>5. CASE run' = [run EXCEPT ![v].pc = q, ![v].gen = e, ![v].base = target[c]]
      BY Zenon, <3>2, <3>3, <3>5
    <3> QED
      BY <3>1, <3>4, <3>5
  <2>4. CASE CompactPage(v)
    BY <1>4, <2>4 DEF CompactPage
  <2>5. CASE PublishCompaction(v) \/ PublishFinalize(v) \/ Finish(v)
    BY <1>5, <2>5 DEF PublishCompaction, PublishFinalize, Finish
  <2>6. CASE Plan(v)
    <3>1. PICK p, b, ms : /\ run' = [run EXCEPT ![v].pc = p, ![v].base = b, ![v].months = ms]
                          /\ p = IF run[v].job \in Finalizers THEN "start" ELSE "freeze"
      BY Zenon, <2>6 DEF Plan
    <3> DEFINE r == [run[v] EXCEPT !.pc = p, !.base = b, !.months = ms]
    <3>2. run' = [run EXCEPT ![v] = r]
      BY <1>0, <3>1 DEF Runs
    <3>3. r.pc = p /\ r.job = run[v].job
      BY <2>0 DEF Runs
    <3> HIDE DEF r
    <3>4. CASE v = w
      <4>1. run'[w] = r
        BY <1>0, <3>2, <3>4
      <4> QED
        BY <2>6, <3>1, <3>3, <3>4, <4>1
    <3> HIDE DEF Goal
    <3> QED
      BY <1>2, <3>2, <3>4
  <2>7. CASE Freeze(v)
    <3>1. PICK g : run' = [run EXCEPT ![v].pc = "start", ![v].gen = g]
      BY <2>7 DEF Freeze
    <3> DEFINE r == [run[v] EXCEPT !.pc = "start", !.gen = g]
    <3>2. run' = [run EXCEPT ![v] = r]
      BY <1>0, <3>1 DEF Runs
    <3>3. r.pc = "start" /\ r.job = run[v].job /\ r.base = run[v].base /\ r.months = run[v].months
      BY <2>0 DEF Runs
    <3> HIDE DEF r
    <3>4. CASE v = w
      <4>1. run'[w] = r
        BY <1>0, <3>2, <3>4
      <4> QED
        BY <2>7, <3>3, <3>4, <4>1
    <3> HIDE DEF Goal
    <3> QED
      BY <1>2, <3>2, <3>4
  <2>8. CASE StartBuild(v)
    <3>1. PICK g : \/ run' = [run EXCEPT ![v].pc = "publish", ![v].gen = g]
                   \/ run' = [run EXCEPT ![v].pc = "build", ![v].gen = g, ![v].todo = run[v].months]
      BY ZenonT(60), <2>8 DEF StartBuild
    <3>2. CASE run' = [run EXCEPT ![v].pc = "publish", ![v].gen = g]
      <4> DEFINE r == [run[v] EXCEPT !.pc = "publish", !.gen = g]
      <4>1. run' = [run EXCEPT ![v] = r]
        BY <1>0, <3>2 DEF Runs
      <4>2. r.pc = "publish"
        BY <2>0 DEF Runs
      <4> HIDE DEF r, Goal
      <4> QED
        BY <1>1, <4>1, <4>2
    <3>3. CASE run' = [run EXCEPT ![v].pc = "build", ![v].gen = g, ![v].todo = run[v].months]
      <4> DEFINE r == [run[v] EXCEPT !.pc = "build", !.gen = g, !.todo = run[v].months]
      <4>1. run' = [run EXCEPT ![v] = r]
        BY <1>0, <3>3 DEF Runs
      <4>2. /\ r.pc = "build" /\ r.job = run[v].job /\ r.base = run[v].base /\ r.months = run[v].months
            /\ r.todo = run[v].months
        BY <2>0 DEF Runs
      <4> HIDE DEF r
      <4>3. CASE v = w
        <5>1. run'[w] = r
          BY <1>0, <4>1, <4>3
        <5> QED
          BY <2>8, <4>2, <4>3, <5>1
      <4> HIDE DEF Goal
      <4> QED
        BY <1>2, <4>1, <4>3
    <3> QED
      BY <3>1, <3>2, <3>3
  <2>9. CASE WritePartition(v)
    <3> DEFINE td == run[v].todo \ {Least(run[v].todo)}
               r == [run[v] EXCEPT !.todo = td]
    <3>1. run' = [run EXCEPT ![v] = r] /\ run[v].pc = "build"
      BY <1>0, <2>9 DEF WritePartition
    <3>2. /\ r.pc = "build" /\ r.job = run[v].job /\ r.base = run[v].base /\ r.months = run[v].months
          /\ r.todo = td /\ r.gen = run[v].gen
      BY <2>0, <3>1 DEF Runs
    <3> HIDE DEF r
    <3>3. CASE v = w
      <4>1. run'[w] = r
        BY <1>0, <3>1, <3>3
      <4> QED
        BY <2>9, <3>2, <3>3, <4>1
    <3> HIDE DEF Goal
    <3> QED
      BY <1>2, <3>1, <3>3
  <2> HIDE DEF Goal
  <2> QED
    BY <1>6, <2>2, <2>3, <2>4, <2>5, <2>6, <2>7, <2>8, <2>9 DEF Step
<1>7. ASSUME NEW v \in Workers, Claim(v) \/ \E j \in Reviewed : ApplyReviewed(v, j) PROVE Goal
  <2>1. \A j : Holding(j).pc = "claimed" /\ [Holding(j) EXCEPT !.pc = "plan"].pc = "plan"
    BY DEF Holding, Idle
  <2>2. PICK r : run' = [run EXCEPT ![v] = r] /\ r.pc \in {"claimed", "plan"}
    BY <1>7, <2>1, ClaimTakes
  <2> HIDE DEF Goal
  <2> QED
    BY <1>1, <2>2
<1>8. ASSUME NEW v \in Workers, Fail(v) \/ FailCompaction(v) \/ DeferCompaction(v) \/ Die(v) PROVE Goal
  <2>1. run' = [run EXCEPT ![v] = Idle]
    BY <1>8 DEF Fail, FailCompaction, DeferCompaction, Die
  <2> HIDE DEF Goal
  <2> QED
    BY <1>5, <2>1
<1>9. ASSUME Elsewhere PROVE Goal
  BY <1>4, <1>9, ElsewhereKeeps
<1>10. Next \/ UNCHANGED vars
  OBVIOUS
<1> HIDE DEF Goal
<1>12. ASSUME NEW v \in Workers,
              \/ Step(v) \/ Claim(v) \/ Fail(v) \/ FailCompaction(v) \/ DeferCompaction(v) \/ Die(v)
              \/ \E j \in Reviewed : ApplyReviewed(v, j)
       PROVE  Goal
  BY <1>6, <1>7, <1>8, <1>12
<1>11. Goal
  BY <1>9, <1>10, <1>12 DEF Next, Elsewhere
<1> QED
  BY <1>11 DEF Goal

\* Whoever holds the slot and is to start, or builds, held it before.
LEMMA HoldersMove ==
  ASSUME PublicationInv, [Next]_vars, NEW w \in Workers, Held(w)', run'[w].pc \in {"start", "build"}
  PROVE  Held(w)
<1>0. run \in [Workers -> Runs] /\ run' \in [Workers -> Runs]
  <2>1. SlotInv'
    BY SlotStep DEF PublicationInv
  <2> QED
    BY <2>1, AtHand DEF SlotInv
<1> DEFINE j == run'[w].job
<1>1. j \in Jobs /\ row'[j] = [status |-> "running", attempts |-> row'[j].attempts, claim |-> w, lease |-> "live"]
  BY <1>0 DEF Held, Runs
<1>2. row'[j].claim = w /\ row'[j].lease = "live" /\ w # NoOne
  BY <1>1, PublicationAssumption
<1>3. row'[j] = row[j]
  <2>1. CASE Settles(j)
    BY <1>2, <2>1 DEF Settles
  <2>2. ASSUME NEW v \in Workers, NEW k \in Jobs, Claims(v, k) PROVE Settles(j)
    BY <1>1, <1>2, <2>2 DEF Claims
  <2> QED
    BY <1>1, <2>1, <2>2, RowsMove
<1>4. run'[w].job = run[w].job
  BY BuildersMove
<1> QED
  BY <1>1, <1>3, <1>4 DEF Held

\* A generation of a publishing job is an overlay.
LEMMA OverlayMade ==
  ASSUME NEW gs, NEW n, NEW x, GenOK(gs, n, x), x.job \in Publishers
  PROVE  x.kind = "lineage" /\ x.months \subseteq Scope[x.job]
<1>1. x.job # NoOne
  BY PublicationAssumption DEF Jobs
<1> QED
  BY <1>1 DEF GenOK, IsRoot, IsOverlay, IsCompact

\* What is known of an overlay after a step.
LEMMA OverlayFacts ==
  ASSUME PublicationInv, [Next]_vars, NEW n \in 1..Len(gens'), gens'[n].job \in Publishers
  PROVE  /\ gens'[n] \in Gens /\ gens'[n].months \subseteq Scope[gens'[n].job] /\ gens'[n].months \subseteq Months
         /\ Stays(n) \/ \E w \in Workers : Begins(w, n) \/ Fills(w, n) \/ Turns(w, n)
         /\ n \in 1..Len(gens) => gens'[n].job = gens[n].job /\ gens'[n].base = gens[n].base
                                  /\ gens'[n].months = gens[n].months
<1>1. Grown(gens, gens')
  BY GenerationsGrow
<1>2. gens'[n] \in Gens /\ GenOK(gens, n, gens'[n])
  BY <1>1 DEF Grown
<1>3. gens'[n].kind = "lineage" /\ gens'[n].months \subseteq Scope[gens'[n].job]
  BY <1>2, OverlayMade
<1>4. gens'[n].months \subseteq Months
  BY <1>2 DEF Gens, Generation
<1>5. n \in 1..Len(gens) => Alike(gens[n], gens'[n])
  BY <1>1 DEF Grown, Grows
<1> QED
  BY <1>2, <1>3, <1>4, <1>5, OverlayMoves DEF Alike

\* Generation g holds the rows of month m.
Written(g, m) == m \in gens[g].months /\ gens[g].part[m] # 0

\* A completed overlay holds every month it was built for; one being built holds the
\* months its worker is done with.
WholeReady == \A g \in 1..Len(gens) :
  gens[g].job \in Publishers /\ gens[g].state \in {"ready", "published"} =>
    \A m \in gens[g].months : gens[g].part[m] # 0
WholeBuilt == \A w \in Workers :
  run[w].job \in Publishers /\ run[w].pc = "build" =>
    \A m \in run[w].months \ run[w].todo : gens[run[w].gen].part[m] # 0
Whole == WholeReady /\ WholeBuilt

\* Partitions are never taken back.
LEMMA PartsStay ==
  ASSUME PublicationInv, [Next]_vars, NEW g \in 1..Len(gens), gens[g].job \in Publishers,
         NEW m \in Months, gens[g].part[m] # 0
  PROVE  gens'[g].part[m] # 0
<1>1. Len(gens) \in Nat /\ Grown(gens, gens')
  BY AtHand, GenerationsGrow
<1>2. g \in 1..Len(gens') /\ gens'[g].job = gens[g].job
  BY <1>1 DEF Grown, Grows, Alike
<1>3. Stays(g) \/ \E w \in Workers : Begins(w, g) \/ Fills(w, g) \/ Turns(w, g)
  BY <1>2, OverlayFacts
<1>4. CASE Stays(g)
  BY <1>4 DEF Stays, Same
<1>5. ASSUME NEW w \in Workers, Begins(w, g) PROVE FALSE
  BY <1>1, <1>5 DEF Begins
<1>6. ASSUME NEW w \in Workers, Fills(w, g) PROVE gens'[g].part[m] # 0
  BY <1>6 DEF Fills
<1>7. ASSUME NEW w \in Workers, Turns(w, g) PROVE gens'[g].part[m] # 0
  BY <1>7 DEF Turns, Same
<1> QED
  BY <1>3, <1>4, <1>5, <1>6, <1>7

\* What the turn of an overlay was.
LEMMA TurnsFrom ==
  ASSUME PublicationInv, NEW w \in Workers, NEW n, Turns(w, n)
  PROVE  /\ run[w].job \in Publishers /\ n = run[w].gen /\ n \in 1..Len(gens)
         /\ gens[n].job = run[w].job /\ gens[n].months = run[w].months /\ gens[n].base = run[w].base
         /\ \/ MarkReady(w) /\ run[w].pc = "build" /\ run[w].todo = {} /\ gens'[n].state = "ready"
            \/ (Publish(w) \/ PublishFinalize(w)) /\ gens[n].state = "ready"
<1>1. Held(w) /\ run[w].pc \in {"build", "publish"} /\ (MarkReady(w) \/ run[w].job \in Publishers)
      /\ (MarkReady(w) => run[w].pc = "build" /\ run[w].todo = {})
  BY DEF Turns, MarkReady, Publish, PublishFinalize, SettlementJobs, Publishers
<1>2. run[w].job \in Publishers
  BY <1>1, Publishes
<1>3. /\ run[w].gen \in 1..Len(gens) /\ gens[run[w].gen].job = run[w].job
      /\ gens[run[w].gen].months = run[w].months /\ gens[run[w].gen].base = run[w].base
  BY <1>1, <1>2, MineOK
<1>4. n = run[w].gen
  BY DEF Turns
<1>5. CASE MarkReady(w)
  <2>1. gens \in Seq(Gens) /\ gens' = [gens EXCEPT ![n].state = "ready"]
    BY <1>4, <1>5, AtHand DEF MarkReady
  <2>2. gens'[n].state = "ready"
    BY <1>3, <1>4, <2>1, TurnKeeps
  <2> QED
    BY <1>1, <1>2, <1>3, <1>4, <1>5, <2>2
<1>6. CASE Publish(w) \/ PublishFinalize(w)
  <2>1. gens[n].state = "ready"
    BY <1>4, <1>6 DEF Publish, PublishFinalize
  <2> QED
    BY <1>2, <1>3, <1>4, <1>6, <2>1
<1> QED
  BY <1>5, <1>6 DEF Turns

\* Every step keeps the overlays whole.
LEMMA WholeStep ==
  ASSUME PublicationInv, Whole, [Next]_vars
  PROVE  Whole'
<1>0. Len(gens) \in Nat /\ run' \in [Workers -> Runs]
  <2>1. SlotInv'
    BY SlotStep DEF PublicationInv
  <2> QED
    BY <2>1, AtHand DEF SlotInv
<1>1. ASSUME NEW g \in 1..Len(gens'), gens'[g].job \in Publishers, gens'[g].state \in {"ready", "published"},
             NEW m \in gens'[g].months
      PROVE  gens'[g].part[m] # 0
  <2>1. /\ m \in Months
        /\ Stays(g) \/ \E w \in Workers : Begins(w, g) \/ Fills(w, g) \/ Turns(w, g)
        /\ g \in 1..Len(gens) => gens'[g].job = gens[g].job /\ gens'[g].months = gens[g].months
    BY <1>1, OverlayFacts
  <2>2. CASE Stays(g)
    <3>1. gens[g].part[m] # 0
      BY <1>1, <2>1, <2>2 DEF Stays, Whole, WholeReady
    <3> QED
      BY <2>2, <3>1 DEF Stays, Same
  <2>3. ASSUME NEW w \in Workers, Begins(w, g) PROVE FALSE
    BY SMTT(60), <1>1, <2>3 DEF Begins
  <2>4. ASSUME NEW w \in Workers, Fills(w, g) PROVE FALSE
    BY <1>1, <2>4 DEF Fills, WritePartition
  <2>5. ASSUME NEW w \in Workers, Turns(w, g) PROVE gens'[g].part[m] # 0
    <3>1. /\ run[w].job \in Publishers /\ g = run[w].gen /\ g \in 1..Len(gens)
          /\ gens[g].job = run[w].job /\ gens[g].months = run[w].months
          /\ \/ run[w].pc = "build" /\ run[w].todo = {}
             \/ gens[g].state = "ready"
      BY <2>5, TurnsFrom
    <3>2. gens[g].part[m] # 0
      BY <1>1, <2>1, <3>1 DEF Whole, WholeReady, WholeBuilt
    <3> QED
      BY <2>5, <3>2 DEF Turns, Same
  <2> QED
    BY <2>1, <2>2, <2>3, <2>4, <2>5
<1>2. ASSUME NEW w \in Workers, run'[w].job \in Publishers, run'[w].pc = "build",
             NEW m \in run'[w].months \ run'[w].todo
      PROVE  gens'[run'[w].gen].part[m] # 0
  <2>0. m \in Months
    BY <1>0 DEF Runs
  <2>1. CASE run'[w] = run[w]
    <3>1. gens[run[w].gen].part[m] # 0
      BY <1>2, <2>1 DEF Whole, WholeBuilt
    <3>2. run[w].gen \in 1..Len(gens) /\ gens[run[w].gen].job \in Publishers
      BY <1>2, <2>1, MineOK
    <3> QED
      BY <2>0, <2>1, <3>1, <3>2, PartsStay
  <2>2. CASE StartBuild(w) /\ run'[w].todo = run[w].months /\ run'[w].months = run[w].months
    BY <1>2, <2>2
  <2>3. CASE /\ WritePartition(w) /\ run'[w].todo = run[w].todo \ {Least(run[w].todo)}
             /\ run'[w].job = run[w].job /\ run'[w].months = run[w].months /\ run'[w].gen = run[w].gen
    <3> DEFINE g == run[w].gen
    <3>1. Fills(w, g)
      BY <2>3, WriteFills
    <3>2. g \in 1..Len(gens) /\ gens'[g].part[m] = IF m = Least(run[w].todo) THEN g ELSE gens[g].part[m]
      BY <2>0, <3>1 DEF Fills
    <3>3. run[w].pc = "build"
      BY <2>3 DEF WritePartition
    <3>4. m # Least(run[w].todo) => gens[g].part[m] # 0
      BY <1>2, <2>3, <3>3 DEF Whole, WholeBuilt
    <3> QED
      BY <2>3, <3>2, <3>4
  <2> QED
    BY <1>2, <2>1, <2>2, <2>3, BuildersMove
<1> QED
  BY <1>1, <1>2 DEF Whole, WholeReady, WholeBuilt

\* A row that exists does not disappear.
LEMMA RowsPersist ==
  ASSUME PublicationInv, [Next]_vars, NEW j \in Jobs, row[j].status # "absent"
  PROVE  row'[j].status # "absent"
<1>1. ASSUME NEW w \in Workers, NEW k \in Jobs, Claims(w, k) PROVE row'[j].status # "absent"
  BY <1>1 DEF Claims, Settles
<1> QED
  BY <1>1, RowsMove DEF Settles

\* An admitted publication was shown the protected bills as they are.
BillsAsShown(m) == \A j \in Reviewed :
  row[j].status # "absent" /\ m \in Scope[j] /\ review[j].bills[m].status \in Protected =>
    bill[m] = review[j].bills[m] /\ review[j].sources[m] = bill[m].src

\* A reviewed publication that has a generation was admitted.
Admitted == \A g \in 1..Len(gens) : gens[g].job \in Reviewed => row[gens[g].job].status # "absent"

\* Its rows of a protected month are what was shown, from the moment they are written;
\* once it is published, so are all its rows.
RowsAsShown(m) == \A g \in 1..Len(gens) :
  gens[g].job \in Reviewed =>
    /\ Written(g, m) /\ review[gens[g].job].bills[m].status \in Protected =>
         gens[g].rows[m] = review[gens[g].job].sources[m]
    /\ gens[g].state = "published" /\ m \in gens[g].months =>
         gens[g].rows[m] = review[gens[g].job].sources[m]

ReviewInv ==
  /\ review = [j \in Reviewed |-> review[j]]
  /\ Undisputed /\ Whole /\ Admitted
  /\ \A m \in Months \ Disputed : BillsAsShown(m) /\ RowsAsShown(m)

\* The bills that a reviewer was shown.
LEMMA BillsShownStep ==
  ASSUME PublicationInv, ReviewInv, [Next]_vars, NEW m \in Months \ Disputed
  PROVE  BillsAsShown(m)'
<1> SUFFICES ASSUME NEW j \in Reviewed, row'[j].status # "absent", m \in Scope[j],
                    review'[j].bills[m].status \in Protected
             PROVE  bill'[m] = review'[j].bills[m] /\ review'[j].sources[m] = bill'[m].src
  BY DEF BillsAsShown
<1>0. j \in Jobs /\ bill[m].status # "disputed"
  BY DEF Publishers, Jobs, ReviewInv, Undisputed
<1>1. review'[j] = review[j]
  BY ReviewsMove DEF ReviewInv
<1>2. CASE row[j].status # "absent"
  <2>1. bill[m] = review[j].bills[m] /\ review[j].sources[m] = bill[m].src
    BY <1>1, <1>2 DEF ReviewInv, BillsAsShown
  <2>2. bill'[m] = bill[m]
    BY <1>0, <1>1, <2>1, BillsMove
  <2> QED
    BY <1>1, <2>1, <2>2
<1>3. CASE row[j].status = "absent"
  <2>1. ~Settles(j)
    BY <1>3 DEF Settles
  <2>2. PICK w \in Workers, k \in Jobs : Claims(w, k)
    BY <1>0, <2>1, RowsMove
  <2>3. ApplyReviewed(w, j)
    BY <1>0, <1>3, <2>1, <2>2 DEF Claims
  <2>4. review[j] = preview(j) /\ bill' = bill
    BY <2>3 DEF ApplyReviewed
  <2>5. review[j].bills[m] = bill[m] /\ review[j].sources[m] = authority(m)
    BY <2>4 DEF preview
  <2> QED
    BY <1>1, <2>4, <2>5 DEF authority
<1> QED
  BY <1>2, <1>3

\* A new overlay belongs to the holder of the slot.
LEMMA BeginsFrom ==
  ASSUME PublicationInv, NEW w \in Workers, NEW n, Begins(w, n)
  PROVE  Held(w) /\ run[w].job \in Jobs /\ gens'[n].job = run[w].job /\ row[run[w].job].status = "running"
<1>1. Held(w)
  BY Zenon DEF Begins, Freeze, StartBuild
<1> QED
  BY SMTT(60), <1>1, AtHand, HeldRow DEF Begins

\* A generation of a reviewed publication belongs to an admitted row.
LEMMA AdmittedStep ==
  ASSUME PublicationInv, ReviewInv, [Next]_vars, NEW n \in 1..Len(gens'), gens'[n].job \in Reviewed
  PROVE  row[gens'[n].job].status # "absent" /\ row'[gens'[n].job].status # "absent"
<1>1. gens'[n].job \in Publishers /\ gens'[n].job \in Jobs
  BY DEF Publishers, Jobs
<1>2. /\ Stays(n) \/ \E w \in Workers : Begins(w, n) \/ Fills(w, n) \/ Turns(w, n)
      /\ n \in 1..Len(gens) => gens'[n].job = gens[n].job
  BY <1>1, OverlayFacts
<1>3. ASSUME n \in 1..Len(gens) PROVE row[gens'[n].job].status # "absent"
  BY <1>2, <1>3 DEF ReviewInv, Admitted
<1>4. ASSUME NEW w \in Workers, Begins(w, n) PROVE row[gens'[n].job].status # "absent"
  BY <1>4, BeginsFrom
<1>5. row[gens'[n].job].status # "absent"
  BY <1>2, <1>3, <1>4 DEF Stays, Fills, Turns
<1> QED
  BY <1>1, <1>5, RowsPersist

\* A publication writes what was shown: a protected month was written so, any other
\* is compared with what is captured now, which is what was shown.
LEMMA PublishAsShown ==
  ASSUME PublicationInv, ReviewInv, NEW w \in Workers, Publish(w), run[w].job \in Reviewed,
         NEW m \in run[w].months \ Disputed
  PROVE  gens[run[w].gen].rows[m] = review[run[w].job].sources[m]
<1> DEFINE j == run[w].job
           g == run[w].gen
<1>1. /\ run[w].pc = "publish" /\ AsReviewed(w) /\ NoDrift(w) /\ gens[g].state = "ready" /\ Billable(w, m)
  BY DEF Publish
<1>2. j \in Publishers /\ run[w] \in Runs /\ RunOK(gens, run[w])
  BY AtHand DEF Publishers
<1>3. m \in Months /\ m \in Scope[j]
  BY <1>1, <1>2 DEF Runs, RunOK
<1>4. /\ g \in 1..Len(gens) /\ gens[g].job = j /\ gens[g].base = run[w].base /\ gens[g].months = run[w].months
  BY <1>1, <1>2, MineOK
<1>5. review[j].bills[m] = bill[m] /\ review[j].sources[m] = authority(m)
  <2>1. review[j] = preview(j)
    BY SMTT(60), <1>1 DEF AsReviewed
  <2> QED
    BY <1>3, <2>1 DEF preview
<1>6. CASE bill[m].status \in Protected
  <2>1. gens[g].part[m] # 0
    BY <1>1, <1>2, <1>4 DEF ReviewInv, Whole, WholeReady
  <2> QED
    BY <1>3, <1>4, <1>5, <1>6, <2>1 DEF ReviewInv, RowsAsShown, Written
<1>7. CASE bill[m].status \notin Protected
  <2>1. gens[g].frozen[m] = gens[g].rows[m]
    BY <1>1, <1>7 DEF Billable
  <2>2. g \in Identity(j, run[w].base, run[w].months)
    BY <1>4 DEF Identity
  <2>3. gens[g].frozen = Captured(run[w].months)
    BY <1>1, <2>2 DEF NoDrift
  <2>4. gens[g].frozen[m] = authority(m)
    BY <1>3, <2>3 DEF Captured
  <2> QED
    BY <1>5, <2>1, <2>4
<1> QED
  BY <1>6, <1>7

\* The rows that a reviewer was shown.
LEMMA RowsShownStep ==
  ASSUME PublicationInv, ReviewInv, [Next]_vars, NEW m \in Months \ Disputed
  PROVE  RowsAsShown(m)'
<1> SUFFICES ASSUME NEW n \in 1..Len(gens'), gens'[n].job \in Reviewed
             PROVE  /\ m \in gens'[n].months /\ gens'[n].part[m] # 0
                       /\ review'[gens'[n].job].bills[m].status \in Protected =>
                         gens'[n].rows[m] = review'[gens'[n].job].sources[m]
                    /\ gens'[n].state = "published" /\ m \in gens'[n].months =>
                         gens'[n].rows[m] = review'[gens'[n].job].sources[m]
  BY DEF RowsAsShown, Written
<1> DEFINE j == gens'[n].job
           Sealed == review[j].bills[m].status \in Protected
           shown == review[j].sources[m]
<1>1. j \in Publishers /\ j \in Reviewed
  BY DEF Publishers
<1>2. /\ Stays(n) \/ \E w \in Workers : Begins(w, n) \/ Fills(w, n) \/ Turns(w, n)
      /\ n \in 1..Len(gens) => gens'[n].job = gens[n].job /\ gens'[n].months = gens[n].months
      /\ gens'[n].months \subseteq Scope[j]
  BY <1>1, OverlayFacts
<1>3. row[j].status # "absent"
  BY AdmittedStep
<1>4. review'[j] = review[j]
  BY <1>1, <1>3, ReviewsMove DEF ReviewInv
<1>5. ASSUME n \in 1..Len(gens)
      PROVE  /\ m \in gens[n].months /\ gens[n].part[m] # 0 /\ Sealed => gens[n].rows[m] = shown
             /\ gens[n].state = "published" /\ m \in gens[n].months => gens[n].rows[m] = shown
  BY <1>1, <1>2, <1>5 DEF ReviewInv, RowsAsShown, Written
<1> SUFFICES /\ m \in gens'[n].months /\ gens'[n].part[m] # 0 /\ Sealed => gens'[n].rows[m] = shown
             /\ gens'[n].state = "published" /\ m \in gens'[n].months => gens'[n].rows[m] = shown
  BY <1>4
<1>6. CASE Stays(n)
  BY <1>2, <1>5, <1>6 DEF Stays, Same
<1>7. CASE \E w \in Workers : Begins(w, n)
  BY <1>7 DEF Begins
<1>8. CASE \E w \in Workers : Fills(w, n)
  <2>1. PICK w \in Workers : Fills(w, n)
    BY SMTT(60), <1>8
  <2>2. /\ gens'[n].state # "published" /\ n \in 1..Len(gens)
        /\ gens'[n].part[m] = IF m = Least(run[w].todo) THEN n ELSE gens[n].part[m]
        /\ gens'[n].rows[m] = IF m = Least(run[w].todo) THEN authority(m) ELSE gens[n].rows[m]
    BY <2>1 DEF Fills, WritePartition
  <2>3. ASSUME m \in gens'[n].months, Sealed PROVE authority(m) = shown
    <3>1. bill[m] = review[j].bills[m] /\ shown = bill[m].src
      BY <1>1, <1>2, <1>3, <2>3 DEF ReviewInv, BillsAsShown
    <3> QED
      BY <2>3, <3>1 DEF authority
  <2> HIDE DEF Sealed, shown
  <2> QED
    BY <1>2, <1>5, <2>2, <2>3
<1>9. CASE \E w \in Workers : Turns(w, n)
  <2>1. PICK w \in Workers : Turns(w, n)
    BY <1>9
  <2>2. /\ n = run[w].gen /\ n \in 1..Len(gens) /\ gens[n].job = run[w].job /\ gens[n].months = run[w].months
        /\ gens'[n].state = "ready" \/ Publish(w) \/ PublishFinalize(w)
    BY <2>1, TurnsFrom
  <2>3. gens'[n].rows = gens[n].rows /\ gens'[n].part = gens[n].part
    BY <2>1 DEF Turns, Same
  <2>4. ~PublishFinalize(w)
    <3>1. run[w].job \in SettlementJobs
      BY <1>1, <1>2, <2>2 DEF SettlementJobs
    <3> QED
      BY <3>1, PublicationAssumption DEF PublishFinalize
  <2>5. ASSUME Publish(w), m \in gens'[n].months PROVE gens[n].rows[m] = shown
    BY <1>1, <1>2, <2>2, <2>5, PublishAsShown
  <2> HIDE DEF Sealed, shown
  <2> QED
    BY <1>2, <1>5, <2>2, <2>3, <2>4, <2>5
<1> QED
  BY <1>2, <1>6, <1>7, <1>8, <1>9

\* Every step keeps it.
LEMMA ReviewStep ==
  ASSUME PublicationInv, ReviewInv, [Next]_vars
  PROVE  ReviewInv'
<1>1. review' = [j \in Reviewed |-> review'[j]]
  BY ReviewsMove DEF ReviewInv
<1>2. Undisputed'
  BY BillsMove DEF ReviewInv, Undisputed
<1>3. Whole'
  BY WholeStep DEF ReviewInv
<1>4. Admitted'
  BY AdmittedStep DEF Admitted
<1>5. \A m \in Months \ Disputed : BillsAsShown(m)' /\ RowsAsShown(m)'
  BY BillsShownStep, RowsShownStep
<1> QED
  BY <1>1, <1>2, <1>3, <1>4, <1>5 DEF ReviewInv

\* Nobody was shown anything, and nothing is built, in the beginning.
LEMMA ReviewInit ==
  ASSUME Init
  PROVE  ReviewInv
<1>1. gens = <<Root>> /\ Root.job = NoOne /\ run = [w \in Workers |-> Idle] /\ Idle.job = NoOne
      /\ review = [j \in Reviewed |-> <<>>] /\ row = [j \in Jobs |-> Row("absent", 0)]
  BY DEF Init, Root, Idle
<1>2. NoOne \notin Publishers /\ NoOne \notin Reviewed
  BY PublicationAssumption DEF Jobs, Publishers
<1>3. \A g \in 1..Len(gens) : gens[g].job \notin Publishers /\ gens[g].job \notin Reviewed
  BY <1>1, <1>2
<1>4. Undisputed
  <2>1. PICK closed \in SUBSET Closed :
          bill = [m \in Months |-> [src |-> 0, status |-> IF m \in closed THEN "locked" ELSE "pending"]]
    BY DEF Init
  <2>2. \A m \in Months : bill[m].status = IF m \in closed THEN "locked" ELSE "pending"
    BY <2>1
  <2> QED
    BY <2>2 DEF Undisputed
<1>5. Whole
  BY <1>1, <1>2, <1>3 DEF Whole, WholeReady, WholeBuilt
<1>6. \A j \in Reviewed : row[j].status = "absent"
  <2>1. Row("absent", 0).status = "absent"
    BY DEF Row
  <2> QED
    BY <1>1, <2>1 DEF Jobs, Publishers
<1>7. Admitted /\ \A m \in Months : BillsAsShown(m) /\ RowsAsShown(m)
  BY <1>3, <1>6 DEF Admitted, BillsAsShown, RowsAsShown
<1>8. review = [j \in Reviewed |-> review[j]]
  BY <1>1
<1> QED
  BY <1>4, <1>5, <1>7, <1>8 DEF ReviewInv

\* What a reviewer was shown, as an invariant of the publication: in every month that
\* nobody disputes (preview_settlement_publication, apply_settlement_publication).
THEOREM ReviewInvariant == Spec => []ReviewInv
<1>1. Init => ReviewInv
  BY ReviewInit
<1>2. PublicationInv /\ ReviewInv /\ [Next]_vars => ReviewInv'
  BY ReviewStep
<1> QED
  BY <1>1, <1>2, PublicationInvariant, PTL DEF Spec

\* A reviewed publication puts before the readers exactly the sources its reviewer was
\* shown, whatever fees, stores, crashes and other jobs did in between, as long as its
\* months are not disputed (apply_settlement_publication, source_guard).
THEOREM ReviewersGetWhatTheySaw ==
  ASSUME \A j \in Reviewed : Scope[j] \cap Disputed = {}
  PROVE  Spec => []ReviewedIsPublished
<1>1. ASSUME PublicationInv, ReviewInv PROVE ReviewedIsPublished
  <2> SUFFICES ASSUME NEW g \in 1..Len(gens), gens[g].state = "published", gens[g].job \in Reviewed,
                      NEW m \in gens[g].months
               PROVE  gens[g].rows[m] = review[gens[g].job].sources[m]
    BY DEF ReviewedIsPublished
  <2>1. gens[g] \in Gens /\ GenOK(gens, g, gens[g])
    BY <1>1, AtHand
  <2>2. gens[g].months \subseteq Scope[gens[g].job]
    BY <2>1, OverlayMade DEF Publishers
  <2>3. m \in Months \ Disputed
    BY <2>1, <2>2 DEF Gens, Generation
  <2> QED
    BY <1>1, <2>3 DEF ReviewInv, RowsAsShown
<1> QED
  BY <1>1, PublicationInvariant, ReviewInvariant, PTL

-----------------------------------------------------------------------------
(* What a publication resolves to.                                         *)

\* A publication of overlay rows replaces what readers find for its months, and
\* nothing else.
LEMMA PublishOwns ==
  ASSUME PublicationInv, Whole, [Next]_vars, NEW m \in Months, NEW w \in Workers,
         Publish(w) \/ PublishFinalize(w)
  PROVE  /\ m \in run[w].months => Owner(m)' = run[w].gen
         /\ m \notin run[w].months => Owner(m)' = Owner(m)
<1> DEFINE g == run[w].gen
<1>0. active \in 1..Len(gens) /\ gens[active].state = "published" /\ Len(gens) \in Nat /\ Grown(gens, gens')
      /\ Owner(m) = resolve(gens, active, m) /\ Owner(m)' = resolve(gens', active', m)
  BY AtHand, GenerationsGrow DEF Owner
<1>1. run[w].job \in Publishers /\ active = run[w].base /\ run[w].pc = "publish"
  BY DEF Publish, PublishFinalize, SettlementJobs, Publishers
<1>2. /\ IsOverlay(gens, g, gens[g]) /\ gens[g].base = active /\ gens[g].job \in Publishers
      /\ gens[g].months = run[w].months /\ g \in 1..Len(gens)
  BY <1>1, MineOK
<1>3. /\ gens[g].state = "ready"
      /\ resolve(gens', active', m) =
           IF gens[g].part[m] # 0 THEN gens[g].part[m]
           ELSE IF gens[g].base = 0 THEN 0 ELSE resolve(gens', gens[g].base, m)
  BY PublishResolves
<1>4. CASE m \in run[w].months
  <2>1. gens[g].part[m] # 0
    BY <1>2, <1>3, <1>4 DEF Whole, WholeReady
  <2>2. gens[g].part[m] = g
    BY <1>2, <2>1 DEF IsOverlay
  <2> QED
    BY <1>0, <1>3, <1>4, <2>1, <2>2
<1>5. CASE m \notin run[w].months
  <2>1. gens[g].part[m] = 0 /\ gens[g].base # 0
    BY <1>0, <1>2, <1>5 DEF IsOverlay
  <2>2. resolve(gens', active, m) = resolve(gens, active, m)
    BY <1>0, SeenStays
  <2> QED
    BY <1>0, <1>2, <1>3, <1>5, <2>1, <2>2
<1> QED
  BY <1>4, <1>5

\* The rows that readers find for a month stay, or a publication of that month replaces
\* them by those of its generation.
LEMMA OwnersMove ==
  ASSUME PublicationInv, Whole, [Next]_vars, NEW m \in Months
  PROVE  \/ Owner(m)' = Owner(m) /\ gens'[Owner(m)] = gens[Owner(m)]
         \/ \E w \in Workers : /\ Publish(w) \/ PublishFinalize(w)
                               /\ m \in run[w].months /\ Owner(m)' = run[w].gen
<1>0. active \in 1..Len(gens) /\ gens[active].state = "published" /\ Len(gens) \in Nat /\ Grown(gens, gens')
  BY AtHand, GenerationsGrow
<1>1. /\ resolve(gens', active, m) = resolve(gens, active, m)
      /\ gens'[resolve(gens, active, m)] = gens[resolve(gens, active, m)]
  BY <1>0, SeenStays
<1>2. Owner(m) = resolve(gens, active, m) /\ Owner(m)' = resolve(gens', active', m)
  BY DEF Owner
<1>3. CASE active' = active
  BY <1>1, <1>2, <1>3
<1>4. ASSUME NEW w \in Workers, PublishCompaction(w) PROVE Owner(m)' = Owner(m)
  <2> DEFINE g == run[w].gen
  <2>1. run[w].job \in Compactions /\ active = gens[g].from /\ run[w].pc = "publish"
    BY <1>4 DEF PublishCompaction
  <2>2. IsCompact(gens, g, gens[g])
    BY <2>1, OursOK
  <2>3. /\ gens[g].state = "ready"
        /\ resolve(gens', active', m) =
             IF gens[g].part[m] # 0 THEN gens[g].part[m]
             ELSE IF gens[g].base = 0 THEN 0 ELSE resolve(gens', gens[g].base, m)
    BY <1>4, PublishResolves
  <2>4. gens[g].part[m] # 0 /\ gens[g].part[m] = resolve(gens, active, m)
    BY <2>1, <2>2, <2>3 DEF IsCompact
  <2> QED
    BY <1>2, <2>3, <2>4
<1> QED
  BY <1>1, <1>2, <1>3, <1>4, HeadMoves, PublishOwns

-----------------------------------------------------------------------------
(* What stores are billed.                                                 *)

\* The generations of a job, a base and months among gs.
Ours(gs, j, b, ms) == {g \in 1..Len(gs) : gs[g].job = j /\ gs[g].base = b /\ gs[g].months = ms}

\* A settlement rebuild that is to start building has frozen its sources.
Started == \A w \in Workers :
  run[w].job \in SettlementJobs /\ run[w].pc = "start" =>
    Identity(run[w].job, run[w].base, run[w].months) # {}

\* The rows of a rebuild are its frozen sources, unless a protected bill gave them.
RowsAsFrozen(m) == \A g \in 1..Len(gens) :
  gens[g].job \in SettlementJobs /\ Written(g, m) =>
    \/ gens[g].rows[m] = gens[g].frozen[m]
    \/ bill[m].status \in Protected /\ gens[g].rows[m] = bill[m].src

\* As long as its worker holds the slot, what a rebuild froze is what there is.
FrozenAsNow(m) == \A w \in Workers :
  Held(w) /\ run[w].job \in SettlementJobs /\ run[w].pc \in {"start", "build"} /\ m \in run[w].months =>
    \A g \in Identity(run[w].job, run[w].base, run[w].months) :
      bill[m].status \notin Protected => gens[g].frozen[m] = src[m]

\* What readers see of a month that a rebuild published is what its store is billed.
BilledAsSeen(m) == gens[Owner(m)].job \in SettlementJobs => bill[m].src = gens[Owner(m)].rows[m]

BillingInv ==
  /\ Started
  /\ \A m \in Months \ (Disputed \cup FeeWriters) : RowsAsFrozen(m) /\ FrozenAsNow(m) /\ BilledAsSeen(m)

\* The generation of a job, base and months was theirs before, with the same frozen
\* sources, or a worker has just begun it.
LEMMA IdentityMoves ==
  ASSUME PublicationInv, [Next]_vars, NEW j \in Publishers, NEW b, NEW ms, NEW g \in Ours(gens', j, b, ms)
  PROVE  \/ g \in Identity(j, b, ms) /\ gens'[g].frozen = gens[g].frozen
         \/ \E w \in Workers : Begins(w, g)
<1>1. g \in 1..Len(gens') /\ gens'[g].job = j /\ gens'[g].base = b /\ gens'[g].months = ms
  BY DEF Ours
<1>2. /\ Stays(g) \/ \E w \in Workers : Begins(w, g) \/ Fills(w, g) \/ Turns(w, g)
      /\ g \in 1..Len(gens) => gens'[g].job = gens[g].job /\ gens'[g].base = gens[g].base
                               /\ gens'[g].months = gens[g].months
  BY <1>1, OverlayFacts
<1>3. ASSUME g \in 1..Len(gens), gens'[g].frozen = gens[g].frozen
      PROVE  g \in Identity(j, b, ms) /\ gens'[g].frozen = gens[g].frozen
  BY <1>1, <1>2, <1>3 DEF Identity
<1>4. CASE Stays(g) \/ \E w \in Workers : Fills(w, g) \/ Turns(w, g)
  BY <1>3, <1>4 DEF Stays, Fills, Turns, Same
<1> QED
  BY <1>2, <1>4

\* The generations of a job, base and months are never dropped.
LEMMA IdentityStays ==
  ASSUME PublicationInv, [Next]_vars, NEW j, NEW b, NEW ms, Identity(j, b, ms) # {}
  PROVE  Ours(gens', j, b, ms) # {}
<1>1. PICK g \in Identity(j, b, ms) : TRUE
  OBVIOUS
<1>2. g \in 1..Len(gens) /\ gens[g].job = j /\ gens[g].base = b /\ gens[g].months = ms
  BY <1>1 DEF Identity
<1>3. Grown(gens, gens') /\ Len(gens) \in Nat
  BY AtHand, GenerationsGrow
<1>4. g \in 1..Len(gens') /\ Alike(gens[g], gens'[g])
  BY <1>2, <1>3 DEF Grown, Grows
<1>5. g \in Ours(gens', j, b, ms)
  BY <1>2, <1>4 DEF Ours, Alike
<1> QED
  BY <1>5

\* A freeze leaves its generation behind.
LEMMA FreezeLeaves ==
  ASSUME PublicationInv, NEW w \in Workers, Freeze(w)
  PROVE  Ours(gens', run[w].job, run[w].base, run[w].months) # {}
<1> DEFINE j == run[w].job
           ms == run[w].months
           fr == Captured(ms)
           mine == Identity(j, run[w].base, ms)
           x == NewGeneration(j, active, ms, "captured", fr)
<1>1. active = run[w].base /\ gens' = IF mine # {} THEN gens ELSE Append(gens, x)
  BY DEF Freeze
<1>2. gens \in Seq(Gens) /\ Len(gens) \in Nat
  BY AtHand
<1>3. CASE mine = {}
  <2>1. x.job = j /\ x.base = active /\ x.months = ms
    BY DEF NewGeneration
  <2> HIDE DEF x, mine
  <2>2. Len(gens') = Len(gens) + 1 /\ gens'[Len(gens) + 1] = x
    BY <1>1, <1>2, <1>3
  <2>3. Len(gens) + 1 \in 1..Len(gens')
    BY <1>2, <2>2
  <2>4. Len(gens) + 1 \in Ours(gens', j, active, ms)
    BY <2>1, <2>2, <2>3 DEF Ours
  <2> QED
    BY <1>1, <2>4
<1>4. CASE mine # {}
  <2>1. gens' = gens
    BY <1>1, <1>4
  <2>2. Ours(gens', j, run[w].base, ms) = mine
    BY <2>1 DEF Identity, Ours
  <2> QED
    BY <1>4, <2>2
<1> QED
  BY <1>3, <1>4

\* Whoever starts building a rebuild has frozen its sources.
LEMMA StartedStep ==
  ASSUME PublicationInv, Started, [Next]_vars
  PROVE  Started'
<1> SUFFICES ASSUME NEW w \in Workers, run'[w].job \in SettlementJobs, run'[w].pc = "start"
             PROVE  Ours(gens', run'[w].job, run'[w].base, run'[w].months) # {}
  BY DEF Started, Identity, Ours
<1>1. CASE run'[w] = run[w]
  <2>1. Identity(run[w].job, run[w].base, run[w].months) # {}
    BY <1>1 DEF Started
  <2> QED
    BY <1>1, <2>1, IdentityStays
<1>2. CASE run[w].job \in Finalizers /\ run'[w].job = run[w].job
  BY <1>2, PublicationAssumption
<1>3. CASE /\ Freeze(w)
           /\ run'[w].job = run[w].job /\ run'[w].base = run[w].base /\ run'[w].months = run[w].months
  BY <1>3, FreezeLeaves
<1> QED
  BY <1>1, <1>2, <1>3, BuildersMove

\* The rows of a rebuild stay what was frozen, or what a protected bill gave.
LEMMA RowsFrozenStep ==
  ASSUME PublicationInv, Undisputed, BillingInv, [Next]_vars, NEW m \in Months \ (Disputed \cup FeeWriters)
  PROVE  RowsAsFrozen(m)'
<1> SUFFICES ASSUME NEW n \in 1..Len(gens'), gens'[n].job \in SettlementJobs, m \in gens'[n].months,
                    gens'[n].part[m] # 0
             PROVE  \/ gens'[n].rows[m] = gens'[n].frozen[m]
                    \/ bill'[m].status \in Protected /\ gens'[n].rows[m] = bill'[m].src
  BY DEF RowsAsFrozen, Written
<1>1. /\ Stays(n) \/ \E w \in Workers : Begins(w, n) \/ Fills(w, n) \/ Turns(w, n)
      /\ n \in 1..Len(gens) => gens'[n].job = gens[n].job /\ gens'[n].months = gens[n].months
  BY OverlayFacts DEF SettlementJobs, Publishers
<1>2. bill[m].status \in Protected => bill'[m] = bill[m]
  BY BillsMove DEF Undisputed
<1>3. ASSUME n \in 1..Len(gens), gens[n].part[m] # 0
      PROVE  \/ gens[n].rows[m] = gens[n].frozen[m]
             \/ bill'[m].status \in Protected /\ gens[n].rows[m] = bill'[m].src
  <2>1. \/ gens[n].rows[m] = gens[n].frozen[m]
        \/ bill[m].status \in Protected /\ gens[n].rows[m] = bill[m].src
    BY <1>1, <1>3 DEF BillingInv, RowsAsFrozen, Written
  <2> QED
    BY <1>2, <2>1
<1>4. CASE Stays(n) \/ \E w \in Workers : Turns(w, n)
  BY <1>3, <1>4 DEF Stays, Turns, Same
<1>5. CASE \E w \in Workers : Begins(w, n)
  BY <1>5 DEF Begins
<1>6. ASSUME NEW w \in Workers, Fills(w, n)
      PROVE  \/ gens'[n].rows[m] = gens'[n].frozen[m]
             \/ bill'[m].status \in Protected /\ gens'[n].rows[m] = bill'[m].src
  <2>1. /\ WritePartition(w) /\ n = run[w].gen /\ n \in 1..Len(gens) /\ gens'[n].frozen = gens[n].frozen
        /\ gens'[n].part[m] = IF m = Least(run[w].todo) THEN n ELSE gens[n].part[m]
        /\ gens'[n].rows[m] = IF m = Least(run[w].todo) THEN authority(m) ELSE gens[n].rows[m]
    BY <1>6 DEF Fills
  <2>2. CASE m # Least(run[w].todo)
    BY <1>3, <2>1, <2>2
  <2>3. CASE m = Least(run[w].todo) /\ bill[m].status \in Protected
    BY <1>2, <2>1, <2>3 DEF authority
  <2>4. CASE m = Least(run[w].todo) /\ bill[m].status \notin Protected
    <3>1. Held(w) /\ run[w].pc = "build"
      BY <2>1 DEF WritePartition
    <3>2. run[w].job \in Publishers
      BY <3>1, Publishes
    <3>3. gens[n].job = run[w].job /\ gens[n].base = run[w].base /\ gens[n].months = run[w].months
      BY <2>1, <3>1, <3>2, MineOK
    <3>4. n \in Identity(run[w].job, run[w].base, run[w].months)
      BY <2>1, <3>3 DEF Identity
    <3>5. gens[n].frozen[m] = src[m]
      BY <1>1, <2>1, <2>4, <3>1, <3>3, <3>4 DEF BillingInv, FrozenAsNow
    <3> QED
      BY SMTT(60), <2>1, <2>4, <3>5 DEF authority
  <2> QED
    BY <2>2, <2>3, <2>4
<1> QED
  BY <1>1, <1>4, <1>5, <1>6

\* While its worker holds the slot, nothing of what a rebuild froze changes.
LEMMA FrozenNowStep ==
  ASSUME PublicationInv, Undisputed, BillingInv, [Next]_vars, NEW m \in Months \ (Disputed \cup FeeWriters)
  PROVE  FrozenAsNow(m)'
<1> SUFFICES ASSUME NEW w \in Workers, Held(w)', run'[w].job \in SettlementJobs,
                    run'[w].pc \in {"start", "build"}, m \in run'[w].months,
                    NEW g \in Ours(gens', run'[w].job, run'[w].base, run'[w].months),
                    bill'[m].status \notin Protected
             PROVE  gens'[g].frozen[m] = src'[m]
  BY DEF FrozenAsNow, Identity, Ours
<1>0. Held(w) /\ RowsOK /\ Exclusive /\ run \in [Workers -> Runs] /\ run'[w].job \in Publishers
  BY HoldersMove DEF PublicationInv, SlotInv, SettlementJobs, Publishers
<1>1. bill[m].status \notin Protected
  BY BillsMove DEF Undisputed
<1>2. ASSUME NEW v \in Workers, Held(v) PROVE v = w
  BY <1>0, <1>2, OneHolder
<1>3. src'[m] = src[m]
  <2>1. ASSUME NEW v \in Workers, CalculateFees(v) PROVE FALSE
    <3>1. v = w
      BY <1>2, <2>1 DEF CalculateFees
    <3>2. run' = [run EXCEPT ![w].pc = "plan"]
      BY <2>1, <3>1 DEF CalculateFees
    <3>3. run'[w].pc = "plan"
      <4>1. run'[w] = [run[w] EXCEPT !.pc = "plan"] /\ run[w] \in Runs
        BY <1>0, <3>2
      <4> QED
        BY <4>1 DEF Runs
    <3> QED
      BY <3>3
  <2> QED
    BY <2>1, FeesMove
<1>4. \/ /\ g \in Identity(run'[w].job, run'[w].base, run'[w].months)
         /\ gens'[g].frozen = gens[g].frozen
      \/ \E v \in Workers : Begins(v, g)
  BY <1>0, IdentityMoves
<1>5. ASSUME NEW v \in Workers, Begins(v, g) PROVE gens'[g].frozen[m] = src[m]
  <2>1. v = w
    BY <1>2, <1>5, BeginsFrom
  <2>2. Begins(w, g)
    BY <1>5, <2>1
  <2>3. \/ Freeze(w) /\ gens'[g].frozen = Captured(run[w].months)
        \/ StartBuild(w) /\ Identity(run[w].job, run[w].base, run[w].months) = {}
    BY <2>2 DEF Begins
  <2>4. gens'[g].months = run[w].months /\ gens'[g].months = run'[w].months /\ gens'[g].job = run[w].job
        /\ gens'[g].job = run'[w].job
    BY <2>2 DEF Begins, Ours
  <2>5. CASE StartBuild(w) /\ Identity(run[w].job, run[w].base, run[w].months) = {}
    <3>1. run[w].pc = "start"
      BY <2>5 DEF StartBuild
    <3> QED
      BY <2>4, <2>5, <3>1 DEF BillingInv, Started
  <2>6. CASE Freeze(w) /\ gens'[g].frozen = Captured(run[w].months)
    BY <1>1, <2>4, <2>6 DEF Captured, authority
  <2> QED
    BY <2>3, <2>5, <2>6
<1>6. CASE /\ g \in Identity(run'[w].job, run'[w].base, run'[w].months)
           /\ gens'[g].frozen = gens[g].frozen
  <2>1. ASSUME run[w].pc \in {"start", "build"}, run'[w].job = run[w].job, run'[w].base = run[w].base,
               run'[w].months = run[w].months
        PROVE  gens[g].frozen[m] = src[m]
    BY <1>0, <1>1, <1>6, <2>1 DEF BillingInv, FrozenAsNow
  <2>2. CASE run'[w] = run[w]
    BY <1>3, <1>6, <2>1, <2>2
  <2>3. CASE run[w].job \in Finalizers /\ run'[w].job = run[w].job
    BY <2>3, PublicationAssumption
  <2>4. CASE /\ Freeze(w)
             /\ run'[w].job = run[w].job /\ run'[w].base = run[w].base /\ run'[w].months = run[w].months
    <3>1. NoDrift(w)
      BY <2>4 DEF Freeze
    <3>2. gens[g].frozen = Captured(run[w].months)
      BY <1>6, <2>4, <3>1 DEF NoDrift
    <3>3. gens[g].frozen[m] = src[m]
      BY <1>1, <2>4, <3>2 DEF Captured, authority
    <3> QED
      BY <1>3, <1>6, <3>3
  <2>5. CASE /\ StartBuild(w) \/ WritePartition(w)
             /\ run'[w].job = run[w].job /\ run'[w].base = run[w].base /\ run'[w].months = run[w].months
    <3>1. run[w].pc \in {"start", "build"}
      BY Zenon, <2>5 DEF StartBuild, WritePartition
    <3> QED
      BY SMTT(60), <1>3, <1>6, <2>1, <2>5, <3>1
  <2> QED
    BY <2>2, <2>3, <2>4, <2>5, BuildersMove
<1> QED
  BY <1>3, <1>4, <1>5, <1>6

\* The bill of a month follows the rows that readers see of it.
LEMMA BilledSeenStep ==
  ASSUME PublicationInv, Undisputed, Whole, BillingInv, [Next]_vars,
         NEW m \in Months \ (Disputed \cup FeeWriters)
  PROVE  BilledAsSeen(m)'
<1> SUFFICES ASSUME gens'[Owner(m)'].job \in SettlementJobs
             PROVE  bill'[m].src = gens'[Owner(m)'].rows[m]
  BY DEF BilledAsSeen
<1>0. m \in Months /\ bill[m].status # "disputed"
  BY DEF Undisputed
<1>1. \/ bill'[m].src = bill[m].src
      \/ \E w \in Workers : Publish(w) /\ m \in run[w].months
  BY <1>0, BillsMove
<1>2. ASSUME NEW w \in Workers, Publish(w), m \in run[w].months
      PROVE  bill'[m].src = gens'[run[w].gen].rows[m]
  <2> DEFINE g == run[w].gen
             j == run[w].job
  <2>1. /\ run[w].pc = "publish" /\ NoDrift(w) /\ gens[g].state = "ready" /\ Billable(w, m)
        /\ bill' = Billed(w) /\ gens' = [gens EXCEPT ![g].state = "published"] /\ j \in SettlementJobs
    BY <1>2 DEF Publish
  <2>2. j \in Publishers
    BY <2>1 DEF SettlementJobs, Publishers
  <2>3. /\ g \in 1..Len(gens) /\ gens[g].job = j /\ gens[g].base = run[w].base
        /\ gens[g].months = run[w].months
    BY <2>1, <2>2, MineOK
  <2>4. gens'[g].rows = gens[g].rows
    BY <2>1, <2>3, AtHand, TurnKeeps DEF Same
  <2>5. bill'[m] = IF bill[m].status \notin Protected
                   THEN [src |-> gens[g].frozen[m], status |-> "pending"] ELSE bill[m]
    BY <1>0, <1>2, <2>1 DEF Billed
  <2>6. CASE bill[m].status \notin Protected
    <3>1. bill'[m].src = gens[g].frozen[m] /\ gens[g].frozen[m] = gens[g].rows[m]
      BY <2>1, <2>5, <2>6 DEF Billable
    <3> QED
      BY <2>4, <3>1
  <2>7. CASE bill[m].status \in Protected
    <3>1. g \in Identity(j, run[w].base, run[w].months)
      BY <2>3 DEF Identity
    <3>2. gens[g].frozen = Captured(run[w].months)
      BY <2>1, <3>1 DEF NoDrift
    <3>3. gens[g].frozen[m] = bill[m].src
      BY <1>0, <1>2, <2>7, <3>2 DEF Captured, authority
    <3>4. gens[g].part[m] # 0
      BY <1>2, <2>1, <2>2, <2>3 DEF Whole, WholeReady
    <3>5. \/ gens[g].rows[m] = gens[g].frozen[m]
          \/ gens[g].rows[m] = bill[m].src
      BY <1>2, <2>1, <2>3, <3>4 DEF BillingInv, RowsAsFrozen, Written
    <3> QED
      BY <2>4, <2>5, <2>7, <3>3, <3>5
  <2> QED
    BY <2>6, <2>7
<1>3. CASE Owner(m)' = Owner(m) /\ gens'[Owner(m)] = gens[Owner(m)]
  <2>1. bill[m].src = gens[Owner(m)].rows[m]
    BY <1>3 DEF BillingInv, BilledAsSeen
  <2>2. CASE bill'[m].src = bill[m].src
    BY <1>3, <2>1, <2>2
  <2>3. CASE bill'[m].src # bill[m].src
    <3>1. PICK w \in Workers : Publish(w) /\ m \in run[w].months
      BY <1>1, <2>3
    <3>2. Owner(m)' = run[w].gen
      BY <1>0, <3>1, PublishOwns
    <3> QED
      BY <1>2, <3>1, <3>2
  <2> QED
    BY <2>2, <2>3
<1>4. ASSUME NEW w \in Workers, Publish(w) \/ PublishFinalize(w), m \in run[w].months, Owner(m)' = run[w].gen
      PROVE  bill'[m].src = gens'[Owner(m)'].rows[m]
  <2>1. CASE Publish(w)
    BY <1>2, <1>4, <2>1
  <2>2. CASE PublishFinalize(w)
    <3>1. run[w].job \in Finalizers /\ run[w].pc = "publish" /\ gens' = [gens EXCEPT ![run[w].gen].state = "published"]
      BY <2>2 DEF PublishFinalize
    <3>2. run[w].gen \in 1..Len(gens) /\ gens[run[w].gen].job = run[w].job /\ gens \in Seq(Gens)
      BY <3>1, MineOK, AtHand DEF Publishers
    <3>3. gens'[run[w].gen].job = run[w].job
      <4>1. Alike(gens[run[w].gen], gens'[run[w].gen])
        BY <2>2, PublishTurns
      <4> QED
        BY <3>2, <4>1 DEF Alike
    <3> QED
      BY <1>4, <3>1, <3>3, PublicationAssumption
  <2> QED
    BY <1>4, <2>1, <2>2
<1> QED
  BY <1>0, <1>3, <1>4, OwnersMove

\* Every step keeps it.
LEMMA BillingStep ==
  ASSUME PublicationInv, ReviewInv, BillingInv, [Next]_vars
  PROVE  BillingInv'
<1>1. Undisputed /\ Whole /\ Started
  BY DEF ReviewInv, BillingInv
<1>2. Started'
  BY <1>1, StartedStep
<1>3. ASSUME NEW m \in Months \ (Disputed \cup FeeWriters)
      PROVE  RowsAsFrozen(m)' /\ FrozenAsNow(m)' /\ BilledAsSeen(m)'
  BY <1>1, RowsFrozenStep, FrozenNowStep, BilledSeenStep
<1> QED
  BY <1>2, <1>3 DEF BillingInv

\* In the beginning readers see the bootstrapped root.
LEMMA BillingInit ==
  ASSUME Init
  PROVE  BillingInv
<1>1. gens = <<Root>> /\ Root.job = NoOne /\ run = [w \in Workers |-> Idle] /\ Idle.job = NoOne
  BY DEF Init, Root, Idle
<1>2. NoOne \notin SettlementJobs
  BY PublicationAssumption DEF Jobs, Publishers, SettlementJobs
<1>3. \A g \in 1..Len(gens) : gens[g].job \notin SettlementJobs
  BY <1>1, <1>2
<1>4. \A w \in Workers : run[w].job \notin SettlementJobs
  BY <1>1, <1>2
<1>5. ASSUME NEW m \in Months PROVE BilledAsSeen(m)
  <2>1. PublicationInv
    BY PublicationInit
  <2>2. Owner(m) \in 1..Len(gens)
    <3>1. Sound(gens) /\ Len(gens) \in Nat /\ active \in 1..Len(gens) /\ gens[active].state = "published"
      BY <2>1, AtHand
    <3>2. Found(gens, active, m)
      BY <3>1, OwnerFound
    <3>3. resolve(gens, active, m) \in 1..active
      BY <3>2 DEF Found
    <3>4. Owner(m) \in 1..active
      BY <3>3 DEF Owner
    <3> QED
      BY <3>1, <3>4
  <2> QED
    BY <1>3, <2>2 DEF BilledAsSeen
<1> QED
  BY <1>3, <1>4, <1>5 DEF BillingInv, Started, RowsAsFrozen, FrozenAsNow

\* What is billed, as an invariant of the publication: in every month that nobody
\* disputes and whose fees only the slot writes (generate_pending_statements,
\* freeze_billing_sources).
THEOREM BillingInvariant == Spec => []BillingInv
<1>1. Init => BillingInv
  BY BillingInit
<1>2. PublicationInv /\ ReviewInv /\ BillingInv /\ [Next]_vars => BillingInv'
  BY BillingStep
<1> QED
  BY <1>1, <1>2, PublicationInvariant, ReviewInvariant, PTL DEF Spec

\* What readers see of a month that a rebuild published is what its store is billed,
\* through confirmations, locks, retries, crashes and lost leases, where fees change
\* under the slot and nobody disputes (generate_pending_statements).
THEOREM StoresAreBilledAsPublished ==
  ASSUME FeeWriters = {}, Disputed = {}
  PROVE  Spec => []BilledAsPublished
<1>1. BillingInv => BilledAsPublished
  BY DEF BillingInv, BilledAsSeen, BilledAsPublished
<1> QED
  BY <1>1, BillingInvariant, PTL
=============================================================================
