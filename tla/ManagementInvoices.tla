------------------------- MODULE ManagementInvoices -------------------------
(***************************************************************************)
(* Management invoices of one store.  Each month is invoiced by an import   *)
(* at its confirmed amount less the negative months carried forward to it;  *)
(* the applications of negative months are recorded, and those that belong  *)
(* to an invoice are reserved.  The invoice of a month and the applications *)
(* name statement versions: a new version starts again without an invoice.  *)
(***************************************************************************)
EXTENDS Statements, ImportBatches

CONSTANT MaxIssues   \* bound: invoice versions of one month

ASSUME ManagementAssumption == "management" \in Directions /\ MaxIssues \in Nat

VARIABLES
  minv,   \* current invoice_record of each month: [no, ver, amt]; no = 0: none
  app     \* current applications: [src, srcVer, tgt, tgtVer, inv, amt];
          \* inv is the number of the target's invoice version, 0: none yet

managementVars == <<minv, app>>

NoInvoice == [no |-> 0, ver |-> 0, amt |-> 0]

ManagementInit ==
  /\ minv = [m \in Months |-> NoInvoice]
  /\ app = {}

-----------------------------------------------------------------------------
(* _management_invoiceable_projection through a month, leaving out the     *)
(* invoices of the months in skip.                                         *)

\* Months whose current statement version has a current invoice.
Issued(through, skip) ==
  {m \in (1..through) \ skip : minv[m].no > 0 /\ minv[m].ver = stmt[m].ver}

\* Applications that belong to one of those invoices.
LockedApps(through, skip) ==
  {a \in app : a.tgt \in Issued(through, skip) /\ a.inv = minv[a.tgt].no}

SumOf(A) == SumFunctionOnSet([a \in A |-> a.amt], A)

\* What those invoices already took from this statement version.
Reserved(m, through, skip) ==
  SumOf({a \in LockedApps(through, skip) : a.src = m /\ a.srcVer = stmt[m].ver})

\* How an amount is met from a queue of remainders, earliest month first.
Before(queue, k) == SumFunctionOnSet(queue, {j \in Months : j < k})
Taken(queue, amount) ==
  [k \in Months |-> Min({queue[k], Max({0, amount - Before(queue, k)})})]

SumAll(f) == SumFunctionOnSet(f, Months)
Less(queue, taken) == [k \in Months |-> queue[k] - taken[k]]

NewApp(s, t, amount) == [src |-> s, srcVer |-> stmt[s].ver, tgt |-> t, tgtVer |-> stmt[t].ver,
                         inv |-> 0, amt |-> amount]

\* A positive month is met by the negative remainders before it.
MeetPositive(p, m, c) ==
  LET t == Taken(p.neg, c) IN
    [pos |-> [p.pos EXCEPT ![m] = c - SumAll(t)],
     neg |-> Less(p.neg, t),
     app |-> p.app \cup {NewApp(k, m, t[k]) : k \in {j \in Months : t[j] > 0}}]

\* A negative month reduces the positive remainders before it.
MeetNegative(p, m, c) ==
  LET t == Taken(p.pos, c) IN
    [pos |-> Less(p.pos, t),
     neg |-> [p.neg EXCEPT ![m] = c - SumAll(t)],
     app |-> p.app \cup {NewApp(m, k, t[k]) : k \in {j \in Months : t[j] > 0}}]

\* One month of the loop, from the remainders and applications of those before it.
ProjectMonth(p, m, through, skip) ==
  LET c == ConfirmedAmount(m, "management") IN
    IF ~Confirmed(m, "management") THEN p
    ELSE IF c > 0 /\ m \notin Issued(through, skip) THEN MeetPositive(p, m, c)
    ELSE IF c < 0 THEN MeetNegative(p, m, Max({-c - Reserved(m, through, skip), 0}))
    ELSE p

\* The loop over the months in order.
Projection(through, skip) ==
  LET upTo[m \in 0..through] ==
        IF m = 0 THEN [pos |-> [k \in Months |-> 0], neg |-> [k \in Months |-> 0],
                       app |-> LockedApps(through, skip)]
        ELSE ProjectMonth(upTo[m - 1], m, through, skip)
  IN  upTo[through]

-----------------------------------------------------------------------------

\* A new invoice version of month m, and
\* _synchronize_management_carryforward_applications: the current applications among
\* the months up to m become the projected ones, those to m linked to the invoice.
Issue(m, amount, projected) ==
  /\ minv' = [minv EXCEPT ![m] = [no |-> @.no + 1, ver |-> stmt[m].ver, amt |-> amount]]
  /\ app' = {a \in app : a.src > m \/ a.tgt > m} \cup
            {IF a.tgt = m /\ a.tgtVer = stmt[m].ver THEN [a EXCEPT !.inv = minv[m].no + 1] ELSE a :
               a \in projected.app}

ManagementSlot(m) == <<3, m>>

\* _append_management_amount_errors: confirmed, not invoiced, at the full remainder.
Acceptable(m, amount) ==
  /\ Confirmed(m, "management")
  /\ m \notin Issued(m, {})
  /\ amount > 0 /\ amount = Projection(m, {}).pos[m]

UploadManagement(m) ==
  LET amount == Projection(m, {}).pos[m] IN
    /\ Acceptable(m, amount)
    /\ Uploaded(ManagementSlot(m), [k \in {m} |-> [val |-> amount, at |-> minv[m].no]])
    /\ UNCHANGED <<stmtVars, managementVars>>

\* Mutant: the row is written as it was previewed.
StillAcceptable_previewed(b) == TRUE

\* _revalidate_finance_import_row
StillAcceptable(b) == \A m \in DOMAIN batch[b].rows : Acceptable(m, batch[b].rows[m].val)

\* _commit_management_factory_result_row, after the checks of the slot.
CommitManagement(b) ==
  LET m == batch[b].slot[2] IN
    /\ batch[b].slot[1] = 3
    /\ Ready(b) /\ Fresh(b) /\ StillAcceptable(b)
    /\ minv[m].no < MaxIssues
    /\ Issue(m, batch[b].rows[m].val, Projection(m, {}))
    /\ Committed(b, [k \in {m} |-> minv[m].no + 1])
    /\ UNCHANGED stmtVars

\* An import of this type is never reversed: what it writes is a deduction
\* (_finance_import_reversal_protection).
ConflictManagement(b) ==
  batch[b].slot[1] = 3 /\ Conflict(b) /\ UNCHANGED <<stmtVars, managementVars>>

\* correct_management_invoice: at the amount projected without the invoice itself,
\* which must be positive; none is projected for a superseded statement version.
CorrectManagement(m) ==
  LET projected == Projection(m, {m}) IN
    /\ minv[m].no \in 1..(MaxIssues - 1)
    /\ minv[m].ver = stmt[m].ver
    /\ projected.pos[m] > 0
    /\ Issue(m, projected.pos[m], projected)
    /\ UNCHANGED <<stmtVars, batch>>

ManagementNext ==
  \/ \E m \in Months : UploadManagement(m) \/ CorrectManagement(m)
  \/ \E b \in 1..Len(batch) : CommitManagement(b) \/ ConflictManagement(b)

\* Management invoices by themselves: statements of any month and direction are
\* confirmed and disputed meanwhile.
ManagementStep ==
  \/ ManagementNext
  \/ (\E d \in Directions : StatementsNext(Months, d, Disputes)) /\ UNCHANGED <<batch, managementVars>>
ManagementSpec ==
  /\ StatementsInit /\ batch = <<>> /\ ManagementInit
  /\ [][ManagementStep]_<<stmtVars, batch, managementVars>>

-----------------------------------------------------------------------------
(* Properties                                                              *)

ManagementOK ==
  /\ \A m \in Months : /\ minv[m].no \in 0..MaxIssues
                       /\ minv[m].ver \in 0..stmt[m].ver /\ minv[m].amt \in Nat
  /\ \A a \in app : a.src \in Months /\ a.tgt \in Months /\ a.amt > 0 /\ a.inv \in 0..MaxIssues

\* An invoice on the current statement version and the negative amounts recorded for
\* it add up to what the store confirmed, whatever was invoiced, corrected or
\* disputed in other months since (_commit_management_factory_result_row,
\* _synchronize_management_carryforward_applications).
InvoiceBalances ==
  \A m \in Issued(MaxMonth, {}) :
    /\ Confirmed(m, "management")
    /\ minv[m].amt + SumOf({a \in LockedApps(MaxMonth, {}) : a.tgt = m})
         = ConfirmedAmount(m, "management")

\* One negative statement is not deducted for more than it is worth: "negative
\* periods then offset the earliest still-uninvoiced positive balance, while any
\* remainder is carried to future positive periods" (_management_invoiceable_projection).
NegativeAppliedOnce ==
  \A m \in Months : Confirmed(m, "management") =>
    Reserved(m, MaxMonth, {}) <= Max({0, -ConfirmedAmount(m, "management")})
=============================================================================
