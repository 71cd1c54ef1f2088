----------------------------- MODULE Statements -----------------------------
(***************************************************************************)
(* The monthly statements of one store with their confirmations and        *)
(* disputes.  A statement has one net amount per fee direction; a store     *)
(* confirms each direction on its own; an accepted dispute supersedes the   *)
(* statement by a version with the adjusted amount.  All requests lock the  *)
(* current statement of the month, so each is one step.                     *)
(***************************************************************************)
EXTENDS Integers, FiniteSets, FiniteSetsExt

CONSTANTS
  MaxMonth,      \* statement months are 1..MaxMonth
  Directions,    \* subset of {"promotion", "management"}
  BaseNets,      \* possible amounts of the first versions
  Disputes,      \* identities of disputes
  DisputeAmount, \* the amount a dispute freezes
  Adjustments    \* amounts an accepted dispute may adjust by

Months == 1..MaxMonth

ASSUME StatementsAssumption ==
  /\ MaxMonth \in Nat \ {0}
  /\ Directions \subseteq {"promotion", "management"}
  /\ BaseNets \subseteq [Months -> [Directions -> Int]]
  /\ IsFiniteSet(Disputes)
  /\ DisputeAmount \in Nat \ {0}
  /\ Adjustments \subseteq Int \ {0}

VARIABLES
  base,   \* the amounts of the first versions
  stmt,   \* current statement of each month: [ver, net, conf], where
          \* conf holds the confirmed amount of a direction, if any
  disp    \* settlement_dispute: [st, m, ver, dir, adj]

stmtVars == <<base, stmt, disp>>

OpenStatus == {"pending", "in_review", "approval"}
NoDispute == [st |-> "none", m |-> 1, ver |-> 0, dir |-> "promotion", adj |-> 0]
Unconfirmed == [d \in Directions |-> {}]

StatementsInit ==
  /\ base \in BaseNets
  /\ stmt = [m \in Months |-> [ver |-> 1, net |-> base[m], conf |-> Unconfirmed]]
  /\ disp = [x \in Disputes |-> NoDispute]

\* The sum of the open disputes of this very statement version.
Frozen(m, d) ==
  DisputeAmount * Cardinality({x \in Disputes :
    /\ disp[x].st \in OpenStatus
    /\ disp[x].m = m /\ disp[x].ver = stmt[m].ver /\ disp[x].dir = d})

\* _statement_confirmable_amounts
Confirmable(m, d) ==
  LET rest == stmt[m].net[d] - Frozen(m, d)
  IN  IF d = "promotion" THEN rest ELSE Max({rest, 0})

Confirmed(m, d) == stmt[m].conf[d] # {}
ConfirmedAmount(m, d) == CHOOSE a \in stmt[m].conf[d] : TRUE

\* confirm_store_settlement: once per version and direction, at the whole amount.
ConfirmStatement(m, d) ==
  /\ ~Confirmed(m, d)
  /\ stmt' = [stmt EXCEPT ![m].conf[d] = {Confirmable(m, d)}]
  /\ UNCHANGED <<base, disp>>

\* create_store_settlement_dispute, and its administrative twin
\* create_admin_dispute_detection: on the current version.
OpenDispute(x, m, d) ==
  /\ disp[x].st = "none"
  /\ disp' = [disp EXCEPT ![x] = [st |-> "pending", m |-> m, ver |-> stmt[m].ver,
                                  dir |-> d, adj |-> 0]]
  /\ UNCHANGED <<base, stmt>>

\* withdraw_store_settlement_dispute: from every other status; an adjustment that
\* was accepted stays.
WithdrawDispute(x) ==
  /\ disp[x].st \notin {"none", "withdrawn"}
  /\ disp' = [disp EXCEPT ![x].st = "withdrawn"]
  /\ UNCHANGED <<base, stmt>>

\* DISPUTE_TRANSITIONS
Transitions == [pending |-> {"in_review", "accepted", "rejected"},
                in_review |-> {"approval", "rejected"},
                approval |-> {"accepted", "rejected"}]

\* transition_admin_dispute without an adjustment.
MoveDispute(x, to) ==
  /\ disp[x].st \in OpenStatus
  /\ to \in Transitions[disp[x].st] \ {"accepted"}
  /\ disp' = [disp EXCEPT ![x].st = to]
  /\ UNCHANGED <<base, stmt>>

\* Mutant: the adjusted version is computed from the first one.
Adjusted_first(m, d, adj) == [base[m] EXCEPT ![d] = @ + adj]

\* The amounts of the next version: the current ones and the adjustment.
Adjusted(m, d, adj) == [stmt[m].net EXCEPT ![d] = @ + adj]

\* _create_dispute_statement_version: no confirmation is carried over; after the
\* sixth of a month the disputed direction is confirmed at its new amount.
AcceptDispute(x, adj, afterSixth) ==
  LET m == disp[x].m
      d == disp[x].dir
      net == Adjusted(m, d, adj)
  IN
    /\ disp[x].st \in OpenStatus
    /\ "accepted" \in Transitions[disp[x].st]
    /\ stmt' = [stmt EXCEPT ![m] =
         [ver |-> @.ver + 1, net |-> net,
          conf |-> IF afterSixth THEN [Unconfirmed EXCEPT ![d] = {net[d]}] ELSE Unconfirmed]]
    /\ disp' = [disp EXCEPT ![x].st = "accepted", ![x].adj = adj]
    /\ UNCHANGED base

\* Requests about one direction of the months M and the disputes X.
StatementsNext(M, d, X) ==
  \/ \E m \in M : ConfirmStatement(m, d)
  \/ \E x \in X :
       \/ \E m \in M : OpenDispute(x, m, d)
       \/ WithdrawDispute(x)
       \/ \E to \in {"in_review", "approval", "rejected"} : MoveDispute(x, to)
       \/ \E adj \in Adjustments, late \in BOOLEAN : AcceptDispute(x, adj, late)

\* The statements by themselves, in both directions.
StatementsSpec == StatementsInit /\ [][\E d \in Directions : StatementsNext(Months, d, Disputes)]_stmtVars

StatementsOK ==
  /\ \A m \in Months :
       /\ stmt[m].ver \in 1..(Cardinality(Disputes) + 1)
       /\ \A d \in Directions : /\ stmt[m].net[d] \in Int
                                /\ Cardinality(stmt[m].conf[d]) \leq 1
  /\ \A x \in Disputes : disp[x].st \in OpenStatus \cup {"none", "accepted", "rejected", "withdrawn"}

\* No adjustment is lost or applied twice: the current amount of a month is the
\* first one and the adjustments of every dispute that was ever accepted, whichever
\* version it was raised on and whether or not it was withdrawn later
\* (_create_dispute_statement_version, withdraw_store_settlement_dispute).
LedgerBalance ==
  \A m \in Months, d \in Directions :
    stmt[m].net[d] = base[m][d] +
      SumFunctionOnSet([x \in Disputes |-> disp[x].adj], {x \in Disputes : disp[x].m = m /\ disp[x].dir = d})
=============================================================================
