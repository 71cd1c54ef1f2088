--------------------------- MODULE SettlementView ---------------------------
(***************************************************************************)
(* What the settlement publication promises its readers: every month shows *)
(* one version of its figures, a publication replaces the months of one    *)
(* job together and at most once, and nothing else changes what readers    *)
(* see.                                                                    *)
(***************************************************************************)
EXTENDS Naturals

CONSTANTS
  Months,     \* the business months
  Versions,   \* the versions of a month's fee results
  Jobs,       \* the jobs that publish
  Scope       \* the months each job may change

VARIABLES
  view,       \* the version of each month that readers are served
  published   \* the jobs whose publication has been recorded

Init ==
  /\ view = [m \in Months |-> 0]
  /\ published = {}

\* Job j replaces its months, all of them at one moment, and never again.
Publish(j) ==
  /\ j \notin published
  /\ \E shown \in [Months -> Versions] :
       /\ \A m \in Months \ Scope[j] : shown[m] = view[m]
       /\ view' = shown
  /\ published' = published \cup {j}

Next == \E j \in Jobs : Publish(j)

Spec == Init /\ [][Next]_<<view, published>>
=============================================================================
