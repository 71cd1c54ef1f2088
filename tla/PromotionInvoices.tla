-------------------------- MODULE PromotionInvoices --------------------------
(***************************************************************************)
(* Promotion invoices of one store: registered over every invoiceable month *)
(* at once, judged by the factory through imports, terminated (voided or    *)
(* red-flushed) and replaced.  A physical invoice has one number for life   *)
(* and a chain of versions; only a live one has a current version, and only *)
(* its current version holds the months it allocates.                       *)
(***************************************************************************)
EXTENDS Statements, ImportBatches, SequencesExt

CONSTANT MaxInvoices   \* bound: physical invoices

ASSUME PromotionAssumption == "promotion" \in Directions

VARIABLE inv           \* physical invoices: [alloc, chain, live, term, src]

PromotionInit == inv = <<>>

Invoices == 1..Len(inv)
Status(i) == Last(inv[i].chain)

\* Mutant: a rejected invoice gives its months free.
Occupied_effective(m) ==
  \E i \in Invoices : inv[i].live /\ m \in DOMAIN inv[i].alloc /\ Status(i) # "rejected"

\* The month has a current allocation (PROMOTION_INVOICE_PERIOD_OCCUPIED).
Occupied(m) == \E i \in Invoices : inv[i].live /\ m \in DOMAIN inv[i].alloc

\* effective_period_allocation_exists: an issued or settled invoice.
Invoiced(m) ==
  \E i \in Invoices : /\ inv[i].live /\ m \in DOMAIN inv[i].alloc
                      /\ Status(i) \in {"issued", "settled"}

-----------------------------------------------------------------------------
(* Which months the next invoice covers.                                   *)

Amount(m) == ConfirmedAmount(m, "promotion")
AmountOf(S) == MapThenSumSet(Amount, S)
Candidates == {m \in Months : Confirmed(m, "promotion") /\ ~Invoiced(m)}
Positives == {m \in Candidates : Amount(m) > 0}
Negatives == {m \in Candidates : Amount(m) < 0}

\* The group has a positive balance.
Closes(g) == AmountOf(g) > 0

\* _promotion_invoice_carryforward_projection: all negative months wait for the
\* earliest positive ones that outweigh them; the other positive months stand alone.
InvoiceableGroups ==
  LET upTo(k) == Negatives \cup {m \in Positives : m <= k}
      closing == {k \in Positives : Closes(upTo(k))}
  IN  IF Negatives = {} THEN {{m} : m \in Positives}
      ELSE IF closing = {} THEN {}
      ELSE {upTo(Min(closing))} \cup {{m} : m \in {p \in Positives : p > Min(closing)}}

\* One invoice takes all of them (PROMOTION_INVOICE_SELECTION_INCOMPLETE).
Selection == UNION InvoiceableGroups

-----------------------------------------------------------------------------
(* Registration, termination and replacement.                              *)

HasSuccessor(i) == \E j \in Invoices : i \in inv[j].src

\* Open terminations over a selected statement version, not yet replaced.
RequiredSources ==
  {i \in Invoices : /\ inv[i].term = "open" /\ ~HasSuccessor(i)
                    /\ \E m \in DOMAIN inv[i].alloc \cap Selection :
                         inv[i].alloc[m].ver = stmt[m].ver}

\* Mutant: a replacement may leave out months of the invoice it replaces.
Replaceable_partly(i) == inv[i].term = "open" /\ ~HasSuccessor(i)

\* A source has an open termination, no successor, and all its months are selected.
Replaceable(i) ==
  inv[i].term = "open" /\ ~HasSuccessor(i) /\ DOMAIN inv[i].alloc \subseteq Selection

\* register_promotion_invoice: p is the invoice the client says it replaces, or 0.
RegisterInvoice(p) ==
  LET sources == IF RequiredSources # {} THEN RequiredSources ELSE {p} \ {0} IN
    /\ Len(inv) < MaxInvoices
    /\ Selection # {}
    /\ \A m \in Selection : ~Occupied(m)
    /\ RequiredSources # {} => p \in RequiredSources
    /\ \A i \in sources : Replaceable(i)
    /\ inv' = Append([i \in Invoices |->
                        IF i \in sources THEN [inv[i] EXCEPT !.term = "closed"] ELSE inv[i]],
                     [alloc |-> [m \in Selection |-> [ver |-> stmt[m].ver, amt |-> Amount(m)]],
                      chain |-> <<"issued">>, live |-> TRUE, term |-> "none", src |-> sources])
    /\ UNCHANGED <<stmtVars, batch>>

\* Mutant: the invoice stays current.
TerminateInvoice_current(i) ==
  /\ inv[i].live /\ inv[i].term # "open"
  /\ inv' = [inv EXCEPT ![i].term = "open"]
  /\ UNCHANGED <<stmtVars, batch>>

\* create_promotion_invoice_lifecycle_event: void or red-flush, whatever the status.
TerminateInvoice(i) ==
  /\ inv[i].live /\ inv[i].term # "open"
  /\ inv' = [inv EXCEPT ![i].live = FALSE, ![i].term = "open"]
  /\ UNCHANGED <<stmtVars, batch>>

-----------------------------------------------------------------------------
(* Results of the factory: imports of type 2, one slot per month; an       *)
(* invoice over several months can be reached through several slots.       *)

FactorySlot(m) == <<2, m>>

\* _validate_final_finance_import_row: a live invoice of the month; a settled one
\* is not taken back.
AcceptsResult(m, i, result) ==
  /\ inv[i].live /\ m \in DOMAIN inv[i].alloc
  /\ Status(i) = "settled" => result = "settled"

SameResult(m, i, result) ==
  \E b \in 1..Len(batch) :
    /\ batch[b].slot = FactorySlot(m) /\ batch[b].status = "committed"
    /\ i \in DOMAIN batch[b].rows /\ batch[b].rows[i].val = result
    /\ inv[i].live /\ batch[b].made[i] = Len(inv[i].chain)

UploadResult(m, i, result) ==
  /\ AcceptsResult(m, i, result) /\ ~SameResult(m, i, result)
  /\ Uploaded(FactorySlot(m), [k \in {i} |-> [val |-> result, at |-> Len(inv[i].chain)]])
  /\ UNCHANGED <<stmtVars, inv>>

\* IMPORT_PREVIEW_STALE
PreviewedVersion(b, i) == batch[b].rows[i].at = Len(inv[i].chain)

\* _commit_promotion_factory_result_row, after the checks of the slot.
CommitResult(b) ==
  /\ Ready(b) /\ Fresh(b)
  /\ batch[b].slot[1] = 2
  /\ \A i \in DOMAIN batch[b].rows :
       PreviewedVersion(b, i) /\ AcceptsResult(batch[b].slot[2], i, batch[b].rows[i].val)
  /\ inv' = [i \in Invoices |->
               IF i \in DOMAIN batch[b].rows
               THEN [inv[i] EXCEPT !.chain = Append(@, batch[b].rows[i].val)] ELSE inv[i]]
  /\ Committed(b, [i \in DOMAIN batch[b].rows |-> Len(inv[i].chain) + 1])
  /\ UNCHANGED stmtVars

ConflictResult(b) ==
  batch[b].slot[1] = 2 /\ Conflict(b) /\ UNCHANGED <<stmtVars, inv>>

\* Mutant: only later events protect a result.
Unprotected_settled(i) == inv[i].term = "none" /\ ~HasSuccessor(i)

\* _finance_import_reversal_protection: not settled, never terminated or replaced.
Unprotected(i) == Status(i) # "settled" /\ inv[i].term = "none" /\ ~HasSuccessor(i)

\* reverse_finance_import, _append_promotion_reversal_version: the version made is
\* still current; the one before it comes back as the next version.
ReverseResult(b) ==
  LET made == batch[b].made IN
    /\ batch[b].slot[1] = 2 /\ Reversible(b)
    /\ \A i \in DOMAIN made :
         inv[i].live /\ made[i] = Len(inv[i].chain) /\ Unprotected(i)
    /\ inv' = [i \in Invoices |->
                 IF i \in DOMAIN made
                 THEN [inv[i] EXCEPT !.chain = Append(@, @[made[i] - 1])] ELSE inv[i]]
    /\ Reversal(b, [i \in DOMAIN made |-> Len(inv[i].chain) + 1])
    /\ UNCHANGED stmtVars

InvoiceRequests ==
  \/ \E p \in 0..Len(inv) : RegisterInvoice(p)
  \/ \E i \in Invoices : TerminateInvoice(i)

FactoryResults ==
  \/ \E i \in Invoices, m \in Months, r \in {"settled", "rejected"} : UploadResult(m, i, r)
  \/ \E b \in 1..Len(batch) : CommitResult(b) \/ ConflictResult(b) \/ ReverseResult(b)

\* Promotion invoices by themselves: statements of any month and direction are
\* confirmed and disputed meanwhile.
PromotionNext ==
  \/ InvoiceRequests \/ FactoryResults
  \/ (\E d \in Directions : StatementsNext(Months, d, Disputes)) /\ UNCHANGED <<batch, inv>>
PromotionSpec ==
  /\ StatementsInit /\ batch = <<>> /\ PromotionInit
  /\ [][PromotionNext]_<<stmtVars, batch, inv>>

-----------------------------------------------------------------------------
(* Properties                                                              *)

InvoicesOK ==
  \A i \in Invoices :
    /\ DOMAIN inv[i].alloc \subseteq Months
    /\ \A v \in 1..Len(inv[i].chain) : inv[i].chain[v] \in {"issued", "settled", "rejected"}
    /\ inv[i].term \in {"none", "open", "closed"}
    /\ inv[i].live = (inv[i].term = "none")
    /\ inv[i].src \subseteq 1..(i - 1)

\* A month is on at most one invoice that can still be settled, through rejections,
\* reversals of rejections, terminations and replacements
\* (register_promotion_invoice, _append_promotion_reversal_version).
PeriodInvoicedOnce ==
  \A m \in Months : Cardinality({i \in Invoices : inv[i].live /\ m \in DOMAIN inv[i].alloc}) <= 1

\* A terminated invoice has at most one replacement, and that one covers every month
\* it had released (PROMOTION_INVOICE_REPLACEMENT_PERIOD_MISMATCH, and
\* "不能形成分叉链" in register_promotion_invoice).
ReplacementChain ==
  /\ \A i, j, k \in Invoices : i \in inv[j].src /\ i \in inv[k].src => j = k
  /\ \A j \in Invoices : \A i \in inv[j].src :
       inv[i].term = "closed" /\ DOMAIN inv[i].alloc \subseteq DOMAIN inv[j].alloc

\* A settled invoice stays settled: no later result, no preview made before the
\* settlement in the slot of another month and no reversal takes it back
\* (_validate_final_finance_import_row, _finance_import_reversal_protection).
SettledNeverUndone ==
  [][\A i \in Invoices : Status(i) = "settled" => Last(inv'[i].chain) = "settled"]_<<stmtVars, batch, inv>>
=============================================================================
