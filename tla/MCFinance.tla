------------------------------ MODULE MCFinance ------------------------------
(***************************************************************************)
(* The finance desk for TLC.  The parts share the statements and the        *)
(* protocol of the import batches; an import never reads the statements of  *)
(* another direction, so each behaviour exercises one part, chosen at first: *)
(*   disputed    promotion invoices under disputes that change statements   *)
(*   judged      promotion invoices and imports of the factory's results    *)
(*   carried     management invoices, negative months carried forward       *)
(*   coded       SAP codes: imports, corrections and bills of one store     *)
(*   imported    SAP codes: imports that name several stores                *)
(***************************************************************************)
EXTENDS PromotionInvoices, ManagementInvoices, SapProfiles

CONSTANT Parts

VARIABLE part

allVars == <<part, stmtVars, batch, inv, managementVars, sapVars>>

MCAdjustments == {-2, 1}
MCSlots == ProfileSlots \cup {FactorySlot(m) : m \in Months} \cup {ManagementSlot(m) : m \in Months}

\* A refunded month before a positive one, or two positive months; a dispute turns
\* the small first month negative.
Nets(a, b, c) == [m \in Months |-> [d \in Directions |-> <<a, b, c>>[m]]]
MCBaseNets == {Nets(-1, 2, 2), Nets(1, 1, 1), Nets(1, 2, 2)}

Init ==
  /\ part \in Parts
  /\ StatementsInit
  /\ part = "carried" => base = Nets(1, 2, 2)
  /\ part \in {"disputed", "judged"} => base # Nets(1, 2, 2)
  /\ part \in {"coded", "imported"} => base = Nets(1, 1, 1)
  /\ batch = <<>>
  /\ PromotionInit /\ ManagementInit /\ SapInit

\* The first two months are enough for promotion invoices: one invoice over both.
Promotion ==
  /\ \/ part = "disputed" /\ InvoiceRequests
     \/ part = "disputed" /\ StatementsNext({1, 2}, "promotion", Disputes) /\ UNCHANGED <<batch, inv>>
     \/ part = "judged" /\ (InvoiceRequests \/ FactoryResults)
     \/ part = "judged" /\ (\E m \in {1, 2} : ConfirmStatement(m, "promotion")) /\ UNCHANGED <<batch, inv>>
  /\ UNCHANGED <<managementVars, sapVars>>

Management ==
  /\ part = "carried"
  /\ \/ ManagementNext
     \/ StatementsNext(Months, "management", {"x"}) /\ UNCHANGED <<batch, managementVars>>
  /\ UNCHANGED <<inv, sapVars>>

Profiles ==
  /\ \/ part = "coded" /\ (\/ ProfileImports({"s1"}, Codes)
                           \/ ProfileReadsAndEdits({"s1"}, {2}))
     \/ part = "imported" /\ ProfileImports(Stores, {1})
  /\ UNCHANGED <<stmtVars, inv, managementVars>>

Next == part' = part /\ (Promotion \/ Management \/ Profiles)

Spec == Init /\ [][Next]_allVars

\* Every variable of the desk has its type; an invoice is current until it is
\* terminated (PromotionInvoice.is_current, PromotionInvoiceLifecycleEvent).
DeskOK ==
  /\ BatchesOK /\ StatementsOK /\ InvoicesOK /\ ManagementOK /\ ProfilesOK
=============================================================================
