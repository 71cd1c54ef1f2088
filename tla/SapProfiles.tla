----------------------------- MODULE SapProfiles -----------------------------
(***************************************************************************)
(* The SAP codes of the stores: the chain of finance profiles that imports, *)
(* their reversals and single corrections append to, and the bills that     *)
(* take a snapshot of it.  A version is named by its position in the chain.  *)
(***************************************************************************)
EXTENDS ImportBatches, SequencesExt

CONSTANTS
  Stores,
  Codes,       \* SAP codes
  MaxProfiles  \* bound: versions of one chain

ASSUME ProfilesAssumption == MaxProfiles \in Nat

VARIABLES
  fin,      \* store_finance_profile versions (type 1) of a store: [sap, tomb]
  bill      \* the first bill of a store: [pc, profile]

ProfileSlots == {<<1, 0>>, <<4, 0>>}   \* basic information, SAP confirmation

sapVars == <<fin, bill>>

SapInit ==
  /\ fin = [s \in Stores |-> <<>>]
  /\ bill = [s \in Stores |-> [pc |-> "none", profile |-> 0]]

-----------------------------------------------------------------------------
(* Imports of basic information and of SAP confirmations.                  *)

\* Some batch of the slot wrote the same rows and all its versions are current
\* (_finance_import_batch_targets_current).
Unchanged(slot, rows) ==
  \E b \in 1..Len(batch) :
    /\ batch[b].slot = slot /\ batch[b].status = "committed"
    /\ [s \in DOMAIN batch[b].rows |-> batch[b].rows[s].val] = rows
    /\ \A s \in DOMAIN rows : batch[b].made[s] = Len(fin[s]) /\ ~Last(fin[s]).tomb

\* The preview keeps the current version of every row's store.
UploadProfiles(slot, rows) ==
  /\ ~Unchanged(slot, rows)
  /\ Uploaded(slot, [s \in DOMAIN rows |-> [val |-> rows[s], at |-> Len(fin[s])]])
  /\ UNCHANGED sapVars

\* Mutant: one row's preview is compared.
PreviewCurrent_some(b) ==
  \E s \in DOMAIN batch[b].rows : batch[b].rows[s].at = Len(fin[s])

\* Every row's preview still shows the current version (_previewProfileId).
PreviewCurrent(b) ==
  \A s \in DOMAIN batch[b].rows : batch[b].rows[s].at = Len(fin[s])

\* All rows are written or none (_commit_store_finance_profile_row).
CommitProfiles(b) ==
  LET rows == batch[b].rows IN
    /\ batch[b].slot \in ProfileSlots
    /\ Ready(b) /\ Fresh(b)
    /\ PreviewCurrent(b)
    /\ \A s \in DOMAIN rows : Len(fin[s]) < MaxProfiles
    /\ fin' = [s \in Stores |->
                 IF s \in DOMAIN rows
                 THEN Append(fin[s], [sap |-> rows[s].val, tomb |-> FALSE]) ELSE fin[s]]
    /\ Committed(b, [s \in DOMAIN rows |-> Len(fin[s]) + 1])
    /\ UNCHANGED bill

ConflictProfiles(b) ==
  batch[b].slot \in ProfileSlots /\ Conflict(b) /\ UNCHANGED sapVars

\* Statements whose snapshot names version v of store s; a transaction that has
\* not committed its statement is not seen (_finance_import_reversal_protection).
Consumed(s, v) == bill[s].pc = "taken" /\ bill[s].profile = v

\* Mutant: the reversal restores the version it reverses.
Restored_itself(s, v) == [fin[s][v] EXCEPT !.tomb = v = 1]

\* _append_profile_reversal_version: the version below, or a tombstone.
Restored(s, v) ==
  IF v = 1 THEN [sap |-> fin[s][1].sap, tomb |-> TRUE] ELSE fin[s][v - 1]

\* reverse_finance_import: every version the batch made is still the current one
\* and nothing consumed it.
ReverseProfiles(b) ==
  LET made == batch[b].made IN
    /\ batch[b].slot \in ProfileSlots /\ Reversible(b)
    /\ \A s \in DOMAIN made : /\ made[s] = Len(fin[s]) /\ ~Consumed(s, made[s])
                              /\ Len(fin[s]) < MaxProfiles
    /\ fin' = [s \in Stores |-> IF s \in DOMAIN made
                                THEN Append(fin[s], Restored(s, made[s])) ELSE fin[s]]
    /\ Reversal(b, [s \in DOMAIN made |-> Len(fin[s]) + 1])
    /\ UNCHANGED bill

\* correct_admin_finance_store_sap: on the version its author read.
CorrectSap(s, code) ==
  /\ Len(fin[s]) < MaxProfiles
  /\ fin' = [fin EXCEPT ![s] = Append(@, [sap |-> code, tomb |-> FALSE])]
  /\ UNCHANGED <<batch, bill>>

-----------------------------------------------------------------------------
(* The first bill of a store copies the profile (generate_pending_         *)
(* statements); it is visible to other transactions when it commits.       *)

BillReads(s) ==
  /\ bill[s].pc = "none"
  /\ bill' = [bill EXCEPT ![s] =
       [pc |-> "reading",
        profile |-> IF fin[s] = <<>> \/ Last(fin[s]).tomb THEN 0 ELSE Len(fin[s])]]
  /\ UNCHANGED <<batch, fin>>

BillCommits(s) ==
  /\ bill[s].pc = "reading"
  /\ bill' = [bill EXCEPT ![s].pc = "taken"]
  /\ UNCHANGED <<batch, fin>>

BillRollsBack(s) ==
  /\ bill[s].pc = "reading"
  /\ bill' = [bill EXCEPT ![s] = [pc |-> "none", profile |-> 0]]
  /\ UNCHANGED <<batch, fin>>

\* Imports that name some of the stores S, with codes of C.
ProfileImports(S, C) ==
  \/ \E slot \in ProfileSlots, T \in (SUBSET S) \ {{}} : \E rows \in [T -> C] : UploadProfiles(slot, rows)
  \/ \E b \in 1..Len(batch) : CommitProfiles(b) \/ ConflictProfiles(b) \/ ReverseProfiles(b)

ProfileReadsAndEdits(S, C) ==
  \E s \in S : \/ \E c \in C : CorrectSap(s, c)
               \/ BillReads(s) \/ BillCommits(s) \/ BillRollsBack(s)

\* The profiles by themselves, over all stores and codes.
ProfilesNext == ProfileImports(Stores, Codes) \/ ProfileReadsAndEdits(Stores, Codes)
ProfilesSpec == SapInit /\ batch = <<>> /\ [][ProfilesNext]_<<batch, sapVars>>

-----------------------------------------------------------------------------
(* Properties                                                              *)

ProfilesOK ==
  \A s \in Stores :
    /\ Len(fin[s]) <= MaxProfiles
    /\ \A v \in 1..Len(fin[s]) : fin[s][v] \in [sap : Codes, tomb : BOOLEAN]
    /\ bill[s].pc \in {"none", "reading", "taken"}

\* Every row of a committed batch was written on the very version its preview
\* showed, whoever else wrote to the store meanwhile: a batch of the other import
\* type, a reversal or a correction (_commit_store_finance_profile_row).
WrittenAsPreviewed ==
  \A b \in 1..Len(batch) : batch[b].slot \in ProfileSlots /\ batch[b].status = "committed" =>
    \A s \in DOMAIN batch[b].rows :
      /\ batch[b].made[s] = batch[b].rows[s].at + 1
      /\ fin[s][batch[b].made[s]] = [sap |-> batch[b].rows[s].val, tomb |-> FALSE]

\* A reversal undoes exactly its batch: every store of the batch gets back what
\* the preview of that batch had shown, or a tombstone if there was nothing, and
\* no store is reversed twice (_append_profile_reversal_version).
ReversalRestores ==
  \A r \in 1..Len(batch) : batch[r].slot \in ProfileSlots /\ batch[r].status = "reversal" =>
    LET b == batch[r].reverses IN
      /\ \A s \in DOMAIN batch[b].rows :
           LET before == batch[b].rows[s].at
               now == fin[s][batch[r].made[s]]
           IN  IF before = 0 THEN now.tomb ELSE now = fin[s][before]
      /\ \A q \in 1..Len(batch) : batch[q].reverses = b => q = r
=============================================================================
