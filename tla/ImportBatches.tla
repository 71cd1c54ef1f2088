---------------------------- MODULE ImportBatches ----------------------------
(***************************************************************************)
(* Batches of finance imports: an upload is validated and previewed, later *)
(* committed against the version of its slot (import type and month) that  *)
(* it was previewed on, and may be reversed by a batch of its own.  What a *)
(* row writes is the business of the modules that extend this one: a row   *)
(* names a target, the value to write and the version of the target that   *)
(* the preview showed; a committed batch remembers the versions it made.   *)
(***************************************************************************)
EXTENDS Integers, Sequences, FiniteSets, FiniteSetsExt

CONSTANTS
  Slots,        \* pairs of import type and statement month
  MaxBatches    \* bound: rows of finance_import_batch

ASSUME BatchesAssumption == MaxBatches \in Nat

VARIABLE
  batch         \* finance_import_batch, in the order of creation

NoRows == [k \in {} |-> 0]

\* Batches that count as versions of their slot: committed or submitted as a
\* correction (status 5 and 8, which every reader treats alike), and reversals (9).
Effective == {"committed", "reversal"}

\* The greatest version of the effective batches of a slot.
SlotVersion(slot) ==
  Max({0} \cup {batch[b].cur : b \in {c \in 1..Len(batch) :
        batch[c].slot = slot /\ batch[c].status \in Effective}})

\* create_finance_import.  A file with errors, or whose content is still what the
\* slot holds, leaves a batch that nothing reads again: only those that may be
\* committed are kept.
Uploaded(slot, rows) ==
  /\ Len(batch) < MaxBatches
  /\ batch' = Append(batch,
       [slot |-> slot, read |-> SlotVersion(slot), cur |-> SlotVersion(slot),
        rows |-> rows, made |-> NoRows, reverses |-> 0, status |-> "ready"])

Ready(b) == batch[b].status = "ready"

\* The slot has not moved on since the upload.
Fresh(b) == SlotVersion(batch[b].slot) = batch[b].read

\* The end of _execute_finance_import_commit, under the lock of the slot.
Committed(b, made) ==
  batch' = [batch EXCEPT ![b].status = "committed",
                         ![b].cur = SlotVersion(batch[b].slot) + 1,
                         ![b].made = made]

\* _execute_finance_import_commit when the client sends another version than the
\* batch was read at, or the slot has moved on: the batch is spent.
Conflict(b) ==
  /\ Ready(b)
  /\ \E clientRead \in 0..MaxBatches : clientRead # batch[b].read \/ ~Fresh(b)
  /\ batch' = [batch EXCEPT ![b].status = "conflict", ![b].cur = SlotVersion(batch[b].slot)]

\* The guards of reverse_finance_import on the batch itself.
Reversible(b) ==
  batch[b].status = "committed" /\ ~\E r \in 1..Len(batch) : batch[r].reverses = b

\* The batch that reverse_finance_import appends.
Reversal(b, made) ==
  /\ Len(batch) < MaxBatches
  /\ batch' = Append(batch,
       [slot |-> batch[b].slot, read |-> batch[b].cur,
        cur |-> SlotVersion(batch[b].slot) + 1, rows |-> NoRows, made |-> made,
        reverses |-> b, status |-> "reversal"])

BatchesOK ==
  /\ Len(batch) <= MaxBatches
  /\ \A b \in 1..Len(batch) :
       /\ batch[b].slot \in Slots
       /\ batch[b].status \in Effective \cup {"ready", "conflict"}
       /\ batch[b].read \in 0..MaxBatches /\ batch[b].cur \in 0..MaxBatches
       /\ batch[b].reverses \in 0..Len(batch)

=============================================================================
