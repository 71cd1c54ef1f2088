---------------------------- MODULE FinanceProofs ----------------------------
(***************************************************************************)
(* The finance desk, for any number of stores, codes, months, batches,     *)
(* disputes and invoices: the chains of SAP profiles and the imports and   *)
(* reversals that write them; the statements and their adjustments; the    *)
(* promotion and the management invoices over them; and the desk that      *)
(* composes them.                                                          *)
(***************************************************************************)
EXTENDS MCFinance, SetLemmas

-----------------------------------------------------------------------------
(* Import batches of profiles.                                             *)

Profile == [sap : Codes, tomb : BOOLEAN]
ProfileRow == [val : Codes, at : Nat]
ProfileRows == UNION {[T -> ProfileRow] : T \in SUBSET Stores}
ProfileMade == UNION {[T -> Nat] : T \in SUBSET Stores}
ProfileBatch ==
  [slot : ProfileSlots, read : Nat, cur : Nat, rows : ProfileRows, made : ProfileMade,
   reverses : Nat, status : {"ready", "committed", "conflict", "reversal"}]

\* The rows of a batch and the versions it made are about stores.
LEMMA RowsTyped ==
  ASSUME NEW x \in ProfileBatch
  PROVE  /\ DOMAIN x.rows \subseteq Stores /\ \A s \in DOMAIN x.rows : x.rows[s] \in ProfileRow
         /\ DOMAIN x.made \subseteq Stores /\ \A s \in DOMAIN x.made : x.made[s] \in Nat
         /\ x.rows \in [DOMAIN x.rows -> ProfileRow] /\ x.made \in [DOMAIN x.made -> Nat]
<1>1. x.rows \in ProfileRows /\ x.made \in ProfileMade
  BY DEF ProfileBatch
<1>2. PICK T \in SUBSET Stores : x.rows \in [T -> ProfileRow]
  BY <1>1 DEF ProfileRows
<1>3. PICK U \in SUBSET Stores : x.made \in [U -> Nat]
  BY <1>1 DEF ProfileMade
<1> QED
  BY <1>2, <1>3

\* A function on finitely many positions has a bound.
LEMMA Bounded ==
  ASSUME NEW n \in Nat, NEW f, \A b \in 1..n : f[b] \in Nat
  PROVE  \E k \in Nat : \A b \in 1..n : f[b] <= k
<1> DEFINE T == {i \in 0..n : ~\E k \in Nat : \A b \in 1..i : f[b] <= k}
<1>0. n \in 0..n
  OBVIOUS
<1>1. SUFFICES ASSUME T # {} PROVE FALSE
  BY <1>0
<1>2. T \subseteq Nat
  OBVIOUS
<1>3. PICK i \in T : \A y \in T : i <= y
  <2> HIDE DEF T
  <2> QED
    BY <1>1, <1>2, LeastNat
<1>4. i \in 0..n /\ ~\E k \in Nat : \A b \in 1..i : f[b] <= k
  BY <1>3
<1>5. i # 0
  <2>1. \A b \in 1..0 : f[b] <= 0
    OBVIOUS
  <2> QED
    BY <1>4, <2>1
<1>6. i - 1 \in 0..n /\ ~(i <= i - 1)
  BY <1>4, <1>5
<1>7. PICK k \in Nat : \A b \in 1..(i - 1) : f[b] <= k
  BY <1>3, <1>6
<1> DEFINE top == IF f[i] <= k THEN k ELSE f[i]
<1>8. i \in 1..n
  BY <1>4, <1>5
<1>9. top \in Nat /\ k <= top /\ f[i] <= top
  BY <1>8
<1>10. ASSUME NEW b \in 1..i PROVE f[b] <= top
  <2> HIDE DEF top
  <2>1. CASE b = i
    BY <1>9, <2>1
  <2>2. CASE b # i
    <3>1. b \in 1..(i - 1) /\ b \in 1..n
      BY <1>4, <2>2
    <3>2. f[b] <= k /\ f[b] \in Nat
      BY <1>7, <3>1
    <3> QED
      BY <1>9, <3>2
  <2> QED
    BY <2>1, <2>2
<1> QED
  BY <1>4, <1>9, <1>10

\* The version of a slot is a number.
LEMMA SlotVersionIsNat ==
  ASSUME Len(batch) \in Nat, \A b \in 1..Len(batch) : batch[b].cur \in Nat, NEW slot
  PROVE  SlotVersion(slot) \in Nat
<1> DEFINE f == [b \in 1..Len(batch) |-> batch[b].cur]
           E == {c \in 1..Len(batch) : batch[c].slot = slot /\ batch[c].status \in Effective}
           T == {0} \cup {batch[b].cur : b \in E}
<1>1. \A b \in 1..Len(batch) : f[b] = batch[b].cur /\ f[b] \in Nat
  OBVIOUS
<1>2. PICK k \in Nat : \A b \in 1..Len(batch) : f[b] <= k
  <2> HIDE DEF f
  <2> QED
    BY <1>1, Bounded
<1>3. T \subseteq 0..k /\ T # {}
  BY <1>1, <1>2
<1>4. SlotVersion(slot) = Max(T)
  BY DEF SlotVersion
<1> HIDE DEF T
<1>5. Max(T) \in T
  BY <1>3, MaxIsGreatest
<1> QED
  BY <1>3, <1>4, <1>5

-----------------------------------------------------------------------------
(* The chains of profiles.                                                 *)

\* What a committed batch x wrote into the chains fs.
WrittenOK(fs, x) ==
  x.status = "committed" =>
    /\ DOMAIN x.made = DOMAIN x.rows
    /\ \A s \in DOMAIN x.rows :
         /\ x.made[s] = x.rows[s].at + 1 /\ x.made[s] \in 1..Len(fs[s])
         /\ fs[s][x.made[s]] = [sap |-> x.rows[s].val, tomb |-> FALSE]

\* What a reversal x put back, for the batch y it reverses.
PutBack(fs, x, y) ==
  /\ y.status = "committed" /\ DOMAIN x.made = DOMAIN y.rows
  /\ \A s \in DOMAIN y.rows :
       /\ x.made[s] \in 1..Len(fs[s])
       /\ IF y.rows[s].at = 0 THEN fs[s][x.made[s]].tomb
          ELSE fs[s][x.made[s]] = fs[s][y.rows[s].at]

UndoneOK(bs, fs, x) ==
  IF x.status = "reversal" THEN x.reverses \in 1..Len(bs) /\ PutBack(fs, x, bs[x.reverses])
  ELSE x.reverses = 0

ReversedOnce(bs) ==
  \A q, r \in 1..Len(bs) : bs[q].reverses # 0 /\ bs[q].reverses = bs[r].reverses => q = r

ProfilesInv ==
  /\ fin \in [Stores -> Seq(Profile)] /\ \A s \in Stores : Len(fin[s]) <= MaxProfiles
  /\ bill \in [Stores -> [pc : {"none", "reading", "taken"}, profile : Nat]]
  /\ batch \in Seq(ProfileBatch) /\ ReversedOnce(batch)
  /\ \A b \in 1..Len(batch) : WrittenOK(fin, batch[b]) /\ UndoneOK(batch, fin, batch[b])

\* Chains only grow, and a batch is written to only while it waits for its commit.
ChainsGrow(fs, gs) ==
  \A s \in Stores : /\ Len(fs[s]) <= Len(gs[s])
                    /\ \A v \in 1..Len(fs[s]) : gs[s][v] = fs[s][v]

BatchesGrow(bs, cs) ==
  /\ Len(cs) \in {Len(bs), Len(bs) + 1}
  /\ \A b \in 1..Len(bs) : /\ cs[b].reverses = bs[b].reverses
                           /\ bs[b].status # "ready" => cs[b] = bs[b]
  /\ Len(cs) # Len(bs) => \/ cs[Len(cs)].reverses = 0
                          \/ \A b \in 1..Len(bs) : bs[b].reverses # cs[Len(cs)].reverses

\* What was written stays written.
LEMMA WrittenStays ==
  ASSUME NEW fs \in [Stores -> Seq(Profile)], NEW gs \in [Stores -> Seq(Profile)], ChainsGrow(fs, gs),
         NEW x \in ProfileBatch, WrittenOK(fs, x)
  PROVE  WrittenOK(gs, x)
<1> SUFFICES ASSUME x.status = "committed"
             PROVE  /\ DOMAIN x.made = DOMAIN x.rows
                    /\ \A s \in DOMAIN x.rows :
                         /\ x.made[s] = x.rows[s].at + 1 /\ x.made[s] \in 1..Len(gs[s])
                         /\ gs[s][x.made[s]] = [sap |-> x.rows[s].val, tomb |-> FALSE]
  BY DEF WrittenOK
<1>1. DOMAIN x.made = DOMAIN x.rows /\ DOMAIN x.rows \subseteq Stores
  BY RowsTyped DEF WrittenOK
<1>2. ASSUME NEW s \in DOMAIN x.rows
      PROVE  /\ x.made[s] = x.rows[s].at + 1 /\ x.made[s] \in 1..Len(gs[s])
             /\ gs[s][x.made[s]] = [sap |-> x.rows[s].val, tomb |-> FALSE]
  <2> DEFINE v == x.made[s]
  <2>1. /\ v = x.rows[s].at + 1 /\ v \in 1..Len(fs[s])
        /\ fs[s][v] = [sap |-> x.rows[s].val, tomb |-> FALSE]
    BY DEF WrittenOK
  <2>2. s \in Stores
    BY <1>1
  <2>3. fs[s] \in Seq(Profile) /\ gs[s] \in Seq(Profile)
    BY <2>2
  <2>4. Len(fs[s]) \in Nat /\ Len(gs[s]) \in Nat
    BY <2>3
  <2>5. Len(fs[s]) <= Len(gs[s]) /\ \A k \in 1..Len(fs[s]) : gs[s][k] = fs[s][k]
    BY <2>2 DEF ChainsGrow
  <2> HIDE DEF v
  <2> QED
    BY <2>1, <2>4, <2>5 DEF v
<1> QED
  BY <1>1, <1>2

\* What was put back stays.
LEMMA PutBackStays ==
  ASSUME NEW fs \in [Stores -> Seq(Profile)], NEW gs \in [Stores -> Seq(Profile)], ChainsGrow(fs, gs),
         NEW x \in ProfileBatch, NEW y \in ProfileBatch, WrittenOK(fs, y), PutBack(fs, x, y)
  PROVE  PutBack(gs, x, y)
<1>1. /\ y.status = "committed" /\ DOMAIN x.made = DOMAIN y.rows /\ DOMAIN y.rows \subseteq Stores
      /\ \A s \in DOMAIN y.rows : y.rows[s] \in ProfileRow
  BY RowsTyped DEF PutBack
<1>2. ASSUME NEW s \in DOMAIN y.rows
      PROVE  /\ x.made[s] \in 1..Len(gs[s])
             /\ IF y.rows[s].at = 0 THEN gs[s][x.made[s]].tomb
                ELSE gs[s][x.made[s]] = gs[s][y.rows[s].at]
  <2> DEFINE v == x.made[s]
             a == y.rows[s].at
  <2>1. v \in 1..Len(fs[s]) /\ IF a = 0 THEN fs[s][v].tomb ELSE fs[s][v] = fs[s][a]
    BY DEF PutBack
  <2>2. a \in Nat /\ a + 1 \in 1..Len(fs[s])
    BY <1>1 DEF WrittenOK, ProfileRow
  <2>3. s \in Stores
    BY <1>1
  <2>4. fs[s] \in Seq(Profile) /\ gs[s] \in Seq(Profile)
    BY <2>3
  <2>5. Len(fs[s]) \in Nat /\ Len(gs[s]) \in Nat
    BY <2>4
  <2>6. Len(fs[s]) <= Len(gs[s]) /\ \A k \in 1..Len(fs[s]) : gs[s][k] = fs[s][k]
    BY <2>3 DEF ChainsGrow
  <2> HIDE DEF v, a
  <2>7. v \in 1..Len(gs[s]) /\ gs[s][v] = fs[s][v]
    BY <2>1, <2>5, <2>6
  <2>8. a # 0 => gs[s][a] = fs[s][a]
    BY <2>2, <2>5, <2>6
  <2>9. IF a = 0 THEN gs[s][v].tomb ELSE gs[s][v] = gs[s][a]
    BY <2>1, <2>7, <2>8
  <2> QED
    BY <2>7, <2>9 DEF v, a
<1> QED
  BY <1>1, <1>2 DEF PutBack

\* Every step writes versions at the end of chains, and at most one batch.
LEMMA ProfilesKeep ==
  ASSUME ProfilesInv, fin' \in [Stores -> Seq(Profile)], \A s \in Stores : Len(fin'[s]) <= MaxProfiles,
         bill' \in [Stores -> [pc : {"none", "reading", "taken"}, profile : Nat]],
         batch' \in Seq(ProfileBatch), ChainsGrow(fin, fin'), BatchesGrow(batch, batch'),
         \A b \in 1..Len(batch') :
           \/ b \in 1..Len(batch) /\ batch'[b] = batch[b]
           \/ WrittenOK(fin', batch'[b]) /\ UndoneOK(batch', fin', batch'[b])
  PROVE  ProfilesInv'
<1>1. /\ fin \in [Stores -> Seq(Profile)] /\ batch \in Seq(ProfileBatch) /\ ReversedOnce(batch)
      /\ \A b \in 1..Len(batch) : WrittenOK(fin, batch[b]) /\ UndoneOK(batch, fin, batch[b])
  BY DEF ProfilesInv
<1>2. /\ Len(batch) \in Nat /\ Len(batch') \in Nat
      /\ \A b \in 1..Len(batch) : batch[b] \in ProfileBatch
  BY <1>1
<1>3. ASSUME NEW b \in 1..Len(batch'), b \in 1..Len(batch), batch'[b] = batch[b]
      PROVE  WrittenOK(fin', batch'[b]) /\ UndoneOK(batch', fin', batch'[b])
  <2> DEFINE x == batch[b]
             y == batch[x.reverses]
  <2>1. x \in ProfileBatch /\ WrittenOK(fin, x) /\ UndoneOK(batch, fin, x)
    BY <1>1, <1>2, <1>3
  <2>2. WrittenOK(fin', x)
    BY <1>1, <2>1, WrittenStays
  <2>3. CASE x.status = "reversal"
    <3>1. x.reverses \in 1..Len(batch) /\ PutBack(fin, x, y)
      BY <2>1, <2>3 DEF UndoneOK
    <3>2. y \in ProfileBatch /\ WrittenOK(fin, y) /\ y.status = "committed"
      BY <1>1, <1>2, <3>1 DEF PutBack
    <3>3. PutBack(fin', x, y)
      BY <1>1, <2>1, <3>1, <3>2, PutBackStays
    <3>4. batch'[x.reverses] = y /\ x.reverses \in 1..Len(batch')
      BY <1>2, <3>1, <3>2 DEF BatchesGrow
    <3> HIDE DEF x, y
    <3>5. UndoneOK(batch', fin', x)
      BY <2>3, <3>3, <3>4 DEF UndoneOK
    <3> QED
      BY <1>3, <2>2, <3>5 DEF x
  <2>4. CASE x.status # "reversal"
    <3>1. UndoneOK(batch', fin', x)
      BY <2>1, <2>4 DEF UndoneOK
    <3> QED
      BY <1>3, <2>2, <3>1
  <2> QED
    BY <2>3, <2>4
<1>4. ReversedOnce(batch')
  <2> SUFFICES ASSUME NEW q \in 1..Len(batch'), NEW r \in 1..Len(batch'), batch'[q].reverses # 0,
                      batch'[q].reverses = batch'[r].reverses
               PROVE  q = r
    BY DEF ReversedOnce
  <2>1. \A b \in 1..Len(batch) : batch'[b].reverses = batch[b].reverses
    BY DEF BatchesGrow
  <2>2. \A b \in 1..Len(batch') : b \in 1..Len(batch) \/ (b = Len(batch') /\ Len(batch') # Len(batch))
    BY <1>2 DEF BatchesGrow
  <2>3. Len(batch') # Len(batch) => \/ batch'[Len(batch')].reverses = 0
                                    \/ \A b \in 1..Len(batch) : batch[b].reverses # batch'[Len(batch')].reverses
    BY DEF BatchesGrow
  <2>4. CASE q \in 1..Len(batch) /\ r \in 1..Len(batch)
    BY <1>1, <2>1, <2>4 DEF ReversedOnce
  <2>5. CASE q \in 1..Len(batch) /\ r \notin 1..Len(batch)
    BY <2>1, <2>2, <2>3, <2>5
  <2>6. CASE q \notin 1..Len(batch) /\ r \in 1..Len(batch)
    BY <2>1, <2>2, <2>3, <2>6
  <2>7. CASE q \notin 1..Len(batch) /\ r \notin 1..Len(batch)
    BY <2>2, <2>7
  <2> QED
    BY <2>4, <2>5, <2>6, <2>7
<1>5. \A b \in 1..Len(batch') : WrittenOK(fin', batch'[b]) /\ UndoneOK(batch', fin', batch'[b])
  BY <1>3
<1> QED
  BY <1>4, <1>5 DEF ProfilesInv

\* A new batch is the last one.
LEMMA BatchAdded ==
  ASSUME batch \in Seq(ProfileBatch), NEW x \in ProfileBatch, batch' = Append(batch, x)
  PROVE  /\ batch' \in Seq(ProfileBatch) /\ Len(batch) \in Nat /\ Len(batch') = Len(batch) + 1
         /\ \A b \in 1..Len(batch) : batch'[b] = batch[b]
         /\ batch'[Len(batch')] = x
<1> HIDE DEF ProfileBatch
<1> QED
  OBVIOUS

\* No rows.
LEMMA NoRowsTyped == NoRows \in ProfileRows /\ NoRows \in ProfileMade
<1>1. NoRows \in [{} -> ProfileRow] /\ NoRows \in [{} -> Nat] /\ {} \in SUBSET Stores
  BY DEF NoRows
<1> QED
  BY <1>1 DEF ProfileRows, ProfileMade

\* The versions of all slots are numbers.
LEMMA SlotVersions ==
  ASSUME batch \in Seq(ProfileBatch), NEW slot
  PROVE  SlotVersion(slot) \in Nat
<1>1. Len(batch) \in Nat /\ \A b \in 1..Len(batch) : batch[b] \in ProfileBatch
  OBVIOUS
<1>2. \A b \in 1..Len(batch) : batch[b].cur \in Nat
  BY <1>1 DEF ProfileBatch
<1> QED
  BY <1>1, <1>2, SlotVersionIsNat

\* create_finance_import keeps the invariant.
LEMMA UploadKeeps ==
  ASSUME ProfilesInv, NEW slot \in ProfileSlots, NEW T \in SUBSET Stores, NEW rows \in [T -> Codes],
         UploadProfiles(slot, rows)
  PROVE  ProfilesInv'
<1> DEFINE shown == [s \in DOMAIN rows |-> [val |-> rows[s], at |-> Len(fin[s])]]
           x == [slot |-> slot, read |-> SlotVersion(slot), cur |-> SlotVersion(slot),
                 rows |-> shown, made |-> NoRows, reverses |-> 0, status |-> "ready"]
<1>1. /\ fin \in [Stores -> Seq(Profile)] /\ \A s \in Stores : Len(fin[s]) <= MaxProfiles
      /\ bill \in [Stores -> [pc : {"none", "reading", "taken"}, profile : Nat]]
      /\ batch \in Seq(ProfileBatch)
  BY DEF ProfilesInv
<1>2. fin' = fin /\ bill' = bill /\ batch' = Append(batch, x)
  BY DEF UploadProfiles, Uploaded, sapVars
<1>3. x \in ProfileBatch
  <2>1. SlotVersion(slot) \in Nat
    BY <1>1, SlotVersions
  <2>2. \A s \in T : [val |-> rows[s], at |-> Len(fin[s])] \in ProfileRow
    <3>1. \A s \in T : rows[s] \in Codes /\ fin[s] \in Seq(Profile)
      BY <1>1
    <3>2. \A s \in T : Len(fin[s]) \in Nat
      BY <3>1
    <3> QED
      BY <3>1, <3>2 DEF ProfileRow
  <2>3. shown \in [T -> ProfileRow]
    BY <2>2
  <2>4. shown \in ProfileRows
    BY <2>3 DEF ProfileRows
  <2> HIDE DEF shown
  <2> QED
    BY <2>1, <2>4, NoRowsTyped DEF ProfileBatch
<1>4. x.status = "ready" /\ x.reverses = 0
  OBVIOUS
<1> HIDE DEF x
<1>5. /\ batch' \in Seq(ProfileBatch) /\ Len(batch) \in Nat /\ Len(batch') = Len(batch) + 1
      /\ \A b \in 1..Len(batch) : batch'[b] = batch[b]
      /\ batch'[Len(batch')] = x
  BY <1>1, <1>2, <1>3, BatchAdded
<1>6. BatchesGrow(batch, batch')
  BY <1>4, <1>5 DEF BatchesGrow
<1>7. ChainsGrow(fin, fin')
  BY <1>1, <1>2 DEF ChainsGrow
<1>8. WrittenOK(fin', x) /\ UndoneOK(batch', fin', x)
  BY <1>4 DEF WrittenOK, UndoneOK
<1>9. \A b \in 1..Len(batch') :
        \/ b \in 1..Len(batch) /\ batch'[b] = batch[b]
        \/ WrittenOK(fin', batch'[b]) /\ UndoneOK(batch', fin', batch'[b])
  BY <1>5, <1>8
<1> QED
  BY <1>1, <1>2, <1>5, <1>6, <1>7, <1>9, ProfilesKeep

\* A change of one batch leaves the others as they are.
LEMMA BatchChanged ==
  ASSUME batch \in Seq(ProfileBatch), NEW b \in 1..Len(batch), NEW x \in ProfileBatch,
         batch[b].status = "ready", x.reverses = batch[b].reverses,
         batch' = [batch EXCEPT ![b] = x]
  PROVE  /\ batch' \in Seq(ProfileBatch) /\ Len(batch) \in Nat /\ Len(batch') = Len(batch)
         /\ \A c \in 1..Len(batch) : c # b => batch'[c] = batch[c]
         /\ batch'[b] = x /\ BatchesGrow(batch, batch')
<1>1. /\ batch' \in Seq(ProfileBatch) /\ Len(batch) \in Nat /\ Len(batch') = Len(batch)
      /\ \A c \in 1..Len(batch) : c # b => batch'[c] = batch[c]
      /\ batch'[b] = x
  <2> HIDE DEF ProfileBatch
  <2> QED
    OBVIOUS
<1> QED
  BY <1>1 DEF BatchesGrow

\* A conflict spends the batch and writes nothing.
LEMMA ConflictKeeps ==
  ASSUME ProfilesInv, NEW b \in 1..Len(batch), ConflictProfiles(b)
  PROVE  ProfilesInv'
<1> DEFINE x == [batch[b] EXCEPT !.status = "conflict", !.cur = SlotVersion(batch[b].slot)]
<1>1. /\ fin \in [Stores -> Seq(Profile)] /\ \A s \in Stores : Len(fin[s]) <= MaxProfiles
      /\ bill \in [Stores -> [pc : {"none", "reading", "taken"}, profile : Nat]]
      /\ batch \in Seq(ProfileBatch) /\ UndoneOK(batch, fin, batch[b])
  BY DEF ProfilesInv
<1>2. batch[b] \in ProfileBatch
  BY <1>1
<1>3. fin' = fin /\ bill' = bill /\ batch' = [batch EXCEPT ![b] = x] /\ batch[b].status = "ready"
  BY DEF ConflictProfiles, Conflict, Ready, sapVars
<1>4. SlotVersion(batch[b].slot) \in Nat
  BY <1>1, SlotVersions
<1>5. /\ x \in ProfileBatch /\ x.status = "conflict" /\ x.reverses = batch[b].reverses
      /\ x.reverses = 0
  <2>1. batch[b].reverses = 0
    BY <1>1, <1>3 DEF UndoneOK
  <2> QED
    BY <1>2, <1>4, <2>1 DEF ProfileBatch
<1> HIDE DEF x
<1>6. /\ batch' \in Seq(ProfileBatch) /\ Len(batch) \in Nat /\ Len(batch') = Len(batch)
      /\ \A c \in 1..Len(batch) : c # b => batch'[c] = batch[c]
      /\ batch'[b] = x /\ BatchesGrow(batch, batch')
  BY <1>1, <1>3, <1>5, BatchChanged
<1>7. ChainsGrow(fin, fin')
  BY <1>1, <1>3 DEF ChainsGrow
<1>8. WrittenOK(fin', x) /\ UndoneOK(batch', fin', x)
  BY <1>5 DEF WrittenOK, UndoneOK
<1>9. \A c \in 1..Len(batch') :
        \/ c \in 1..Len(batch) /\ batch'[c] = batch[c]
        \/ WrittenOK(fin', batch'[c]) /\ UndoneOK(batch', fin', batch'[c])
  BY <1>6, <1>8
<1> QED
  BY <1>1, <1>3, <1>6, <1>7, <1>9, ProfilesKeep

Longer(fs, S, w) == [s \in Stores |-> IF s \in S THEN Append(fs[s], w[s]) ELSE fs[s]]

\* New versions are written at the end of the chains of the stores S.
LEMMA ChainsAdded ==
  ASSUME fin \in [Stores -> Seq(Profile)], \A s \in Stores : Len(fin[s]) <= MaxProfiles,
         NEW S \in SUBSET Stores, NEW w \in [S -> Profile], \A s \in S : Len(fin[s]) < MaxProfiles,
         fin' = Longer(fin, S, w)
  PROVE  /\ fin' \in [Stores -> Seq(Profile)] /\ \A s \in Stores : Len(fin'[s]) <= MaxProfiles
         /\ ChainsGrow(fin, fin')
         /\ \A s \in S : /\ Len(fin[s]) \in Nat /\ Len(fin'[s]) = Len(fin[s]) + 1
                         /\ fin'[s][Len(fin[s]) + 1] = w[s]
<1>1. ASSUME NEW s \in Stores
      PROVE  /\ fin'[s] \in Seq(Profile) /\ Len(fin'[s]) <= MaxProfiles
             /\ Len(fin[s]) \in Nat /\ Len(fin[s]) <= Len(fin'[s])
             /\ \A v \in 1..Len(fin[s]) : fin'[s][v] = fin[s][v]
             /\ s \in S => Len(fin'[s]) = Len(fin[s]) + 1 /\ fin'[s][Len(fin[s]) + 1] = w[s]
  <2> DEFINE f == fin[s]
             p == w[s]
             g == fin'[s]
  <2>1. f \in Seq(Profile) /\ Len(f) <= MaxProfiles /\ MaxProfiles \in Nat
    BY ProfilesAssumption
  <2>2. CASE s \in S
    <3>1. p \in Profile /\ g = Append(f, p) /\ Len(f) < MaxProfiles
      BY <2>2 DEF Longer
    <3> HIDE DEF f, p, g, Profile
    <3>2. /\ g \in Seq(Profile) /\ Len(f) \in Nat /\ Len(g) = Len(f) + 1 /\ g[Len(f) + 1] = p
          /\ \A v \in 1..Len(f) : g[v] = f[v]
      BY <2>1, <3>1
    <3>3. Len(g) <= MaxProfiles /\ Len(f) <= Len(g)
      BY <2>1, <3>1, <3>2
    <3> QED
      BY <3>2, <3>3 DEF f, p, g
  <2>3. CASE s \notin S
    <3>1. g = f
      BY <2>3 DEF Longer
    <3>2. Len(f) \in Nat
      BY <2>1
    <3> HIDE DEF f, g
    <3> QED
      BY <2>1, <2>3, <3>1, <3>2 DEF f, g
  <2> QED
    BY <2>2, <2>3
<1>2. fin' \in [Stores -> Seq(Profile)]
  <2> DEFINE h(s) == IF s \in S THEN Append(fin[s], w[s]) ELSE fin[s]
  <2>1. \A s \in Stores : h(s) \in Seq(Profile)
    <3>1. \A s \in Stores : fin'[s] = h(s)
      BY DEF Longer
    <3> HIDE DEF h
    <3> QED
      BY <1>1, <3>1
  <2>2. fin' = [s \in Stores |-> h(s)]
    BY DEF Longer
  <2> HIDE DEF h
  <2> QED
    BY <2>1, <2>2
<1> QED
  BY <1>1, <1>2 DEF ChainsGrow

\* A commit writes every row on the version it was previewed on.
LEMMA CommitKeeps ==
  ASSUME ProfilesInv, NEW b \in 1..Len(batch), CommitProfiles(b)
  PROVE  ProfilesInv'
<1> DEFINE y == batch[b]
           rows == y.rows
           S == DOMAIN rows
           made == [s \in S |-> Len(fin[s]) + 1]
           w == [s \in S |-> [sap |-> rows[s].val, tomb |-> FALSE]]
           n == SlotVersion(y.slot) + 1
           x == [y EXCEPT !.status = "committed", !.cur = n, !.made = made]
<1>1. /\ fin \in [Stores -> Seq(Profile)] /\ \A s \in Stores : Len(fin[s]) <= MaxProfiles
      /\ bill \in [Stores -> [pc : {"none", "reading", "taken"}, profile : Nat]]
      /\ batch \in Seq(ProfileBatch) /\ UndoneOK(batch, fin, y)
  BY DEF ProfilesInv
<1>2. y \in ProfileBatch
  BY <1>1
<1>3. S \subseteq Stores /\ \A s \in S : rows[s] \in ProfileRow
  BY <1>2, RowsTyped
<1>4. /\ bill' = bill /\ batch' = [batch EXCEPT ![b] = x] /\ y.status = "ready"
      /\ \A s \in S : rows[s].at = Len(fin[s]) /\ Len(fin[s]) < MaxProfiles
      /\ fin' = [s \in Stores |-> IF s \in S THEN Append(fin[s], [sap |-> rows[s].val, tomb |-> FALSE])
                                  ELSE fin[s]]
  BY DEF CommitProfiles, Committed, Ready, PreviewCurrent
<1>5. \A s \in S : w[s] = [sap |-> rows[s].val, tomb |-> FALSE]
  OBVIOUS
<1>6. w \in [S -> Profile]
  BY <1>3 DEF Profile, ProfileRow
<1>7. fin' = Longer(fin, S, w)
  BY <1>4, <1>5 DEF Longer
<1>8. /\ fin' \in [Stores -> Seq(Profile)] /\ \A s \in Stores : Len(fin'[s]) <= MaxProfiles
      /\ ChainsGrow(fin, fin')
      /\ \A s \in S : /\ Len(fin[s]) \in Nat /\ Len(fin'[s]) = Len(fin[s]) + 1
                      /\ fin'[s][Len(fin[s]) + 1] = w[s]
  <2>1. S \in SUBSET Stores /\ \A s \in S : Len(fin[s]) < MaxProfiles
    BY <1>3, <1>4
  <2> HIDE DEF S, w
  <2> QED
    BY <1>1, <1>6, <1>7, <2>1, ChainsAdded
<1>9. n \in Nat
  BY <1>1, SlotVersions
<1>10. made \in ProfileMade /\ DOMAIN made = S /\ \A s \in S : made[s] = Len(fin[s]) + 1
  <2>1. made \in [S -> Nat]
    BY <1>8
  <2> QED
    BY <1>3, <2>1 DEF ProfileMade
<1>11. y.reverses = 0
  BY <1>1, <1>4 DEF UndoneOK
<1> HIDE DEF made, n, y
<1>12. x \in ProfileBatch /\ x.status = "committed" /\ x.reverses = y.reverses /\ x.made = made /\ x.rows = rows
  BY <1>2, <1>9, <1>10 DEF ProfileBatch
<1> HIDE DEF x
<1>13. y = batch[b]
  BY DEF y
<1>14. /\ batch' \in Seq(ProfileBatch) /\ Len(batch) \in Nat /\ Len(batch') = Len(batch)
       /\ \A c \in 1..Len(batch) : c # b => batch'[c] = batch[c]
       /\ batch'[b] = x /\ BatchesGrow(batch, batch')
  BY <1>1, <1>4, <1>12, <1>13, BatchChanged
<1>15. WrittenOK(fin', x)
  <2>1. ASSUME NEW s \in S
        PROVE  /\ made[s] = rows[s].at + 1 /\ made[s] \in 1..Len(fin'[s])
               /\ fin'[s][made[s]] = [sap |-> rows[s].val, tomb |-> FALSE]
    <3>1. /\ rows[s].at = Len(fin[s]) /\ Len(fin[s]) \in Nat /\ made[s] = Len(fin[s]) + 1
          /\ Len(fin'[s]) = Len(fin[s]) + 1 /\ fin'[s][Len(fin[s]) + 1] = w[s]
      BY <1>4, <1>8, <1>10
    <3>2. w[s] = [sap |-> rows[s].val, tomb |-> FALSE]
      OBVIOUS
    <3> HIDE DEF S, w
    <3> QED
      BY <3>1, <3>2
  <2> HIDE DEF rows
  <2> QED
    BY <1>10, <1>12, <2>1 DEF WrittenOK
<1>16. UndoneOK(batch', fin', x)
  BY <1>11, <1>12 DEF UndoneOK
<1>17. \A c \in 1..Len(batch') :
         \/ c \in 1..Len(batch) /\ batch'[c] = batch[c]
         \/ WrittenOK(fin', batch'[c]) /\ UndoneOK(batch', fin', batch'[c])
  BY <1>14, <1>15, <1>16
<1>18. bill' \in [Stores -> [pc : {"none", "reading", "taken"}, profile : Nat]]
  BY <1>1, <1>4
<1> QED
  BY <1>8, <1>14, <1>17, <1>18, ProfilesKeep

\* A reversal puts back what the batch had been previewed on.
LEMMA ReverseKeeps ==
  ASSUME ProfilesInv, NEW b \in 1..Len(batch), ReverseProfiles(b)
  PROVE  ProfilesInv'
<1> DEFINE y == batch[b]
           rows == y.rows
           S == DOMAIN y.made
           made == [s \in S |-> Len(fin[s]) + 1]
           w == [s \in S |-> Restored(s, y.made[s])]
           n == SlotVersion(y.slot) + 1
           x == [slot |-> y.slot, read |-> y.cur, cur |-> n, rows |-> NoRows, made |-> made,
                 reverses |-> b, status |-> "reversal"]
<1>1. /\ fin \in [Stores -> Seq(Profile)] /\ \A s \in Stores : Len(fin[s]) <= MaxProfiles
      /\ bill \in [Stores -> [pc : {"none", "reading", "taken"}, profile : Nat]]
      /\ batch \in Seq(ProfileBatch) /\ WrittenOK(fin, y)
  BY DEF ProfilesInv
<1>2. y \in ProfileBatch
  BY <1>1
<1>3. /\ y.status = "committed" /\ \A r \in 1..Len(batch) : batch[r].reverses # b
      /\ \A s \in S : y.made[s] = Len(fin[s]) /\ Len(fin[s]) < MaxProfiles
      /\ fin' = [s \in Stores |-> IF s \in S THEN Append(fin[s], Restored(s, y.made[s])) ELSE fin[s]]
      /\ batch' = Append(batch, x) /\ bill' = bill
  BY DEF ReverseProfiles, Reversible, Reversal
<1>4. /\ S = DOMAIN rows /\ S \subseteq Stores
      /\ \A s \in S : rows[s] \in ProfileRow
      /\ \A s \in S : y.made[s] = rows[s].at + 1 /\ y.made[s] \in 1..Len(fin[s])
  BY <1>1, <1>2, <1>3, RowsTyped DEF WrittenOK
<1>5. ASSUME NEW s \in S
      PROVE  /\ w[s] \in Profile /\ rows[s].at \in Nat /\ rows[s].at <= Len(fin[s])
             /\ IF rows[s].at = 0 THEN w[s].tomb ELSE w[s] = fin[s][rows[s].at]
  <2> DEFINE f == fin[s]
             v == y.made[s]
             a == rows[s].at
  <2>1. f \in Seq(Profile) /\ Len(f) \in Nat
    BY <1>1, <1>4
  <2>2. a \in Nat /\ v = a + 1 /\ v \in 1..Len(f)
    BY <1>4 DEF ProfileRow
  <2>3. w[s] = IF v = 1 THEN [sap |-> f[1].sap, tomb |-> TRUE] ELSE f[v - 1]
    BY DEF Restored
  <2>4. w[s] = IF a = 0 THEN [sap |-> f[1].sap, tomb |-> TRUE] ELSE f[a]
    <3> HIDE DEF w, a, v, f, S
    <3> QED
      BY <2>2, <2>3
  <2>5. a <= Len(f) /\ 1 \in 1..Len(f) /\ (a # 0 => a \in 1..Len(f))
    <3> HIDE DEF w, a, v, f, S
    <3> QED
      BY <2>1, <2>2
  <2>6. f[1] \in Profile /\ (a # 0 => f[a] \in Profile)
    <3> HIDE DEF w, a, v, f, S, Profile
    <3> QED
      BY <2>1, <2>5
  <2>7. w[s] \in Profile /\ IF a = 0 THEN w[s].tomb ELSE w[s] = f[a]
    <3> HIDE DEF w, a, v, f, S
    <3> QED
      BY <2>4, <2>6 DEF Profile
  <2> QED
    BY <2>2, <2>5, <2>7
<1>6. w \in [S -> Profile] /\ \A s \in S : w[s] = Restored(s, y.made[s])
  <2>1. \A s \in S : w[s] = Restored(s, y.made[s])
    OBVIOUS
  <2> QED
    BY <1>5, <2>1
<1>7. fin' = Longer(fin, S, w)
  BY <1>3, <1>6 DEF Longer
<1>8. /\ fin' \in [Stores -> Seq(Profile)] /\ \A s \in Stores : Len(fin'[s]) <= MaxProfiles
      /\ ChainsGrow(fin, fin')
      /\ \A s \in S : /\ Len(fin[s]) \in Nat /\ Len(fin'[s]) = Len(fin[s]) + 1
                      /\ fin'[s][Len(fin[s]) + 1] = w[s]
  <2>1. S \in SUBSET Stores /\ \A s \in S : Len(fin[s]) < MaxProfiles
    BY <1>3, <1>4
  <2> HIDE DEF S, w
  <2> QED
    BY <1>1, <1>6, <1>7, <2>1, ChainsAdded
<1>9. n \in Nat
  BY <1>1, SlotVersions
<1>10. made \in ProfileMade /\ DOMAIN made = S /\ \A s \in S : made[s] = Len(fin[s]) + 1
  <2>1. made \in [S -> Nat]
    BY <1>8
  <2> QED
    BY <1>4, <2>1 DEF ProfileMade
<1>11. b \in Nat /\ b # 0 /\ y = batch[b]
  BY <1>1
<1> HIDE DEF made, n, y
<1>12. x \in ProfileBatch /\ x.status = "reversal" /\ x.reverses = b /\ x.made = made
  BY <1>2, <1>9, <1>10, <1>11, NoRowsTyped DEF ProfileBatch
<1> HIDE DEF x
<1>13. /\ batch' \in Seq(ProfileBatch) /\ Len(batch) \in Nat /\ Len(batch') = Len(batch) + 1
       /\ \A c \in 1..Len(batch) : batch'[c] = batch[c]
       /\ batch'[Len(batch')] = x
  BY <1>1, <1>3, <1>12, BatchAdded
<1>14. BatchesGrow(batch, batch')
  BY <1>3, <1>12, <1>13 DEF BatchesGrow
<1>15. WrittenOK(fin', x)
  BY <1>12 DEF WrittenOK
<1>16. PutBack(fin', x, y)
  <2>1. ASSUME NEW s \in S
        PROVE  /\ made[s] \in 1..Len(fin'[s])
               /\ IF rows[s].at = 0 THEN fin'[s][made[s]].tomb
                  ELSE fin'[s][made[s]] = fin'[s][rows[s].at]
    <3>1. /\ made[s] = Len(fin[s]) + 1 /\ Len(fin[s]) \in Nat /\ Len(fin'[s]) = Len(fin[s]) + 1
          /\ fin'[s][Len(fin[s]) + 1] = w[s]
      <4> HIDE DEF S, w
      <4> QED
        BY <1>8, <1>10
    <3>2. \A v \in 1..Len(fin[s]) : fin'[s][v] = fin[s][v]
      BY <1>4, <1>8 DEF ChainsGrow
    <3>3. /\ rows[s].at \in Nat /\ rows[s].at <= Len(fin[s])
          /\ IF rows[s].at = 0 THEN w[s].tomb ELSE w[s] = fin[s][rows[s].at]
      BY <1>5
    <3> DEFINE a == rows[s].at
    <3>4. a # 0 => fin'[s][a] = fin[s][a]
      <4> HIDE DEF w, rows, S
      <4> QED
        BY SMTT(60), <3>1, <3>2, <3>3
    <3> HIDE DEF w, rows, S
    <3> QED
      BY <3>1, <3>3, <3>4
  <2> HIDE DEF S
  <2>2. y.rows = rows
    OBVIOUS
  <2> HIDE DEF rows
  <2> QED
    BY <1>3, <1>4, <1>10, <1>12, <2>1, <2>2 DEF PutBack
<1>17. UndoneOK(batch', fin', x)
  <2>1. batch'[b] = y /\ b \in 1..Len(batch')
    BY <1>11, <1>13
  <2> QED
    BY <1>12, <1>16, <2>1 DEF UndoneOK
<1>18. \A c \in 1..Len(batch') :
         \/ c \in 1..Len(batch) /\ batch'[c] = batch[c]
         \/ WrittenOK(fin', batch'[c]) /\ UndoneOK(batch', fin', batch'[c])
  BY <1>13, <1>15, <1>17
<1>19. bill' \in [Stores -> [pc : {"none", "reading", "taken"}, profile : Nat]]
  BY <1>1, <1>3
<1> QED
  BY <1>8, <1>13, <1>14, <1>18, <1>19, ProfilesKeep

\* correct_admin_finance_store_sap writes one version.
LEMMA CorrectKeeps ==
  ASSUME ProfilesInv, NEW s \in Stores, NEW code \in Codes, CorrectSap(s, code)
  PROVE  ProfilesInv'
<1> DEFINE p == [sap |-> code, tomb |-> FALSE]
           w == [t \in {s} |-> p]
<1>1. /\ fin \in [Stores -> Seq(Profile)] /\ \A t \in Stores : Len(fin[t]) <= MaxProfiles
      /\ bill \in [Stores -> [pc : {"none", "reading", "taken"}, profile : Nat]]
      /\ batch \in Seq(ProfileBatch)
  BY DEF ProfilesInv
<1>2. /\ Len(fin[s]) < MaxProfiles /\ fin' = [fin EXCEPT ![s] = Append(fin[s], p)]
      /\ batch' = batch /\ bill' = bill
  BY DEF CorrectSap
<1>3. p \in Profile /\ w[s] = p /\ w \in [{s} -> Profile]
  BY DEF Profile
<1> HIDE DEF p, w
<1>4. fin' = Longer(fin, {s}, w)
  BY <1>1, <1>2, <1>3 DEF Longer
<1>5. {s} \in SUBSET Stores /\ \A t \in {s} : Len(fin[t]) < MaxProfiles
  BY <1>2
<1>6. /\ fin' \in [Stores -> Seq(Profile)] /\ \A t \in Stores : Len(fin'[t]) <= MaxProfiles
      /\ ChainsGrow(fin, fin')
  <2> DEFINE S == {s}
  <2>1. w \in [S -> Profile]
    BY <1>3
  <2> HIDE DEF S
  <2> QED
    BY <1>1, <1>3, <1>4, <1>5, <2>1, ChainsAdded DEF S
<1>7. BatchesGrow(batch, batch')
  BY <1>1, <1>2 DEF BatchesGrow
<1> QED
  BY <1>1, <1>2, <1>6, <1>7, ProfilesKeep

\* The first bill of a store reads the chains only.
LEMMA BillsKeep ==
  ASSUME ProfilesInv, NEW s \in Stores, BillReads(s) \/ BillCommits(s) \/ BillRollsBack(s)
  PROVE  ProfilesInv'
<1>1. /\ fin \in [Stores -> Seq(Profile)] /\ \A t \in Stores : Len(fin[t]) <= MaxProfiles
      /\ bill \in [Stores -> [pc : {"none", "reading", "taken"}, profile : Nat]]
      /\ batch \in Seq(ProfileBatch)
  BY DEF ProfilesInv
<1>2. Len(fin[s]) \in Nat
  <2>1. fin[s] \in Seq(Profile)
    BY <1>1
  <2> QED
    BY <2>1
<1>3. bill' \in [Stores -> [pc : {"none", "reading", "taken"}, profile : Nat]]
  <2>1. CASE BillReads(s)
    <3> DEFINE v == IF fin[s] = <<>> \/ Last(fin[s]).tomb THEN 0 ELSE Len(fin[s])
    <3>1. v \in Nat
      BY <1>2
    <3>2. bill' = [bill EXCEPT ![s] = [pc |-> "reading", profile |-> v]]
      BY <2>1 DEF BillReads
    <3> HIDE DEF v
    <3> QED
      BY <1>1, <3>1, <3>2
  <2>2. CASE BillCommits(s)
    BY <1>1, <2>2 DEF BillCommits
  <2>3. CASE BillRollsBack(s)
    BY <1>1, <2>3 DEF BillRollsBack
  <2> QED
    BY <2>1, <2>2, <2>3
<1>4. batch' = batch /\ fin' = fin
  BY DEF BillReads, BillCommits, BillRollsBack
<1>5. BatchesGrow(batch, batch') /\ ChainsGrow(fin, fin')
  BY <1>1, <1>4 DEF BatchesGrow, ChainsGrow
<1> QED
  BY <1>1, <1>3, <1>4, <1>5, ProfilesKeep

\* Every step of the profiles keeps the invariant.
LEMMA ProfilesStep ==
  ASSUME ProfilesInv, [ProfilesNext]_<<batch, sapVars>>
  PROVE  ProfilesInv'
<1>1. ASSUME NEW slot \in ProfileSlots, NEW T \in (SUBSET Stores) \ {{}}, NEW rows \in [T -> Codes],
             UploadProfiles(slot, rows)
      PROVE  ProfilesInv'
  BY <1>1, UploadKeeps
<1>2. ASSUME NEW b \in 1..Len(batch), CommitProfiles(b) \/ ConflictProfiles(b) \/ ReverseProfiles(b)
      PROVE  ProfilesInv'
  BY <1>2, CommitKeeps, ConflictKeeps, ReverseKeeps
<1>3. ASSUME NEW s \in Stores, NEW c \in Codes, CorrectSap(s, c)
      PROVE  ProfilesInv'
  BY <1>3, CorrectKeeps
<1>4. ASSUME NEW s \in Stores, BillReads(s) \/ BillCommits(s) \/ BillRollsBack(s)
      PROVE  ProfilesInv'
  BY <1>4, BillsKeep
<1>5. CASE UNCHANGED <<batch, sapVars>>
  BY <1>5 DEF ProfilesInv, sapVars
<1> QED
  BY <1>1, <1>2, <1>3, <1>4, <1>5 DEF ProfilesNext, ProfileImports, ProfileReadsAndEdits

\* At first no chain has a version and no batch exists.
LEMMA ProfilesStart ==
  SapInit /\ batch = <<>> => ProfilesInv
<1> SUFFICES ASSUME SapInit, batch = <<>> PROVE ProfilesInv
  OBVIOUS
<1>1. fin = [s \in Stores |-> <<>>] /\ bill = [s \in Stores |-> [pc |-> "none", profile |-> 0]]
  BY DEF SapInit
<1>2. fin \in [Stores -> Seq(Profile)] /\ \A s \in Stores : Len(fin[s]) <= MaxProfiles
  BY <1>1, ProfilesAssumption
<1>3. bill \in [Stores -> [pc : {"none", "reading", "taken"}, profile : Nat]]
  BY <1>1
<1>4. batch \in Seq(ProfileBatch) /\ 1..Len(batch) = {}
  OBVIOUS
<1> QED
  BY <1>2, <1>3, <1>4 DEF ProfilesInv, ReversedOnce

\* The invariant of the profiles: every committed batch stands on the versions its
\* preview showed, every reversal shows what it put back, no batch is reversed twice.
THEOREM ProfilesInvariant == ProfilesSpec => []ProfilesInv
BY ProfilesStart, ProfilesStep, PTL DEF ProfilesSpec

\* Committed rows stand on what was previewed.
LEMMA ProfilesWritten ==
  ProfilesInv => WrittenAsPreviewed
BY SMTT(60) DEF ProfilesInv, WrittenOK, WrittenAsPreviewed

\* Whoever else writes to a store, every row of a committed batch stands on the very
\* version its preview showed (_commit_store_finance_profile_row, _previewProfileId).
THEOREM RowsWrittenAsPreviewed == ProfilesSpec => []WrittenAsPreviewed
BY ProfilesWritten, ProfilesInvariant, PTL

\* Reversals put back what was there.
LEMMA ProfilesRestored ==
  ProfilesInv => ReversalRestores
<1> SUFFICES ASSUME ProfilesInv, NEW r \in 1..Len(batch), batch[r].status = "reversal"
             PROVE  LET b == batch[r].reverses IN
                      /\ \A s \in DOMAIN batch[b].rows :
                           LET before == batch[b].rows[s].at
                               now == fin[s][batch[r].made[s]]
                           IN  IF before = 0 THEN now.tomb ELSE now = fin[s][before]
                      /\ \A q \in 1..Len(batch) : batch[q].reverses = b => q = r
  BY DEF ReversalRestores
<1> DEFINE x == batch[r]
           b == x.reverses
<1>1. b \in 1..Len(batch) /\ PutBack(fin, x, batch[b]) /\ ReversedOnce(batch) /\ Len(batch) \in Nat
  BY DEF ProfilesInv, UndoneOK
<1>2. b # 0
  BY <1>1
<1> QED
  BY SMTT(60), <1>1, <1>2 DEF PutBack, ReversedOnce

\* A reversal gives every store of its batch back what that batch was previewed on,
\* or a tombstone, once (_append_profile_reversal_version).
THEOREM ReversalsRestore == ProfilesSpec => []ReversalRestores
BY ProfilesRestored, ProfilesInvariant, PTL

-----------------------------------------------------------------------------
(* Statements and their disputes.                                          *)

Statement == [ver : Nat, net : [Directions -> Int], conf : [Directions -> SUBSET Int]]
Dispute == [st : {"none", "pending", "in_review", "approval", "accepted", "rejected", "withdrawn"},
            m : Months, ver : Nat, dir : {"promotion", "management"}, adj : Int]

\* The adjustments of a month and direction, and those of all disputes but x.
Group(ds, X, m, d) == {x \in X : ds[x].m = m /\ ds[x].dir = d}
Adjusting(ds) == [x \in Disputes |-> ds[x].adj]
Ledger(ds, X, m, d) == SumFunctionOnSet(Adjusting(ds), Group(ds, X, m, d))
Own(r, m, d) == IF r.m = m /\ r.dir = d THEN r.adj ELSE 0

\* The ledger is made up of what one dispute adds and what all the others add.
LEMMA LedgerSplit ==
  ASSUME NEW ds \in [Disputes -> Dispute], NEW x \in Disputes, NEW m, NEW d
  PROVE  /\ Ledger(ds, Disputes \ {x}, m, d) \in Int
         /\ Ledger(ds, Disputes, m, d) = Own(ds[x], m, d) + Ledger(ds, Disputes \ {x}, m, d)
<1> DEFINE v == Adjusting(ds)
           S == Group(ds, Disputes \ {x}, m, d)
<1>1. S \in SUBSET Disputes /\ x \notin S
  BY DEF Group
<1>2. IsFiniteSet(S)
  BY <1>1, FS_Subset, StatementsAssumption
<1>3. \A y \in Disputes : v[y] = ds[y].adj /\ ds[y].adj \in Int
  <2>1. \A y \in Disputes : ds[y] \in Dispute
    OBVIOUS
  <2> QED
    BY <2>1 DEF Adjusting, Dispute
<1>4. CASE ds[x].m = m /\ ds[x].dir = d
  <2>1. Group(ds, Disputes, m, d) = S \cup {x}
    BY <1>4 DEF Group
  <2>2. v[x] \in Int /\ \A y \in S : v[y] \in Int
    BY <1>1, <1>3
  <2>3. Own(ds[x], m, d) = v[x]
    BY <1>3, <1>4 DEF Own
  <2>4. Ledger(ds, Disputes, m, d) = SumFunctionOnSet(v, S \cup {x}) /\ Ledger(ds, Disputes \ {x}, m, d) = SumFunctionOnSet(v, S)
    BY <2>1 DEF Ledger
  <2> HIDE DEF v, S
  <2>5. SumFunctionOnSet(v, S) \in Int
    BY <1>2, <2>2, SumIsInt
  <2>6. SumFunctionOnSet(v, S \cup {x}) = v[x] + SumFunctionOnSet(v, S)
    BY <1>1, <1>2, <2>2, SumAdd
  <2> QED
    BY <2>3, <2>4, <2>5, <2>6
<1>5. CASE ~(ds[x].m = m /\ ds[x].dir = d)
  <2>1. Group(ds, Disputes, m, d) = S
    BY <1>5 DEF Group
  <2>2. \A y \in S : v[y] \in Int
    BY <1>1, <1>3
  <2>3. Own(ds[x], m, d) = 0
    BY <1>5 DEF Own
  <2>4. Ledger(ds, Disputes, m, d) = SumFunctionOnSet(v, S) /\ Ledger(ds, Disputes \ {x}, m, d) = SumFunctionOnSet(v, S)
    BY <2>1 DEF Ledger
  <2> HIDE DEF v, S
  <2>5. SumFunctionOnSet(v, S) \in Int
    BY <1>2, <2>2, SumIsInt
  <2> QED
    BY <2>3, <2>4, <2>5
<1> QED
  BY <1>4, <1>5

AgreeOff(x, ds, es) == \A y \in Disputes \ {x} : es[y] = ds[y]

Moved(x, ds, es, m, d) ==
  /\ Ledger(ds, Disputes, m, d) \in Int /\ Ledger(es, Disputes, m, d) \in Int
  /\ Ledger(es, Disputes, m, d) = Ledger(ds, Disputes, m, d) + Own(es[x], m, d) - Own(ds[x], m, d)

\* A change of one dispute moves the ledger by the change of its own part.
LEMMA LedgerMoves ==
  ASSUME NEW ds \in [Disputes -> Dispute], NEW es \in [Disputes -> Dispute], NEW x \in Disputes,
         AgreeOff(x, ds, es), NEW m, NEW d
  PROVE  Moved(x, ds, es, m, d)
<1>1. Ledger(es, Disputes \ {x}, m, d) = Ledger(ds, Disputes \ {x}, m, d)
  <2> DEFINE S == Group(ds, Disputes \ {x}, m, d)
             v == Adjusting(es)
             w == Adjusting(ds)
  <2>1. Group(es, Disputes \ {x}, m, d) = S
    BY DEF Group, AgreeOff
  <2>2. S \in SUBSET Disputes /\ \A y \in S : v[y] = w[y]
    BY DEF Group, Adjusting, AgreeOff
  <2>3. IsFiniteSet(S)
    BY <2>2, FS_Subset, StatementsAssumption
  <2> HIDE DEF S, v, w
  <2>4. SumFunctionOnSet(v, S) = SumFunctionOnSet(w, S)
    BY <2>2, <2>3, SumSame
  <2> QED
    BY <2>1, <2>4 DEF Ledger, S, v, w
<1>2. /\ Ledger(ds, Disputes \ {x}, m, d) \in Int
      /\ Ledger(ds, Disputes, m, d) = Own(ds[x], m, d) + Ledger(ds, Disputes \ {x}, m, d)
  BY LedgerSplit
<1>3. Ledger(es, Disputes, m, d) = Own(es[x], m, d) + Ledger(es, Disputes \ {x}, m, d)
  BY LedgerSplit
<1>4. Own(es[x], m, d) \in Int /\ Own(ds[x], m, d) \in Int
  <2>1. ds[x] \in Dispute /\ es[x] \in Dispute
    OBVIOUS
  <2> QED
    BY <2>1 DEF Own, Dispute
<1> DEFINE a == Own(es[x], m, d)
           b == Own(ds[x], m, d)
           c == Ledger(ds, Disputes \ {x}, m, d)
<1>5. a \in Int /\ b \in Int /\ c \in Int /\ Ledger(ds, Disputes, m, d) = b + c /\ Ledger(es, Disputes, m, d) = a + c
  BY <1>1, <1>2, <1>3, <1>4
<1> HIDE DEF a, b, c
<1>6. /\ Ledger(ds, Disputes, m, d) \in Int /\ Ledger(es, Disputes, m, d) \in Int
      /\ Ledger(es, Disputes, m, d) = Ledger(ds, Disputes, m, d) + a - b
  BY <1>5
<1> QED
  BY <1>6 DEF a, b, Moved

StatementsTyped ==
  /\ base \in [Months -> [Directions -> Int]] /\ stmt \in [Months -> Statement]
  /\ disp \in [Disputes -> Dispute]
  /\ \A x \in Disputes : disp[x].st \in OpenStatus => disp[x].dir \in Directions

\* An adjustment is entered when a dispute is accepted, never before.
Unadjusted == \A x \in Disputes : disp[x].st \in OpenStatus \cup {"none"} => disp[x].adj = 0

StatementsInv == StatementsTyped /\ Unadjusted /\ LedgerBalance

\* LedgerBalance, by month and direction.
LEMMA LedgerIs ==
  LedgerBalance <=> \A m \in Months, d \in Directions :
                      stmt[m].net[d] = base[m][d] + Ledger(disp, Disputes, m, d)
BY DEF LedgerBalance, Ledger, Adjusting, Group

\* The amount a store may confirm is a number.
LEMMA ConfirmableIsInt ==
  ASSUME StatementsTyped, NEW m \in Months, NEW d \in Directions
  PROVE  Confirmable(m, d) \in Int
<1> DEFINE S == {x \in Disputes : /\ disp[x].st \in OpenStatus
                                  /\ disp[x].m = m /\ disp[x].ver = stmt[m].ver /\ disp[x].dir = d}
           n == Cardinality(S)
           rest == stmt[m].net[d] - Frozen(m, d)
<1>1. n \in Nat
  <2>1. S \in SUBSET Disputes
    OBVIOUS
  <2> HIDE DEF S
  <2> QED
    BY <2>1, FS_Subset, FS_CardinalityType, StatementsAssumption
<1>2. Frozen(m, d) = DisputeAmount * n
  BY DEF Frozen
<1> HIDE DEF n
<1>3. Frozen(m, d) \in Int
  BY <1>1, <1>2, StatementsAssumption
<1>4. stmt[m].net[d] \in Int
  <2>1. stmt[m] \in Statement
    BY DEF StatementsTyped
  <2> QED
    BY <2>1 DEF Statement
<1>5. rest \in Int
  BY <1>3, <1>4
<1>6. Confirmable(m, d) = IF d = "promotion" THEN rest ELSE Max({rest, 0})
  BY DEF Confirmable
<1> HIDE DEF rest
<1>7. Max({rest, 0}) \in {rest, 0}
  <2>1. \E a \in {rest, 0} : \A b \in {rest, 0} : a >= b
    BY <1>5
  <2> QED
    BY <2>1 DEF Max
<1> QED
  BY <1>5, <1>6, <1>7

\* A step that changes one dispute, and the amounts by what that dispute adds.
LEMMA DisputeKeeps ==
  ASSUME StatementsInv, NEW x \in Disputes, NEW r \in Dispute, disp' = [disp EXCEPT ![x] = r],
         r.st \in OpenStatus => r.dir \in Directions,
         r.st \in OpenStatus \cup {"none"} => r.adj = 0,
         base' = base, stmt' \in [Months -> Statement],
         \A m \in Months, d \in Directions :
           stmt'[m].net[d] = stmt[m].net[d] + Own(r, m, d) - Own(disp[x], m, d)
  PROVE  StatementsInv'
<1>1. /\ disp \in [Disputes -> Dispute] /\ base \in [Months -> [Directions -> Int]]
      /\ \A y \in Disputes : disp[y].st \in OpenStatus => disp[y].dir \in Directions
      /\ \A y \in Disputes : disp[y].st \in OpenStatus \cup {"none"} => disp[y].adj = 0
  BY DEF StatementsInv, StatementsTyped, Unadjusted
<1>2. disp' \in [Disputes -> Dispute] /\ disp'[x] = r /\ \A y \in Disputes \ {x} : disp'[y] = disp[y]
  BY <1>1
<1>3. StatementsTyped'
  <2>1. \A y \in Disputes : disp'[y].st \in OpenStatus => disp'[y].dir \in Directions
    BY <1>1, <1>2
  <2> QED
    BY <1>1, <1>2, <2>1 DEF StatementsTyped, OpenStatus
<1>4. Unadjusted'
  <2>1. \A y \in Disputes : disp'[y].st \in OpenStatus \cup {"none"} => disp'[y].adj = 0
    BY <1>1, <1>2
  <2> QED
    BY <2>1 DEF Unadjusted, OpenStatus
<1>5. ASSUME NEW m \in Months, NEW d \in Directions
      PROVE  stmt'[m].net[d] = base'[m][d] + Ledger(disp', Disputes, m, d)
  <2> DEFINE n == stmt[m].net[d]
             nn == stmt'[m].net[d]
             b == base[m][d]
             l == Ledger(disp, Disputes, m, d)
             ll == Ledger(disp', Disputes, m, d)
             new == Own(r, m, d)
             old == Own(disp[x], m, d)
  <2>1. n = b + l
    BY LedgerIs DEF StatementsInv
  <2>2. nn = n + new - old
    OBVIOUS
  <2>3. l \in Int /\ ll \in Int /\ ll = l + new - old
    <3> DEFINE es == disp'
    <3>1. es \in [Disputes -> Dispute] /\ es[x] = r /\ AgreeOff(x, disp, es)
      BY <1>2 DEF AgreeOff
    <3> HIDE DEF es
    <3>2. Moved(x, disp, es, m, d)
      BY <1>1, <3>1, LedgerMoves
    <3> QED
      BY <3>1, <3>2 DEF es, Moved
  <2>4. b \in Int
    BY <1>1
  <2>5. new \in Int /\ old \in Int
    <3>1. disp[x] \in Dispute
      BY <1>1
    <3> QED
      BY <3>1 DEF Own, Dispute
  <2>6. base'[m][d] = b
    OBVIOUS
  <2> HIDE DEF n, nn, b, l, ll, new, old
  <2>7. nn = b + ll
    BY <2>1, <2>2, <2>3, <2>4, <2>5
  <2> QED
    BY <2>6, <2>7 DEF nn, ll
<1>6. LedgerBalance'
  BY <1>5 DEF LedgerBalance, Ledger, Adjusting, Group
<1> QED
  BY <1>3, <1>4, <1>6 DEF StatementsInv

\* confirm_store_settlement leaves the amounts alone.
LEMMA ConfirmKeeps ==
  ASSUME StatementsInv, NEW m \in Months, NEW d \in Directions, ConfirmStatement(m, d)
  PROVE  StatementsInv'
<1> DEFINE a == Confirmable(m, d)
<1>1. a \in Int
  BY ConfirmableIsInt DEF StatementsInv
<1>2. stmt' = [stmt EXCEPT ![m].conf[d] = {a}] /\ base' = base /\ disp' = disp
  BY DEF ConfirmStatement
<1> HIDE DEF a
<1>3. stmt \in [Months -> Statement]
  BY DEF StatementsInv, StatementsTyped
<1>4. stmt' \in [Months -> Statement] /\ \A k \in Months : stmt'[k].net = stmt[k].net
  <2>1. ASSUME NEW k \in Months PROVE stmt'[k] \in Statement /\ stmt'[k].net = stmt[k].net
    <3>1. stmt[k] \in Statement
      BY <1>3
    <3>2. CASE k = m
      <4>1. stmt'[k] = [stmt[k] EXCEPT !.conf[d] = {a}]
        BY <1>2, <1>3, <3>2
      <4> QED
        BY <1>1, <3>1, <4>1 DEF Statement
    <3>3. CASE k # m
      BY <1>2, <1>3, <3>1, <3>3
    <3> QED
      BY <3>2, <3>3
  <2>2. DOMAIN stmt' = Months /\ stmt' = [k \in Months |-> stmt'[k]]
    BY <1>2, <1>3
  <2> QED
    BY <2>1, <2>2
<1>5. StatementsTyped' /\ Unadjusted'
  BY <1>2, <1>4 DEF StatementsInv, StatementsTyped, Unadjusted, OpenStatus
<1>6. \A k \in Months, e \in Directions : stmt'[k].net[e] = base'[k][e] + Ledger(disp', Disputes, k, e)
  BY <1>2, <1>4, LedgerIs DEF StatementsInv
<1>7. LedgerBalance'
  BY <1>6 DEF LedgerBalance, Ledger, Adjusting, Group
<1> QED
  BY <1>5, <1>7 DEF StatementsInv

\* Requests that change one dispute and no statement.
LEMMA DisputesKeep ==
  ASSUME StatementsInv, NEW x \in Disputes, NEW d \in Directions,
         \/ \E m \in Months : OpenDispute(x, m, d)
         \/ WithdrawDispute(x)
         \/ \E to \in {"in_review", "approval", "rejected"} : MoveDispute(x, to)
  PROVE  StatementsInv'
<1>1. /\ disp \in [Disputes -> Dispute] /\ stmt \in [Months -> Statement]
      /\ disp[x].st \in OpenStatus => disp[x].dir \in Directions
      /\ disp[x].st \in OpenStatus \cup {"none"} => disp[x].adj = 0
  BY DEF StatementsInv, StatementsTyped, Unadjusted
<1>2. disp[x] \in Dispute
  BY <1>1
<1>3. base' = base /\ stmt' = stmt
  BY DEF OpenDispute, WithdrawDispute, MoveDispute
<1>4. \A m \in Months, e \in Directions : stmt[m].net[e] \in Int
  <2>1. \A m \in Months : stmt[m] \in Statement
    BY <1>1
  <2> QED
    BY <2>1 DEF Statement
<1>5. ASSUME NEW r \in Dispute, disp' = [disp EXCEPT ![x] = r],
             r.st \in OpenStatus => r.dir \in Directions,
             r.st \in OpenStatus \cup {"none"} => r.adj = 0,
             \A m \in Months, e \in Directions : Own(r, m, e) = Own(disp[x], m, e)
      PROVE  StatementsInv'
  <2>1. \A m \in Months, e \in Directions : Own(r, m, e) \in Int
    BY DEF Own, Dispute
  <2>2. \A m \in Months, e \in Directions :
          stmt'[m].net[e] = stmt[m].net[e] + Own(r, m, e) - Own(disp[x], m, e)
    BY <1>3, <1>4, <1>5, <2>1
  <2>3. stmt' \in [Months -> Statement]
    BY <1>1, <1>3
  <2> QED
    BY <1>3, <1>5, <2>2, <2>3, DisputeKeeps
<1>6. CASE \E m \in Months : OpenDispute(x, m, d)
  <2>1. PICK m \in Months : OpenDispute(x, m, d)
    BY <1>6
  <2> DEFINE r == [st |-> "pending", m |-> m, ver |-> stmt[m].ver, dir |-> d, adj |-> 0]
  <2>2. disp[x].st = "none" /\ disp' = [disp EXCEPT ![x] = r]
    BY <2>1 DEF OpenDispute
  <2>3. d \in {"promotion", "management"} /\ stmt[m].ver \in Nat
    <3>1. stmt[m] \in Statement
      BY <1>1
    <3> QED
      BY <3>1, StatementsAssumption DEF Statement
  <2>4. r \in Dispute /\ r.dir = d /\ r.adj = 0
    BY <2>3 DEF Dispute
  <2>5. disp[x].adj = 0
    BY <1>1, <2>2
  <2> HIDE DEF r
  <2>6. \A k \in Months, e \in Directions : Own(r, k, e) = Own(disp[x], k, e)
    BY <2>4, <2>5 DEF Own
  <2> QED
    BY <1>5, <2>2, <2>4, <2>6
<1>7. ASSUME NEW to \in {"withdrawn", "in_review", "approval", "rejected"},
             disp' = [disp EXCEPT ![x].st = to], to = "withdrawn" \/ disp[x].st \in OpenStatus
      PROVE  StatementsInv'
  <2> DEFINE r == [disp[x] EXCEPT !.st = to]
  <2>1. /\ r \in Dispute /\ r.st = to /\ r.dir = disp[x].dir /\ r.adj = disp[x].adj /\ r.m = disp[x].m
        /\ disp' = [disp EXCEPT ![x] = r]
    BY <1>2, <1>7 DEF Dispute
  <2> HIDE DEF r
  <2>2. /\ r.st \in OpenStatus => r.dir \in Directions
        /\ r.st \in OpenStatus \cup {"none"} => r.adj = 0
    BY <1>1, <1>7, <2>1 DEF OpenStatus
  <2>3. \A k \in Months, e \in Directions : Own(r, k, e) = Own(disp[x], k, e)
    BY <2>1 DEF Own
  <2> QED
    BY <1>5, <2>1, <2>2, <2>3
<1>8. CASE WithdrawDispute(x)
  BY <1>7, <1>8 DEF WithdrawDispute
<1>9. CASE \E to \in {"in_review", "approval", "rejected"} : MoveDispute(x, to)
  BY <1>7, <1>9 DEF MoveDispute
<1> QED
  BY <1>6, <1>8, <1>9

\* An accepted dispute enters its adjustment and the statement moves by it.
LEMMA AcceptKeeps ==
  ASSUME StatementsInv, NEW x \in Disputes, NEW adj \in Adjustments, NEW late \in BOOLEAN,
         AcceptDispute(x, adj, late)
  PROVE  StatementsInv'
<1> DEFINE m == disp[x].m
           d == disp[x].dir
           old == stmt[m]
           net == [old.net EXCEPT ![d] = @ + adj]
           conf == IF late THEN [Unconfirmed EXCEPT ![d] = {net[d]}] ELSE Unconfirmed
           n == old.ver + 1
           new == [ver |-> n, net |-> net, conf |-> conf]
           r == [disp[x] EXCEPT !.st = "accepted", !.adj = adj]
<1>1. /\ disp \in [Disputes -> Dispute] /\ stmt \in [Months -> Statement]
      /\ disp[x].st \in OpenStatus => disp[x].dir \in Directions
      /\ disp[x].st \in OpenStatus \cup {"none"} => disp[x].adj = 0
  BY DEF StatementsInv, StatementsTyped, Unadjusted
<1>2. disp[x] \in Dispute /\ m \in Months /\ adj \in Int
  <2>1. disp[x] \in Dispute
    BY SMTT(60), <1>1
  <2> QED
    BY <2>1, StatementsAssumption DEF Dispute
<1>3. /\ disp[x].st \in OpenStatus /\ base' = base /\ stmt' = [stmt EXCEPT ![m] = new]
      /\ disp' = [disp EXCEPT ![x] = r]
  <2>1. stmt' = [stmt EXCEPT ![m] = new]
    BY DEF AcceptDispute, Adjusted
  <2> QED
    BY ZenonT(60), <2>1 DEF AcceptDispute
<1>4. d \in Directions /\ disp[x].adj = 0
  BY <1>1, <1>3
<1>5. old \in Statement
  BY <1>1, <1>2
<1>6. old.ver \in Nat /\ old.net \in [Directions -> Int]
  BY <1>5 DEF Statement
<1>7. net \in [Directions -> Int] /\ net[d] = old.net[d] + adj /\ \A e \in Directions : e # d => net[e] = old.net[e]
  BY <1>2, <1>4, <1>6
<1>8. conf \in [Directions -> SUBSET Int]
  <2> HIDE DEF net
  <2>1. net[d] \in Int
    BY <1>4, <1>7
  <2>2. Unconfirmed \in [Directions -> SUBSET Int]
    BY DEF Unconfirmed
  <2> HIDE DEF d
  <2>3. [Unconfirmed EXCEPT ![d] = {net[d]}] \in [Directions -> SUBSET Int]
    BY <2>1, <2>2
  <2> QED
    BY <2>2, <2>3
<1>9. n \in Nat
  BY <1>6
<1>10. new \in Statement /\ new.net = net
  <2> HIDE DEF net, conf, n
  <2> QED
    BY <1>7, <1>8, <1>9 DEF Statement
<1> HIDE DEF new
<1>11. stmt' \in [Months -> Statement] /\ stmt'[m] = new /\ \A k \in Months : k # m => stmt'[k] = stmt[k]
  <2> HIDE DEF m
  <2> QED
    BY <1>1, <1>2, <1>3, <1>10
<1>12. r \in Dispute /\ r.st = "accepted" /\ r.adj = adj /\ r.m = m /\ r.dir = d
  BY <1>2 DEF Dispute
<1> HIDE DEF r
<1>13. ASSUME NEW k \in Months, NEW e \in Directions
       PROVE  stmt'[k].net[e] = stmt[k].net[e] + Own(r, k, e) - Own(disp[x], k, e)
  <2>1. Own(disp[x], k, e) = 0
    BY <1>4 DEF Own
  <2>2. Own(r, k, e) = IF k = m /\ e = d THEN adj ELSE 0
    BY <1>12 DEF Own
  <2>3. stmt[k].net[e] \in Int
    <3>1. stmt[k] \in Statement
      BY <1>1
    <3> QED
      BY <3>1 DEF Statement
  <2> HIDE DEF net, m, d
  <2>4. CASE k = m /\ e = d
    <3>1. stmt'[k].net[e] = stmt[k].net[e] + adj
      BY <1>7, <1>10, <1>11, <2>4
    <3> QED
      BY <1>2, <2>1, <2>2, <2>3, <2>4, <3>1
  <2>5. CASE ~(k = m /\ e = d)
    <3>1. stmt'[k].net[e] = stmt[k].net[e]
      BY <1>7, <1>10, <1>11, <2>5
    <3>2. Own(r, k, e) = 0
      BY <2>2, <2>5
    <3> QED
      BY <2>1, <2>3, <3>1, <3>2
  <2> QED
    BY <2>4, <2>5
<1>14. r.st \notin OpenStatus \cup {"none"}
  BY <1>12 DEF OpenStatus
<1> QED
  BY <1>3, <1>11, <1>12, <1>13, <1>14, DisputeKeeps

\* Every request about statements and disputes keeps the invariant.
LEMMA StatementsStep ==
  ASSUME StatementsInv,
         (\E d \in Directions : StatementsNext(Months, d, Disputes)) \/ UNCHANGED stmtVars
  PROVE  StatementsInv'
<1>1. ASSUME NEW d \in Directions, StatementsNext(Months, d, Disputes) PROVE StatementsInv'
  <2>1. ASSUME NEW m \in Months, ConfirmStatement(m, d) PROVE StatementsInv'
    BY <2>1, ConfirmKeeps
  <2>2. ASSUME NEW x \in Disputes,
               \/ \E m \in Months : OpenDispute(x, m, d)
               \/ WithdrawDispute(x)
               \/ \E to \in {"in_review", "approval", "rejected"} : MoveDispute(x, to)
        PROVE  StatementsInv'
    BY <2>2, DisputesKeep
  <2>3. ASSUME NEW x \in Disputes, NEW adj \in Adjustments, NEW late \in BOOLEAN, AcceptDispute(x, adj, late)
        PROVE  StatementsInv'
    BY <2>3, AcceptKeeps
  <2> QED
    BY <1>1, <2>1, <2>2, <2>3 DEF StatementsNext
<1>2. CASE UNCHANGED stmtVars
  BY <1>2 DEF StatementsInv, StatementsTyped, Unadjusted, LedgerBalance, stmtVars, OpenStatus
<1> QED
  BY <1>1, <1>2

\* The first versions of the statements balance.
LEMMA StatementsStart ==
  ASSUME StatementsInit PROVE StatementsInv
<1>1. /\ base \in BaseNets
      /\ stmt = [m \in Months |-> [ver |-> 1, net |-> base[m], conf |-> Unconfirmed]]
      /\ disp = [x \in Disputes |-> NoDispute]
  BY DEF StatementsInit
<1>2. base \in [Months -> [Directions -> Int]]
  BY <1>1, StatementsAssumption
<1>3. NoDispute \in Dispute /\ NoDispute.adj = 0 /\ NoDispute.st = "none"
  <2>1. 1 \in Months
    BY StatementsAssumption DEF Months
  <2> QED
    BY <2>1 DEF NoDispute, Dispute
<1>4. disp \in [Disputes -> Dispute] /\ \A x \in Disputes : disp[x].adj = 0 /\ disp[x].st = "none"
  <2> HIDE DEF NoDispute
  <2> QED
    BY <1>1, <1>3
<1>5. stmt \in [Months -> Statement]
  <2>1. Unconfirmed \in [Directions -> SUBSET Int]
    BY DEF Unconfirmed
  <2>2. \A m \in Months : [ver |-> 1, net |-> base[m], conf |-> Unconfirmed] \in Statement
    BY <1>2, <2>1 DEF Statement
  <2> QED
    BY <1>1, <2>2
<1>6. StatementsTyped /\ Unadjusted
  BY <1>2, <1>4, <1>5 DEF StatementsTyped, Unadjusted, OpenStatus
<1>7. ASSUME NEW m \in Months, NEW d \in Directions
      PROVE  stmt[m].net[d] = base[m][d] + Ledger(disp, Disputes, m, d)
  <2> DEFINE v == Adjusting(disp)
             S == Group(disp, Disputes, m, d)
  <2>1. Ledger(disp, Disputes, m, d) = 0
    <3>1. S \in SUBSET Disputes /\ \A x \in Disputes : v[x] = 0
      BY <1>4 DEF Group, Adjusting
    <3>2. IsFiniteSet(S)
      BY <3>1, FS_Subset, StatementsAssumption
    <3>3. Ledger(disp, Disputes, m, d) = SumFunctionOnSet(v, S)
      BY DEF Ledger
    <3> HIDE DEF S, v
    <3>4. SumFunctionOnSet(v, S) = 0
      BY <3>1, <3>2, SumZero
    <3> QED
      BY <3>3, <3>4
  <2>2. stmt[m].net[d] = base[m][d] /\ base[m][d] \in Int
    BY <1>1, <1>2
  <2> QED
    BY <2>1, <2>2
<1>8. LedgerBalance
  BY <1>7, LedgerIs
<1> QED
  BY <1>6, <1>8 DEF StatementsInv

\* No adjustment is lost, applied twice, or undone by a withdrawal: the current amount
\* of every month and direction is the first one and all accepted adjustments
\* (_create_dispute_statement_version, withdraw_store_settlement_dispute).
THEOREM AdjustmentsAddUp == StatementsSpec => []LedgerBalance
<1>1. StatementsInv /\ [\E d \in Directions : StatementsNext(Months, d, Disputes)]_stmtVars => StatementsInv'
  BY StatementsStep
<1>2. StatementsInv => LedgerBalance
  BY DEF StatementsInv
<1> QED
  BY <1>1, <1>2, StatementsStart, PTL DEF StatementsSpec

-----------------------------------------------------------------------------
(* Promotion invoices.                                                     *)

Judged == {"issued", "settled", "rejected"}
Allocation == UNION {[T -> [ver : Nat, amt : Int]] : T \in SUBSET Months}
Invoice == [alloc : Allocation, chain : Seq(Judged), live : BOOLEAN, term : {"none", "open", "closed"},
            src : SUBSET Nat]

Result == [val : Judged, at : Nat]
Results == UNION {[T -> Result] : T \in SUBSET Nat}
ResultMade == UNION {[T -> Nat] : T \in SUBSET Nat}
ResultBatch ==
  [slot : {2} \X Months, read : Nat, cur : Nat, rows : Results, made : ResultMade,
   reverses : Nat, status : {"ready", "committed", "conflict", "reversal"}]

\* An invoice has a status; it is current until it is terminated; it replaces earlier ones.
InvoiceOK(i) ==
  /\ Len(inv[i].chain) > 0 /\ inv[i].live = (inv[i].term = "none") /\ inv[i].src \subseteq 1..(i - 1)

\* No two current invoices share a month.
Apart ==
  \A i, j \in Invoices : inv[i].live /\ inv[j].live /\ i # j =>
    DOMAIN inv[i].alloc \cap DOMAIN inv[j].alloc = {}

\* A batch is about registered invoices, and what it made was not the first version.
ResultOK(b) ==
  /\ DOMAIN batch[b].rows \subseteq Invoices /\ DOMAIN batch[b].made \subseteq Invoices
  /\ \A i \in DOMAIN batch[b].made : batch[b].made[i] > 1

PromotionInv ==
  /\ StatementsInv
  /\ inv \in Seq(Invoice) /\ \A i \in Invoices : InvoiceOK(i)
  /\ Apart /\ ReplacementChain
  /\ batch \in Seq(ResultBatch) /\ \A b \in 1..Len(batch) : ResultOK(b)

\* The rows of a batch of results, and the versions it made, are about invoices.
LEMMA ResultsTyped ==
  ASSUME NEW x \in ResultBatch
  PROVE  /\ x.rows \in [DOMAIN x.rows -> Result] /\ DOMAIN x.rows \subseteq Nat
         /\ x.made \in [DOMAIN x.made -> Nat] /\ DOMAIN x.made \subseteq Nat
<1>1. x.rows \in Results /\ x.made \in ResultMade
  BY DEF ResultBatch
<1>2. PICK T \in SUBSET Nat : x.rows \in [T -> Result]
  BY <1>1 DEF Results
<1>3. PICK U \in SUBSET Nat : x.made \in [U -> Nat]
  BY <1>1 DEF ResultMade
<1> QED
  BY <1>2, <1>3

\* The versions of the slots of results are numbers.
LEMMA ResultVersions ==
  ASSUME batch \in Seq(ResultBatch), NEW slot
  PROVE  SlotVersion(slot) \in Nat
<1>1. Len(batch) \in Nat /\ \A b \in 1..Len(batch) : batch[b] \in ResultBatch
  OBVIOUS
<1>2. \A b \in 1..Len(batch) : batch[b].cur \in Nat
  BY <1>1 DEF ResultBatch
<1> QED
  BY <1>1, <1>2, SlotVersionIsNat

\* A function on the numbers up to n is a sequence of length n.
LEMMA FunctionIsSeq ==
  ASSUME NEW S, NEW n \in Nat, NEW f \in [1..n -> S]
  PROVE  f \in Seq(S) /\ Len(f) = n
BY SMT

\* What Append makes of a sequence.
LEMMA AppendIs ==
  ASSUME NEW S, NEW f \in Seq(S), NEW x \in S
  PROVE  /\ Append(f, x) \in Seq(S) /\ Len(Append(f, x)) = Len(f) + 1 /\ Append(f, x)[Len(f) + 1] = x
         /\ \A i \in 1..Len(f) : Append(f, x)[i] = f[i]
OBVIOUS

\* Batches whose commit, conflict or reversal touched no invoice's months: the
\* invoices keep all but their chains, which grow.
Judging ==
  /\ inv' \in Seq(Invoice) /\ Len(inv') = Len(inv)
  /\ \A i \in Invoices : /\ inv'[i].alloc = inv[i].alloc /\ inv'[i].live = inv[i].live
                         /\ inv'[i].term = inv[i].term /\ inv'[i].src = inv[i].src
                         /\ Len(inv'[i].chain) > 0

\* Such a step keeps every relation between invoices.
LEMMA JudgingKeeps ==
  ASSUME PromotionInv, Judging
  PROVE  (\A i \in Invoices : InvoiceOK(i))' /\ Apart' /\ ReplacementChain'
<1>1. Len(inv) \in Nat /\ 1..Len(inv') = 1..Len(inv)
  BY DEF PromotionInv, Judging
<1>2. \A i \in 1..Len(inv) : /\ inv'[i].alloc = inv[i].alloc /\ inv'[i].live = inv[i].live
                             /\ inv'[i].term = inv[i].term /\ inv'[i].src = inv[i].src
                             /\ Len(inv'[i].chain) > 0
  BY DEF Judging, Invoices
<1>3. (\A i \in Invoices : InvoiceOK(i))'
  BY <1>1, <1>2 DEF PromotionInv, InvoiceOK, Invoices
<1>4. Apart'
  BY <1>1, <1>2 DEF PromotionInv, Apart, Invoices
<1>5. ReplacementChain'
  <2>1. \A j \in 1..Len(inv) : \A i \in inv[j].src : i \in 1..Len(inv)
    <3> SUFFICES ASSUME NEW j \in 1..Len(inv), NEW i \in inv[j].src PROVE i \in 1..Len(inv)
      OBVIOUS
    <3>1. i \in 1..(j - 1)
      BY DEF PromotionInv, InvoiceOK, Invoices
    <3> QED
      BY <1>1, <3>1
  <2> QED
    BY ZenonT(60), <1>1, <1>2, <2>1 DEF PromotionInv, ReplacementChain, Invoices
<1> QED
  BY <1>3, <1>4, <1>5

NewResultOK(x) ==
  /\ x \in ResultBatch /\ DOMAIN x.rows \subseteq Invoices /\ DOMAIN x.made \subseteq Invoices
  /\ \A i \in DOMAIN x.made : x.made[i] > 1

\* The batches stay about registered invoices when one is added or rewritten.
LEMMA ResultsKeep ==
  ASSUME PromotionInv, inv' \in Seq(Invoice), Len(inv) <= Len(inv'),
         \/ batch' = batch
         \/ \E x : NewResultOK(x) /\ batch' = Append(batch, x)
         \/ \E b \in 1..Len(batch) : \E x : NewResultOK(x) /\ batch' = [batch EXCEPT ![b] = x]
  PROVE  batch' \in Seq(ResultBatch) /\ (\A b \in 1..Len(batch) : ResultOK(b))'
<1>1. /\ batch \in Seq(ResultBatch) /\ Len(batch) \in Nat /\ Len(inv) \in Nat /\ Len(inv') \in Nat
      /\ \A b \in 1..Len(batch) : batch[b] \in ResultBatch /\ ResultOK(b)
  BY DEF PromotionInv
<1>2. 1..Len(inv) \subseteq 1..Len(inv')
  BY <1>1
<1>3. ASSUME NEW b, NewResultOK(batch'[b]) PROVE ResultOK(b)'
  BY <1>2, <1>3 DEF NewResultOK, ResultOK, Invoices
<1>4. \A b \in 1..Len(batch) : NewResultOK(batch[b])
  BY <1>1 DEF NewResultOK, ResultOK
<1>5. SUFFICES batch' \in Seq(ResultBatch) /\ \A b \in 1..Len(batch') : NewResultOK(batch'[b])
  BY <1>3
<1>6. CASE batch' = batch
  BY <1>1, <1>4, <1>6
<1>7. CASE \E x : NewResultOK(x) /\ batch' = Append(batch, x)
  <2>1. PICK x : NewResultOK(x) /\ batch' = Append(batch, x)
    BY <1>7
  <2>2. x \in ResultBatch
    BY <2>1 DEF NewResultOK
  <2> HIDE DEF ResultBatch
  <2>3. /\ batch' \in Seq(ResultBatch) /\ Len(batch') = Len(batch) + 1 /\ batch'[Len(batch) + 1] = x
        /\ \A b \in 1..Len(batch) : batch'[b] = batch[b]
    BY <1>1, <2>1, <2>2
  <2>4. \A b \in 1..Len(batch') : b \in 1..Len(batch) \/ b = Len(batch) + 1
    BY SMTT(60), <1>1, <2>3
  <2> QED
    BY <1>4, <2>1, <2>3, <2>4
<1>8. CASE \E b \in 1..Len(batch) : \E x : NewResultOK(x) /\ batch' = [batch EXCEPT ![b] = x]
  <2>0. PICK b \in 1..Len(batch) : \E x : NewResultOK(x) /\ batch' = [batch EXCEPT ![b] = x]
    BY <1>8
  <2>1. PICK x : NewResultOK(x) /\ batch' = [batch EXCEPT ![b] = x]
    BY <2>0
  <2>2. x \in ResultBatch
    BY <2>1 DEF NewResultOK
  <2> HIDE DEF ResultBatch
  <2>3. /\ batch' \in Seq(ResultBatch) /\ Len(batch') = Len(batch) /\ batch'[b] = x
        /\ \A c \in 1..Len(batch) : c # b => batch'[c] = batch[c]
    BY <1>1, <2>1, <2>2
  <2> QED
    BY Zenon, <1>4, <2>1, <2>3
<1> QED
  BY <1>6, <1>7, <1>8

\* A step of the imports, in one lemma: chains grow and one batch is written.
LEMMA ImportKeeps ==
  ASSUME PromotionInv, UNCHANGED stmtVars, Judging,
         \/ batch' = batch
         \/ \E x : NewResultOK(x) /\ batch' = Append(batch, x)
         \/ \E b \in 1..Len(batch) : \E x : NewResultOK(x) /\ batch' = [batch EXCEPT ![b] = x]
  PROVE  PromotionInv'
<1>1. StatementsInv'
  BY StatementsStep DEF PromotionInv
<1>2. (\A i \in Invoices : InvoiceOK(i))' /\ Apart' /\ ReplacementChain'
  BY JudgingKeeps
<1>3. inv' \in Seq(Invoice) /\ Len(inv) <= Len(inv')
  <2>1. inv' \in Seq(Invoice) /\ Len(inv') = Len(inv) /\ Len(inv) \in Nat
    BY DEF Judging, PromotionInv
  <2> QED
    BY <2>1
<1>4. batch' \in Seq(ResultBatch) /\ (\A b \in 1..Len(batch) : ResultOK(b))'
  BY <1>3, ResultsKeep
<1> QED
  BY <1>1, <1>2, <1>3, <1>4 DEF PromotionInv

\* Invoices that stay as they are.
LEMMA JudgingNone ==
  ASSUME PromotionInv, inv' = inv PROVE Judging
BY DEF PromotionInv, Judging, InvoiceOK, Invoices

\* No results.
LEMMA NoResults == NoRows \in Results /\ NoRows \in ResultMade /\ DOMAIN NoRows = {}
<1>1. NoRows \in [{} -> Result] /\ NoRows \in [{} -> Nat] /\ {} \in SUBSET Nat /\ DOMAIN NoRows = {}
  BY DEF NoRows
<1> QED
  BY <1>1 DEF Results, ResultMade

\* The upload of a result previews the current version of a registered invoice.
LEMMA UploadResultKeeps ==
  ASSUME PromotionInv, NEW i \in Invoices, NEW m \in Months, NEW r \in {"settled", "rejected"},
         UploadResult(m, i, r)
  PROVE  PromotionInv' /\ inv' = inv
<1> DEFINE shown == [k \in {i} |-> [val |-> r, at |-> Len(inv[i].chain)]]
           n == SlotVersion(FactorySlot(m))
           x == [slot |-> FactorySlot(m), read |-> n, cur |-> n,
                 rows |-> shown, made |-> NoRows, reverses |-> 0, status |-> "ready"]
<1>1. batch' = Append(batch, x) /\ UNCHANGED <<stmtVars, inv>>
  BY DEF UploadResult, Uploaded
<1>2. n \in Nat
  BY ResultVersions DEF PromotionInv
<1>3. i \in Nat /\ inv[i] \in Invoice /\ Len(inv[i].chain) \in Nat
  <2>1. inv \in Seq(Invoice) /\ Len(inv) \in Nat
    BY DEF PromotionInv
  <2>2. i \in Nat /\ inv[i] \in Invoice
    BY <2>1 DEF Invoices
  <2>3. inv[i].chain \in Seq(Judged)
    BY <2>2 DEF Invoice
  <2> QED
    BY <2>2, <2>3
<1>4. shown \in Results /\ DOMAIN shown = {i}
  <2>1. [val |-> r, at |-> Len(inv[i].chain)] \in Result
    BY <1>3 DEF Result, Judged
  <2>2. shown \in [{i} -> Result] /\ {i} \in SUBSET Nat
    BY <1>3, <2>1
  <2> QED
    BY <2>2 DEF Results
<1>5. FactorySlot(m) \in {2} \X Months
  BY DEF FactorySlot
<1>6. NewResultOK(x)
  <2> HIDE DEF shown, n
  <2>1. x \in ResultBatch /\ x.rows = shown /\ x.made = NoRows
    BY <1>2, <1>4, <1>5, NoResults DEF ResultBatch
  <2> HIDE DEF x
  <2> QED
    BY <1>4, <2>1, NoResults DEF NewResultOK
<1>7. Judging
  BY <1>1, JudgingNone
<1> HIDE DEF x
<1> QED
  BY <1>1, <1>6, <1>7, ImportKeeps

\* A conflict spends the batch.
LEMMA ConflictResultKeeps ==
  ASSUME PromotionInv, NEW b \in 1..Len(batch), ConflictResult(b)
  PROVE  PromotionInv' /\ inv' = inv
<1> DEFINE n == SlotVersion(batch[b].slot)
           x == [batch[b] EXCEPT !.status = "conflict", !.cur = n]
<1>1. batch' = [batch EXCEPT ![b] = x] /\ UNCHANGED <<stmtVars, inv>>
  BY DEF ConflictResult, Conflict
<1>2. n \in Nat
  BY ResultVersions DEF PromotionInv
<1>3. batch[b] \in ResultBatch /\ ResultOK(b)
  BY DEF PromotionInv
<1> HIDE DEF n
<1>4. x \in ResultBatch /\ x.rows = batch[b].rows /\ x.made = batch[b].made
  BY <1>2, <1>3 DEF ResultBatch
<1> HIDE DEF x
<1>5. NewResultOK(x)
  BY <1>3, <1>4 DEF NewResultOK, ResultOK
<1>6. Judging
  BY <1>1, JudgingNone
<1> QED
  BY <1>1, <1>5, <1>6, ImportKeeps

Longest(S, z) ==
  [i \in Invoices |-> IF i \in S THEN [inv[i] EXCEPT !.chain = Append(inv[i].chain, z[i])] ELSE inv[i]]

\* The invoices of S get a further version z.
LEMMA JudgingSome ==
  ASSUME PromotionInv, NEW S \in SUBSET Invoices, NEW z \in [S -> Judged], inv' = Longest(S, z)
  PROVE  /\ Judging
         /\ \A i \in Invoices : Last(inv'[i].chain) = IF i \in S THEN z[i] ELSE Last(inv[i].chain)
<1>1. inv \in Seq(Invoice) /\ Len(inv) \in Nat /\ Invoices = 1..Len(inv)
  BY DEF PromotionInv, Invoices
<1>2. ASSUME NEW i \in Invoices
      PROVE  /\ inv'[i] \in Invoice
             /\ inv'[i].alloc = inv[i].alloc /\ inv'[i].live = inv[i].live
             /\ inv'[i].term = inv[i].term /\ inv'[i].src = inv[i].src
             /\ Len(inv'[i].chain) > 0
             /\ Last(inv'[i].chain) = IF i \in S THEN z[i] ELSE Last(inv[i].chain)
  <2> DEFINE x == inv[i]
             c == x.chain
  <2>1. x \in Invoice /\ Len(c) > 0
    BY <1>1 DEF PromotionInv, InvoiceOK
  <2>2. c \in Seq(Judged)
    BY <2>1 DEF Invoice
  <2>3. CASE i \in S
    <3> DEFINE e == z[i]
               cc == Append(c, e)
    <3>1. e \in Judged /\ inv'[i] = [x EXCEPT !.chain = cc]
      BY <2>3 DEF Longest
    <3>2. cc \in Seq(Judged) /\ Len(cc) > 0 /\ cc[Len(cc)] = e
      <4> HIDE DEF c, e, Judged
      <4> QED
        BY <2>2, <3>1
    <3> HIDE DEF cc, e, x
    <3>3. /\ inv'[i] \in Invoice /\ inv'[i].chain = cc
          /\ inv'[i].alloc = x.alloc /\ inv'[i].live = x.live
          /\ inv'[i].term = x.term /\ inv'[i].src = x.src
      BY <2>1, <3>1, <3>2 DEF Invoice
    <3> QED
      BY <2>3, <3>2, <3>3 DEF Last, x, e
  <2>4. CASE i \notin S
    <3>1. inv'[i] = x
      BY <2>4 DEF Longest
    <3> QED
      BY <2>1, <2>4, <3>1
  <2> QED
    BY <2>3, <2>4
<1>3. inv' \in Seq(Invoice) /\ Len(inv') = Len(inv)
  <2> DEFINE f == inv'
             n == Len(inv)
  <2>1. f \in [1..n -> Invoice] /\ n \in Nat
    <3>1. f = [i \in 1..n |-> f[i]]
      BY <1>1 DEF Longest
    <3>2. \A i \in 1..n : f[i] \in Invoice
      BY <1>1, <1>2
    <3> HIDE DEF f
    <3> QED
      BY <1>1, <3>1, <3>2
  <2> HIDE DEF f, n
  <2>2. f \in Seq(Invoice) /\ Len(f) = n
    BY <2>1, FunctionIsSeq
  <2> QED
    BY <2>2 DEF f, n
<1> QED
  BY <1>2, <1>3 DEF Judging

\* A commit writes the result on the version it was previewed on; only "settled"
\* follows "settled".
LEMMA CommitResultKeeps ==
  ASSUME PromotionInv, NEW b \in 1..Len(batch), CommitResult(b)
  PROVE  /\ PromotionInv'
         /\ \A i \in Invoices : Status(i) = "settled" => Last(inv'[i].chain) = "settled"
<1> DEFINE y == batch[b]
           rows == y.rows
           S == DOMAIN rows
           z == [i \in S |-> rows[i].val]
           made == [i \in S |-> Len(inv[i].chain) + 1]
           n == SlotVersion(y.slot) + 1
           x == [y EXCEPT !.status = "committed", !.cur = n, !.made = made]
<1>1. y \in ResultBatch /\ S \subseteq Invoices
  BY DEF PromotionInv, ResultOK
<1>2. \A i \in S : rows[i] \in Result
  BY <1>1, ResultsTyped
<1>3. /\ inv' = [i \in Invoices |-> IF i \in S THEN [inv[i] EXCEPT !.chain = Append(inv[i].chain, rows[i].val)]
                                    ELSE inv[i]]
      /\ batch' = [batch EXCEPT ![b] = x] /\ UNCHANGED stmtVars
      /\ \A i \in S : Status(i) = "settled" => rows[i].val = "settled"
  BY DEF CommitResult, Committed, AcceptsResult
<1>4. z \in [S -> Judged] /\ \A i \in S : z[i] = rows[i].val
  BY <1>2 DEF Result
<1>5. inv' = Longest(S, z)
  BY <1>3, <1>4 DEF Longest
<1>6. /\ Judging
      /\ \A i \in Invoices : Last(inv'[i].chain) = IF i \in S THEN z[i] ELSE Last(inv[i].chain)
  <2> HIDE DEF S, z
  <2> QED
    BY <1>1, <1>4, <1>5, JudgingSome
<1>7. \A i \in Invoices : Status(i) = "settled" => Last(inv'[i].chain) = "settled"
  BY <1>3, <1>4, <1>6 DEF Status
<1>8. n \in Nat
  BY ResultVersions DEF PromotionInv
<1>9. \A i \in Invoices : i \in Nat /\ Len(inv[i].chain) \in Nat /\ Len(inv[i].chain) > 0
  <2>1. inv \in Seq(Invoice) /\ Len(inv) \in Nat /\ \A i \in Invoices : Len(inv[i].chain) > 0
    BY DEF PromotionInv, InvoiceOK
  <2>2. \A i \in Invoices : i \in Nat /\ inv[i] \in Invoice
    BY <2>1 DEF Invoices
  <2>3. \A i \in Invoices : inv[i].chain \in Seq(Judged)
    BY <2>2 DEF Invoice
  <2> QED
    BY <2>1, <2>2, <2>3
<1>10. made \in ResultMade /\ DOMAIN made = S /\ \A i \in S : made[i] > 1
  <2>1. made \in [S -> Nat] /\ S \in SUBSET Nat
    BY <1>1, <1>9
  <2>2. \A i \in S : made[i] > 1
    BY <1>1, <1>9
  <2> QED
    BY <2>1, <2>2 DEF ResultMade
<1> HIDE DEF made, n
<1>11. x \in ResultBatch /\ x.rows = rows /\ x.made = made
  <2> HIDE DEF y
  <2> QED
    BY <1>1, <1>8, <1>10 DEF ResultBatch
<1> HIDE DEF x
<1>12. NewResultOK(x)
  BY <1>1, <1>10, <1>11 DEF NewResultOK
<1>13. PromotionInv'
  BY <1>3, <1>6, <1>12, ImportKeeps
<1> QED
  BY <1>7, <1>13

\* A reversal brings back the version before the one its batch made, of invoices
\* that are not settled.
LEMMA ReverseResultKeeps ==
  ASSUME PromotionInv, NEW b \in 1..Len(batch), ReverseResult(b)
  PROVE  /\ PromotionInv'
         /\ \A i \in Invoices : Status(i) = "settled" => Last(inv'[i].chain) = "settled"
<1> DEFINE y == batch[b]
           S == DOMAIN y.made
           z == [i \in S |-> inv[i].chain[y.made[i] - 1]]
           made == [i \in S |-> Len(inv[i].chain) + 1]
           n == SlotVersion(y.slot) + 1
           x == [slot |-> y.slot, read |-> y.cur, cur |-> n, rows |-> NoRows, made |-> made,
                 reverses |-> b, status |-> "reversal"]
<1>1. y \in ResultBatch /\ S \subseteq Invoices /\ \A i \in S : y.made[i] > 1 /\ y.made[i] \in Nat
  <2>1. y \in ResultBatch /\ S \subseteq Invoices /\ \A i \in S : y.made[i] > 1
    BY DEF PromotionInv, ResultOK
  <2> QED
    BY <2>1, ResultsTyped
<1>2. /\ inv' = [i \in Invoices |->
                   IF i \in S THEN [inv[i] EXCEPT !.chain = Append(inv[i].chain, inv[i].chain[y.made[i] - 1])]
                   ELSE inv[i]]
      /\ batch' = Append(batch, x) /\ UNCHANGED stmtVars
      /\ \A i \in S : Status(i) # "settled" /\ y.made[i] = Len(inv[i].chain)
  BY DEF ReverseResult, Reversal, Unprotected
<1>3. \A i \in Invoices : /\ i \in Nat /\ inv[i].chain \in Seq(Judged)
                          /\ Len(inv[i].chain) \in Nat /\ Len(inv[i].chain) > 0
  <2>1. inv \in Seq(Invoice) /\ Len(inv) \in Nat /\ \A i \in Invoices : Len(inv[i].chain) > 0
    BY DEF PromotionInv, InvoiceOK
  <2>2. \A i \in Invoices : i \in Nat /\ inv[i] \in Invoice
    BY <2>1 DEF Invoices
  <2>3. \A i \in Invoices : inv[i].chain \in Seq(Judged)
    BY <2>2 DEF Invoice
  <2> QED
    BY <2>1, <2>2, <2>3
<1>4. z \in [S -> Judged] /\ \A i \in S : z[i] = inv[i].chain[y.made[i] - 1]
  <2>1. ASSUME NEW i \in S PROVE inv[i].chain[y.made[i] - 1] \in Judged
    <3> DEFINE c == inv[i].chain
               k == y.made[i]
    <3>1. c \in Seq(Judged) /\ Len(c) \in Nat /\ k = Len(c) /\ k > 1
      BY <1>1, <1>2, <1>3
    <3>2. k - 1 \in 1..Len(c)
      <4> HIDE DEF c, k
      <4> QED
        BY <3>1
    <3> HIDE DEF c, k, Judged
    <3>3. c[k - 1] \in Judged
      BY SMTT(60), <3>1, <3>2
    <3> QED
      BY <3>3 DEF c, k
  <2> QED
    BY <2>1
<1>5. inv' = Longest(S, z)
  BY <1>2, <1>4 DEF Longest
<1>6. /\ Judging
      /\ \A i \in Invoices : Last(inv'[i].chain) = IF i \in S THEN z[i] ELSE Last(inv[i].chain)
  <2> HIDE DEF S, z
  <2> QED
    BY <1>1, <1>4, <1>5, JudgingSome
<1>7. \A i \in Invoices : Status(i) = "settled" => Last(inv'[i].chain) = "settled"
  BY <1>2, <1>6 DEF Status
<1>8. n \in Nat
  BY ResultVersions DEF PromotionInv
<1>9. made \in ResultMade /\ DOMAIN made = S /\ \A i \in S : made[i] > 1
  <2>1. made \in [S -> Nat] /\ S \in SUBSET Nat
    BY <1>1, <1>3
  <2>2. \A i \in S : made[i] > 1
    BY <1>1, <1>3
  <2> QED
    BY <2>1, <2>2 DEF ResultMade
<1>10. b \in Nat
  BY DEF PromotionInv
<1>11. y.slot \in {2} \X Months /\ y.cur \in Nat
  BY <1>1 DEF ResultBatch
<1> HIDE DEF made, n, y
<1>12. x \in ResultBatch /\ x.rows = NoRows /\ x.made = made
  BY <1>8, <1>9, <1>10, <1>11, NoResults DEF ResultBatch
<1> HIDE DEF x
<1>13. NewResultOK(x)
  BY <1>1, <1>9, <1>12, NoResults DEF NewResultOK
<1>14. PromotionInv'
  BY <1>2, <1>6, <1>13, ImportKeeps
<1> QED
  BY <1>7, <1>14

\* The months selected for an invoice are confirmed, each at a number.
LEMMA SelectionTyped ==
  ASSUME PromotionInv
  PROVE  Selection \subseteq Months /\ \A m \in Selection : Amount(m) \in Int /\ stmt[m].ver \in Nat
<1>1. \A g \in InvoiceableGroups : g \subseteq Positives \cup Negatives
  <2>1. CASE Negatives = {}
    BY <2>1 DEF InvoiceableGroups
  <2>2. CASE Negatives # {}
    <3> DEFINE upTo(k) == Negatives \cup {m \in Positives : m <= k}
               closing == {k \in Positives : Closes(upTo(k))}
    <3>1. InvoiceableGroups = IF closing = {} THEN {}
                              ELSE {upTo(Min(closing))} \cup {{m} : m \in {p \in Positives : p > Min(closing)}}
      BY <2>2 DEF InvoiceableGroups
    <3>2. \A k : upTo(k) \subseteq Positives \cup Negatives
      OBVIOUS
    <3> HIDE DEF upTo, closing
    <3> QED
      BY <3>1, <3>2
  <2> QED
    BY <2>1, <2>2
<1>2. Selection \subseteq Candidates
  BY <1>1 DEF Selection, Positives, Negatives
<1>3. ASSUME NEW m \in Candidates PROVE m \in Months /\ Amount(m) \in Int /\ stmt[m].ver \in Nat
  <2>1. m \in Months /\ stmt[m].conf["promotion"] # {}
    BY DEF Candidates, Confirmed
  <2>2. stmt[m] \in Statement
    BY <2>1 DEF PromotionInv, StatementsInv, StatementsTyped
  <2>3. stmt[m].conf \in [Directions -> SUBSET Int] /\ stmt[m].ver \in Nat
    BY <2>2 DEF Statement
  <2>4. "promotion" \in Directions
    BY PromotionAssumption
  <2>5. stmt[m].conf["promotion"] \subseteq Int
    BY <2>3, <2>4
  <2>6. Amount(m) \in stmt[m].conf["promotion"]
    BY <2>1 DEF Amount, ConfirmedAmount
  <2> QED
    BY <2>1, <2>3, <2>5, <2>6
<1> QED
  BY <1>2, <1>3

\* The new invoice and its sources; every other invoice stays as it is.
Registers(S, x) ==
  /\ inv' \in Seq(Invoice) /\ Len(inv') = Len(inv) + 1 /\ inv'[Len(inv) + 1] = x
  /\ \A i \in Invoices : /\ inv'[i].alloc = inv[i].alloc /\ inv'[i].live = inv[i].live
                         /\ inv'[i].src = inv[i].src /\ inv'[i].chain = inv[i].chain
                         /\ inv'[i].term = IF i \in S THEN "closed" ELSE inv[i].term

\* The sequence that register_promotion_invoice writes.
LEMMA RegistersWritten ==
  ASSUME PromotionInv, NEW S, NEW x \in Invoice,
         inv' = Append([i \in Invoices |-> IF i \in S THEN [inv[i] EXCEPT !.term = "closed"] ELSE inv[i]], x)
  PROVE  Registers(S, x)
<1> DEFINE f == [i \in Invoices |-> IF i \in S THEN [inv[i] EXCEPT !.term = "closed"] ELSE inv[i]]
           n == Len(inv)
<1>1. inv \in Seq(Invoice) /\ n \in Nat /\ Invoices = 1..n
  BY DEF PromotionInv, Invoices
<1>2. ASSUME NEW i \in Invoices
      PROVE  /\ f[i] \in Invoice /\ f[i].alloc = inv[i].alloc /\ f[i].live = inv[i].live
             /\ f[i].src = inv[i].src /\ f[i].chain = inv[i].chain
             /\ f[i].term = IF i \in S THEN "closed" ELSE inv[i].term
  <2> DEFINE y == inv[i]
  <2>1. y \in Invoice
    BY <1>1
  <2>2. f[i] = IF i \in S THEN [y EXCEPT !.term = "closed"] ELSE y
    OBVIOUS
  <2> HIDE DEF f, y
  <2>3. /\ f[i] \in Invoice /\ f[i].alloc = y.alloc /\ f[i].live = y.live
        /\ f[i].src = y.src /\ f[i].chain = y.chain
        /\ f[i].term = IF i \in S THEN "closed" ELSE y.term
    BY ZenonT(60), <2>1, <2>2 DEF Invoice
  <2> QED
    BY <2>3 DEF y
<1>3. f \in [1..n -> Invoice]
  <2>1. f = [i \in 1..n |-> f[i]]
    BY <1>1
  <2>2. \A i \in 1..n : f[i] \in Invoice
    BY <1>1, <1>2
  <2> HIDE DEF f
  <2> QED
    BY <2>1, <2>2
<1>4. inv' = Append(f, x)
  OBVIOUS
<1> HIDE DEF f, n
<1>5. f \in Seq(Invoice) /\ Len(f) = n
  BY <1>1, <1>3, FunctionIsSeq
<1>6. /\ inv' \in Seq(Invoice) /\ Len(inv') = n + 1 /\ inv'[n + 1] = x
      /\ \A i \in 1..n : inv'[i] = f[i]
  <2>1. /\ Append(f, x) \in Seq(Invoice) /\ Len(Append(f, x)) = n + 1 /\ Append(f, x)[n + 1] = x
        /\ \A i \in 1..n : Append(f, x)[i] = f[i]
    BY <1>5, AppendIs
  <2> QED
    BY <1>4, <2>1
<1>7. \A i \in Invoices : inv'[i] = f[i]
  BY <1>1, <1>6
<1> QED
  BY <1>2, <1>6, <1>7 DEF Registers, n

\* register_promotion_invoice: the months are free, and the sources, terminated and
\* not yet replaced, are covered.
LEMMA RegisterKeeps ==
  ASSUME PromotionInv, NEW p \in 0..Len(inv), RegisterInvoice(p)
  PROVE  /\ PromotionInv'
         /\ \A i \in Invoices : inv'[i].chain = inv[i].chain
<1> DEFINE S == IF RequiredSources # {} THEN RequiredSources ELSE {p} \ {0}
           n == Len(inv)
           alloc == [m \in Selection |-> [ver |-> stmt[m].ver, amt |-> Amount(m)]]
           x == [alloc |-> alloc, chain |-> <<"issued">>, live |-> TRUE, term |-> "none", src |-> S]
<1>1. inv \in Seq(Invoice) /\ n \in Nat /\ Invoices = 1..n /\ \A i \in Invoices : inv[i] \in Invoice /\ InvoiceOK(i)
  BY DEF PromotionInv, Invoices
<1>2. S \subseteq Invoices
  <2>1. RequiredSources \subseteq Invoices
    BY DEF RequiredSources
  <2>2. {p} \ {0} \subseteq Invoices
    BY <1>1
  <2> QED
    BY <2>1, <2>2
<1>3. /\ UNCHANGED <<stmtVars, batch>>
      /\ \A m \in Selection : ~Occupied(m)
      /\ \A i \in S : Replaceable(i)
      /\ inv' = Append([i \in Invoices |-> IF i \in S THEN [inv[i] EXCEPT !.term = "closed"] ELSE inv[i]], x)
  BY DEF RegisterInvoice
<1>4. alloc \in Allocation /\ DOMAIN alloc = Selection
  <2>1. \A m \in Selection : [ver |-> stmt[m].ver, amt |-> Amount(m)] \in [ver : Nat, amt : Int]
    BY SelectionTyped
  <2>2. alloc \in [Selection -> [ver : Nat, amt : Int]] /\ Selection \in SUBSET Months
    BY <2>1, SelectionTyped
  <2> QED
    BY <2>2 DEF Allocation
<1>5. <<"issued">> \in Seq(Judged) /\ Len(<<"issued">>) = 1
  BY DEF Judged
<1>6. S \in SUBSET Nat
  BY <1>1, <1>2
<1> HIDE DEF S, alloc
<1>7. x \in Invoice /\ x.alloc = alloc /\ x.live = TRUE /\ x.term = "none" /\ x.src = S /\ Len(x.chain) > 0
  BY <1>4, <1>5, <1>6 DEF Invoice
<1> HIDE DEF x
<1>8. Registers(S, x)
  BY <1>3, <1>7, RegistersWritten
<1>9. /\ inv' \in Seq(Invoice) /\ Len(inv') = n + 1 /\ inv'[n + 1] = x
      /\ \A i \in 1..n : /\ inv'[i].alloc = inv[i].alloc /\ inv'[i].live = inv[i].live
                         /\ inv'[i].src = inv[i].src /\ inv'[i].chain = inv[i].chain
                         /\ inv'[i].term = IF i \in S THEN "closed" ELSE inv[i].term
  BY <1>1, <1>8 DEF Registers
<1>10. \A i \in 1..(n + 1) : i \in 1..n \/ i = n + 1
  BY <1>1
<1>11. \A i \in S : /\ inv[i].term = "open" /\ DOMAIN inv[i].alloc \subseteq Selection
                    /\ \A j \in 1..n : i \notin inv[j].src
  BY <1>1, <1>3 DEF Replaceable, HasSuccessor
<1>12. \A m \in Selection, i \in 1..n : inv[i].live => m \notin DOMAIN inv[i].alloc
  BY <1>1, <1>3 DEF Occupied
<1> HIDE DEF n
<1>13. (\A i \in Invoices : InvoiceOK(i))'
  <2>1. ASSUME NEW i \in 1..(n + 1)
        PROVE  /\ Len(inv'[i].chain) > 0 /\ inv'[i].live = (inv'[i].term = "none")
               /\ inv'[i].src \subseteq 1..(i - 1)
    <3>1. CASE i \in 1..n
      <4>1. /\ Len(inv[i].chain) > 0 /\ inv[i].live = (inv[i].term = "none")
            /\ inv[i].src \subseteq 1..(i - 1)
        BY <1>1, <3>1 DEF InvoiceOK
      <4>2. i \in S => inv[i].term = "open"
        BY <1>11
      <4> QED
        BY <1>9, <3>1, <4>1, <4>2
    <3>2. CASE i = n + 1
      <4>1. S \subseteq 1..(i - 1)
        BY <1>1, <1>2, <3>2
      <4> QED
        BY <1>7, <1>9, <3>2, <4>1
    <3> QED
      BY <1>10, <3>1, <3>2
  <2> QED
    BY <1>9, <2>1 DEF InvoiceOK, Invoices
<1>14. Apart'
  <2>1. \A i, j \in 1..n : inv[i].live /\ inv[j].live /\ i # j => DOMAIN inv[i].alloc \cap DOMAIN inv[j].alloc = {}
    BY <1>1 DEF PromotionInv, Apart
  <2>2. \A i \in 1..n : inv'[i].live => DOMAIN inv'[i].alloc \cap DOMAIN inv'[n + 1].alloc = {}
    BY <1>4, <1>7, <1>9, <1>12
  <2>3. ASSUME NEW i \in 1..(n + 1), NEW j \in 1..(n + 1), inv'[i].live, inv'[j].live, i # j
        PROVE  DOMAIN inv'[i].alloc \cap DOMAIN inv'[j].alloc = {}
    <3>1. CASE i \in 1..n /\ j \in 1..n
      BY <1>9, <2>1, <2>3, <3>1
    <3>2. CASE i \in 1..n /\ j = n + 1
      BY <2>2, <2>3, <3>2
    <3>3. CASE i = n + 1 /\ j \in 1..n
      BY <2>2, <2>3, <3>3
    <3> QED
      BY <1>10, <2>3, <3>1, <3>2, <3>3
  <2> QED
    BY <1>9, <2>3 DEF Apart, Invoices
<1>15. ReplacementChain'
  <2>1. /\ \A i, j, k \in 1..n : i \in inv[j].src /\ i \in inv[k].src => j = k
        /\ \A j \in 1..n : \A i \in inv[j].src :
             inv[i].term = "closed" /\ DOMAIN inv[i].alloc \subseteq DOMAIN inv[j].alloc
    BY <1>1 DEF PromotionInv, ReplacementChain
  <2>2. \A j \in 1..n : \A i \in inv[j].src : i \in 1..n /\ i \notin S
    <3> SUFFICES ASSUME NEW j \in 1..n, NEW i \in inv[j].src PROVE i \in 1..n /\ i \notin S
      OBVIOUS
    <3>1. i \in 1..(j - 1)
      BY <1>1 DEF InvoiceOK
    <3> QED
      BY <1>1, <1>11, <3>1
  <2>3. \A j \in 1..n : inv'[j].src = inv[j].src
    BY <1>9
  <2>4. inv'[n + 1].src = S /\ DOMAIN inv'[n + 1].alloc = Selection
    BY <1>4, <1>7, <1>9
  <2>5. ASSUME NEW i \in 1..(n + 1), NEW j \in 1..(n + 1), NEW k \in 1..(n + 1), i \in inv'[j].src, i \in inv'[k].src
        PROVE  j = k
    <3>1. CASE j \in 1..n /\ k \in 1..n
      <4>1. i \in inv[j].src /\ i \in inv[k].src
        BY <2>3, <2>5, <3>1
      <4>2. i \in 1..n
        BY <2>2, <3>1, <4>1
      <4> QED
        BY <2>1, <3>1, <4>1, <4>2
    <3>2. CASE j \in 1..n /\ k = n + 1
      BY <2>2, <2>3, <2>4, <2>5, <3>2
    <3>3. CASE j = n + 1 /\ k \in 1..n
      BY <2>2, <2>3, <2>4, <2>5, <3>3
    <3> QED
      BY <1>10, <3>1, <3>2, <3>3
  <2>6. ASSUME NEW j \in 1..(n + 1), NEW i \in inv'[j].src
        PROVE  inv'[i].term = "closed" /\ DOMAIN inv'[i].alloc \subseteq DOMAIN inv'[j].alloc
    <3>1. CASE j \in 1..n
      <4>1. i \in inv[j].src /\ i \in 1..n /\ i \notin S
        BY <2>2, <2>3, <3>1
      <4> QED
        BY <1>9, <2>1, <3>1, <4>1
    <3>2. CASE j = n + 1
      <4>1. i \in S /\ i \in 1..n
        BY <1>1, <1>2, <2>4, <3>2
      <4> QED
        BY <1>9, <1>11, <2>4, <3>2, <4>1
    <3> QED
      BY <1>10, <3>1, <3>2
  <2> QED
    BY <1>9, <2>5, <2>6 DEF ReplacementChain, Invoices
<1>16. StatementsInv'
  BY <1>3, StatementsStep DEF PromotionInv
<1>17. batch' \in Seq(ResultBatch) /\ (\A b \in 1..Len(batch) : ResultOK(b))'
  <2>1. inv' \in Seq(Invoice) /\ Len(inv) <= Len(inv')
    BY <1>1, <1>9 DEF n
  <2> QED
    BY <1>3, <2>1, ResultsKeep
<1> QED
  BY <1>1, <1>9, <1>13, <1>14, <1>15, <1>16, <1>17 DEF PromotionInv

\* Termination: the invoice is no longer current, its months are free.
LEMMA TerminateKeeps ==
  ASSUME PromotionInv, NEW t \in Invoices, TerminateInvoice(t)
  PROVE  /\ PromotionInv'
         /\ \A i \in Invoices : inv'[i].chain = inv[i].chain
<1> DEFINE n == Len(inv)
           x == [inv[t] EXCEPT !.live = FALSE, !.term = "open"]
<1>1. inv \in Seq(Invoice) /\ n \in Nat /\ Invoices = 1..n /\ \A i \in Invoices : inv[i] \in Invoice /\ InvoiceOK(i)
  BY DEF PromotionInv, Invoices
<1>2. inv[t].live /\ inv' = [inv EXCEPT ![t] = x] /\ UNCHANGED <<stmtVars, batch>>
  BY DEF TerminateInvoice
<1>3. inv[t].term = "none"
  BY <1>1, <1>2 DEF InvoiceOK
<1>4. /\ x \in Invoice /\ x.alloc = inv[t].alloc /\ x.chain = inv[t].chain /\ x.src = inv[t].src
      /\ x.live = FALSE /\ x.term = "open"
  BY <1>1 DEF Invoice
<1> HIDE DEF x
<1>5. inv' \in Seq(Invoice) /\ Len(inv') = n /\ \A i \in 1..n : inv'[i] = IF i = t THEN x ELSE inv[i]
  <2> HIDE DEF Invoice
  <2> QED
    BY <1>1, <1>2, <1>4
<1>6. \A i \in 1..n : /\ inv'[i].alloc = inv[i].alloc /\ inv'[i].chain = inv[i].chain
                      /\ inv'[i].src = inv[i].src
                      /\ inv'[i].live = (inv[i].live /\ i # t)
                      /\ inv'[i].term = IF i = t THEN "open" ELSE inv[i].term
  <2>1. \A i \in 1..n : inv[i].live \in BOOLEAN
    BY <1>1 DEF Invoice
  <2> QED
    BY <1>4, <1>5, <2>1
<1> HIDE DEF n
<1>7. (\A i \in Invoices : InvoiceOK(i))'
  <2>1. ASSUME NEW i \in 1..n
        PROVE  /\ Len(inv'[i].chain) > 0 /\ inv'[i].live = (inv'[i].term = "none")
               /\ inv'[i].src \subseteq 1..(i - 1)
    <3>1. /\ Len(inv[i].chain) > 0 /\ inv[i].live = (inv[i].term = "none")
          /\ inv[i].src \subseteq 1..(i - 1)
      BY <1>1 DEF InvoiceOK
    <3>2. CASE i = t
      BY <1>6, <3>1, <3>2
    <3>3. CASE i # t
      BY <1>6, <3>1, <3>3
    <3> QED
      BY <3>2, <3>3
  <2> QED
    BY <1>5, <2>1 DEF InvoiceOK, Invoices
<1>8. Apart'
  <2>1. \A i, j \in 1..n : inv[i].live /\ inv[j].live /\ i # j => DOMAIN inv[i].alloc \cap DOMAIN inv[j].alloc = {}
    BY <1>1 DEF PromotionInv, Apart
  <2>2. \A i, j \in 1..n : inv'[i].live /\ inv'[j].live /\ i # j => DOMAIN inv'[i].alloc \cap DOMAIN inv'[j].alloc = {}
    BY <1>6, <2>1
  <2> QED
    BY <1>5, <2>2 DEF Apart, Invoices
<1>9. ReplacementChain'
  <2>1. /\ \A i, j, k \in 1..n : i \in inv[j].src /\ i \in inv[k].src => j = k
        /\ \A j \in 1..n : \A i \in inv[j].src :
             inv[i].term = "closed" /\ DOMAIN inv[i].alloc \subseteq DOMAIN inv[j].alloc
    BY <1>1 DEF PromotionInv, ReplacementChain
  <2>2. \A j \in 1..n : \A i \in inv[j].src : i \in 1..n /\ i # t
    <3> SUFFICES ASSUME NEW j \in 1..n, NEW i \in inv[j].src PROVE i \in 1..n /\ i # t
      OBVIOUS
    <3>1. i \in 1..(j - 1)
      BY <1>1 DEF InvoiceOK
    <3>2. inv[i].term = "closed"
      BY <2>1
    <3> QED
      BY <1>1, <1>3, <3>1, <3>2
  <2>3. \A i, j, k \in 1..n : i \in inv'[j].src /\ i \in inv'[k].src => j = k
    BY <1>6, <2>1
  <2>4. \A j \in 1..n : \A i \in inv'[j].src :
          inv'[i].term = "closed" /\ DOMAIN inv'[i].alloc \subseteq DOMAIN inv'[j].alloc
    BY <1>6, <2>1, <2>2
  <2> QED
    BY <1>5, <2>3, <2>4 DEF ReplacementChain, Invoices
<1>10. StatementsInv'
  BY <1>2, StatementsStep DEF PromotionInv
<1>11. batch' \in Seq(ResultBatch) /\ (\A b \in 1..Len(batch) : ResultOK(b))'
  <2>1. inv' \in Seq(Invoice) /\ Len(inv) <= Len(inv')
    BY <1>1, <1>5 DEF n
  <2> QED
    BY <1>2, <2>1, ResultsKeep
<1> QED
  BY <1>1, <1>5, <1>6, <1>7, <1>8, <1>9, <1>10, <1>11 DEF PromotionInv

\* What no step does to a settled invoice.
StaysSettled == \A i \in Invoices : Status(i) = "settled" => Last(inv'[i].chain) = "settled"

\* Every step of the promotion invoices keeps the invariant and what is settled.
LEMMA PromotionStep ==
  ASSUME PromotionInv, [PromotionNext]_<<stmtVars, batch, inv>>
  PROVE  PromotionInv' /\ StaysSettled
<1>1. ASSUME \A i \in Invoices : inv'[i].chain = inv[i].chain PROVE StaysSettled
  BY <1>1 DEF StaysSettled, Status
<1>2. ASSUME NEW p \in 0..Len(inv), RegisterInvoice(p) PROVE PromotionInv' /\ StaysSettled
  BY <1>1, <1>2, RegisterKeeps
<1>3. ASSUME NEW i \in Invoices, TerminateInvoice(i) PROVE PromotionInv' /\ StaysSettled
  BY <1>1, <1>3, TerminateKeeps
<1>4. ASSUME NEW i \in Invoices, NEW m \in Months, NEW r \in {"settled", "rejected"}, UploadResult(m, i, r)
      PROVE  PromotionInv' /\ StaysSettled
  BY <1>1, <1>4, UploadResultKeeps
<1>5. ASSUME NEW b \in 1..Len(batch), ConflictResult(b) PROVE PromotionInv' /\ StaysSettled
  BY <1>1, <1>5, ConflictResultKeeps
<1>6. ASSUME NEW b \in 1..Len(batch), CommitResult(b) PROVE PromotionInv' /\ StaysSettled
  BY <1>6, CommitResultKeeps DEF StaysSettled
<1>7. ASSUME NEW b \in 1..Len(batch), ReverseResult(b) PROVE PromotionInv' /\ StaysSettled
  BY <1>7, ReverseResultKeeps DEF StaysSettled
<1>8. ASSUME (\E d \in Directions : StatementsNext(Months, d, Disputes)) \/ UNCHANGED stmtVars,
             UNCHANGED <<batch, inv>>
      PROVE  PromotionInv' /\ StaysSettled
  <2>1. StatementsInv'
    BY <1>8, StatementsStep DEF PromotionInv
  <2>2. PromotionInv'
    BY <1>8, <2>1 DEF PromotionInv, InvoiceOK, Apart, ReplacementChain, ResultOK, Invoices
  <2> QED
    BY <1>1, <1>8, <2>2
<1>9. CASE PromotionNext
  BY <1>2, <1>3, <1>4, <1>5, <1>6, <1>7, <1>8, <1>9 DEF PromotionNext, InvoiceRequests, FactoryResults
<1>10. CASE UNCHANGED <<stmtVars, batch, inv>>
  BY <1>8, <1>10
<1> QED
  BY <1>9, <1>10

\* At first there is no promotion invoice and no batch.
LEMMA PromotionStart ==
  StatementsInit /\ batch = <<>> /\ PromotionInit => PromotionInv
<1> SUFFICES ASSUME StatementsInit, batch = <<>>, inv = <<>> PROVE PromotionInv
  BY DEF PromotionInit
<1>1. StatementsInv
  BY StatementsStart
<1>2. inv \in Seq(Invoice) /\ batch \in Seq(ResultBatch) /\ 1..Len(inv) = {} /\ 1..Len(batch) = {}
  OBVIOUS
<1> QED
  BY <1>1, <1>2 DEF PromotionInv, Apart, ReplacementChain, Invoices

\* The invariant of the promotion invoices, over statements that are confirmed and
\* disputed meanwhile: current invoices share no month, replacements form chains.
THEOREM PromotionInvariant == PromotionSpec => []PromotionInv
BY PromotionStart, PromotionStep, PTL DEF PromotionSpec

\* Current invoices that share no month are one per month at most.
LEMMA MonthsApart ==
  PromotionInv => PeriodInvoicedOnce
<1> SUFFICES ASSUME PromotionInv, NEW m \in Months
             PROVE  Cardinality({i \in Invoices : inv[i].live /\ m \in DOMAIN inv[i].alloc}) <= 1
  BY DEF PeriodInvoicedOnce
<1> DEFINE S == {i \in Invoices : inv[i].live /\ m \in DOMAIN inv[i].alloc}
<1>1. \A i, j \in S : i = j
  BY DEF PromotionInv, Apart
<1>2. SUFFICES Cardinality(S) <= 1
  OBVIOUS
<1> HIDE DEF S
<1>3. CASE S = {}
  BY <1>3, FS_EmptySet
<1>4. CASE S # {}
  <2>1. PICK i : S = {i}
    BY <1>1, <1>4
  <2>2. Cardinality({i}) = 1
    BY FS_Singleton
  <2> QED
    BY <2>1, <2>2
<1> QED
  BY <1>3, <1>4

\* A month is on at most one invoice that can still be settled, through rejections,
\* reversals, terminations and replacements (register_promotion_invoice).
THEOREM OneInvoicePerMonth == PromotionSpec => []PeriodInvoicedOnce
BY MonthsApart, PromotionInvariant, PTL

\* A terminated invoice is replaced at most once, by one that covers all its months
\* (PROMOTION_INVOICE_REPLACEMENT_PERIOD_MISMATCH).
THEOREM ReplacementsChain == PromotionSpec => []ReplacementChain
<1>1. PromotionInv => ReplacementChain
  BY DEF PromotionInv
<1> QED
  BY <1>1, PromotionInvariant, PTL

\* No result, preview or reversal takes a settlement back
\* (_validate_final_finance_import_row, _finance_import_reversal_protection).
THEOREM SettledIsFinal == PromotionSpec => SettledNeverUndone
<1>1. PromotionInv /\ [PromotionNext]_<<stmtVars, batch, inv>>
        => [\A i \in Invoices : Status(i) = "settled" => Last(inv'[i].chain) = "settled"]_<<stmtVars, batch, inv>>
  BY PromotionStep DEF StaysSettled
<1> QED
  BY <1>1, PromotionInvariant, PTL DEF PromotionSpec, SettledNeverUndone

-----------------------------------------------------------------------------
(* Management invoices: how an amount is met.                              *)

\* The lesser of two numbers.
LEMMA MinOfTwo ==
  ASSUME NEW a \in Int, NEW b \in Int
  PROVE  Min({a, b}) = IF a <= b THEN a ELSE b
<1>1. \E x \in {a, b} : \A y \in {a, b} : x <= y
  OBVIOUS
<1>2. Min({a, b}) \in {a, b} /\ \A y \in {a, b} : Min({a, b}) <= y
  BY <1>1 DEF Min
<1>3. PICK u : u = Min({a, b})
  OBVIOUS
<1>4. (u = a \/ u = b) /\ u <= a /\ u <= b
  BY <1>2, <1>3
<1>5. u = IF a <= b THEN a ELSE b
  BY <1>4
<1> QED
  BY <1>3, <1>5

\* The greater of two numbers.
LEMMA MaxOfTwo ==
  ASSUME NEW a \in Int, NEW b \in Int
  PROVE  Max({a, b}) = IF a >= b THEN a ELSE b
<1>1. \E x \in {a, b} : \A y \in {a, b} : x >= y
  OBVIOUS
<1>2. Max({a, b}) \in {a, b} /\ \A y \in {a, b} : Max({a, b}) >= y
  BY <1>1 DEF Max
<1>3. PICK u : u = Max({a, b})
  OBVIOUS
<1>4. (u = a \/ u = b) /\ u >= a /\ u >= b
  BY <1>2, <1>3
<1>5. u = IF a >= b THEN a ELSE b
  BY <1>4
<1> QED
  BY <1>3, <1>5

\* Sums over the first months.
LEMMA BeforeIs ==
  ASSUME NEW f \in [Months -> Int]
  PROVE  /\ Before(f, 1) = 0
         /\ \A k \in Months : Before(f, k) \in Int /\ Before(f, k + 1) = Before(f, k) + f[k]
         /\ SumAll(f) = Before(f, MaxMonth + 1)
<1> DEFINE S(k) == {j \in Months : j < k}
<1>1. IsFiniteSet(Months) /\ MaxMonth \in Nat
  BY FS_Interval, StatementsAssumption DEF Months
<1>2. ASSUME NEW k PROVE IsFiniteSet(S(k)) /\ S(k) \subseteq Months
  <2>1. S(k) \in SUBSET Months
    OBVIOUS
  <2> QED
    BY <1>1, <2>1, FS_Subset
<1>3. Before(f, 1) = 0
  <2>1. S(1) = {}
    BY DEF Months
  <2>2. Before(f, 1) = SumFunctionOnSet(f, S(1))
    BY DEF Before
  <2> HIDE DEF S
  <2>3. SumFunctionOnSet(f, S(1)) = 0
    BY <1>2, <2>1, SumZero
  <2> QED
    BY <2>2, <2>3
<1>4. ASSUME NEW k \in Months PROVE Before(f, k) \in Int /\ Before(f, k + 1) = Before(f, k) + f[k]
  <2>1. S(k + 1) = S(k) \cup {k} /\ k \notin S(k)
    BY DEF Months
  <2>2. Before(f, k) = SumFunctionOnSet(f, S(k)) /\ Before(f, k + 1) = SumFunctionOnSet(f, S(k + 1))
    BY DEF Before
  <2> HIDE DEF S
  <2>3. \A x \in S(k) : f[x] \in Int
    BY <1>2
  <2>4. SumFunctionOnSet(f, S(k)) \in Int
    BY <1>2, <2>3, SumIsInt
  <2>5. SumFunctionOnSet(f, S(k) \cup {k}) = f[k] + SumFunctionOnSet(f, S(k))
    BY <1>2, <2>1, <2>3, SumAdd
  <2>6. f[k] \in Int
    OBVIOUS
  <2>7. Before(f, k) \in Int /\ Before(f, k + 1) = f[k] + Before(f, k)
    BY <2>1, <2>2, <2>4, <2>5
  <2>8. PICK x : x = Before(f, k)
    OBVIOUS
  <2>9. x \in Int /\ f[k] + x = x + f[k]
    BY <2>6, <2>7, <2>8
  <2> QED
    BY <2>7, <2>8, <2>9
<1>5. SumAll(f) = Before(f, MaxMonth + 1)
  <2>1. S(MaxMonth + 1) = Months
    BY <1>1 DEF Months
  <2> QED
    BY <2>1 DEF SumAll, Before
<1> QED
  BY <1>3, <1>4, <1>5

\* What is taken from one remainder.
LEMMA TakenIs ==
  ASSUME NEW q \in [Months -> Nat], NEW c \in Nat, NEW k \in Months
  PROVE  /\ Taken(q, c)[k] \in Nat /\ Taken(q, c)[k] <= q[k]
         /\ Before(q, k) >= c => Taken(q, c)[k] = 0
         /\ Before(q, k) < c => Taken(q, c)[k] = IF q[k] <= c - Before(q, k) THEN q[k] ELSE c - Before(q, k)
<1>1. Before(q, k) \in Int
  BY BeforeIs
<1> DEFINE a == q[k]
           d == c - Before(q, k)
           e == Max({0, d})
<1>2. a \in Nat /\ d \in Int
  BY <1>1
<1>3. Taken(q, c)[k] = Min({a, e})
  BY DEF Taken
<1> HIDE DEF a
<1>4. e = IF 0 >= d THEN 0 ELSE d
  <2> HIDE DEF d
  <2> QED
    BY <1>2, MaxOfTwo
<1>5. e \in Nat
  BY <1>2, <1>4
<1> HIDE DEF e
<1>6. Min({a, e}) = IF a <= e THEN a ELSE e
  BY <1>2, <1>5, MinOfTwo
<1>7. PICK t : t = Taken(q, c)[k]
  OBVIOUS
<1>8. t = IF a <= e THEN a ELSE e
  BY <1>3, <1>6, <1>7
<1>9. t \in Nat /\ t <= a
  BY <1>2, <1>5, <1>8
<1>10. d <= 0 => t = 0
  BY <1>2, <1>4, <1>8
<1>11. d > 0 => t = IF a <= d THEN a ELSE d
  BY <1>2, <1>4, <1>8
<1>12. (Before(q, k) >= c => d <= 0) /\ (Before(q, k) < c => d > 0)
  BY <1>1
<1> HIDE DEF d
<1>13. /\ t \in Nat /\ t <= a /\ (Before(q, k) >= c => t = 0)
       /\ Before(q, k) < c => t = IF a <= d THEN a ELSE d
  BY <1>9, <1>10, <1>11, <1>12
<1> QED
  BY <1>7, <1>13 DEF a, d

\* Nothing is taken twice, and in all no more than the amount.
LEMMA TakenFits ==
  ASSUME NEW q \in [Months -> Nat], NEW c \in Nat
  PROVE  /\ Taken(q, c) \in [Months -> Nat]
         /\ \A k \in Months : Taken(q, c)[k] <= q[k]
         /\ SumAll(Taken(q, c)) \in Int /\ SumAll(Taken(q, c)) <= c
<1> DEFINE t == Taken(q, c)
           Met(k) == Before(t, k) = IF Before(q, k) <= c THEN Before(q, k) ELSE c
           T == {k \in 1..(MaxMonth + 1) : ~(Before(t, k) \in Int /\ Before(q, k) \in Int /\ Met(k))}
<1>1. t \in [Months -> Nat] /\ \A k \in Months : t[k] <= q[k]
  <2>1. DOMAIN t = Months /\ t = [k \in Months |-> t[k]]
    BY DEF Taken
  <2>2. \A k \in Months : t[k] \in Nat /\ t[k] <= q[k]
    BY TakenIs
  <2> HIDE DEF t
  <2> QED
    BY <2>1, <2>2
<1>2. \A k \in Months : /\ Before(q, k) >= c => t[k] = 0
                        /\ Before(q, k) < c => t[k] = IF q[k] <= c - Before(q, k) THEN q[k] ELSE c - Before(q, k)
  BY TakenIs
<1> HIDE DEF t
<1>3. t \in [Months -> Int] /\ q \in [Months -> Int]
  BY <1>1
<1>4. MaxMonth \in Nat /\ MaxMonth > 0
  BY StatementsAssumption
<1>5. T = {}
  <2> SUFFICES ASSUME T # {} PROVE FALSE
    OBVIOUS
  <2>1. T \subseteq Nat
    BY <1>4
  <2>2. PICK n \in T : \A y \in T : n <= y
    <3> HIDE DEF T
    <3> QED
      BY <2>1, LeastNat
  <2>3. n \in 1..(MaxMonth + 1)
    OBVIOUS
  <2>4. CASE n = 1
    <3>1. Before(t, 1) = 0 /\ Before(q, 1) = 0
      BY <1>3, BeforeIs
    <3> QED
      BY <2>4, <3>1
  <2>5. CASE n # 1
    <3>1. n - 1 \in Months /\ n - 1 \in 1..(MaxMonth + 1) /\ (n - 1) + 1 = n
      BY <1>4, <2>3, <2>5 DEF Months
    <3>2. n - 1 \notin T
      <4>1. ~(n <= n - 1)
        BY <2>3
      <4> QED
        BY <2>2, <4>1
    <3>3. PICK k \in Months : k = n - 1
      BY <3>1
    <3>4. Before(t, k) \in Int /\ Before(q, k) \in Int /\ Met(k)
      BY <3>1, <3>2, <3>3
    <3>5. Before(t, k + 1) = Before(t, k) + t[k] /\ Before(q, k + 1) = Before(q, k) + q[k]
      BY <1>3, BeforeIs
    <3>6. t[k] \in Nat /\ q[k] \in Nat
      BY <1>1
    <3> DEFINE a == Before(t, k)
               b == Before(q, k)
               u == t[k]
               v == q[k]
    <3>7. /\ a \in Int /\ b \in Int /\ u \in Nat /\ v \in Nat
          /\ a = IF b <= c THEN b ELSE c
          /\ b >= c => u = 0
          /\ b < c => u = IF v <= c - b THEN v ELSE c - b
      BY <1>2, <3>4, <3>6
    <3>8. Before(t, n) = a + u /\ Before(q, n) = b + v
      BY <3>1, <3>3, <3>5
    <3> HIDE DEF a, b, u, v
    <3>9. a + u \in Int /\ b + v \in Int /\ a + u = IF b + v <= c THEN b + v ELSE c
      BY <3>7
    <3> QED
      BY <3>8, <3>9
  <2> QED
    BY <2>4, <2>5
<1>6. MaxMonth + 1 \in 1..(MaxMonth + 1)
  BY <1>4
<1>7. Before(t, MaxMonth + 1) \in Int /\ Before(t, MaxMonth + 1) <= c
  <2>1. /\ Before(t, MaxMonth + 1) \in Int /\ Before(q, MaxMonth + 1) \in Int /\ Met(MaxMonth + 1)
    BY <1>5, <1>6
  <2> QED
    BY <2>1
<1>8. SumAll(t) = Before(t, MaxMonth + 1)
  BY <1>3, BeforeIs
<1> QED
  BY <1>1, <1>7, <1>8 DEF t

-----------------------------------------------------------------------------
(* Applications of negative months.                                        *)

Application == [src : Months, srcVer : Nat, tgt : Months, tgtVer : Nat, inv : Nat, amt : Nat \ {0}]

\* One more application.
LEMMA SumOfAdd ==
  ASSUME NEW A, IsFiniteSet(A), A \subseteq Application, NEW a \in Application, a \notin A
  PROVE  SumOf(A) \in Int /\ SumOf(A \cup {a}) = SumOf(A) + a.amt
<1> DEFINE f == [x \in A |-> x.amt]
           B == A \cup {a}
           g == [x \in B |-> x.amt]
<1>1. \A x \in B : x \in Application /\ x.amt \in Int
  BY DEF Application
<1>2. \A x \in A : f[x] = x.amt /\ g[x] = x.amt /\ x.amt \in Int
  BY <1>1
<1>3. g[a] = a.amt /\ a.amt \in Int
  BY <1>1
<1>4. SumOf(A) = SumFunctionOnSet(f, A) /\ SumOf(B) = SumFunctionOnSet(g, B)
  BY DEF SumOf
<1> HIDE DEF f, g
<1>5. SumFunctionOnSet(f, A) = SumFunctionOnSet(g, A)
  BY <1>2, SumSame
<1>6. SumFunctionOnSet(f, A) \in Int
  BY <1>2, SumIsInt
<1>7. SumFunctionOnSet(g, B) = g[a] + SumFunctionOnSet(g, A)
  BY <1>2, <1>3, SumAdd
<1> QED
  BY <1>3, <1>4, <1>5, <1>6, <1>7

\* The applications to month m that take t from the other months, for invoice n of it.
Deduction(j, m, amount, n) ==
  [src |-> j, srcVer |-> stmt[j].ver, tgt |-> m, tgtVer |-> stmt[m].ver, inv |-> n, amt |-> amount]
Deductions(m, t, n, k) == {Deduction(j, m, t[j], n) : j \in {i \in Months : t[i] > 0 /\ i < k}}

\* One deduction is an application.
LEMMA DeductionTyped ==
  ASSUME stmt \in [Months -> Statement], NEW j \in Months, NEW m \in Months, NEW a, NEW n \in Nat
  PROVE  /\ a \in Nat \ {0} => Deduction(j, m, a, n) \in Application
         /\ Deduction(j, m, a, n).src = j /\ Deduction(j, m, a, n).tgt = m
         /\ Deduction(j, m, a, n).tgtVer = stmt[m].ver
         /\ Deduction(j, m, a, n).inv = n /\ Deduction(j, m, a, n).amt = a
<1>1. stmt[j] \in Statement /\ stmt[m] \in Statement
  OBVIOUS
<1>2. stmt[j].ver \in Nat /\ stmt[m].ver \in Nat
  BY <1>1 DEF Statement
<1> QED
  BY <1>2 DEF Deduction, Application

\* They add up to what was taken.
LEMMA DeductionsAddUp ==
  ASSUME stmt \in [Months -> Statement], NEW m \in Months, NEW t \in [Months -> Nat], NEW n \in Nat
  PROVE  /\ IsFiniteSet(Deductions(m, t, n, MaxMonth + 1))
         /\ Deductions(m, t, n, MaxMonth + 1) \subseteq Application
         /\ SumOf(Deductions(m, t, n, MaxMonth + 1)) = SumAll(t)
<1> DEFINE D(k) == Deductions(m, t, n, k)
           Good(k) == /\ IsFiniteSet(D(k)) /\ D(k) \subseteq Application
                      /\ SumOf(D(k)) = Before(t, k)
           T == {k \in 1..(MaxMonth + 1) : ~Good(k)}
<1>1. t \in [Months -> Int] /\ MaxMonth \in Nat /\ MaxMonth > 0
  BY StatementsAssumption
<1>2. Good(1)
  <2>1. D(1) = {}
    BY DEF Deductions, Months
  <2>2. IsFiniteSet({})
    BY FS_EmptySet
  <2>3. SumOf({}) = 0
    <3>1. SumFunctionOnSet([a \in {} |-> a.amt], {}) = 0
      BY <2>2, SumZero
    <3> QED
      BY <3>1 DEF SumOf
  <2>4. Before(t, 1) = 0
    BY <1>1, BeforeIs
  <2> QED
    BY <2>1, <2>2, <2>3, <2>4
<1>3. ASSUME NEW k \in Months, Good(k) PROVE Good(k + 1)
  <2> DEFINE a == Deduction(k, m, t[k], n)
  <2>1. Before(t, k + 1) = Before(t, k) + t[k] /\ Before(t, k) \in Int /\ t[k] \in Nat
    BY <1>1, BeforeIs
  <2>2. t[k] > 0 => a \in Application
    BY <2>1, DeductionTyped
  <2>2a. a.src = k /\ a.amt = t[k]
    BY DeductionTyped
  <2>3. \A x \in D(k) : x.src < k
    <3> SUFFICES ASSUME NEW j \in {i \in Months : t[i] > 0 /\ i < k} PROVE Deduction(j, m, t[j], n).src < k
      BY DEF Deductions
    <3>1. Deduction(j, m, t[j], n).src = j
      BY DeductionTyped
    <3> QED
      BY <3>1
  <2>4. a \notin D(k)
    <3>1. ~(k < k)
      BY DEF Months
    <3> HIDE DEF a, D
    <3> QED
      BY <2>2a, <2>3, <3>1
  <2>5. {i \in Months : t[i] > 0 /\ i < k + 1} =
          {i \in Months : t[i] > 0 /\ i < k} \cup (IF t[k] > 0 THEN {k} ELSE {})
    BY DEF Months
  <2>6. D(k + 1) = D(k) \cup (IF t[k] > 0 THEN {a} ELSE {})
    BY <2>5 DEF Deductions
  <2> HIDE DEF a, D
  <2>7. CASE t[k] > 0
    <3>1. D(k + 1) = D(k) \cup {a}
      BY <2>6, <2>7
    <3>2. SumOf(D(k) \cup {a}) = SumOf(D(k)) + a.amt
      BY <1>3, <2>2, <2>4, <2>7, SumOfAdd
    <3>3. IsFiniteSet(D(k) \cup {a})
      BY <1>3, FS_AddElement
    <3> QED
      BY <1>3, <2>1, <2>2, <2>2a, <2>7, <3>1, <3>2, <3>3
  <2>8. CASE ~(t[k] > 0)
    <3>1. D(k + 1) = D(k)
      BY <2>6, <2>8
    <3>2. t[k] = 0
      BY <2>1, <2>8
    <3> QED
      BY <1>3, <2>1, <3>1, <3>2
  <2> QED
    BY <2>7, <2>8
<1> HIDE DEF Good
<1>4. T = {}
  <2> SUFFICES ASSUME T # {} PROVE FALSE
    OBVIOUS
  <2>1. T \subseteq Nat
    BY <1>1
  <2>2. PICK i \in T : \A y \in T : i <= y
    <3> HIDE DEF T
    <3> QED
      BY <2>1, LeastNat
  <2>3. i \in 1..(MaxMonth + 1) /\ ~Good(i)
    OBVIOUS
  <2>4. i # 1
    BY <1>2, <2>3
  <2>5. i - 1 \in Months /\ i - 1 \in 1..(MaxMonth + 1) /\ (i - 1) + 1 = i /\ ~(i <= i - 1)
    BY <1>1, <2>3, <2>4 DEF Months
  <2>6. Good(i - 1)
    BY <2>2, <2>5
  <2>7. Good((i - 1) + 1)
    BY <1>3, <2>5, <2>6
  <2> QED
    BY <2>3, <2>5, <2>7
<1>5. MaxMonth + 1 \in 1..(MaxMonth + 1)
  BY <1>1
<1>6. Good(MaxMonth + 1)
  BY <1>4, <1>5
<1>7. SumAll(t) = Before(t, MaxMonth + 1)
  BY <1>1, BeforeIs
<1> QED
  BY <1>6, <1>7 DEF Good

\* The applications the projection adds are deductions without an invoice.
LEMMA NewAppIs ==
  ASSUME NEW j, NEW m, NEW a
  PROVE  NewApp(j, m, a) = Deduction(j, m, a, 0)
BY DEF NewApp, Deduction

-----------------------------------------------------------------------------
(* The projection.                                                         *)

\* Applications have a sum.
LEMMA SumOfIsInt ==
  ASSUME NEW A, IsFiniteSet(A), A \subseteq Application
  PROVE  SumOf(A) \in Int
<1> DEFINE f == [x \in A |-> x.amt]
<1>1. \A x \in A : f[x] \in Int
  BY DEF Application
<1>2. SumOf(A) = SumFunctionOnSet(f, A)
  BY DEF SumOf
<1> HIDE DEF f
<1> QED
  BY <1>1, <1>2, SumIsInt

ManagementTyped ==
  /\ minv \in [Months -> [no : Nat, ver : Nat, amt : Nat]]
  /\ IsFiniteSet(app) /\ app \subseteq Application

\* After n months, from the locked applications L: remainders are not negative, later
\* months have none to invoice, and what was added is without an invoice and for a month
\* the loop has passed.
Projected(u, n, L) ==
  /\ u.pos \in [Months -> Nat] /\ u.neg \in [Months -> Nat]
  /\ \A j \in Months : j > n => u.pos[j] = 0
  /\ IsFiniteSet(u.app) /\ u.app \subseteq Application /\ L \subseteq u.app
  /\ \A a \in u.app : a \in L \/ (a.inv = 0 /\ a.tgt <= n)

\* What is left of a queue.
LEMMA LessIs ==
  ASSUME NEW q \in [Months -> Nat], NEW c \in Nat
  PROVE  /\ Less(q, Taken(q, c)) \in [Months -> Nat]
         /\ \A j \in Months : q[j] = 0 => Less(q, Taken(q, c))[j] = 0
<1> DEFINE t == Taken(q, c)
           r == Less(q, t)
<1>1. \A j \in Months : t[j] \in Nat /\ t[j] <= q[j] /\ q[j] \in Nat
  BY TakenFits
<1>2. r = [j \in Months |-> q[j] - t[j]]
  BY DEF Less
<1> HIDE DEF t
<1>3. \A j \in Months : q[j] - t[j] \in Nat /\ (q[j] = 0 => q[j] - t[j] = 0)
  BY <1>1
<1>4. r \in [Months -> Nat] /\ \A j \in Months : q[j] = 0 => r[j] = 0
  BY <1>2, <1>3
<1> QED
  BY <1>4 DEF t

\* A positive month.
LEMMA MeetPositiveIs ==
  ASSUME stmt \in [Months -> Statement], NEW u, NEW n \in Months, NEW L, Projected(u, n - 1, L), NEW c \in Nat
  PROVE  /\ Projected(MeetPositive(u, n, c), n, L)
         /\ MeetPositive(u, n, c).pos[n] = c - SumAll(Taken(u.neg, c))
         /\ MeetPositive(u, n, c).app = u.app \cup Deductions(n, Taken(u.neg, c), 0, MaxMonth + 1)
<1> DEFINE t == Taken(u.neg, c)
           s == SumAll(t)
           pos == [u.pos EXCEPT ![n] = c - s]
           neg == Less(u.neg, t)
           D == Deductions(n, t, 0, MaxMonth + 1)
           new == MeetPositive(u, n, c)
<1>1. u.pos \in [Months -> Nat] /\ u.neg \in [Months -> Nat]
  BY DEF Projected
<1>2. t \in [Months -> Nat] /\ s \in Int /\ s <= c
  BY <1>1, TakenFits
<1>3. neg \in [Months -> Nat]
  BY <1>1, LessIs
<1>4. D = {NewApp(j, n, t[j]) : j \in {i \in Months : t[i] > 0}}
  <2>1. {i \in Months : t[i] > 0 /\ i < MaxMonth + 1} = {i \in Months : t[i] > 0}
    BY StatementsAssumption DEF Months
  <2> HIDE DEF t
  <2> QED
    BY <2>1, NewAppIs DEF Deductions
<1>5. new.pos = pos /\ new.neg = neg /\ new.app = u.app \cup D
  <2>1. new = [pos |-> pos, neg |-> neg, app |-> u.app \cup {NewApp(j, n, t[j]) : j \in {i \in Months : t[i] > 0}}]
    BY DEF MeetPositive
  <2> HIDE DEF new, pos, neg, D, t
  <2> QED
    BY <1>4, <2>1
<1> HIDE DEF t, s, neg, new
<1>6. c - s \in Nat
  BY <1>2
<1>7. pos \in [Months -> Nat] /\ pos[n] = c - s /\ \A j \in Months : j > n => pos[j] = 0
  <2>1. \A j \in Months : j > n => j > n - 1 /\ j # n
    BY DEF Months
  <2> QED
    BY <1>1, <1>6, <2>1 DEF Projected
<1>8. IsFiniteSet(D) /\ D \subseteq Application
  BY <1>2, DeductionsAddUp
<1>9. \A a \in D : a.inv = 0 /\ a.tgt <= n
  <2> SUFFICES ASSUME NEW j \in {i \in Months : t[i] > 0 /\ i < MaxMonth + 1}
               PROVE  Deduction(j, n, t[j], 0).inv = 0 /\ Deduction(j, n, t[j], 0).tgt <= n
    BY DEF Deductions
  <2>1. t[j] \in Int /\ 0 \in Nat
    BY <1>2
  <2>2. Deduction(j, n, t[j], 0).inv = 0 /\ Deduction(j, n, t[j], 0).tgt = n
    BY <2>1, DeductionTyped
  <2>3. n <= n
    BY DEF Months
  <2> QED
    BY <2>2, <2>3
<1> HIDE DEF pos, D
<1>10. IsFiniteSet(u.app \cup D) /\ u.app \cup D \subseteq Application /\ L \subseteq u.app \cup D
  BY <1>8, FS_Union DEF Projected
<1>11. \A a \in u.app \cup D : a \in L \/ (a.inv = 0 /\ a.tgt <= n)
  <2>1. ASSUME NEW a \in u.app, a \notin L PROVE a.inv = 0 /\ a.tgt <= n
    <3>1. a.inv = 0 /\ a.tgt <= n - 1 /\ a \in Application
      BY <2>1 DEF Projected
    <3>2. a.tgt \in Int
      BY <3>1 DEF Application, Months
    <3> QED
      BY <3>1, <3>2 DEF Months
  <2> QED
    BY <1>9, <2>1
<1>12. Projected(new, n, L)
  BY <1>3, <1>5, <1>7, <1>10, <1>11 DEF Projected
<1> QED
  BY <1>5, <1>7, <1>12 DEF new, s, t, D

\* A negative month.
LEMMA MeetNegativeIs ==
  ASSUME stmt \in [Months -> Statement], NEW u, NEW n \in Months, NEW L, Projected(u, n - 1, L), NEW c \in Nat
  PROVE  Projected(MeetNegative(u, n, c), n, L) /\ MeetNegative(u, n, c).pos[n] = 0
<1> DEFINE t == Taken(u.pos, c)
           s == SumAll(t)
           pos == Less(u.pos, t)
           neg == [u.neg EXCEPT ![n] = c - s]
           J == {j \in Months : t[j] > 0}
           D == {NewApp(n, j, t[j]) : j \in J}
           new == MeetNegative(u, n, c)
<1>1. u.pos \in [Months -> Nat] /\ u.neg \in [Months -> Nat] /\ \A j \in Months : j > n - 1 => u.pos[j] = 0
  BY DEF Projected
<1>2. t \in [Months -> Nat] /\ s \in Int /\ s <= c /\ \A j \in Months : t[j] <= u.pos[j]
  BY <1>1, TakenFits
<1>3. pos \in [Months -> Nat] /\ \A j \in Months : u.pos[j] = 0 => pos[j] = 0
  BY <1>1, LessIs
<1>4. new.pos = pos /\ new.neg = neg /\ new.app = u.app \cup D
  <2>1. new = [pos |-> pos, neg |-> neg, app |-> u.app \cup D]
    BY DEF MeetNegative
  <2> HIDE DEF new, pos, neg, D
  <2> QED
    BY <2>1
<1> HIDE DEF t, s, pos, new
<1>5. neg \in [Months -> Nat]
  <2>1. c - s \in Nat
    BY <1>2
  <2> QED
    BY <1>1, <2>1
<1>6. pos[n] = 0 /\ \A j \in Months : j > n => pos[j] = 0
  <2>1. n > n - 1 /\ \A j \in Months : j > n => j > n - 1
    BY DEF Months
  <2> QED
    BY <1>1, <1>3, <2>1
<1>7. IsFiniteSet(D)
  <2>1. IsFiniteSet(Months)
    BY FS_Interval, StatementsAssumption DEF Months
  <2>2. J \in SUBSET Months
    OBVIOUS
  <2>3. IsFiniteSet(J)
    BY <2>1, <2>2, FS_Subset
  <2> DEFINE g == [j \in J |-> NewApp(n, j, t[j])]
  <2>4. g \in Surjection(J, D)
    BY DEF Surjection
  <2> HIDE DEF J, D, g
  <2> QED
    BY <2>3, <2>4, FS_Surjection
<1>8. ASSUME NEW j \in J
      PROVE  NewApp(n, j, t[j]) \in Application /\ NewApp(n, j, t[j]).inv = 0 /\ NewApp(n, j, t[j]).tgt <= n
  <2>1. t[j] \in Nat \ {0} /\ 0 \in Nat /\ j \in Months
    BY <1>2
  <2>2. /\ NewApp(n, j, t[j]) \in Application
        /\ NewApp(n, j, t[j]).inv = 0 /\ NewApp(n, j, t[j]).tgt = j
    BY <2>1, NewAppIs, DeductionTyped
  <2>3. u.pos[j] # 0
    BY <1>1, <1>2, <2>1
  <2>4. ~(j > n - 1)
    BY <1>1, <2>1, <2>3
  <2>5. j <= n
    BY <2>1, <2>4 DEF Months
  <2> QED
    BY <2>2, <2>5
<1>9. D \subseteq Application /\ \A a \in D : a.inv = 0 /\ a.tgt <= n
  BY <1>8
<1> HIDE DEF neg, D
<1>10. IsFiniteSet(u.app \cup D) /\ u.app \cup D \subseteq Application /\ L \subseteq u.app \cup D
  BY <1>7, <1>9, FS_Union DEF Projected
<1>11. \A a \in u.app \cup D : a \in L \/ (a.inv = 0 /\ a.tgt <= n)
  <2>1. ASSUME NEW a \in u.app, a \notin L PROVE a.inv = 0 /\ a.tgt <= n
    <3>1. a.inv = 0 /\ a.tgt <= n - 1 /\ a \in Application
      BY <2>1 DEF Projected
    <3>2. a.tgt \in Int
      BY <3>1 DEF Application, Months
    <3> QED
      BY <3>1, <3>2 DEF Months
  <2> QED
    BY <1>9, <2>1
<1>12. Projected(new, n, L)
  BY <1>3, <1>4, <1>5, <1>6, <1>10, <1>11 DEF Projected
<1> QED
  BY <1>4, <1>6, <1>12 DEF new

\* A month that is neither leaves the remainders.
LEMMA NoMonthIs ==
  ASSUME NEW u, NEW n \in Months, NEW L, Projected(u, n - 1, L)
  PROVE  Projected(u, n, L) /\ u.pos[n] = 0
<1>1. n > n - 1 /\ \A j \in Months : j > n => j > n - 1
  BY DEF Months
<1>2. \A a \in Application : a.tgt <= n - 1 => a.tgt <= n
  <2> SUFFICES ASSUME NEW a \in Application, a.tgt <= n - 1 PROVE a.tgt <= n
    OBVIOUS
  <2>1. a.tgt \in Int
    BY DEF Application, Months
  <2> QED
    BY <2>1 DEF Months
<1> QED
  BY <1>1, <1>2 DEF Projected

\* What a store confirmed is a number.
LEMMA ConfirmedIsInt ==
  ASSUME stmt \in [Months -> Statement], NEW m \in Months, Confirmed(m, "management")
  PROVE  ConfirmedAmount(m, "management") \in Int
<1>1. stmt[m] \in Statement /\ "management" \in Directions
  BY ManagementAssumption
<1>2. stmt[m].conf["management"] \subseteq Int
  BY <1>1 DEF Statement
<1>3. stmt[m].conf["management"] # {}
  BY DEF Confirmed
<1>4. ConfirmedAmount(m, "management") \in stmt[m].conf["management"]
  BY <1>3 DEF ConfirmedAmount
<1> QED
  BY <1>2, <1>4

\* The locked applications are applications.
LEMMA LockedTyped ==
  ASSUME ManagementTyped, NEW thr, NEW skip
  PROVE  /\ IsFiniteSet(LockedApps(thr, skip)) /\ LockedApps(thr, skip) \subseteq app
         /\ LockedApps(thr, skip) \subseteq Application
         /\ \A m \in Months : Reserved(m, thr, skip) \in Int
<1> DEFINE L == LockedApps(thr, skip)
<1>1. L \in SUBSET app /\ app \subseteq Application /\ IsFiniteSet(app)
  BY DEF LockedApps, ManagementTyped
<1> HIDE DEF L
<1>2. IsFiniteSet(L) /\ L \subseteq Application
  BY <1>1, FS_Subset
<1>3. ASSUME NEW m \in Months PROVE Reserved(m, thr, skip) \in Int
  <2> DEFINE R == {a \in L : a.src = m /\ a.srcVer = stmt[m].ver}
  <2>1. R \in SUBSET L
    OBVIOUS
  <2>2. Reserved(m, thr, skip) = SumOf(R)
    BY DEF Reserved, L
  <2> HIDE DEF R
  <2>3. IsFiniteSet(R) /\ R \subseteq Application
    BY <1>2, <2>1, FS_Subset
  <2> QED
    BY <2>2, <2>3, SumOfIsInt
<1> QED
  BY <1>1, <1>2, <1>3 DEF L

\* When a month of the loop has something to invoice.
Invoiceable(u, n, thr, skip) ==
  /\ Confirmed(n, "management") /\ ConfirmedAmount(n, "management") \in Nat
  /\ ProjectMonth(u, n, thr, skip) = MeetPositive(u, n, ConfirmedAmount(n, "management"))

\* One month of the loop.
LEMMA ProjectMonthIs ==
  ASSUME stmt \in [Months -> Statement], ManagementTyped, NEW u, NEW n \in Months, NEW L,
         Projected(u, n - 1, L), NEW thr, NEW skip
  PROVE  /\ Projected(ProjectMonth(u, n, thr, skip), n, L)
         /\ ProjectMonth(u, n, thr, skip).pos[n] > 0 => Invoiceable(u, n, thr, skip)
<1> DEFINE c == ConfirmedAmount(n, "management")
           r == Reserved(n, thr, skip)
           p == ProjectMonth(u, n, thr, skip)
<1>0. ~(0 > 0)
  OBVIOUS
<1>1. CASE ~Confirmed(n, "management")
  <2>1. p = u
    BY <1>1 DEF ProjectMonth
  <2>2. Projected(u, n, L) /\ u.pos[n] = 0
    BY NoMonthIs
  <2> QED
    BY <1>0, <2>1, <2>2
<1>2. CASE Confirmed(n, "management") /\ c > 0 /\ n \notin Issued(thr, skip)
  <2>1. p = MeetPositive(u, n, c)
    BY <1>2 DEF ProjectMonth
  <2>2. c \in Nat
    BY <1>2, ConfirmedIsInt
  <2>3. Projected(MeetPositive(u, n, c), n, L)
    <3> HIDE DEF c
    <3> QED
      BY <2>2, MeetPositiveIs
  <2> QED
    BY <1>2, <2>1, <2>2, <2>3 DEF Invoiceable
<1>3. CASE Confirmed(n, "management") /\ ~(c > 0 /\ n \notin Issued(thr, skip)) /\ c < 0
  <2> DEFINE d == Max({-c - r, 0})
  <2>1. p = MeetNegative(u, n, d)
    BY <1>3 DEF ProjectMonth
  <2>2. c \in Int /\ r \in Int
    BY <1>3, ConfirmedIsInt, LockedTyped
  <2>3. -c - r \in Int
    BY <2>2
  <2>4. d \in Nat
    <3> DEFINE e == -c - r
    <3>1. d = Max({e, 0}) /\ e \in Int
      BY <2>3
    <3> HIDE DEF e, d
    <3>2. Max({e, 0}) = IF e >= 0 THEN e ELSE 0
      BY <3>1, MaxOfTwo
    <3> QED
      BY <3>1, <3>2
  <2> HIDE DEF d
  <2>5. Projected(MeetNegative(u, n, d), n, L) /\ MeetNegative(u, n, d).pos[n] = 0
    BY <2>4, MeetNegativeIs
  <2> QED
    BY <1>0, <2>1, <2>5
<1>4. CASE Confirmed(n, "management") /\ ~(c > 0 /\ n \notin Issued(thr, skip)) /\ ~(c < 0)
  <2>1. p = u
    BY <1>4 DEF ProjectMonth
  <2>2. Projected(u, n, L) /\ u.pos[n] = 0
    BY NoMonthIs
  <2> QED
    BY <1>0, <2>1, <2>2
<1> QED
  BY <1>1, <1>2, <1>3, <1>4

\* What the loop computes for the months up to k.
LoopStart(thr, skip) ==
  [pos |-> [k \in Months |-> 0], neg |-> [k \in Months |-> 0], app |-> LockedApps(thr, skip)]
Loop(thr, skip, k, f) ==
  [n \in 0..k |-> IF n = 0 THEN LoopStart(thr, skip) ELSE ProjectMonth(f[n - 1], n, thr, skip)]

\* The recursion of the loop has a solution.
LEMMA LoopExists ==
  ASSUME NEW thr, NEW skip, NEW k \in Nat
  PROVE  \E f : f = Loop(thr, skip, k, f)
<1> DEFINE T == {i \in Nat : ~\E f : f = Loop(thr, skip, i, f)}
<1>1. SUFFICES ASSUME T # {} PROVE FALSE
  OBVIOUS
<1>2. PICK n \in T : \A y \in T : n <= y
  <2>1. T \subseteq Nat
    OBVIOUS
  <2> HIDE DEF T
  <2> QED
    BY <1>1, <2>1, LeastNat
<1>3. n \in Nat /\ ~\E f : f = Loop(thr, skip, n, f)
  OBVIOUS
<1>4. n # 0
  <2> SUFFICES ASSUME n = 0 PROVE FALSE
    OBVIOUS
  <2> DEFINE f == [i \in 0..0 |-> LoopStart(thr, skip)]
  <2>1. f = Loop(thr, skip, 0, f)
    BY DEF Loop
  <2> HIDE DEF f
  <2> QED
    BY <1>3, <2>1
<1>5. n - 1 \in Nat /\ ~(n <= n - 1)
  BY <1>3, <1>4
<1>6. PICK g : g = Loop(thr, skip, n - 1, g)
  BY <1>2, <1>5
<1> DEFINE h == [i \in 0..n |-> IF i = n THEN ProjectMonth(g[n - 1], n, thr, skip) ELSE g[i]]
           e == Loop(thr, skip, n, h)
<1>7. ASSUME NEW i \in 0..n PROVE h[i] = e[i]
  <2>1. e[i] = IF i = 0 THEN LoopStart(thr, skip) ELSE ProjectMonth(h[i - 1], i, thr, skip)
    BY DEF Loop
  <2>2. CASE i = n
    <3>1. h[i] = ProjectMonth(g[n - 1], n, thr, skip)
      BY <2>2
    <3>2. n - 1 \in 0..n /\ n - 1 # n
      BY <1>5
    <3>3. h[n - 1] = g[n - 1]
      BY <3>2
    <3> QED
      BY <1>4, <2>1, <2>2, <3>1, <3>3
  <2>3. CASE i # n
    <3>1. h[i] = g[i] /\ i \in 0..(n - 1)
      BY <1>3, <2>3
    <3>2. g[i] = IF i = 0 THEN LoopStart(thr, skip) ELSE ProjectMonth(g[i - 1], i, thr, skip)
      BY <1>6, <3>1 DEF Loop
    <3>3. i # 0 => i - 1 \in 0..n /\ i - 1 # n
      BY <1>3, <3>1
    <3>4. i # 0 => h[i - 1] = g[i - 1]
      BY <3>3
    <3> HIDE DEF h, e
    <3> QED
      BY <2>1, <3>1, <3>2, <3>4
  <2> QED
    BY <2>2, <2>3
<1>8. h = e
  <2>1. h = [i \in 0..n |-> h[i]] /\ e = [i \in 0..n |-> e[i]]
    BY DEF Loop
  <2> HIDE DEF h, e
  <2> QED
    BY <1>7, <2>1
<1> HIDE DEF h
<1> QED
  BY <1>3, <1>8

\* The last month of the projection, after the months before it.
LEMMA ProjectionIs ==
  ASSUME stmt \in [Months -> Statement], ManagementTyped, NEW m \in Months, NEW skip
  PROVE  \E u : /\ Projected(u, m - 1, LockedApps(m, skip))
                /\ Projection(m, skip) = ProjectMonth(u, m, m, skip)
<1> DEFINE L == LockedApps(m, skip)
           f == CHOOSE g : g = Loop(m, skip, m, g)
           T == {i \in 0..m : ~Projected(f[i], i, L)}
<1>1. m \in Nat /\ m > 0 /\ m <= MaxMonth /\ MaxMonth \in Nat
  BY StatementsAssumption DEF Months
<1>2. f = Loop(m, skip, m, f)
  BY <1>1, LoopExists
<1>3. Projection(m, skip) = f[m]
  BY DEF Projection, Loop, LoopStart
<1> HIDE DEF f
<1>4. f[0] = LoopStart(m, skip) /\ \A i \in 1..m : f[i] = ProjectMonth(f[i - 1], i, m, skip)
  BY <1>1, <1>2 DEF Loop
<1>5. Projected(f[0], 0, L)
  <2>1. IsFiniteSet(L) /\ L \subseteq Application
    BY LockedTyped
  <2> DEFINE z == LoopStart(m, skip)
  <2>2. /\ z.pos = [k \in Months |-> 0] /\ z.neg = [k \in Months |-> 0] /\ z.app = L
    BY DEF LoopStart
  <2> HIDE DEF L, z
  <2>3. Projected(z, 0, L)
    BY <2>1, <2>2 DEF Projected
  <2> QED
    BY <1>4, <2>3 DEF z
<1> HIDE DEF L
<1>6. T = {}
  <2> SUFFICES ASSUME T # {} PROVE FALSE
    OBVIOUS
  <2>1. T \subseteq Nat
    BY <1>1
  <2>2. PICK n \in T : \A y \in T : n <= y
    <3> HIDE DEF T
    <3> QED
      BY <2>1, LeastNat
  <2>3. n \in 0..m /\ ~Projected(f[n], n, L)
    OBVIOUS
  <2>4. n # 0
    BY <1>5, <2>3
  <2>5. n \in 1..m /\ n \in Months /\ n - 1 \in 0..m /\ ~(n <= n - 1)
    BY <1>1, <2>3, <2>4 DEF Months
  <2>6. Projected(f[n - 1], n - 1, L)
    BY <2>2, <2>5
  <2>7. Projected(ProjectMonth(f[n - 1], n, m, skip), n, L)
    BY <2>5, <2>6, ProjectMonthIs
  <2> QED
    BY <1>4, <2>3, <2>5, <2>7
<1>7. m - 1 \in 0..m /\ m \in 1..m
  BY <1>1
<1>8. Projected(f[m - 1], m - 1, L)
  BY <1>6, <1>7
<1> QED
  BY <1>3, <1>4, <1>7, <1>8 DEF L

-----------------------------------------------------------------------------
(* A new invoice version.                                                  *)

\* What an invoice of month m at the projected amount rests on: it and the deductions
\* t for it make up what the store confirmed.
Deducted(p, m, L, t) ==
  /\ t \in [Months -> Nat]
  /\ Confirmed(m, "management") /\ ConfirmedAmount(m, "management") \in Nat
  /\ p.pos[m] = ConfirmedAmount(m, "management") - SumAll(t) /\ p.pos[m] \in Nat
  /\ IsFiniteSet(p.app) /\ p.app \subseteq Application /\ L \subseteq p.app
  /\ \A a \in p.app : a \in L \/ a.inv = 0
  /\ {a \in p.app : a.tgt = m} = Deductions(m, t, 0, MaxMonth + 1)

\* A month with something left to invoice is the last of the loop and was met by
\* deductions, which with that remainder make up the confirmed amount.
LEMMA ProjectionDeducts ==
  ASSUME stmt \in [Months -> Statement], ManagementTyped, NEW m \in Months, NEW skip,
         m \notin Issued(m, skip), Projection(m, skip).pos[m] > 0
  PROVE  \E t : Deducted(Projection(m, skip), m, LockedApps(m, skip), t)
<1> DEFINE L == LockedApps(m, skip)
           c == ConfirmedAmount(m, "management")
<1>1. PICK u : Projected(u, m - 1, L) /\ Projection(m, skip) = ProjectMonth(u, m, m, skip)
  BY ProjectionIs
<1>2. \A a \in L : a.tgt # m
  BY DEF LockedApps
<1> DEFINE t == Taken(u.neg, c)
           D == Deductions(m, t, 0, MaxMonth + 1)
<1>3. PICK p : p = Projection(m, skip)
  OBVIOUS
<1> HIDE DEF L
<1>4. Projected(p, m, L) /\ Invoiceable(u, m, m, skip)
  BY <1>1, <1>3, ProjectMonthIs
<1>5. Confirmed(m, "management") /\ c \in Nat /\ p = MeetPositive(u, m, c)
  BY <1>1, <1>3, <1>4 DEF Invoiceable
<1> HIDE DEF c
<1>6. p.pos[m] = c - SumAll(t) /\ p.app = u.app \cup D
  BY <1>1, <1>5, MeetPositiveIs
<1>7. t \in [Months -> Nat]
  BY <1>1, <1>5, TakenFits DEF Projected
<1> HIDE DEF t
<1>8. \A a \in D : a.tgt = m
  <2> SUFFICES ASSUME NEW j \in {i \in Months : t[i] > 0 /\ i < MaxMonth + 1}
               PROVE  Deduction(j, m, t[j], 0).tgt = m
    BY DEF Deductions
  <2>1. t[j] \in Int /\ 0 \in Nat
    BY <1>7
  <2> QED
    BY <2>1, DeductionTyped
<1> HIDE DEF D
<1>9. \A a \in u.app : a.tgt # m
  <2> SUFFICES ASSUME NEW a \in u.app, a \notin L PROVE a.tgt # m
    BY <1>2
  <2>1. a.tgt <= m - 1
    BY <1>1 DEF Projected
  <2> QED
    BY <2>1 DEF Months
<1>10. {a \in p.app : a.tgt = m} = D
  BY <1>6, <1>8, <1>9
<1>11. /\ p.pos[m] \in Nat /\ IsFiniteSet(p.app) /\ p.app \subseteq Application /\ L \subseteq p.app
       /\ \A a \in p.app : a \in L \/ a.inv = 0
  BY <1>4 DEF Projected
<1>12. Deducted(p, m, L, t)
  BY <1>5, <1>6, <1>7, <1>10, <1>11 DEF Deducted, D, c
<1> QED
  BY <1>3, <1>12 DEF L

\* The applications that belong to invoice n of month m.
Belonging(A, m, n) == {a \in A : a.tgt = m /\ a.inv = n}

\* The invoice of month m is of the current statement version.
Current(m) == minv[m].no > 0 /\ minv[m].ver = stmt[m].ver

Balances ==
  \A m \in Months : Current(m) =>
    /\ Confirmed(m, "management")
    /\ minv[m].amt + SumOf(Belonging(app, m, minv[m].no)) = ConfirmedAmount(m, "management")

\* No invoice is of a version to come, no application belongs to an invoice to come.
NotAhead ==
  /\ \A m \in Months : minv[m].ver <= stmt[m].ver
  /\ \A a \in app : a.inv <= minv[a.tgt].no

InvoicesInv == ManagementTyped /\ NotAhead /\ Balances

\* What _synchronize_management_carryforward_applications leaves.
Relinked(a, m, n) == IF a.tgt = m /\ a.tgtVer = stmt[m].ver THEN [a EXCEPT !.inv = n] ELSE a

\* Linking the projected applications to the invoice touches the deductions for its
\* month and no other.
LEMMA RelinkedAre ==
  ASSUME stmt \in [Months -> Statement], NEW m \in Months, NEW p, NEW L, NEW t, Deducted(p, m, L, t),
         NEW n \in Nat
  PROVE  {Relinked(a, m, n) : a \in p.app} =
           {a \in p.app : a.tgt # m} \cup Deductions(m, t, n, MaxMonth + 1)
<1> DEFINE J == {i \in Months : t[i] > 0 /\ i < MaxMonth + 1}
           P == p.app
<1>1. t \in [Months -> Nat] /\ {a \in P : a.tgt = m} = {Deduction(j, m, t[j], 0) : j \in J}
  BY DEF Deducted, Deductions
<1> HIDE DEF P
<1>2. ASSUME NEW j \in J PROVE Relinked(Deduction(j, m, t[j], 0), m, n) = Deduction(j, m, t[j], n)
  <2>1. j \in Months /\ t[j] \in Int /\ 0 \in Nat
    BY <1>1
  <2>2. Deduction(j, m, t[j], 0).tgt = m /\ Deduction(j, m, t[j], 0).tgtVer = stmt[m].ver
    BY <2>1, DeductionTyped
  <2>3. Relinked(Deduction(j, m, t[j], 0), m, n) = [Deduction(j, m, t[j], 0) EXCEPT !.inv = n]
    BY <2>2 DEF Relinked
  <2>4. [Deduction(j, m, t[j], 0) EXCEPT !.inv = n] = Deduction(j, m, t[j], n)
    BY DEF Deduction
  <2> QED
    BY <2>3, <2>4
<1>3. \A a \in P : a.tgt # m => Relinked(a, m, n) = a
  BY DEF Relinked
<1>4. \A a \in P : a.tgt = m => \E j \in J : a = Deduction(j, m, t[j], 0)
  BY <1>1
<1>5. \A j \in J : Deduction(j, m, t[j], 0) \in P
  BY <1>1
<1> HIDE DEF J
<1>6. {Relinked(a, m, n) : a \in P} = {a \in P : a.tgt # m} \cup {Deduction(j, m, t[j], n) : j \in J}
  <2>1. ASSUME NEW a \in P PROVE Relinked(a, m, n) \in {x \in P : x.tgt # m} \cup {Deduction(j, m, t[j], n) : j \in J}
    BY <1>2, <1>3, <1>4
  <2>2. ASSUME NEW x \in P, x.tgt # m PROVE x \in {Relinked(a, m, n) : a \in P}
    BY <1>3, <2>2
  <2>3. ASSUME NEW j \in J PROVE Deduction(j, m, t[j], n) \in {Relinked(a, m, n) : a \in P}
    BY <1>2, <1>5
  <2> QED
    BY <2>1, <2>2, <2>3
<1> QED
  BY <1>6 DEF J, P, Deductions

\* Issuing keeps every invoice balanced, the new one included.
LEMMA IssueKeeps ==
  ASSUME stmt \in [Months -> Statement], InvoicesInv, NEW m \in Months, NEW skip \in SUBSET {m},
         m \notin Issued(m, skip), Projection(m, skip).pos[m] > 0,
         Issue(m, Projection(m, skip).pos[m], Projection(m, skip)), stmt' = stmt
  PROVE  InvoicesInv'
<1> DEFINE L == LockedApps(m, skip)
           n == minv[m].no + 1
           K == {a \in app : a.src > m \/ a.tgt > m}
<1>1. PICK p : p = Projection(m, skip)
  OBVIOUS
<1>2. PICK t : Deducted(p, m, L, t)
  BY <1>1, ProjectionDeducts DEF InvoicesInv
<1> DEFINE new == [no |-> n, ver |-> stmt[m].ver, amt |-> p.pos[m]]
           Q == {a \in p.app : a.tgt # m}
           D == Deductions(m, t, n, MaxMonth + 1)
<1>3. minv' = [minv EXCEPT ![m] = new] /\ app' = K \cup {Relinked(a, m, n) : a \in p.app}
  BY <1>1 DEF Issue, Relinked
<1>4. /\ minv \in [Months -> [no : Nat, ver : Nat, amt : Nat]] /\ IsFiniteSet(app) /\ app \subseteq Application
      /\ minv[m].no \in Nat /\ n \in Nat /\ n = minv[m].no + 1
  <2>1. minv \in [Months -> [no : Nat, ver : Nat, amt : Nat]] /\ IsFiniteSet(app) /\ app \subseteq Application
    BY DEF InvoicesInv, ManagementTyped
  <2>2. minv[m] \in [no : Nat, ver : Nat, amt : Nat]
    BY <2>1
  <2> QED
    BY <2>1, <2>2
<1>5. stmt[m].ver \in Nat
  <2>1. stmt[m] \in Statement
    OBVIOUS
  <2> QED
    BY <2>1 DEF Statement
<1> HIDE DEF n
<1>6. app' = K \cup Q \cup D
  <2>1. {Relinked(a, m, n) : a \in p.app} = Q \cup D
    BY <1>2, <1>4, RelinkedAre
  <2> HIDE DEF Q, D, K
  <2> QED
    BY <1>3, <2>1
<1>7. /\ t \in [Months -> Nat] /\ p.pos[m] \in Nat
      /\ IsFiniteSet(p.app) /\ p.app \subseteq Application /\ L \subseteq p.app
      /\ \A a \in p.app : a \in L \/ a.inv = 0
  BY <1>2 DEF Deducted
<1>8. IsFiniteSet(D) /\ D \subseteq Application /\ SumOf(D) = SumAll(t)
  BY <1>4, <1>7, DeductionsAddUp
<1>9. \A a \in D : a.tgt = m /\ a.inv = n
  <2> SUFFICES ASSUME NEW j \in {i \in Months : t[i] > 0 /\ i < MaxMonth + 1}
               PROVE  Deduction(j, m, t[j], n).tgt = m /\ Deduction(j, m, t[j], n).inv = n
    BY DEF Deductions
  <2>1. t[j] \in Int
    BY <1>7
  <2> QED
    BY <1>4, <2>1, DeductionTyped
<1> HIDE DEF D
<1>10. new \in [no : Nat, ver : Nat, amt : Nat] /\ new.no = n /\ new.ver = stmt[m].ver /\ new.amt = p.pos[m]
  BY <1>4, <1>5, <1>7
<1> HIDE DEF new
<1>11. /\ minv' \in [Months -> [no : Nat, ver : Nat, amt : Nat]]
       /\ minv'[m] = new /\ \A k \in Months : k # m => minv'[k] = minv[k]
  BY <1>3, <1>4, <1>10
<1>12. ManagementTyped'
  <2>1. K \in SUBSET app /\ Q \in SUBSET p.app
    OBVIOUS
  <2>2. IsFiniteSet(K) /\ IsFiniteSet(Q)
    BY <1>4, <1>7, <2>1, FS_Subset
  <2> HIDE DEF K, Q
  <2>3. IsFiniteSet(K \cup Q)
    BY <2>2, FS_Union
  <2>4. IsFiniteSet(K \cup Q \cup D)
    BY <1>8, <2>3, FS_Union
  <2>5. app' \subseteq Application
    BY <1>4, <1>6, <1>7, <1>8, <2>1
  <2> QED
    BY <1>6, <1>11, <2>4, <2>5 DEF ManagementTyped
<1>13. \A a \in app : a.tgt \in Months /\ a.inv \in Nat /\ a.inv <= minv[a.tgt].no
  BY <1>4 DEF InvoicesInv, NotAhead, Application
<1>14. L \subseteq app
  BY LockedTyped DEF InvoicesInv
<1>15. NotAhead'
  <2>1. \A k \in Months : minv'[k].ver <= stmt'[k].ver
    <3> SUFFICES ASSUME NEW k \in Months PROVE minv'[k].ver <= stmt'[k].ver
      OBVIOUS
    <3>1. CASE k = m
      BY <1>5, <1>10, <1>11, <3>1
    <3>2. CASE k # m
      BY <1>11, <3>2 DEF InvoicesInv, NotAhead
    <3> QED
      BY <3>1, <3>2
  <2>2. ASSUME NEW a, a \in Application, a.inv = 0 \/ a \in app PROVE a.inv <= minv'[a.tgt].no
    <3>1. a.tgt \in Months /\ a.inv \in Nat
      BY <2>2 DEF Application
    <3>2. PICK k \in Months : k = a.tgt
      BY <3>1
    <3>3. minv[k] \in [no : Nat, ver : Nat, amt : Nat] /\ minv'[k] \in [no : Nat, ver : Nat, amt : Nat]
      BY <1>4, <1>11
    <3>4. minv[k].no \in Nat /\ minv'[k].no \in Nat
      BY <3>3
    <3>5. minv[k].no <= minv'[k].no
      <4>1. CASE k = m
        BY <1>4, <1>10, <1>11, <4>1
      <4>2. CASE k # m
        BY <1>11, <3>4, <4>2
      <4> QED
        BY <4>1, <4>2
    <3>6. CASE a.inv = 0
      BY <3>2, <3>4, <3>6
    <3>7. CASE a \in app
      <4>1. a.inv <= minv[k].no
        BY <1>13, <3>2, <3>7
      <4>2. a.inv <= minv'[k].no
        BY <3>1, <3>4, <3>5, <4>1
      <4> QED
        BY <3>2, <4>2
    <3> QED
      BY <2>2, <3>6, <3>7
  <2>3. ASSUME NEW a \in D PROVE a.inv <= minv'[a.tgt].no
    <3>1. a.inv = n /\ minv'[a.tgt].no = n
      BY <1>9, <1>10, <1>11
    <3>2. n <= n
      BY <1>4
    <3> QED
      BY <3>1, <3>2
  <2>4. \A a \in K : a \in Application /\ a \in app
    BY <1>4
  <2>5. \A a \in Q : a \in Application /\ (a.inv = 0 \/ a \in app)
    BY <1>7, <1>14
  <2> HIDE DEF K, Q
  <2>6. \A a \in app' : a.inv <= minv'[a.tgt].no
    BY <1>6, <2>2, <2>3, <2>4, <2>5
  <2> QED
    BY <2>1, <2>6 DEF NotAhead
<1>16. Balances'
  <2> SUFFICES ASSUME NEW k \in Months, Current(k)'
               PROVE  /\ Confirmed(k, "management")'
                      /\ minv'[k].amt + SumOf(Belonging(app', k, minv'[k].no)) = ConfirmedAmount(k, "management")'
    BY DEF Balances, Belonging, SumOf
  <2>0. /\ Confirmed(k, "management")' <=> Confirmed(k, "management")
        /\ ConfirmedAmount(k, "management")' = ConfirmedAmount(k, "management")
    BY DEF Confirmed, ConfirmedAmount
  <2>1. CASE k = m
    <3>1. Belonging(app', m, n) = D
      <4>1. \A a \in K : ~(a.tgt = m /\ a.inv = n)
        <5> SUFFICES ASSUME NEW a \in K, a.tgt = m, a.inv = n PROVE FALSE
          OBVIOUS
        <5>1. n <= minv[m].no
          BY <1>13
        <5> QED
          BY <1>4, <5>1
      <4>2. \A a \in Q : a.tgt # m
        OBVIOUS
      <4> HIDE DEF K, Q
      <4> QED
        BY <1>6, <1>9, <4>1, <4>2 DEF Belonging
    <3>2. minv'[k].amt = p.pos[m] /\ minv'[k].no = n
      BY <1>10, <1>11, <2>1
    <3>3. /\ Confirmed(m, "management") /\ ConfirmedAmount(m, "management") \in Nat
          /\ p.pos[m] = ConfirmedAmount(m, "management") - SumAll(t)
      BY <1>2 DEF Deducted
    <3>4. SumAll(t) \in Int
      <4>1. SumOf(D) \in Int
        BY <1>8, SumOfIsInt
      <4> QED
        BY <1>8, <4>1
    <3>5. PICK s : s = SumAll(t)
      OBVIOUS
    <3>6. PICK c : c = ConfirmedAmount(m, "management")
      OBVIOUS
    <3>7. (c - s) + s = c
      BY <3>3, <3>4, <3>5, <3>6
    <3> QED
      BY <1>8, <2>0, <2>1, <3>1, <3>2, <3>3, <3>5, <3>6, <3>7
  <2>2. CASE k # m
    <3>1. minv'[k] = minv[k] /\ Current(k)
      BY <1>11, <2>2 DEF Current
    <3>2. PICK x : x = minv[k].no
      OBVIOUS
    <3>3. x > 0 /\ x # 0
      BY <3>1, <3>2 DEF Current
    <3>4. \A a \in app : a.tgt = k /\ a.inv = x /\ ~(a.src > m \/ a.tgt > m) => a \in L
      <4> SUFFICES ASSUME NEW a \in app, a.tgt = k, a.inv = x, ~(a.tgt > m) PROVE a \in L
        OBVIOUS
      <4>1. k \in (1..m) \ skip
        BY <2>2 DEF Months
      <4>2. k \in Issued(m, skip)
        BY <3>1, <4>1 DEF Issued, Current
      <4> QED
        BY <3>2, <4>2 DEF LockedApps
    <3>5. \A a \in Q : a.tgt = k /\ a.inv = x => a \in app
      BY <1>7, <1>14, <3>3
    <3>6. \A a \in D : a.tgt # k
      BY <1>9, <2>2
    <3>7. \A a \in L : a.tgt = k => a \in Q
      BY <1>7, <2>2
    <3>8. \A a \in app : a \in K \/ ~(a.src > m \/ a.tgt > m)
      OBVIOUS
    <3>9. K \subseteq app
      OBVIOUS
    <3> HIDE DEF K, Q, L
    <3>10. Belonging(app', k, x) = Belonging(app, k, x)
      BY <1>6, <3>4, <3>5, <3>6, <3>7, <3>8, <3>9 DEF Belonging
    <3> QED
      BY <2>0, <3>1, <3>2, <3>10 DEF InvoicesInv, Balances
  <2> QED
    BY <2>1, <2>2
<1> QED
  BY <1>12, <1>15, <1>16 DEF InvoicesInv

-----------------------------------------------------------------------------
(* The steps.                                                              *)

AmountRows == UNION {[T -> [val : Int, at : Nat]] : T \in SUBSET Months}
AmountMade == UNION {[T -> Nat] : T \in SUBSET Months}
AmountBatch ==
  [slot : {3} \X Months, read : Nat, cur : Nat, rows : AmountRows, made : AmountMade,
   reverses : Nat, status : {"ready", "committed", "conflict"}]

\* A batch has a row for the month of its slot.
AmountOK(x) == x \in AmountBatch /\ x.slot[2] \in DOMAIN x.rows

ManagementInv ==
  /\ StatementsInv /\ InvoicesInv
  /\ batch \in Seq(AmountBatch) /\ \A b \in 1..Len(batch) : AmountOK(batch[b])

\* The versions of the slots of amounts are numbers.
LEMMA AmountVersions ==
  ASSUME batch \in Seq(AmountBatch), NEW slot
  PROVE  SlotVersion(slot) \in Nat
<1>1. Len(batch) \in Nat /\ \A b \in 1..Len(batch) : batch[b] \in AmountBatch
  OBVIOUS
<1>2. \A b \in 1..Len(batch) : batch[b].cur \in Nat
  BY <1>1 DEF AmountBatch
<1> QED
  BY <1>1, <1>2, SlotVersionIsNat

\* Batches stay sound when one is added or changed.
LEMMA AmountsKeep ==
  ASSUME batch \in Seq(AmountBatch), \A b \in 1..Len(batch) : AmountOK(batch[b]), NEW x, AmountOK(x),
         batch' = Append(batch, x) \/ \E b \in 1..Len(batch) : batch' = [batch EXCEPT ![b] = x]
  PROVE  batch' \in Seq(AmountBatch) /\ \A b \in 1..Len(batch') : AmountOK(batch'[b])
<1>1. x \in AmountBatch /\ Len(batch) \in Nat
  BY DEF AmountOK
<1>2. CASE batch' = Append(batch, x)
  <2>1. /\ batch' \in Seq(AmountBatch) /\ Len(batch') = Len(batch) + 1 /\ batch'[Len(batch) + 1] = x
        /\ \A i \in 1..Len(batch) : batch'[i] = batch[i]
    <3> HIDE DEF AmountBatch
    <3> QED
      BY <1>1, <1>2, AppendIs
  <2>2. ASSUME NEW i \in 1..Len(batch') PROVE i \in 1..Len(batch) \/ i = Len(batch) + 1
    BY <1>1, <2>1
  <2> QED
    BY <2>1, <2>2
<1>3. ASSUME NEW b \in 1..Len(batch), batch' = [batch EXCEPT ![b] = x]
      PROVE  batch' \in Seq(AmountBatch) /\ \A i \in 1..Len(batch') : AmountOK(batch'[i])
  <2> HIDE DEF AmountBatch
  <2>1. /\ batch' \in Seq(AmountBatch) /\ Len(batch') = Len(batch) /\ batch'[b] = x
        /\ \A i \in 1..Len(batch) : i # b => batch'[i] = batch[i]
    BY <1>1, <1>3
  <2> QED
    BY <2>1
<1> QED
  BY <1>2, <1>3

\* Uploading shows the amount and writes no invoice.
LEMMA UploadAmountKeeps ==
  ASSUME ManagementInv, NEW m \in Months, UploadManagement(m)
  PROVE  ManagementInv'
<1> DEFINE amount == Projection(m, {}).pos[m]
           row == [val |-> amount, at |-> minv[m].no]
           shown == [k \in {m} |-> row]
           n == SlotVersion(ManagementSlot(m))
           x == [slot |-> ManagementSlot(m), read |-> n, cur |-> n,
                 rows |-> shown, made |-> NoRows, reverses |-> 0, status |-> "ready"]
<1>1. batch' = Append(batch, x) /\ UNCHANGED <<stmtVars, managementVars>>
  BY DEF UploadManagement, Uploaded
<1>2. n \in Nat
  BY AmountVersions DEF ManagementInv
<1>3. amount \in Int
  <2>1. stmt \in [Months -> Statement] /\ ManagementTyped
    BY DEF ManagementInv, StatementsInv, StatementsTyped, InvoicesInv
  <2>2. m \notin Issued(m, {}) /\ Projection(m, {}).pos[m] > 0
    BY DEF UploadManagement, Acceptable
  <2>3. PICK t : Deducted(Projection(m, {}), m, LockedApps(m, {}), t)
    BY <2>1, <2>2, ProjectionDeducts
  <2>4. amount \in Nat
    BY <2>3 DEF Deducted
  <2> HIDE DEF amount
  <2> QED
    BY <2>4
<1>4. minv[m].no \in Nat
  <2>1. minv[m] \in [no : Nat, ver : Nat, amt : Nat]
    BY DEF ManagementInv, InvoicesInv, ManagementTyped
  <2> QED
    BY <2>1
<1> HIDE DEF amount, n
<1>5. row \in [val : Int, at : Nat]
  BY <1>3, <1>4
<1> HIDE DEF row
<1>6. shown \in AmountRows /\ DOMAIN shown = {m}
  <2>1. shown \in [{m} -> [val : Int, at : Nat]] /\ {m} \in SUBSET Months
    BY <1>5
  <2> QED
    BY <2>1 DEF AmountRows
<1>7. NoRows \in AmountMade
  <2>1. NoRows \in [{} -> Nat] /\ {} \in SUBSET Months
    BY DEF NoRows
  <2> QED
    BY <2>1 DEF AmountMade
<1>8. ManagementSlot(m) \in {3} \X Months /\ ManagementSlot(m)[2] = m
  BY DEF ManagementSlot
<1> HIDE DEF shown
<1>9. AmountOK(x)
  BY <1>2, <1>6, <1>7, <1>8 DEF AmountOK, AmountBatch
<1> HIDE DEF x
<1>10. batch' \in Seq(AmountBatch) /\ \A b \in 1..Len(batch') : AmountOK(batch'[b])
  BY <1>1, <1>9, AmountsKeep DEF ManagementInv
<1>11. StatementsInv'
  BY <1>1, StatementsStep DEF ManagementInv
<1>12. InvoicesInv'
  BY <1>1 DEF ManagementInv, InvoicesInv, ManagementTyped, NotAhead, Balances, Current, Confirmed,
              ConfirmedAmount, stmtVars, managementVars
<1> QED
  BY <1>10, <1>11, <1>12 DEF ManagementInv

\* A conflict spends the batch.
LEMMA ConflictAmountKeeps ==
  ASSUME ManagementInv, NEW b \in 1..Len(batch), ConflictManagement(b)
  PROVE  ManagementInv'
<1> DEFINE n == SlotVersion(batch[b].slot)
           x == [batch[b] EXCEPT !.status = "conflict", !.cur = n]
<1>1. batch' = [batch EXCEPT ![b] = x] /\ UNCHANGED <<stmtVars, managementVars>>
  BY DEF ConflictManagement, Conflict
<1>2. n \in Nat
  BY AmountVersions DEF ManagementInv
<1>3. AmountOK(batch[b])
  BY DEF ManagementInv
<1> HIDE DEF n
<1>4. x \in AmountBatch /\ x.rows = batch[b].rows /\ x.slot = batch[b].slot
  BY <1>2, <1>3 DEF AmountOK, AmountBatch
<1> HIDE DEF x
<1>5. AmountOK(x)
  BY <1>3, <1>4 DEF AmountOK
<1>6. batch' \in Seq(AmountBatch) /\ \A c \in 1..Len(batch') : AmountOK(batch'[c])
  BY <1>1, <1>5, AmountsKeep DEF ManagementInv
<1>7. StatementsInv'
  BY <1>1, StatementsStep DEF ManagementInv
<1>8. InvoicesInv'
  BY <1>1 DEF ManagementInv, InvoicesInv, ManagementTyped, NotAhead, Balances, Current, Confirmed,
              ConfirmedAmount, stmtVars, managementVars
<1> QED
  BY <1>6, <1>7, <1>8 DEF ManagementInv

\* A commit invoices the month at the amount projected now, which the check at the
\* commit compares with the one that was shown.
LEMMA CommitAmountKeeps ==
  ASSUME ManagementInv, NEW b \in 1..Len(batch), CommitManagement(b)
  PROVE  ManagementInv'
<1> DEFINE y == batch[b]
           m == y.slot[2]
           made == [k \in {m} |-> minv[m].no + 1]
           n == SlotVersion(y.slot) + 1
           x == [y EXCEPT !.status = "committed", !.cur = n, !.made = made]
<1>1. AmountOK(y) /\ m \in Months
  <2>1. AmountOK(y)
    BY DEF ManagementInv
  <2>2. y.slot \in {3} \X Months
    BY SMTT(60), <2>1 DEF AmountOK, AmountBatch
  <2> QED
    BY <2>1, <2>2
<1>2. /\ StillAcceptable(b) /\ Issue(m, y.rows[m].val, Projection(m, {}))
      /\ batch' = [batch EXCEPT ![b] = x] /\ UNCHANGED stmtVars
  BY DEF CommitManagement, Committed
<1>3. m \notin Issued(m, {}) /\ y.rows[m].val > 0 /\ y.rows[m].val = Projection(m, {}).pos[m]
  BY <1>1, <1>2 DEF StillAcceptable, Acceptable, AmountOK
<1>4. InvoicesInv'
  <2>1. stmt \in [Months -> Statement] /\ InvoicesInv /\ stmt' = stmt
    BY <1>2 DEF ManagementInv, StatementsInv, StatementsTyped, stmtVars
  <2>2. {} \in SUBSET {m}
    OBVIOUS
  <2> HIDE DEF m, y
  <2>3. Issue(m, Projection(m, {}).pos[m], Projection(m, {})) /\ Projection(m, {}).pos[m] > 0
    BY <1>2, <1>3
  <2> QED
    BY <1>1, <1>3, <2>1, <2>2, <2>3, IssueKeeps
<1>5. AmountOK(x)
  <2>1. minv[m] \in [no : Nat, ver : Nat, amt : Nat]
    BY <1>1 DEF ManagementInv, InvoicesInv, ManagementTyped
  <2>2. minv[m].no + 1 \in Nat
    BY <2>1
  <2>3. made \in [{m} -> Nat] /\ {m} \in SUBSET Months
    BY <1>1, <2>2
  <2>4. made \in AmountMade
    BY <2>3 DEF AmountMade
  <2>5. SlotVersion(y.slot) \in Nat
    BY AmountVersions DEF ManagementInv
  <2>6. n \in Nat
    BY <2>5
  <2> HIDE DEF made, n, m, y
  <2>7. x \in AmountBatch /\ x.rows = y.rows /\ x.slot = y.slot
    BY <1>1, <2>4, <2>6 DEF AmountOK, AmountBatch
  <2> HIDE DEF x
  <2> QED
    BY <1>1, <2>7 DEF AmountOK
<1> HIDE DEF x
<1>6. batch' \in Seq(AmountBatch) /\ \A c \in 1..Len(batch') : AmountOK(batch'[c])
  BY <1>2, <1>5, AmountsKeep DEF ManagementInv
<1>7. StatementsInv'
  BY <1>2, StatementsStep DEF ManagementInv
<1> QED
  BY <1>4, <1>6, <1>7 DEF ManagementInv

\* A correction invoices the month again, at the amount projected without its invoice.
LEMMA CorrectAmountKeeps ==
  ASSUME ManagementInv, NEW m \in Months, CorrectManagement(m)
  PROVE  ManagementInv'
<1>1. /\ Projection(m, {m}).pos[m] > 0 /\ Issue(m, Projection(m, {m}).pos[m], Projection(m, {m}))
      /\ UNCHANGED <<stmtVars, batch>>
  BY DEF CorrectManagement
<1>2. m \notin Issued(m, {m}) /\ {m} \in SUBSET {m}
  BY DEF Issued
<1>3. stmt \in [Months -> Statement] /\ InvoicesInv /\ stmt' = stmt
  BY <1>1 DEF ManagementInv, StatementsInv, StatementsTyped, stmtVars
<1>4. InvoicesInv'
  BY <1>1, <1>2, <1>3, IssueKeeps
<1>5. StatementsInv'
  BY <1>1, StatementsStep DEF ManagementInv
<1> QED
  BY <1>1, <1>4, <1>5 DEF ManagementInv

\* A statement takes a new version or keeps what was confirmed on it.
Lasting(r, s) ==
  \/ s.ver = r.ver + 1
  \/ s.ver = r.ver /\ (r.conf["management"] # {} => s.conf["management"] = r.conf["management"])

\* Confirming or disputing never changes what was confirmed on a version that stays.
LEMMA StatementsLast ==
  ASSUME StatementsInv, NEW d \in Directions, StatementsNext(Months, d, Disputes)
  PROVE  \A m \in Months : Lasting(stmt[m], stmt'[m])
<1>1. stmt \in [Months -> Statement] /\ disp \in [Disputes -> Dispute]
  BY DEF StatementsInv, StatementsTyped
<1>2. ASSUME NEW k \in Months, ConfirmStatement(k, d), NEW m \in Months PROVE Lasting(stmt[m], stmt'[m])
  <2> DEFINE v == {Confirmable(k, d)}
  <2>1. stmt' = [stmt EXCEPT ![k].conf[d] = v] /\ stmt[k].conf[d] = {}
    BY <1>2 DEF ConfirmStatement, Confirmed
  <2> HIDE DEF v
  <2>2. CASE m # k
    <3>1. stmt'[m] = stmt[m]
      BY <1>1, <2>1, <2>2
    <3> QED
      BY <3>1 DEF Lasting
  <2>3. CASE m = k
    <3>1. stmt'[m] = [stmt[m] EXCEPT !.conf[d] = v] /\ stmt[m] \in Statement
      BY <1>1, <2>1, <2>3
    <3>2. stmt'[m].ver = stmt[m].ver /\ stmt'[m].conf = [stmt[m].conf EXCEPT ![d] = v]
      BY <3>1 DEF Statement
    <3>3. stmt[m].conf \in [Directions -> SUBSET Int] /\ "management" \in Directions
      BY <3>1, ManagementAssumption DEF Statement
    <3>4. d # "management" => stmt'[m].conf["management"] = stmt[m].conf["management"]
      BY <3>2, <3>3
    <3> QED
      BY <2>1, <2>3, <3>2, <3>4 DEF Lasting
  <2> QED
    BY <2>2, <2>3
<1>3. ASSUME NEW x \in Disputes, NEW adj \in Adjustments, NEW late \in BOOLEAN, AcceptDispute(x, adj, late),
             NEW m \in Months
      PROVE  Lasting(stmt[m], stmt'[m])
  <2> DEFINE k == disp[x].m
             e == disp[x].dir
             net == [stmt[k].net EXCEPT ![e] = @ + adj]
             conf == IF late THEN [Unconfirmed EXCEPT ![e] = {net[e]}] ELSE Unconfirmed
             s == [ver |-> stmt[k].ver + 1, net |-> net, conf |-> conf]
  <2>0. stmt' = [stmt EXCEPT ![k] = s]
    BY <1>3 DEF AcceptDispute, Adjusted
  <2> HIDE DEF net, conf
  <2>1. stmt' = [stmt EXCEPT ![k] = s] /\ s.ver = stmt[k].ver + 1
    BY <2>0
  <2> HIDE DEF s
  <2>2. CASE m # k
    <3>1. stmt'[m] = stmt[m]
      BY <1>1, <2>1, <2>2
    <3> QED
      BY <3>1 DEF Lasting
  <2>3. CASE m = k
    <3>1. stmt'[m] = s
      BY <1>1, <2>1, <2>3
    <3> QED
      BY <2>1, <2>3, <3>1 DEF Lasting
  <2> QED
    BY <2>2, <2>3
<1>4. ASSUME NEW x \in Disputes, NEW m \in Months,
             \/ \E k \in Months : OpenDispute(x, k, d)
             \/ WithdrawDispute(x)
             \/ \E to \in {"in_review", "approval", "rejected"} : MoveDispute(x, to)
      PROVE  Lasting(stmt[m], stmt'[m])
  <2>1. stmt' = stmt
    BY <1>4 DEF OpenDispute, WithdrawDispute, MoveDispute
  <2> QED
    BY <2>1 DEF Lasting
<1> QED
  BY <1>2, <1>3, <1>4 DEF StatementsNext

\* Requests about statements leave every invoice of a current version balanced: what
\* it rests on was confirmed, and a confirmation lasts as long as its version.
LEMMA RequestsKeep ==
  ASSUME ManagementInv, NEW d \in Directions, StatementsNext(Months, d, Disputes),
         UNCHANGED <<batch, managementVars>>
  PROVE  ManagementInv'
<1>1. StatementsInv'
  BY StatementsStep DEF ManagementInv
<1>2. \A m \in Months : Lasting(stmt[m], stmt'[m])
  BY StatementsLast DEF ManagementInv
<1>3. minv' = minv /\ app' = app /\ batch' = batch
  BY DEF managementVars
<1>4. ASSUME NEW m \in Months
      PROVE  stmt[m].ver \in Nat /\ minv[m].ver \in Nat /\ minv[m].ver <= stmt[m].ver
  <2>1. stmt[m] \in Statement /\ minv[m] \in [no : Nat, ver : Nat, amt : Nat]
    BY DEF ManagementInv, StatementsInv, StatementsTyped, InvoicesInv, ManagementTyped
  <2>2. minv[m].ver <= stmt[m].ver
    BY DEF ManagementInv, InvoicesInv, NotAhead
  <2> QED
    BY <2>1, <2>2 DEF Statement
<1>5. NotAhead'
  <2>1. ASSUME NEW m \in Months PROVE minv[m].ver <= stmt'[m].ver
    <3>1. stmt'[m].ver = stmt[m].ver + 1 \/ stmt'[m].ver = stmt[m].ver
      BY <1>2 DEF Lasting
    <3> QED
      BY <1>4, <3>1
  <2> QED
    BY <1>3, <2>1 DEF ManagementInv, InvoicesInv, NotAhead
<1>6. Balances'
  <2> SUFFICES ASSUME NEW m \in Months, Current(m)'
               PROVE  /\ Confirmed(m, "management")'
                      /\ minv[m].amt + SumOf(Belonging(app, m, minv[m].no)) = ConfirmedAmount(m, "management")'
    BY <1>3 DEF Balances, Belonging, SumOf
  <2>1. minv[m].no > 0 /\ minv[m].ver = stmt'[m].ver
    BY <1>3 DEF Current
  <2>2. stmt'[m].ver # stmt[m].ver + 1
    BY <1>4, <2>1
  <2>3. stmt'[m].ver = stmt[m].ver
    BY <1>2, <2>2 DEF Lasting
  <2>4. /\ Confirmed(m, "management")
        /\ minv[m].amt + SumOf(Belonging(app, m, minv[m].no)) = ConfirmedAmount(m, "management")
    BY <2>1, <2>3 DEF ManagementInv, InvoicesInv, Balances, Current
  <2>5. stmt'[m].conf["management"] = stmt[m].conf["management"]
    BY <1>2, <2>2, <2>4 DEF Lasting, Confirmed
  <2> QED
    BY <2>4, <2>5 DEF Confirmed, ConfirmedAmount
<1>7. ManagementTyped'
  BY <1>3 DEF ManagementInv, InvoicesInv, ManagementTyped
<1> QED
  BY <1>1, <1>3, <1>5, <1>6, <1>7 DEF ManagementInv, InvoicesInv

\* Every step keeps the invariant.
LEMMA ManagementStepKeeps ==
  ASSUME ManagementInv, [ManagementStep]_<<stmtVars, batch, managementVars>>
  PROVE  ManagementInv'
<1>1. ASSUME NEW m \in Months, UploadManagement(m) \/ CorrectManagement(m) PROVE ManagementInv'
  BY <1>1, UploadAmountKeeps, CorrectAmountKeeps
<1>2. ASSUME NEW b \in 1..Len(batch), CommitManagement(b) \/ ConflictManagement(b) PROVE ManagementInv'
  BY <1>2, CommitAmountKeeps, ConflictAmountKeeps
<1>3. ASSUME NEW d \in Directions, StatementsNext(Months, d, Disputes), UNCHANGED <<batch, managementVars>>
      PROVE  ManagementInv'
  BY <1>3, RequestsKeep
<1>4. CASE UNCHANGED <<stmtVars, batch, managementVars>>
  <2>1. StatementsInv'
    BY <1>4, StatementsStep DEF ManagementInv
  <2>2. InvoicesInv'
    BY <1>4 DEF ManagementInv, InvoicesInv, ManagementTyped, NotAhead, Balances, Current, Confirmed,
                ConfirmedAmount, stmtVars, managementVars
  <2> QED
    BY <1>4, <2>1, <2>2 DEF ManagementInv
<1> QED
  BY <1>1, <1>2, <1>3, <1>4 DEF ManagementStep, ManagementNext

\* At first there is no management invoice, application or batch.
LEMMA ManagementStart ==
  StatementsInit /\ batch = <<>> /\ ManagementInit => ManagementInv
<1> SUFFICES ASSUME StatementsInit, batch = <<>>, ManagementInit PROVE ManagementInv
  OBVIOUS
<1>1. StatementsInv
  BY StatementsStart
<1>2. batch \in Seq(AmountBatch) /\ 1..Len(batch) = {}
  OBVIOUS
<1>3. app = {} /\ IsFiniteSet({}) /\ \A m \in Months : minv[m] = NoInvoice
  BY FS_EmptySet DEF ManagementInit
<1>4. ManagementTyped
  BY <1>3 DEF ManagementInit, ManagementTyped, NoInvoice
<1>5. NotAhead
  <2> SUFFICES ASSUME NEW m \in Months PROVE minv[m].ver <= stmt[m].ver
    BY <1>3 DEF NotAhead
  <2>1. stmt[m] \in Statement
    BY <1>1 DEF StatementsInv, StatementsTyped
  <2>2. stmt[m].ver \in Nat /\ minv[m].ver = 0
    BY <1>3, <2>1 DEF Statement, NoInvoice
  <2> QED
    BY <2>2
<1>6. Balances
  <2>1. \A m \in Months : ~Current(m)
    BY <1>3 DEF Current, NoInvoice
  <2> QED
    BY <2>1 DEF Balances
<1> QED
  BY <1>1, <1>2, <1>4, <1>5, <1>6 DEF ManagementInv, InvoicesInv

\* The invariant of the management invoices: nothing is ahead of its statement or its
\* invoice, and every invoice of a current version balances with what belongs to it.
THEOREM ManagementInvariant == ManagementSpec => []ManagementInv
BY ManagementStart, ManagementStepKeeps, PTL DEF ManagementSpec

\* Every invoice of a current statement version balances.
LEMMA BalancesAre ==
  ManagementInv => InvoiceBalances
<1> SUFFICES ASSUME ManagementInv, NEW m \in Issued(MaxMonth, {})
             PROVE  /\ Confirmed(m, "management")
                    /\ minv[m].amt + SumOf({a \in LockedApps(MaxMonth, {}) : a.tgt = m})
                         = ConfirmedAmount(m, "management")
  BY DEF InvoiceBalances
<1>1. m \in Months /\ Current(m)
  BY DEF Issued, Months, Current
<1>2. {a \in LockedApps(MaxMonth, {}) : a.tgt = m} = Belonging(app, m, minv[m].no)
  BY DEF LockedApps, Belonging
<1> QED
  BY <1>1, <1>2 DEF ManagementInv, InvoicesInv, Balances

\* An invoice on the current statement version and the negative amounts recorded for it
\* add up to what the store confirmed, for any number of months, disputes and invoice
\* versions, whatever is imported, corrected or disputed in other months
\* (_commit_management_factory_result_row, correct_management_invoice,
\* _synchronize_management_carryforward_applications).
THEOREM InvoicesBalance == ManagementSpec => []InvoiceBalances
BY BalancesAre, ManagementInvariant, PTL

-----------------------------------------------------------------------------
(* The types of the whole desk: bounds that hold by counting.              *)

\* The disputes that adjusted a month.
Adjusters(ds, m) == {x \in Disputes : ds[x].adj # 0 /\ ds[x].m = m}

\* A month has one statement version more than disputes that adjusted it, and a
\* direction of a version is confirmed at one amount or not at all.
Versions ==
  \A m \in Months :
    /\ stmt[m].ver = 1 + Cardinality(Adjusters(disp, m))
    /\ \A d \in Directions : stmt[m].conf[d] = {} \/ \E a \in Int : stmt[m].conf[d] = {a}

\* A month has finitely many of them.
LEMMA AdjustersCounted ==
  ASSUME NEW ds, NEW m
  PROVE  /\ IsFiniteSet(Adjusters(ds, m)) /\ Cardinality(Adjusters(ds, m)) \in Nat
         /\ Cardinality(Adjusters(ds, m)) <= Cardinality(Disputes) /\ Cardinality(Disputes) \in Nat
<1>1. Adjusters(ds, m) \in SUBSET Disputes
  BY DEF Adjusters
<1> QED
  BY <1>1, FS_Subset, FS_CardinalityType, StatementsAssumption

\* The numbers and confirmations of the statements are of their types.
LEMMA VersionsType ==
  ASSUME StatementsInv, Versions
  PROVE  StatementsOK
<1>1. stmt \in [Months -> Statement] /\ disp \in [Disputes -> Dispute]
  BY DEF StatementsInv, StatementsTyped
<1>2. ASSUME NEW m \in Months PROVE stmt[m].ver \in 1..(Cardinality(Disputes) + 1)
  <2>1. stmt[m].ver = 1 + Cardinality(Adjusters(disp, m))
    BY DEF Versions
  <2> QED
    BY <2>1, AdjustersCounted
<1>3. ASSUME NEW m \in Months, NEW d \in Directions
      PROVE  stmt[m].net[d] \in Int /\ Cardinality(stmt[m].conf[d]) <= 1
  <2>1. stmt[m] \in Statement
    BY <1>1
  <2>2. stmt[m].net[d] \in Int
    BY <2>1 DEF Statement
  <2>3. stmt[m].conf[d] = {} \/ \E a \in Int : stmt[m].conf[d] = {a}
    BY DEF Versions
  <2>4. CASE stmt[m].conf[d] = {}
    BY <2>2, <2>4, FS_EmptySet
  <2>5. ASSUME NEW a, stmt[m].conf[d] = {a} PROVE Cardinality(stmt[m].conf[d]) <= 1
    <3>1. Cardinality({a}) = 1
      BY FS_Singleton
    <3> QED
      BY <2>5, <3>1
  <2> QED
    BY <2>2, <2>3, <2>4, <2>5
<1>4. ASSUME NEW x \in Disputes
      PROVE  disp[x].st \in OpenStatus \cup {"none", "accepted", "rejected", "withdrawn"}
  <2>1. disp[x] \in Dispute
    BY <1>1
  <2> QED
    BY <2>1 DEF Dispute, OpenStatus
<1> QED
  BY <1>2, <1>3, <1>4 DEF StatementsOK

\* The first versions.
LEMMA VersionsStart ==
  ASSUME StatementsInit PROVE Versions
<1> SUFFICES ASSUME NEW m \in Months
             PROVE  /\ stmt[m].ver = 1 + Cardinality(Adjusters(disp, m))
                    /\ \A d \in Directions : stmt[m].conf[d] = {}
  BY DEF Versions
<1>1. stmt[m] = [ver |-> 1, net |-> base[m], conf |-> Unconfirmed]
  BY DEF StatementsInit
<1>2. \A x \in Disputes : disp[x].adj = 0
  BY DEF StatementsInit, NoDispute
<1>3. Adjusters(disp, m) = {}
  BY <1>2 DEF Adjusters
<1>4. Cardinality({}) = 0
  BY FS_EmptySet
<1>5. stmt[m].ver = 1 /\ \A d \in Directions : stmt[m].conf[d] = {}
  BY <1>1 DEF Unconfirmed
<1> QED
  BY <1>3, <1>4, <1>5

\* A confirmation is one amount; the versions stay.
LEMMA ConfirmCounts ==
  ASSUME StatementsInv, Versions, NEW k \in Months, NEW d \in Directions, ConfirmStatement(k, d)
  PROVE  Versions'
<1> DEFINE v == {Confirmable(k, d)}
<1>1. stmt' = [stmt EXCEPT ![k].conf[d] = v] /\ disp' = disp /\ stmt \in [Months -> Statement]
  BY DEF ConfirmStatement, StatementsInv, StatementsTyped
<1>2. \E a \in Int : v = {a}
  BY ConfirmableIsInt DEF StatementsInv
<1> HIDE DEF v
<1> SUFFICES ASSUME NEW m \in Months
             PROVE  /\ stmt'[m].ver = 1 + Cardinality(Adjusters(disp, m))
                    /\ \A e \in Directions : stmt'[m].conf[e] = {} \/ \E a \in Int : stmt'[m].conf[e] = {a}
  BY <1>1 DEF Versions, Adjusters
<1>3. CASE m # k
  <2>1. stmt'[m] = stmt[m]
    BY <1>1, <1>3
  <2> QED
    BY <2>1 DEF Versions
<1>4. CASE m = k
  <2>1. stmt'[m] = [stmt[m] EXCEPT !.conf[d] = v] /\ stmt[m] \in Statement
    BY <1>1, <1>4
  <2>2. stmt'[m].ver = stmt[m].ver /\ stmt'[m].conf = [stmt[m].conf EXCEPT ![d] = v]
    BY <2>1 DEF Statement
  <2>3. stmt[m].conf \in [Directions -> SUBSET Int]
    BY <2>1 DEF Statement
  <2>4. \A e \in Directions : stmt'[m].conf[e] = IF e = d THEN v ELSE stmt[m].conf[e]
    BY <2>2, <2>3
  <2> QED
    BY <1>2, <2>2, <2>4 DEF Versions
<1> QED
  BY <1>3, <1>4

\* Opening, withdrawing and moving a dispute enter no adjustment.
LEMMA DisputesCount ==
  ASSUME StatementsInv, Versions, NEW x \in Disputes, NEW d \in Directions,
         \/ \E m \in Months : OpenDispute(x, m, d)
         \/ WithdrawDispute(x)
         \/ \E to \in {"in_review", "approval", "rejected"} : MoveDispute(x, to)
  PROVE  Versions'
<1>1. disp \in [Disputes -> Dispute] /\ (disp[x].st = "none" => disp[x].adj = 0)
  BY DEF StatementsInv, StatementsTyped, Unadjusted
<1>2. disp[x] \in Dispute
  BY <1>1
<1>3. stmt' = stmt
  BY DEF OpenDispute, WithdrawDispute, MoveDispute
<1>4. \E r : disp' = [disp EXCEPT ![x] = r] /\ (r.adj = disp[x].adj) /\ (r.adj # 0 => r.m = disp[x].m)
  <2>1. ASSUME NEW m \in Months, OpenDispute(x, m, d)
        PROVE  \E r : disp' = [disp EXCEPT ![x] = r] /\ (r.adj = disp[x].adj) /\ (r.adj # 0 => r.m = disp[x].m)
    <3> DEFINE r == [st |-> "pending", m |-> m, ver |-> stmt[m].ver, dir |-> d, adj |-> 0]
    <3>1. disp' = [disp EXCEPT ![x] = r] /\ disp[x].adj = 0
      BY <1>1, <2>1 DEF OpenDispute
    <3>2. r.adj = 0
      OBVIOUS
    <3> HIDE DEF r
    <3> QED
      BY <3>1, <3>2
  <2>2. ASSUME NEW to, disp' = [disp EXCEPT ![x].st = to]
        PROVE  \E r : disp' = [disp EXCEPT ![x] = r] /\ (r.adj = disp[x].adj) /\ (r.adj # 0 => r.m = disp[x].m)
    <3> DEFINE r == [disp[x] EXCEPT !.st = to]
    <3>1. disp' = [disp EXCEPT ![x] = r]
      BY <2>2
    <3>2. r.adj = disp[x].adj /\ r.m = disp[x].m
      BY <1>2 DEF Dispute
    <3> HIDE DEF r
    <3> QED
      BY <3>1, <3>2
  <2> QED
    BY <2>1, <2>2 DEF WithdrawDispute, MoveDispute
<1>5. PICK r : disp' = [disp EXCEPT ![x] = r] /\ (r.adj = disp[x].adj) /\ (r.adj # 0 => r.m = disp[x].m)
  BY <1>4
<1>6. \A y \in Disputes : disp'[y].adj = disp[y].adj /\ (disp[y].adj # 0 => disp'[y].m = disp[y].m)
  BY <1>1, <1>5
<1>7. \A m \in Months : Adjusters(disp', m) = Adjusters(disp, m)
  BY <1>6 DEF Adjusters
<1> QED
  BY <1>3, <1>7 DEF Versions

\* An accepted dispute is one more that adjusted its month, and makes one version.
LEMMA AcceptCounts ==
  ASSUME StatementsInv, Versions, NEW x \in Disputes, NEW adj \in Adjustments, NEW late \in BOOLEAN,
         AcceptDispute(x, adj, late)
  PROVE  Versions'
<1> DEFINE k == disp[x].m
           e == disp[x].dir
           net == [stmt[k].net EXCEPT ![e] = @ + adj]
           conf == IF late THEN [Unconfirmed EXCEPT ![e] = {net[e]}] ELSE Unconfirmed
           s == [ver |-> stmt[k].ver + 1, net |-> net, conf |-> conf]
           r == [disp[x] EXCEPT !.st = "accepted", !.adj = adj]
<1>1. /\ stmt \in [Months -> Statement] /\ disp \in [Disputes -> Dispute]
      /\ disp[x].st \in OpenStatus /\ disp[x].adj = 0 /\ e \in Directions /\ adj # 0 /\ adj \in Int
  BY StatementsAssumption DEF StatementsInv, StatementsTyped, Unadjusted, AcceptDispute
<1>2. disp[x] \in Dispute
  BY <1>1
<1>3. k \in Months
  BY <1>2 DEF Dispute
<1>4. stmt' = [stmt EXCEPT ![k] = s] /\ disp' = [disp EXCEPT ![x] = r]
  <2>1. stmt' = [stmt EXCEPT ![k] = s]
    BY DEF AcceptDispute, Adjusted
  <2> QED
    BY ZenonT(60), <2>1 DEF AcceptDispute
<1>5. r.adj = adj /\ r.m = k
  BY <1>2 DEF Dispute
<1>6. \A d \in Directions : conf[d] = {} \/ \E a \in Int : conf[d] = {a}
  <2>1. stmt[k] \in Statement
    BY <1>1, <1>3
  <2>2. stmt[k].net \in [Directions -> Int]
    BY <2>1 DEF Statement
  <2>3. net[e] \in Int
    BY <1>1, <2>2
  <2> HIDE DEF net, e
  <2> QED
    BY <1>1, <2>3 DEF Unconfirmed
<1> HIDE DEF net, conf
<1>7. s.ver = stmt[k].ver + 1 /\ s.conf = conf
  OBVIOUS
<1> HIDE DEF s, r, k
<1>8. \A y \in Disputes : disp'[y] = IF y = x THEN r ELSE disp[y]
  BY <1>1, <1>4
<1>9. \A m \in Months : stmt'[m] = IF m = k THEN s ELSE stmt[m]
  BY <1>1, <1>3, <1>4
<1>10. \A m \in Months : m # k => Adjusters(disp', m) = Adjusters(disp, m)
  BY <1>1, <1>5, <1>8 DEF Adjusters
<1>11. Adjusters(disp', k) = Adjusters(disp, k) \cup {x} /\ x \notin Adjusters(disp, k)
  BY <1>1, <1>5, <1>8 DEF Adjusters
<1>12. Cardinality(Adjusters(disp', k)) = Cardinality(Adjusters(disp, k)) + 1
  BY <1>11, AdjustersCounted, FS_AddElement
<1> SUFFICES ASSUME NEW m \in Months
             PROVE  /\ stmt'[m].ver = 1 + Cardinality(Adjusters(disp', m))
                    /\ \A d \in Directions : stmt'[m].conf[d] = {} \/ \E a \in Int : stmt'[m].conf[d] = {a}
  BY DEF Versions
<1>13. CASE m = k
  <2>1. stmt[k].ver = 1 + Cardinality(Adjusters(disp, k)) /\ Cardinality(Adjusters(disp, k)) \in Nat
    BY <1>3, AdjustersCounted DEF Versions
  <2>2. stmt'[m].ver = 1 + Cardinality(Adjusters(disp', m))
    BY <1>7, <1>9, <1>12, <1>13, <2>1
  <2> QED
    BY <1>6, <1>7, <1>9, <1>13, <2>2
<1>14. CASE m # k
  BY <1>9, <1>10, <1>14 DEF Versions
<1> QED
  BY <1>13, <1>14

\* Every request about statements keeps the count.
LEMMA VersionsStep ==
  ASSUME StatementsInv, Versions,
         (\E d \in Directions : StatementsNext(Months, d, Disputes)) \/ UNCHANGED stmtVars
  PROVE  Versions'
<1>1. ASSUME NEW d \in Directions, StatementsNext(Months, d, Disputes) PROVE Versions'
  <2>1. ASSUME NEW m \in Months, ConfirmStatement(m, d) PROVE Versions'
    BY <2>1, ConfirmCounts
  <2>2. ASSUME NEW x \in Disputes,
               \/ \E m \in Months : OpenDispute(x, m, d)
               \/ WithdrawDispute(x)
               \/ \E to \in {"in_review", "approval", "rejected"} : MoveDispute(x, to)
        PROVE  Versions'
    BY <2>2, DisputesCount
  <2>3. ASSUME NEW x \in Disputes, NEW adj \in Adjustments, NEW late \in BOOLEAN, AcceptDispute(x, adj, late)
        PROVE  Versions'
    BY <2>3, AcceptCounts
  <2> QED
    BY <1>1, <2>1, <2>2, <2>3 DEF StatementsNext
<1>2. CASE UNCHANGED stmtVars
  BY <1>2 DEF Versions, Adjusters, stmtVars
<1> QED
  BY <1>1, <1>2

-----------------------------------------------------------------------------
(* The numbers of the batches.                                             *)

BatchStatuses == {"ready", "committed", "conflict", "reversal"}
BatchOf(A, B, C) ==
  [slot : A, read : Nat, cur : Nat, rows : B, made : C, reverses : Nat, status : BatchStatuses]

\* The batches that count as a version of their slot.
Counted(bs) == {b \in 1..Len(bs) : bs[b].status \in Effective}

\* What one of n batches, of which c count, may hold.
NumbersOK(x, n, c) ==
  /\ x.status \in BatchStatuses /\ x.read \in 0..c /\ x.cur \in 0..c /\ x.reverses \in 0..n

\* No version of a slot is greater than the number of batches that count.
Numbered ==
  /\ Len(batch) \in Nat /\ Len(batch) <= MaxBatches
  /\ \A b \in 1..Len(batch) : NumbersOK(batch[b], Len(batch), Cardinality(Counted(batch)))

\* Finitely many batches count.
LEMMA CountedFew ==
  ASSUME NEW bs, Len(bs) \in Nat
  PROVE  /\ IsFiniteSet(Counted(bs)) /\ Cardinality(Counted(bs)) \in 0..Len(bs)
<1>1. Counted(bs) \in SUBSET (1..Len(bs))
  BY DEF Counted
<1>2. IsFiniteSet(1..Len(bs)) /\ Cardinality(1..Len(bs)) = Len(bs)
  <2>1. 1 \in Int /\ Len(bs) \in Int
    OBVIOUS
  <2>2. /\ IsFiniteSet(1..Len(bs))
        /\ Cardinality(1..Len(bs)) = IF 1 > Len(bs) THEN 0 ELSE Len(bs) - 1 + 1
    BY <2>1, FS_Interval
  <2> QED
    BY <2>2
<1> QED
  BY <1>1, <1>2, FS_Subset, FS_CardinalityType

\* So neither is the version of a slot.
LEMMA SlotVersionCounted ==
  ASSUME Numbered, NEW slot
  PROVE  SlotVersion(slot) \in 0..Cardinality(Counted(batch))
<1> DEFINE c == Cardinality(Counted(batch))
           T == {0} \cup {batch[b].cur : b \in {d \in 1..Len(batch) :
                            batch[d].slot = slot /\ batch[d].status \in Effective}}
<1>1. c \in Nat
  BY CountedFew DEF Numbered
<1>2. \A b \in 1..Len(batch) : batch[b].cur \in 0..c
  BY DEF Numbered, NumbersOK
<1> HIDE DEF c
<1>3. T \subseteq 0..c /\ T # {}
  BY <1>1, <1>2
<1>4. SlotVersion(slot) = Max(T)
  BY DEF SlotVersion
<1> HIDE DEF T
<1>5. Max(T) \in T
  BY <1>1, <1>3, MaxIsGreatest
<1> QED
  BY <1>3, <1>4, <1>5 DEF c

\* The numbers fit the desk's bounds.
LEMMA NumberedType ==
  ASSUME Numbered, \A b \in 1..Len(batch) : batch[b].slot \in Slots
  PROVE  BatchesOK
<1> DEFINE c == Cardinality(Counted(batch))
<1>1. Len(batch) \in Nat /\ Len(batch) <= MaxBatches /\ c \in 0..Len(batch) /\ MaxBatches \in Nat
  BY CountedFew, BatchesAssumption DEF Numbered
<1>2. \A b \in 1..Len(batch) : NumbersOK(batch[b], Len(batch), c)
  BY DEF Numbered
<1> HIDE DEF c
<1> SUFFICES ASSUME NEW b \in 1..Len(batch)
             PROVE  /\ batch[b].status \in Effective \cup {"ready", "conflict"}
                    /\ batch[b].read \in 0..MaxBatches /\ batch[b].cur \in 0..MaxBatches
                    /\ batch[b].reverses \in 0..Len(batch)
  BY <1>1 DEF BatchesOK
<1>3. /\ batch[b].status \in BatchStatuses /\ batch[b].read \in 0..c /\ batch[b].cur \in 0..c
      /\ batch[b].reverses \in 0..Len(batch)
  BY <1>2 DEF NumbersOK
<1>4. 0..c \subseteq 0..MaxBatches
  BY <1>1
<1> QED
  BY <1>3, <1>4 DEF BatchStatuses, Effective

\* More batches, or more that count, leave room for the old numbers.
LEMMA NumbersGrow ==
  ASSUME NEW x, NEW n \in Nat, NEW c \in Nat, NumbersOK(x, n, c), NEW p \in Nat, NEW e \in Nat, n <= p, c <= e
  PROVE  NumbersOK(x, p, e)
<1>1. 0..n \subseteq 0..p /\ 0..c \subseteq 0..e
  OBVIOUS
<1> QED
  BY <1>1 DEF NumbersOK

\* A batch is added.
LEMMA BatchNumbered ==
  ASSUME Numbered, NEW S, batch \in Seq(S), NEW x \in S, batch' = Append(batch, x), Len(batch) < MaxBatches,
         NumbersOK(x, Len(batch), Cardinality(Counted(batch)) + (IF x.status \in Effective THEN 1 ELSE 0))
  PROVE  Numbered'
<1> DEFINE n == Len(batch)
           C == Counted(batch)
           c == Cardinality(C)
           e == c + (IF x.status \in Effective THEN 1 ELSE 0)
<1>1. n \in Nat /\ \A b \in 1..n : NumbersOK(batch[b], n, c)
  BY DEF Numbered
<1>2. Len(batch') = n + 1 /\ batch'[n + 1] = x /\ \A b \in 1..n : batch'[b] = batch[b]
  BY AppendIs
<1>3. IsFiniteSet(C) /\ c \in Nat /\ MaxBatches \in Nat
  BY <1>1, CountedFew, BatchesAssumption
<1>4. n + 1 \in Nat /\ n + 1 <= MaxBatches /\ n <= n + 1 /\ 1..(n + 1) = 1..n \cup {n + 1} /\ n + 1 \notin 1..n
  BY <1>1, <1>3
<1>5. Counted(batch') = IF x.status \in Effective THEN C \cup {n + 1} ELSE C
  <2>1. Counted(batch') = {b \in 1..(n + 1) : batch'[b].status \in Effective}
    BY <1>2 DEF Counted
  <2> HIDE DEF n
  <2> QED
    BY <1>2, <1>4, <2>1 DEF Counted, n
<1>6. Cardinality(Counted(batch')) = e
  <2>1. n + 1 \notin C
    BY <1>4 DEF Counted
  <2>2. Cardinality(C \cup {n + 1}) = c + 1
    <3> HIDE DEF C
    <3> QED
      BY <1>3, <2>1, FS_AddElement
  <2> HIDE DEF C
  <2>3. CASE x.status \in Effective
    BY <1>5, <2>2, <2>3
  <2>4. CASE x.status \notin Effective
    BY <1>3, <1>5, <2>4 DEF c
  <2> QED
    BY <2>3, <2>4
<1>7. e \in Nat /\ c <= e
  BY <1>3
<1>8. NumbersOK(x, n + 1, e)
  <2>1. NumbersOK(x, n, e)
    OBVIOUS
  <2> HIDE DEF e, n
  <2> QED
    BY <1>1, <1>4, <1>7, <2>1, NumbersGrow
<1>9. \A b \in 1..n : NumbersOK(batch'[b], n + 1, e)
  <2> HIDE DEF e, n, c
  <2> QED
    BY <1>1, <1>2, <1>3, <1>4, <1>7, NumbersGrow
<1> HIDE DEF n, c, e, C
<1>10. \A b \in 1..(n + 1) : NumbersOK(batch'[b], n + 1, e)
  BY <1>2, <1>4, <1>8, <1>9
<1> QED
  BY <1>2, <1>4, <1>6, <1>10 DEF Numbered

\* A batch that waited is written to.
LEMMA BatchRenumbered ==
  ASSUME Numbered, NEW S, batch \in Seq(S), NEW b \in 1..Len(batch), NEW x \in S, batch' = [batch EXCEPT ![b] = x],
         batch[b].status = "ready",
         NumbersOK(x, Len(batch), Cardinality(Counted(batch)) + (IF x.status \in Effective THEN 1 ELSE 0))
  PROVE  Numbered'
<1> DEFINE n == Len(batch)
           C == Counted(batch)
           c == Cardinality(C)
           e == c + (IF x.status \in Effective THEN 1 ELSE 0)
<1>1. n \in Nat /\ n <= MaxBatches /\ \A d \in 1..n : NumbersOK(batch[d], n, c)
  BY DEF Numbered
<1>2. Len(batch') = n /\ batch'[b] = x /\ \A d \in 1..n : d # b => batch'[d] = batch[d]
  OBVIOUS
<1>3. IsFiniteSet(C) /\ c \in Nat
  BY <1>1, CountedFew
<1>4. Counted(batch') = (IF x.status \in Effective THEN C \cup {b} ELSE C) /\ b \notin C
  BY <1>2 DEF Counted, Effective
<1>5. Cardinality(Counted(batch')) = e
  <2>1. Cardinality(C \cup {b}) = c + 1
    <3> HIDE DEF C
    <3> QED
      BY <1>3, <1>4, FS_AddElement
  <2> HIDE DEF C
  <2>2. CASE x.status \in Effective
    BY <1>4, <2>1, <2>2
  <2>3. CASE x.status \notin Effective
    BY <1>3, <1>4, <2>3 DEF c
  <2> QED
    BY <2>2, <2>3
<1>6. e \in Nat /\ c <= e /\ n <= n
  BY <1>1, <1>3
<1>7. NumbersOK(x, n, e)
  OBVIOUS
<1> HIDE DEF n, c, e, C
<1>8. \A d \in 1..n : NumbersOK(batch[d], n, e)
  BY <1>1, <1>3, <1>6, NumbersGrow
<1>9. \A d \in 1..n : NumbersOK(batch'[d], n, e)
  BY <1>2, <1>7, <1>8
<1> QED
  BY <1>1, <1>2, <1>5, <1>9 DEF Numbered

\* What an import does to the batches.
ImportStep ==
  \/ UNCHANGED batch
  \/ \E slot, rows : Uploaded(slot, rows)
  \/ \E b \in 1..Len(batch) : \E made : Ready(b) /\ Committed(b, made)
  \/ \E b \in 1..Len(batch) : Conflict(b)
  \/ \E b \in 1..Len(batch) : \E made : Reversal(b, made)

\* Uploads, commits, conflicts and reversals keep the numbers in their bounds.
LEMMA ImportsNumbered ==
  ASSUME Numbered, NEW A, NEW B, NEW C, batch \in Seq(BatchOf(A, B, C)), ImportStep
  PROVE  Numbered'
<1> DEFINE S == BatchOf(A, B, C)
           c == Cardinality(Counted(batch))
<1>1. c \in Nat /\ Len(batch) \in Nat /\ \A slot : SlotVersion(slot) \in 0..c
  BY CountedFew, SlotVersionCounted DEF Numbered
<1>2. ASSUME NEW x PROVE batch \in Seq(S \cup {x}) /\ x \in S \cup {x}
  <2>1. batch \in Seq(S)
    OBVIOUS
  <2> HIDE DEF S
  <2> QED
    BY <2>1
<1>3. \A b \in 1..Len(batch) : batch[b] \in S /\ NumbersOK(batch[b], Len(batch), c)
  <2>1. \A b \in 1..Len(batch) : batch[b] \in S
    OBVIOUS
  <2> QED
    BY <2>1 DEF Numbered
<1>4. \A slot : SlotVersion(slot) \in 0..(c + 0) /\ SlotVersion(slot) + 1 \in 0..(c + 1)
  <2> SUFFICES ASSUME NEW slot PROVE SlotVersion(slot) \in 0..(c + 0) /\ SlotVersion(slot) + 1 \in 0..(c + 1)
    OBVIOUS
  <2>1. SlotVersion(slot) \in 0..c
    BY <1>1
  <2> HIDE DEF c
  <2> QED
    BY <1>1, <2>1
<1>5. 0 \in 0..Len(batch) /\ \A i \in 0..c : i \in 0..(c + 0) /\ i \in 0..(c + 1)
  BY <1>1
<1>6. ASSUME NEW slot, NEW rows, Uploaded(slot, rows) PROVE Numbered'
  <2> DEFINE x == [slot |-> slot, read |-> SlotVersion(slot), cur |-> SlotVersion(slot),
                   rows |-> rows, made |-> NoRows, reverses |-> 0, status |-> "ready"]
  <2>1. batch' = Append(batch, x) /\ Len(batch) < MaxBatches
    BY <1>6 DEF Uploaded
  <2>2. x.status = "ready" /\ x.read = SlotVersion(slot) /\ x.cur = SlotVersion(slot) /\ x.reverses = 0
    OBVIOUS
  <2>3. x.status \notin Effective /\ x.status \in BatchStatuses
    BY <2>2 DEF Effective, BatchStatuses
  <2> HIDE DEF x, c, S
  <2>4. NumbersOK(x, Len(batch), c + (IF x.status \in Effective THEN 1 ELSE 0))
    BY <1>4, <1>5, <2>2, <2>3 DEF NumbersOK
  <2> QED
    BY <1>2, <2>1, <2>4, BatchNumbered DEF c
<1>7. ASSUME NEW b \in 1..Len(batch), NEW made, Ready(b), Committed(b, made) PROVE Numbered'
  <2> DEFINE n == SlotVersion(batch[b].slot) + 1
             x == [batch[b] EXCEPT !.status = "committed", !.cur = n, !.made = made]
  <2>1. batch' = [batch EXCEPT ![b] = x] /\ batch[b].status = "ready"
    BY <1>7 DEF Committed, Ready
  <2>2. n \in 0..(c + 1)
    BY <1>4
  <2> HIDE DEF n
  <2>3. x.status = "committed" /\ x.cur = n /\ x.read = batch[b].read /\ x.reverses = batch[b].reverses
    BY <1>3 DEF BatchOf
  <2>4. x.status \in Effective /\ x.status \in BatchStatuses
    BY <2>3 DEF Effective, BatchStatuses
  <2> HIDE DEF x, c, S
  <2>5. batch[b].read \in 0..c /\ batch[b].reverses \in 0..Len(batch)
    BY <1>3 DEF NumbersOK
  <2>6. NumbersOK(x, Len(batch), c + (IF x.status \in Effective THEN 1 ELSE 0))
    BY <1>5, <2>2, <2>3, <2>4, <2>5 DEF NumbersOK
  <2> QED
    BY <1>2, <2>1, <2>6, BatchRenumbered DEF c
<1>8. ASSUME NEW b \in 1..Len(batch), Conflict(b) PROVE Numbered'
  <2> DEFINE n == SlotVersion(batch[b].slot)
             x == [batch[b] EXCEPT !.status = "conflict", !.cur = n]
  <2>1. batch' = [batch EXCEPT ![b] = x] /\ batch[b].status = "ready"
    BY <1>8 DEF Conflict, Ready
  <2>2. n \in 0..(c + 0)
    BY <1>4
  <2> HIDE DEF n
  <2>3. x.status = "conflict" /\ x.cur = n /\ x.read = batch[b].read /\ x.reverses = batch[b].reverses
    BY <1>3 DEF BatchOf
  <2>4. x.status \notin Effective /\ x.status \in BatchStatuses
    BY <2>3 DEF Effective, BatchStatuses
  <2> HIDE DEF x, c, S
  <2>5. batch[b].read \in 0..c /\ batch[b].reverses \in 0..Len(batch)
    BY <1>3 DEF NumbersOK
  <2>6. NumbersOK(x, Len(batch), c + (IF x.status \in Effective THEN 1 ELSE 0))
    BY <1>5, <2>2, <2>3, <2>4, <2>5 DEF NumbersOK
  <2> QED
    BY <1>2, <2>1, <2>6, BatchRenumbered DEF c
<1>9. ASSUME NEW b \in 1..Len(batch), NEW made, Reversal(b, made) PROVE Numbered'
  <2> DEFINE x == [slot |-> batch[b].slot, read |-> batch[b].cur,
                   cur |-> SlotVersion(batch[b].slot) + 1, rows |-> NoRows, made |-> made,
                   reverses |-> b, status |-> "reversal"]
  <2>1. batch' = Append(batch, x) /\ Len(batch) < MaxBatches
    BY <1>9 DEF Reversal
  <2>2. /\ x.status = "reversal" /\ x.read = batch[b].cur /\ x.cur = SlotVersion(batch[b].slot) + 1
        /\ x.reverses = b
    OBVIOUS
  <2>3. x.status \in Effective /\ x.status \in BatchStatuses
    BY <2>2 DEF Effective, BatchStatuses
  <2>4. batch[b].cur \in 0..c /\ b \in 0..Len(batch)
    BY <1>1, <1>3 DEF NumbersOK
  <2> HIDE DEF x, c, S
  <2>5. NumbersOK(x, Len(batch), c + (IF x.status \in Effective THEN 1 ELSE 0))
    BY <1>4, <1>5, <2>2, <2>3, <2>4 DEF NumbersOK
  <2> QED
    BY <1>2, <2>1, <2>5, BatchNumbered DEF c
<1>10. CASE UNCHANGED batch
  BY <1>10 DEF Numbered, Counted
<1> QED
  BY <1>6, <1>7, <1>8, <1>9, <1>10 DEF ImportStep

\* Without batches there is nothing to number.
LEMMA NumberedStart ==
  ASSUME batch = <<>> PROVE Numbered
<1>1. Len(batch) = 0 /\ 1..Len(batch) = {}
  OBVIOUS
<1> QED
  BY <1>1, BatchesAssumption DEF Numbered

-----------------------------------------------------------------------------
(* The parts.                                                              *)

\* The promotion invoices are of their type.
LEMMA PromotionType ==
  ASSUME PromotionInv
  PROVE  InvoicesOK /\ \A b \in 1..Len(batch) : batch[b].slot \in {FactorySlot(m) : m \in Months}
<1>1. ASSUME NEW i \in Invoices
      PROVE  /\ DOMAIN inv[i].alloc \subseteq Months
             /\ \A v \in 1..Len(inv[i].chain) : inv[i].chain[v] \in {"issued", "settled", "rejected"}
             /\ inv[i].term \in {"none", "open", "closed"}
             /\ inv[i].live = (inv[i].term = "none")
             /\ inv[i].src \subseteq 1..(i - 1)
  <2>1. inv[i] \in Invoice /\ InvoiceOK(i)
    BY DEF PromotionInv, Invoices
  <2>2. inv[i].alloc \in Allocation /\ inv[i].chain \in Seq(Judged) /\ inv[i].term \in {"none", "open", "closed"}
    BY <2>1 DEF Invoice
  <2>3. DOMAIN inv[i].alloc \subseteq Months
    BY <2>2 DEF Allocation
  <2>4. \A v \in 1..Len(inv[i].chain) : inv[i].chain[v] \in Judged
    BY <2>2
  <2> QED
    BY <2>1, <2>2, <2>3, <2>4 DEF InvoiceOK, Judged
<1>2. ASSUME NEW b \in 1..Len(batch) PROVE batch[b].slot \in {FactorySlot(m) : m \in Months}
  <2>1. batch[b] \in ResultBatch
    BY DEF PromotionInv
  <2>2. batch[b].slot \in {2} \X Months
    BY <2>1 DEF ResultBatch
  <2> QED
    BY <2>2 DEF FactorySlot
<1> QED
  BY <1>1, <1>2 DEF InvoicesOK

\* Promotion invoices number their batches.
LEMMA PromotionNumbers ==
  ASSUME PromotionInv, Numbered, [PromotionNext]_<<stmtVars, batch, inv>>
  PROVE  Numbered'
<1>1. batch \in Seq(BatchOf({2} \X Months, Results, ResultMade))
  BY DEF PromotionInv, ResultBatch, BatchOf, BatchStatuses
<1>2. ImportStep
  <2>1. CASE InvoiceRequests \/ UNCHANGED batch
    BY <2>1 DEF InvoiceRequests, RegisterInvoice, TerminateInvoice, ImportStep
  <2>2. CASE \E i \in Invoices, m \in Months, r \in {"settled", "rejected"} : UploadResult(m, i, r)
    BY <2>2 DEF UploadResult, ImportStep
  <2>3. CASE \E b \in 1..Len(batch) : CommitResult(b) \/ ConflictResult(b) \/ ReverseResult(b)
    BY <2>3 DEF CommitResult, ConflictResult, ReverseResult, ImportStep
  <2> QED
    BY <2>1, <2>2, <2>3 DEF PromotionNext, FactoryResults
<1> QED
  BY <1>1, <1>2, ImportsNumbered

\* The SAP profiles are of their type.
LEMMA ProfilesType ==
  ASSUME ProfilesInv
  PROVE  ProfilesOK /\ \A b \in 1..Len(batch) : batch[b].slot \in ProfileSlots
<1>1. ASSUME NEW s \in Stores
      PROVE  /\ Len(fin[s]) <= MaxProfiles
             /\ \A v \in 1..Len(fin[s]) : fin[s][v] \in [sap : Codes, tomb : BOOLEAN]
             /\ bill[s].pc \in {"none", "reading", "taken"}
  <2>1. /\ fin[s] \in Seq(Profile) /\ Len(fin[s]) <= MaxProfiles
        /\ bill[s] \in [pc : {"none", "reading", "taken"}, profile : Nat]
    BY DEF ProfilesInv
  <2>2. \A v \in 1..Len(fin[s]) : fin[s][v] \in Profile
    BY <2>1
  <2> QED
    BY <2>1, <2>2 DEF Profile
<1>2. ASSUME NEW b \in 1..Len(batch) PROVE batch[b].slot \in ProfileSlots
  <2>1. batch[b] \in ProfileBatch
    BY DEF ProfilesInv
  <2> QED
    BY <2>1 DEF ProfileBatch
<1> QED
  BY <1>1, <1>2 DEF ProfilesOK

\* Imports of profiles number their batches.
LEMMA ProfilesNumber ==
  ASSUME ProfilesInv, Numbered, [ProfilesNext]_<<batch, sapVars>>
  PROVE  Numbered'
<1>1. batch \in Seq(BatchOf(ProfileSlots, ProfileRows, ProfileMade))
  BY DEF ProfilesInv, ProfileBatch, BatchOf, BatchStatuses
<1>2. ImportStep
  <2>1. CASE UNCHANGED batch
    BY <2>1 DEF ImportStep
  <2>2. ASSUME NEW slot, NEW rows, UploadProfiles(slot, rows) PROVE ImportStep
    BY <2>2 DEF UploadProfiles, ImportStep
  <2>3. CASE \E b \in 1..Len(batch) : CommitProfiles(b) \/ ConflictProfiles(b) \/ ReverseProfiles(b)
    BY <2>3 DEF CommitProfiles, ConflictProfiles, ReverseProfiles, ImportStep
  <2>4. CASE ProfileReadsAndEdits(Stores, Codes)
    BY <2>1, <2>4 DEF ProfileReadsAndEdits, CorrectSap, BillReads, BillCommits, BillRollsBack
  <2> QED
    BY <2>1, <2>2, <2>3, <2>4 DEF ProfilesNext, ProfileImports
<1> QED
  BY <1>1, <1>2, ImportsNumbered

\* A sequence over a set is one over every greater set.
LEMMA SeqWithin ==
  ASSUME NEW S, NEW T, S \subseteq T, NEW f \in Seq(S)
  PROVE  f \in Seq(T)
<1>1. Len(f) \in Nat /\ f \in [1..Len(f) -> S]
  OBVIOUS
<1>2. f \in [1..Len(f) -> T]
  BY <1>1
<1> QED
  BY <1>1, <1>2, FunctionIsSeq

\* No month has more invoice versions than it may.
IssuesOK == \A m \in Months : minv[m].no <= MaxIssues

\* The management invoices are of their type.
LEMMA ManagementType ==
  ASSUME ManagementInv, IssuesOK
  PROVE  ManagementOK /\ \A b \in 1..Len(batch) : batch[b].slot \in {ManagementSlot(m) : m \in Months}
<1>1. /\ stmt \in [Months -> Statement] /\ minv \in [Months -> [no : Nat, ver : Nat, amt : Nat]]
      /\ app \subseteq Application /\ NotAhead
  BY DEF ManagementInv, StatementsInv, StatementsTyped, InvoicesInv, ManagementTyped
<1>2. ASSUME NEW m \in Months
      PROVE  minv[m].no \in 0..MaxIssues /\ minv[m].ver \in 0..stmt[m].ver /\ minv[m].amt \in Nat
  <2>1. minv[m] \in [no : Nat, ver : Nat, amt : Nat] /\ stmt[m] \in Statement
    BY <1>1
  <2>2. minv[m].no \in Nat /\ minv[m].ver \in Nat /\ minv[m].amt \in Nat /\ stmt[m].ver \in Nat
    BY <2>1 DEF Statement
  <2>3. minv[m].ver <= stmt[m].ver /\ minv[m].no <= MaxIssues /\ MaxIssues \in Nat
    BY <1>1, ManagementAssumption DEF NotAhead, IssuesOK
  <2> QED
    BY <2>2, <2>3
<1>3. ASSUME NEW a \in app
      PROVE  a.src \in Months /\ a.tgt \in Months /\ a.amt > 0 /\ a.inv \in 0..MaxIssues
  <2>1. a.src \in Months /\ a.tgt \in Months /\ a.inv \in Nat /\ a.amt \in Nat \ {0}
    BY <1>1 DEF Application
  <2>2. a.inv <= minv[a.tgt].no
    BY <1>1 DEF NotAhead
  <2>3. PICK k \in Months : k = a.tgt
    BY <2>1
  <2>4. minv[k].no \in 0..MaxIssues
    BY <1>2
  <2>5. a.inv <= minv[k].no /\ MaxIssues \in Nat
    BY <2>2, <2>3, ManagementAssumption
  <2> QED
    BY <2>1, <2>4, <2>5
<1>4. ASSUME NEW b \in 1..Len(batch) PROVE batch[b].slot \in {ManagementSlot(m) : m \in Months}
  <2>1. batch[b] \in AmountBatch
    BY DEF ManagementInv
  <2>2. batch[b].slot \in {3} \X Months
    BY <2>1 DEF AmountBatch
  <2> QED
    BY <2>2 DEF ManagementSlot
<1> QED
  BY <1>2, <1>3, <1>4 DEF ManagementOK

\* Management invoices number their batches and count their versions.
LEMMA ManagementNumbers ==
  ASSUME ManagementInv, IssuesOK, Numbered, [ManagementStep]_<<stmtVars, batch, managementVars>>
  PROVE  Numbered' /\ IssuesOK'
<1>1. batch \in Seq(BatchOf({3} \X Months, AmountRows, AmountMade))
  <2>1. AmountBatch \subseteq BatchOf({3} \X Months, AmountRows, AmountMade) /\ batch \in Seq(AmountBatch)
    BY DEF ManagementInv, AmountBatch, BatchOf, BatchStatuses
  <2> HIDE DEF AmountBatch, BatchOf
  <2> QED
    BY ZenonT(60), <2>1, SeqWithin
<1>2. ImportStep
  <2>1. CASE UNCHANGED batch
    BY <2>1 DEF ImportStep
  <2>2. CASE \E m \in Months : UploadManagement(m)
    BY <2>2 DEF UploadManagement, ImportStep
  <2>3. CASE \E m \in Months : CorrectManagement(m)
    BY <2>1, <2>3 DEF CorrectManagement
  <2>4. CASE \E b \in 1..Len(batch) : CommitManagement(b) \/ ConflictManagement(b)
    BY <2>4 DEF CommitManagement, ConflictManagement, ImportStep
  <2> QED
    BY <2>1, <2>2, <2>3, <2>4 DEF ManagementStep, ManagementNext
<1>3. Numbered'
  BY <1>1, <1>2, ImportsNumbered
<1>4. minv \in [Months -> [no : Nat, ver : Nat, amt : Nat]]
  BY DEF ManagementInv, InvoicesInv, ManagementTyped
<1>5. ASSUME NEW k, minv[k].no < MaxIssues, NEW z, NEW p, Issue(k, z, p) PROVE IssuesOK'
  <2> DEFINE new == [no |-> minv[k].no + 1, ver |-> stmt[k].ver, amt |-> z]
  <2>1. minv' = [minv EXCEPT ![k] = new] /\ new.no = minv[k].no + 1
    BY <1>5 DEF Issue
  <2> HIDE DEF new
  <2> SUFFICES ASSUME NEW m \in Months PROVE minv'[m].no <= MaxIssues
    BY DEF IssuesOK
  <2>2. minv[m].no \in Nat /\ minv[m].no <= MaxIssues /\ MaxIssues \in Nat
    <3>1. minv[m] \in [no : Nat, ver : Nat, amt : Nat]
      BY <1>4
    <3> QED
      BY <3>1, ManagementAssumption DEF IssuesOK
  <2>3. CASE m = k
    <3>1. minv'[m].no = minv[m].no + 1
      BY <1>4, <2>1, <2>3
    <3> QED
      BY <1>5, <2>2, <2>3, <3>1
  <2>4. CASE m # k
    BY <1>4, <2>1, <2>2, <2>4
  <2> QED
    BY <2>3, <2>4
<1>6. ASSUME UNCHANGED managementVars PROVE IssuesOK'
  BY <1>6 DEF IssuesOK, managementVars
<1>7. ASSUME NEW m \in Months, CorrectManagement(m) PROVE IssuesOK'
  <2>1. minv[m].no < MaxIssues
    BY <1>7, ManagementAssumption DEF CorrectManagement
  <2> QED
    BY <1>5, <1>7, <2>1 DEF CorrectManagement
<1>8. ASSUME NEW b \in 1..Len(batch), CommitManagement(b) PROVE IssuesOK'
  BY <1>5, <1>8 DEF CommitManagement
<1>9. IssuesOK'
  BY <1>6, <1>7, <1>8 DEF ManagementStep, ManagementNext, UploadManagement, ConflictManagement
<1> QED
  BY <1>3, <1>9

-----------------------------------------------------------------------------
(* The desk.                                                               *)

\* Each behaviour exercises one part; the others stay as they were at first.
DeskInv ==
  /\ part \in {"disputed", "judged", "carried", "coded", "imported"}
  /\ StatementsInv /\ Versions /\ Numbered
  /\ IF part \in {"disputed", "judged"} THEN PromotionInv ELSE PromotionInit
  /\ IF part = "carried" THEN ManagementInv /\ IssuesOK ELSE ManagementInit
  /\ IF part \in {"coded", "imported"} THEN ProfilesInv ELSE SapInit

\* What the desk takes for granted of its months, disputes, stores, codes and slots.
DeskInstance ==
  /\ Parts \subseteq {"disputed", "judged", "carried", "coded", "imported"}
  /\ {1, 2} \subseteq Months /\ "x" \in Disputes /\ "s1" \in Stores /\ {1, 2} \subseteq Codes
  /\ MCSlots \subseteq Slots

\* Requests about some months and disputes are requests.
LEMMA RequestsWithin ==
  ASSUME NEW M \in SUBSET Months, NEW d \in Directions, NEW X \in SUBSET Disputes,
         StatementsNext(M, d, X) \/ \E m \in M : ConfirmStatement(m, d)
  PROVE  \E e \in Directions : StatementsNext(Months, e, Disputes)
<1>1. StatementsNext(Months, d, Disputes)
  BY DEF StatementsNext
<1> QED
  BY <1>1

\* The promotion part of the desk.
LEMMA DeskPromotion ==
  ASSUME DeskInv, DeskInstance, part' = part, Promotion
  PROVE  DeskInv' /\ StaysSettled
<1>1. part \in {"disputed", "judged"} /\ UNCHANGED <<managementVars, sapVars>>
  BY DEF Promotion
<1>2. /\ PromotionInv /\ ManagementInit /\ SapInit /\ StatementsInv /\ Versions /\ Numbered
  BY <1>1 DEF DeskInv
<1>3. {1, 2} \in SUBSET Months /\ "promotion" \in Directions /\ Disputes \in SUBSET Disputes
  BY PromotionAssumption DEF DeskInstance
<1>4. \/ InvoiceRequests \/ FactoryResults
      \/ (\E e \in Directions : StatementsNext(Months, e, Disputes)) /\ UNCHANGED <<batch, inv>>
  BY <1>3, RequestsWithin DEF Promotion
<1>5. PromotionNext
  BY SMTT(60), <1>4 DEF PromotionNext
<1>6. (\E e \in Directions : StatementsNext(Months, e, Disputes)) \/ UNCHANGED stmtVars
  BY <1>4 DEF InvoiceRequests, FactoryResults, RegisterInvoice, TerminateInvoice, UploadResult, CommitResult,
              ConflictResult, ReverseResult
<1>7. PromotionInv' /\ StaysSettled /\ Numbered'
  BY <1>2, <1>5, PromotionStep, PromotionNumbers
<1>8. StatementsInv' /\ Versions'
  BY <1>2, <1>6, StatementsStep, VersionsStep
<1>9. ManagementInit' /\ SapInit'
  BY <1>1, <1>2 DEF ManagementInit, SapInit, managementVars, sapVars
<1> QED
  BY <1>1, <1>7, <1>8, <1>9 DEF DeskInv

\* The management part of the desk.
LEMMA DeskManagement ==
  ASSUME DeskInv, DeskInstance, part' = part, Management
  PROVE  DeskInv'
<1>1. part = "carried" /\ UNCHANGED <<inv, sapVars>>
  BY DEF Management
<1>2. /\ ManagementInv /\ IssuesOK /\ PromotionInit /\ SapInit /\ StatementsInv /\ Versions /\ Numbered
  BY <1>1 DEF DeskInv
<1>3. Months \in SUBSET Months /\ "management" \in Directions /\ {"x"} \in SUBSET Disputes
  BY ManagementAssumption DEF DeskInstance
<1>4. \/ ManagementNext
      \/ (\E e \in Directions : StatementsNext(Months, e, Disputes)) /\ UNCHANGED <<batch, managementVars>>
  BY SMTT(60), <1>3, RequestsWithin DEF Management
<1>5. ManagementStep
  BY <1>4 DEF ManagementStep
<1>6. (\E e \in Directions : StatementsNext(Months, e, Disputes)) \/ UNCHANGED stmtVars
  BY <1>4 DEF ManagementNext, UploadManagement, CorrectManagement, CommitManagement, ConflictManagement
<1>7. ManagementInv' /\ IssuesOK' /\ Numbered'
  BY <1>2, <1>5, ManagementStepKeeps, ManagementNumbers
<1>8. StatementsInv' /\ Versions'
  BY <1>2, <1>6, StatementsStep, VersionsStep
<1>9. PromotionInit' /\ SapInit'
  BY <1>1, <1>2 DEF PromotionInit, SapInit, sapVars
<1> QED
  BY <1>1, <1>7, <1>8, <1>9 DEF DeskInv

\* The profiles of the desk.
LEMMA DeskProfiles ==
  ASSUME DeskInv, DeskInstance, part' = part, Profiles
  PROVE  DeskInv'
<1>1. part \in {"coded", "imported"} /\ UNCHANGED <<stmtVars, inv, managementVars>>
  BY DEF Profiles
<1>2. /\ ProfilesInv /\ PromotionInit /\ ManagementInit /\ StatementsInv /\ Versions /\ Numbered
  BY <1>1 DEF DeskInv
<1>3. ASSUME NEW S \in SUBSET Stores, NEW C \in SUBSET Codes, ProfileImports(S, C) PROVE ProfilesNext
  <2>1. ASSUME NEW slot \in ProfileSlots, NEW T \in (SUBSET S) \ {{}}, NEW rows \in [T -> C],
               UploadProfiles(slot, rows)
        PROVE  ProfileImports(Stores, Codes)
    <3>1. T \in (SUBSET Stores) \ {{}} /\ rows \in [T -> Codes]
      OBVIOUS
    <3> QED
      BY <2>1, <3>1 DEF ProfileImports
  <2>2. ASSUME \E b \in 1..Len(batch) : CommitProfiles(b) \/ ConflictProfiles(b) \/ ReverseProfiles(b)
        PROVE  ProfileImports(Stores, Codes)
    BY <2>2 DEF ProfileImports
  <2>3. ProfileImports(Stores, Codes)
    BY <1>3, <2>1, <2>2 DEF ProfileImports
  <2> QED
    BY <2>3 DEF ProfilesNext
<1>4. ASSUME ProfileReadsAndEdits({"s1"}, {2}) PROVE ProfilesNext
  <2>1. "s1" \in Stores /\ 2 \in Codes
    BY DEF DeskInstance
  <2>2. ProfileReadsAndEdits(Stores, Codes)
    BY <1>4, <2>1 DEF ProfileReadsAndEdits
  <2> QED
    BY <2>2 DEF ProfilesNext
<1>5. /\ {"s1"} \in SUBSET Stores /\ Stores \in SUBSET Stores
      /\ {1} \in SUBSET Codes /\ Codes \in SUBSET Codes
  BY DEF DeskInstance
<1>6. ProfilesNext
  BY <1>3, <1>4, <1>5 DEF Profiles
<1>7. ProfilesInv' /\ Numbered'
  BY <1>2, <1>6, ProfilesStep, ProfilesNumber
<1>8. StatementsInv' /\ Versions'
  BY <1>1, <1>2, StatementsStep, VersionsStep
<1>9. PromotionInit' /\ ManagementInit'
  BY <1>1, <1>2 DEF PromotionInit, ManagementInit, managementVars
<1> QED
  BY <1>1, <1>7, <1>8, <1>9 DEF DeskInv

\* At first.
LEMMA DeskStart ==
  ASSUME Init, DeskInstance PROVE DeskInv
<1>1. part \in Parts /\ StatementsInit /\ batch = <<>> /\ PromotionInit /\ ManagementInit /\ SapInit
  BY DEF Init
<1>2. PromotionInv /\ ManagementInv /\ ProfilesInv
  BY <1>1, PromotionStart, ManagementStart, ProfilesStart
<1>3. StatementsInv /\ Versions /\ Numbered
  BY <1>1, StatementsStart, VersionsStart, NumberedStart
<1>4. IssuesOK
  BY <1>1, ManagementAssumption DEF ManagementInit, NoInvoice, IssuesOK
<1>5. part \in {"disputed", "judged", "carried", "coded", "imported"}
  BY <1>1 DEF DeskInstance
<1> QED
  BY <1>1, <1>2, <1>3, <1>4, <1>5 DEF DeskInv

\* Every step of the desk.
LEMMA DeskStep ==
  ASSUME DeskInv, DeskInstance, [Next]_allVars PROVE DeskInv' /\ StaysSettled
<1>0. ASSUME UNCHANGED inv PROVE StaysSettled
  BY <1>0 DEF StaysSettled, Status, Invoices
<1>1. CASE Next
  <2>1. Promotion \/ Management \/ Profiles
    BY <1>1 DEF Next
  <2>2. Management \/ Profiles => UNCHANGED inv
    BY DEF Management, Profiles
  <2> QED
    BY <1>0, <1>1, <2>1, <2>2, DeskPromotion, DeskManagement, DeskProfiles DEF Next
<1>2. CASE UNCHANGED allVars
  <2>1. UNCHANGED <<part, stmtVars, batch, inv, managementVars, sapVars>>
    BY <1>2 DEF allVars
  <2>2. StatementsInv' /\ Versions'
    BY <2>1, StatementsStep, VersionsStep DEF DeskInv
  <2>3. PromotionInv => PromotionInv'
    BY <2>1, PromotionStep
  <2>4. ManagementInv => ManagementInv'
    BY <2>1, ManagementStepKeeps
  <2>5. ProfilesInv => ProfilesInv'
    BY <2>1, ProfilesStep
  <2>6. PromotionInit' = PromotionInit /\ ManagementInit' = ManagementInit /\ SapInit' = SapInit
    BY <2>1 DEF PromotionInit, ManagementInit, SapInit, managementVars, sapVars
  <2>7. Numbered' /\ (IssuesOK => IssuesOK')
    BY <2>1 DEF DeskInv, Numbered, Counted, IssuesOK, managementVars
  <2> QED
    BY <1>0, <2>1, <2>2, <2>3, <2>4, <2>5, <2>6, <2>7 DEF DeskInv
<1> QED
  BY <1>1, <1>2

\* The invariant of the desk: the part that is exercised keeps its own, the numbers of
\* statement versions, batches and invoice versions are what was accepted, committed
\* and issued, and the other parts stay empty.
THEOREM DeskInvariant == DeskInstance => (Spec => []DeskInv)
<1> SUFFICES ASSUME DeskInstance PROVE Spec => []DeskInv
  OBVIOUS
<1> QED
  BY DeskStart, DeskStep, PTL DEF Spec

\* A part that is not exercised has nothing that could be wrong.
LEMMA DeskIdle ==
  /\ PromotionInit => InvoicesOK /\ PeriodInvoicedOnce /\ ReplacementChain
  /\ StatementsInv /\ ManagementInit => ManagementOK /\ InvoiceBalances
  /\ SapInit => ProfilesOK
<1>1. ASSUME PromotionInit PROVE InvoicesOK /\ PeriodInvoicedOnce /\ ReplacementChain
  <2>1. Invoices = {}
    BY <1>1 DEF PromotionInit, Invoices
  <2>2. Cardinality({}) <= 1
    BY FS_EmptySet
  <2>3. \A m \in Months : {i \in Invoices : inv[i].live /\ m \in DOMAIN inv[i].alloc} = {}
    BY <2>1
  <2> QED
    BY <2>1, <2>2, <2>3 DEF InvoicesOK, PeriodInvoicedOnce, ReplacementChain
<1>2. ASSUME StatementsInv, ManagementInit PROVE ManagementOK /\ InvoiceBalances
  <2>1. app = {} /\ \A m \in Months : minv[m] = NoInvoice
    BY <1>2 DEF ManagementInit
  <2>2. \A m \in Months : minv[m].no = 0 /\ minv[m].ver = 0 /\ minv[m].amt = 0
    BY <2>1 DEF NoInvoice
  <2>3. ASSUME NEW m \in Months PROVE 0 \in 0..stmt[m].ver
    <3>1. stmt[m] \in Statement
      BY <1>2 DEF StatementsInv, StatementsTyped
    <3>2. stmt[m].ver \in Nat
      BY <3>1 DEF Statement
    <3> QED
      BY <3>2
  <2>4. ManagementOK
    BY <2>1, <2>2, <2>3, ManagementAssumption DEF ManagementOK
  <2>5. Issued(MaxMonth, {}) = {}
    BY <2>2 DEF Issued, Months
  <2> QED
    BY <2>4, <2>5 DEF InvoiceBalances
<1>3. ASSUME SapInit PROVE ProfilesOK
  <2>1. \A s \in Stores : fin[s] = <<>> /\ bill[s].pc = "none"
    BY <1>3 DEF SapInit
  <2> QED
    BY <2>1, ProfilesAssumption DEF ProfilesOK
<1> QED
  BY <1>1, <1>2, <1>3

\* Every variable of the desk has its type, whichever part is exercised, and every
\* bound is respected by counting: the version of a slot never exceeds the batches
\* that were committed or reversed (_execute_finance_import_commit,
\* reverse_finance_import), a statement version the disputes accepted
\* (_create_dispute_statement_version); an application always takes something
\* (_management_invoiceable_projection); an invoice is current until it is terminated
\* (create_promotion_invoice_lifecycle_event).
THEOREM DeskIsTyped == DeskInstance => (Spec => []DeskOK)
<1> SUFFICES ASSUME DeskInstance PROVE Spec => []DeskOK
  OBVIOUS
<1>1. DeskInv => DeskOK
  <2> SUFFICES ASSUME DeskInv PROVE DeskOK
    OBVIOUS
  <2>1. StatementsInv /\ StatementsOK
    BY VersionsType DEF DeskInv
  <2>2. /\ ProfileSlots \subseteq Slots /\ {FactorySlot(m) : m \in Months} \subseteq Slots
        /\ {ManagementSlot(m) : m \in Months} \subseteq Slots
    BY DEF DeskInstance, MCSlots
  <2>3. \A b \in 1..Len(batch) : batch[b].slot \in Slots
    <3>1. CASE part \in {"disputed", "judged"}
      BY <2>2, <3>1, PromotionType DEF DeskInv
    <3>2. CASE part = "carried"
      BY <2>2, <3>2, ManagementType DEF DeskInv
    <3>3. CASE part \in {"coded", "imported"}
      BY <2>2, <3>3, ProfilesType DEF DeskInv
    <3> QED
      BY <3>1, <3>2, <3>3 DEF DeskInv
  <2>4. BatchesOK
    BY <2>3, NumberedType DEF DeskInv
  <2>5. InvoicesOK
    BY DeskIdle, PromotionType DEF DeskInv
  <2>6. ManagementOK
    BY <2>1, DeskIdle, ManagementType DEF DeskInv
  <2>7. ProfilesOK
    BY DeskIdle, ProfilesType DEF DeskInv
  <2> QED
    BY <2>1, <2>4, <2>5, <2>6, <2>7 DEF DeskOK
<1> QED
  BY <1>1, DeskInvariant, PTL

\* What is proved of the parts holds of the desk that composes them: the statements
\* balance (_create_dispute_statement_version), a month is on one current promotion
\* invoice and terminated ones are replaced once (register_promotion_invoice),
\* management invoices make up what the store confirmed
\* (_commit_management_factory_result_row), profiles are written as previewed and
\* reversals restore them (_commit_store_finance_profile_row,
\* _append_profile_reversal_version), and no settlement is taken back
\* (_finance_import_reversal_protection).
THEOREM DeskIsSound ==
  DeskInstance =>
    (Spec => /\ [](LedgerBalance /\ PeriodInvoicedOnce /\ ReplacementChain /\ InvoiceBalances)
             /\ [](WrittenAsPreviewed /\ ReversalRestores)
             /\ SettledNeverUndone)
<1> SUFFICES ASSUME DeskInstance
             PROVE  Spec => /\ [](LedgerBalance /\ PeriodInvoicedOnce /\ ReplacementChain /\ InvoiceBalances)
                            /\ [](WrittenAsPreviewed /\ ReversalRestores)
                            /\ SettledNeverUndone
  OBVIOUS
<1>1. DeskInv => LedgerBalance
  BY DEF DeskInv, StatementsInv
<1>2. DeskInv => PeriodInvoicedOnce /\ ReplacementChain
  BY DeskIdle, MonthsApart DEF DeskInv, PromotionInv
<1>3. DeskInv => InvoiceBalances
  BY DeskIdle, BalancesAre DEF DeskInv
<1>4. DeskInv => WrittenAsPreviewed /\ ReversalRestores
  <2> SUFFICES ASSUME DeskInv PROVE WrittenAsPreviewed /\ ReversalRestores
    OBVIOUS
  <2>1. CASE ProfilesInv
    BY SMTT(60), <2>1, ProfilesWritten, ProfilesRestored
  <2>2. CASE ~ProfilesInv
    <3>1. \A b \in 1..Len(batch) : \E m \in Months : batch[b].slot \in {FactorySlot(m), ManagementSlot(m)}
      BY <2>2, PromotionType, ManagementType DEF DeskInv
    <3>2. \A m \in Months : FactorySlot(m) \notin ProfileSlots /\ ManagementSlot(m) \notin ProfileSlots
      BY DEF FactorySlot, ManagementSlot, ProfileSlots
    <3>3. \A b \in 1..Len(batch) : batch[b].slot \notin ProfileSlots
      BY <3>1, <3>2
    <3> QED
      BY <3>3 DEF WrittenAsPreviewed, ReversalRestores
  <2> QED
    BY <2>1, <2>2
<1>5. DeskInv /\ [Next]_allVars
        => [\A i \in Invoices : Status(i) = "settled" => Last(inv'[i].chain) = "settled"]_<<stmtVars, batch, inv>>
  BY DeskStep DEF StaysSettled
<1> QED
  BY <1>1, <1>2, <1>3, <1>4, <1>5, DeskInvariant, PTL DEF Spec, SettledNeverUndone
=============================================================================
