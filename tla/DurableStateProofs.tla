-------------------------- MODULE DurableStateProofs --------------------------
(* Until a write fails the memory of a server is what a restart would load,   *)
(* and the server implements StableStorage.                                   *)
EXTENDS DurableState, FiniteSetTheorems, SequenceTheorems, TLAPS

-------------------------------------------------------------------------------
(* What LoadPersistentLog makes of rows that are numbered without gaps.       *)

\* The k-th of the numbers 1..n is k.
LEMMA NthOfInterval ==
    ASSUME NEW n \in Nat, NEW k \in 1..n
    PROVE  Nth(1..n, k) = k
<1>1. ASSUME NEW j \in 1..n
      PROVE  Cardinality({m \in 1..n : m <= j}) = j
  <2>1. {m \in 1..n : m <= j} = 1..j
    OBVIOUS
  <2>2. Cardinality(1..j) = j
    BY FS_Interval
  <2> QED BY <2>1, <2>2
<1> QED BY <1>1 DEF Nth

\* Rows 1..n load as n entries, each with its row's key as index.
LEMMA LoadedWithoutGaps ==
    ASSUME NEW n \in Nat, NEW rows, DOMAIN rows = 1..n
    PROVE  Loaded(rows) = [k \in 1..n |-> [index |-> k, entry |-> rows[k]]]
<1>1. Cardinality(DOMAIN rows) = n
  BY FS_Interval
<1>2. \A k \in 1..n : Nth(DOMAIN rows, k) = k
  BY NthOfInterval
<1> QED BY <1>1, <1>2 DEF Loaded

-------------------------------------------------------------------------------
(* The inductive invariant.  While the server is down only the rows are left, *)
(* so that they have no gaps must be said of them alone.                      *)
Numbered(rows, n) ==
    /\ n \in Nat
    /\ DOMAIN rows = 1..n
    /\ \A k \in 1..n : rows[k] \in Entry

InMemory(rows, n) == [k \in 1..n |-> [index |-> k, entry |-> rows[k]]]

FieldsOK ==
    /\ running \in BOOLEAN
    /\ currentTerm \in 0..MaxTerm /\ diskTerm \in 0..MaxTerm
    /\ votedFor \in {LocalNode, Nil} /\ diskVote \in {LocalNode, Nil}
    /\ lock \in {"free", "resetVote", "increment"}
    /\ raising \subseteq 1..MaxTerm
    /\ campaign \in BOOLEAN
    /\ conflict \in Entry \cup {Nil}
    /\ ownVotes \subseteq 0..MaxTerm
    /\ failures = 0
    /\ running => currentTerm = diskTerm /\ votedFor = diskVote
    /\ ~ running => lock = "free"
    /\ lock = "increment" => currentTerm < MaxTerm

RowsOK ==
    \E n \in Nat :
        /\ Numbered(diskLog, n)
        /\ log = IF running THEN InMemory(diskLog, n) ELSE <<>>

Core == FieldsOK /\ RowsOK

\* The log such rows load as.
LEMMA LengthInMemory ==
    ASSUME NEW rows, NEW n, Numbered(rows, n)
    PROVE  /\ InMemory(rows, n) \in Seq(DiskLogEntry)
           /\ Len(InMemory(rows, n)) = n
BY DEF InMemory, Numbered, DiskLogEntry

\* Rows without gaps have the type that TypeOK asks of the file.
LEMMA TypeOfRows ==
    ASSUME NEW rows, NEW n, Numbered(rows, n)
    PROVE  /\ DOMAIN rows \in SUBSET (Nat \ {0})
           /\ IsFiniteSet(DOMAIN rows)
           /\ \A k \in DOMAIN rows : rows[k] \in Entry
<1>1. IsFiniteSet(1..n)
  BY FS_Interval DEF Numbered
<1> QED BY <1>1 DEF Numbered

\* One more entry in memory and one more row are still a match.
LEMMA AddedRow ==
    ASSUME NEW rows, NEW n, Numbered(rows, n), NEW e \in Entry
    PROVE  /\ n + 1 \notin DOMAIN rows
           /\ Numbered(WithRow(rows, n + 1, e), n + 1)
           /\ Append(InMemory(rows, n), [index |-> n + 1, entry |-> e])
                 = InMemory(WithRow(rows, n + 1, e), n + 1)
<1> DEFINE new == WithRow(rows, n + 1, e)
<1>1. n \in Nat /\ DOMAIN rows = 1..n
  BY DEF Numbered
<1>2. DOMAIN new = 1..(n + 1)
  BY <1>1 DEF WithRow
<1>3. \A k \in 1..n : new[k] = rows[k]
  BY <1>1 DEF WithRow
<1>4. new[n + 1] = e
  BY <1>1 DEF WithRow
<1>5. Numbered(new, n + 1)
  <2>1. \A k \in 1..(n + 1) : new[k] \in Entry
    BY <1>1, <1>3, <1>4 DEF Numbered
  <2> HIDE DEF new
  <2> QED BY <2>1, <1>1, <1>2 DEF Numbered
<1>6. Append(InMemory(rows, n), [index |-> n + 1, entry |-> e]) = InMemory(new, n + 1)
  <2> DEFINE s == Append(InMemory(rows, n), [index |-> n + 1, entry |-> e])
             t == InMemory(new, n + 1)
  <2>1. s \in Seq(DiskLogEntry) /\ Len(s) = n + 1
        /\ s[n + 1] = [index |-> n + 1, entry |-> e]
        /\ \A k \in 1..n : s[k] = InMemory(rows, n)[k]
    <3>1. [index |-> n + 1, entry |-> e] \in DiskLogEntry
      BY <1>1 DEF DiskLogEntry
    <3> QED BY <1>1, <3>1, LengthInMemory, AppendProperties
  <2>2. t \in Seq(DiskLogEntry) /\ Len(t) = n + 1
    BY <1>5, LengthInMemory
  <2>3. ASSUME NEW k \in 1..(n + 1) PROVE s[k] = t[k]
    <3>1. CASE k = n + 1
      BY <3>1, <2>1, <1>1, <1>4 DEF InMemory
    <3>2. CASE k \in 1..n
      BY <3>2, <2>1, <1>1, <1>3 DEF InMemory
    <3>3. k = n + 1 \/ k \in 1..n
      BY <1>1
    <3> QED BY <3>1, <3>2, <3>3
  <2> QED BY <2>1, <2>2, <2>3, SeqEqual
<1>7. n + 1 \notin DOMAIN rows
  BY <1>1
<1> QED BY <1>5, <1>6, <1>7

\* So are the entries and the rows below n.
LEMMA KeptRows ==
    ASSUME NEW rows, NEW n, Numbered(rows, n), NEW m \in 1..n
    PROVE  /\ Numbered(RowsBelow(rows, m), m - 1)
           /\ SubSeq(InMemory(rows, n), 1, m - 1) = InMemory(RowsBelow(rows, m), m - 1)
<1> DEFINE new == RowsBelow(rows, m)
           s == SubSeq(InMemory(rows, n), 1, m - 1)
           t == InMemory(new, m - 1)
<1>1. n \in Nat /\ DOMAIN rows = 1..n /\ m - 1 \in Nat
  BY DEF Numbered
<1>2. DOMAIN new = 1..(m - 1)
  BY <1>1 DEF RowsBelow
<1>3. \A k \in 1..(m - 1) : new[k] = rows[k]
  BY <1>1 DEF RowsBelow
<1>4. Numbered(new, m - 1)
  BY <1>1, <1>2, <1>3 DEF Numbered
<1>5. t \in Seq(DiskLogEntry) /\ Len(t) = m - 1
  BY <1>4, LengthInMemory
<1>6. \A k \in 1..(m - 1) : InMemory(rows, n)[k] \in DiskLogEntry
  BY <1>1 DEF InMemory, DiskLogEntry, Numbered
<1>7. s \in Seq(DiskLogEntry) /\ Len(s) = m - 1
      /\ \A k \in 1..(m - 1) : s[k] = InMemory(rows, n)[k]
  BY <1>1, <1>6, SubSeqProperties
<1>8. \A k \in 1..(m - 1) : s[k] = t[k]
  BY <1>1, <1>3, <1>7 DEF InMemory
<1> QED BY <1>4, <1>5, <1>7, <1>8, SeqEqual
-------------------------------------------------------------------------------
\* The invariant is stronger than both properties.
LEMMA CoreImplies == Core => TypeOK /\ MemoryMatchesDisk
<1> SUFFICES ASSUME Core PROVE TypeOK /\ MemoryMatchesDisk
  OBVIOUS
<1>1. PICK n \in Nat : /\ Numbered(diskLog, n)
                       /\ log = IF running THEN InMemory(diskLog, n) ELSE <<>>
  BY DEF Core, RowsOK
<1>2. log \in Seq(DiskLogEntry)
  BY <1>1, LengthInMemory
<1>3. TypeOK
  BY <1>1, <1>2, TypeOfRows DEF Core, FieldsOK, TypeOK
<1>4. ASSUME running
      PROVE  /\ DOMAIN diskLog = 1..Len(log)
             /\ \A k \in 1..Len(log) : log[k] = [index |-> k, entry |-> diskLog[k]]
  <2>1. log = InMemory(diskLog, n) /\ Len(log) = n
    BY <1>1, <1>4, LengthInMemory
  <2> QED BY <2>1, <1>1 DEF InMemory, Numbered
<1> QED BY <1>3, <1>4 DEF MemoryMatchesDisk, Core, FieldsOK

\* An empty file and an empty memory satisfy the invariant.
LEMMA CoreInit == Init => Core
<1> SUFFICES ASSUME Init PROVE Core
  OBVIOUS
<1>0. 0 \in 0..MaxTerm
  BY BoundsAreNaturals
<1>1. FieldsOK
  BY <1>0 DEF Init, FieldsOK
<1>2. DOMAIN diskLog = 1..0 /\ log = <<>>
  BY DEF Init
<1>3. Numbered(diskLog, 0)
  BY <1>2 DEF Numbered
<1>4. InMemory(diskLog, 0) = <<>>
  BY DEF InMemory
<1> QED BY <1>1, <1>2, <1>3, <1>4 DEF Core, RowsOK

\* A step that writes one of the two rows of RaftKeyValue, or none.
LEMMA RowsUnchanged ==
    ASSUME Core, UNCHANGED <<running, log, diskLog>>
    PROVE  RowsOK'
BY DEF Core, RowsOK, Numbered, InMemory

\* Every step keeps the invariant, one step of the proof per action.
LEMMA CoreStep ==
    ASSUME failures' = 0, Core, [Next]_vars
    PROVE  Core'
<1> USE BoundsAreNaturals
<1>0. ~ WriteFails
  BY DEF Core, FieldsOK, WriteFails
<1>1. ASSUME NEW term \in 1..MaxTerm, SeeNewerTerm(term) PROVE Core'
  <2>1. FieldsOK'
    BY <1>1 DEF Core, FieldsOK, SeeNewerTerm, Acquires, memory, disk
  <2> QED BY <1>1, <2>1, RowsUnchanged DEF Core, SeeNewerTerm, memory, disk
<1>2. ASSUME NEW term \in 1..MaxTerm, SetRaftCurrentTerm(term) PROVE Core'
  <2>1. FieldsOK'
    BY <1>0, <1>2 DEF Core, FieldsOK, SetRaftCurrentTerm, SetPersistentCurrentTerm, Acquires
  <2> QED BY <1>2, <2>1, RowsUnchanged DEF Core, SetRaftCurrentTerm, SetPersistentCurrentTerm
<1>3. CASE ResetVote
  <2>1. FieldsOK'
    BY <1>0, <1>3 DEF Core, FieldsOK, ResetVote, SetPersistentVotedFor, calls
  <2> QED BY <1>3, <2>1, RowsUnchanged DEF Core, ResetVote, SetPersistentVotedFor
<1>4. CASE IncrementElectionTerm
  <2>1. FieldsOK'
    BY <1>0, <1>4 DEF Core, FieldsOK, IncrementElectionTerm, SetPersistentVotedFor, Acquires, calls
  <2> QED BY <1>4, <2>1, RowsUnchanged DEF Core, IncrementElectionTerm, SetPersistentVotedFor
<1>5. CASE IncrementTerm
  <2>1. FieldsOK'
    BY <1>0, <1>5 DEF Core, FieldsOK, IncrementTerm, SetPersistentCurrentTerm
  <2> QED BY <1>5, <2>1, RowsUnchanged DEF Core, IncrementTerm, SetPersistentCurrentTerm
<1>6. CASE VoteForSelf
  <2>1. FieldsOK'
    BY <1>0, <1>6 DEF Core, FieldsOK, VoteForSelf, SetPersistentVotedFor, Acquires
  <2> QED BY <1>6, <2>1, RowsUnchanged DEF Core, VoteForSelf, SetPersistentVotedFor
<1>7. ASSUME NEW e \in Entry, AddEntry(e) PROVE Core'
  <2>1. FieldsOK'
    BY <1>0, <1>7 DEF Core, FieldsOK, AddEntry, AddPersistentLogEntry, Acquires
  <2>2. PICK n \in Nat : Numbered(diskLog, n) /\ log = InMemory(diskLog, n)
    BY <1>7 DEF Core, RowsOK, AddEntry, Acquires
  <2>3. Len(log) = n
    BY <2>2, LengthInMemory
  <2>4. diskLog' = WithRow(diskLog, n + 1, e)
    BY <1>0, <1>7, <2>2, <2>3, AddedRow DEF AddEntry, AddPersistentLogEntry
  <2>5. log' = InMemory(diskLog', n + 1) /\ Numbered(diskLog', n + 1)
    BY <1>7, <2>2, <2>3, <2>4, AddedRow DEF AddEntry, AddPersistentLogEntry
  <2>6. running'
    BY <1>7 DEF AddEntry, Acquires
  <2>7. RowsOK'
    BY <2>2, <2>5, <2>6 DEF RowsOK
  <2> QED BY <2>1, <2>7 DEF Core
<1>8. ASSUME NEW m \in 1..Len(log), NEW e \in Entry, DeleteConflicting(m, e) PROVE Core'
  <2>1. FieldsOK'
    BY <1>0, <1>8 DEF Core, FieldsOK, DeleteConflicting, DeletePersistentLogEntryInclusive, Acquires
  <2>2. PICK n \in Nat : Numbered(diskLog, n) /\ log = InMemory(diskLog, n)
    BY <1>8 DEF Core, RowsOK, DeleteConflicting, Acquires
  <2>3. m \in 1..n
    BY <2>2, LengthInMemory
  <2>4. diskLog' = RowsBelow(diskLog, m)
    BY <1>0, <1>8 DEF DeleteConflicting, DeletePersistentLogEntryInclusive
  <2>5. log' = InMemory(diskLog', m - 1) /\ Numbered(diskLog', m - 1)
    BY <1>8, <2>2, <2>3, <2>4, KeptRows DEF DeleteConflicting, DeletePersistentLogEntryInclusive
  <2>6. running' /\ m - 1 \in Nat
    BY <1>8, <2>3 DEF DeleteConflicting, Acquires
  <2>7. RowsOK'
    BY <2>5, <2>6 DEF RowsOK
  <2> QED BY <2>1, <2>7 DEF Core
<1>9. CASE Crash
  <2>0. 0 \in 0..MaxTerm
    OBVIOUS
  <2>1. FieldsOK'
    BY <1>9, <2>0 DEF Core, FieldsOK, Crash, disk
  <2>2. RowsOK'
    BY <1>9 DEF Core, RowsOK, Crash, disk, Numbered
  <2> QED BY <2>1, <2>2 DEF Core
<1>10. CASE LoadPersistentState
  <2>1. FieldsOK'
    BY <1>10 DEF Core, FieldsOK, LoadPersistentState, disk, calls
  <2>2. PICK n \in Nat : Numbered(diskLog, n)
    BY DEF Core, RowsOK
  <2>3. Loaded(diskLog) = InMemory(diskLog, n)
    BY <2>2, LoadedWithoutGaps DEF Numbered, InMemory
  <2>4. RowsOK'
    BY <1>10, <2>2, <2>3 DEF RowsOK, LoadPersistentState, disk
  <2> QED BY <2>1, <2>4 DEF Core
<1>11. CASE UNCHANGED vars
  <2>1. FieldsOK'
    BY <1>11 DEF Core, FieldsOK, vars, memory, disk, calls
  <2> QED BY <1>11, <2>1, RowsUnchanged DEF Core, vars, memory, disk
<1> QED BY <1>1, <1>2, <1>3, <1>4, <1>5, <1>6, <1>7, <1>8, <1>9, <1>10, <1>11 DEF Next
-------------------------------------------------------------------------------
(* A failed write is counted, and is never forgotten.                         *)
LEMMA FailuresStay ==
    ASSUME failures \in 0..MaxFailures, [Next]_vars
    PROVE  failures' \in 0..MaxFailures /\ failures' >= failures
<1> USE BoundsAreNaturals
<1>1. ASSUME NEW term, SetPersistentCurrentTerm(term) \/ SetPersistentVotedFor(term)
                       \/ AddPersistentLogEntry(term) \/ DeletePersistentLogEntryInclusive(term)
      PROVE  UNCHANGED failures \/ WriteFails
  BY <1>1 DEF SetPersistentCurrentTerm, SetPersistentVotedFor, AddPersistentLogEntry,
     DeletePersistentLogEntryInclusive
<1>2. ASSUME Next PROVE UNCHANGED failures \/ WriteFails
  BY <1>1, <1>2 DEF Next, SeeNewerTerm, SetRaftCurrentTerm, ResetVote, IncrementElectionTerm,
     IncrementTerm, VoteForSelf, AddEntry, DeleteConflicting, Crash, LoadPersistentState
<1> QED BY <1>2 DEF WriteFails, vars

\* What is inductive: up to the first failed write, the core.
IInv == failures \in 0..MaxFailures /\ (failures = 0 => Core)

(* The inductive invariant holds in every behaviour.                          *)
THEOREM InvAlways == Spec => []IInv
<1>1. Init => IInv
  BY CoreInit, BoundsAreNaturals DEF IInv, Init
<1>2. IInv /\ [Next]_vars => IInv'
  <2> SUFFICES ASSUME IInv, [Next]_vars PROVE IInv'
    OBVIOUS
  <2>1. failures' \in 0..MaxFailures /\ failures' >= failures
    BY FailuresStay DEF IInv
  <2>2. ASSUME failures' = 0 PROVE Core'
    BY <2>1, <2>2, CoreStep, BoundsAreNaturals DEF IInv
  <2> QED BY <2>1, <2>2 DEF IInv
<1> QED BY <1>1, <1>2, PTL DEF Spec

(* The variables keep their types, if no write fails: in particular the log   *)
(* that LoadPersistentLog builds after a crash is a sequence of entries.      *)
THEOREM TypeCorrect ==
    ASSUME MaxFailures = 0
    PROVE  Spec => []TypeOK
<1>1. IInv => TypeOK
  BY CoreImplies DEF IInv
<1> QED BY InvAlways, <1>1, PTL

(* While the server runs and no write has failed, its memory is what          *)
(* LoadPersistentStateIntoMemory would make of the file.                      *)
THEOREM MemoryIsOnDisk == Spec => []MemoryMatchesDisk
<1>1. IInv => MemoryMatchesDisk
  BY CoreImplies DEF IInv, MemoryMatchesDisk
<1> QED BY InvAlways, <1>1, PTL

-------------------------------------------------------------------------------
(* The refinement.  Under the invariant the abstract fields are what is in the*)
(* file, whether the server runs or not.                                      *)
Rows == [k \in DOMAIN diskLog |-> diskLog[k]]

\* Without its indexes the log is the function that the rows are.
LEMMA EntriesInMemory ==
    ASSUME NEW rows, NEW n, Numbered(rows, n)
    PROVE  Entries(InMemory(rows, n)) = [k \in 1..n |-> rows[k]]
<1>1. Len(InMemory(rows, n)) = n
  BY LengthInMemory
<1> QED BY <1>1 DEF Entries, InMemory

OnDisk ==
    /\ Kept(currentTerm, diskTerm) = diskTerm
    /\ Kept(votedFor, diskVote) = diskVote
    /\ Entries(Kept(log, Loaded(diskLog))) = Rows
    /\ Rows \in Seq(Entry)

\* The state of StableStorage that the mapping yields is the file.
LEMMA AbstractIsDisk == Core => OnDisk
<1> SUFFICES ASSUME Core PROVE OnDisk
  OBVIOUS
<1>1. PICK n \in Nat : /\ Numbered(diskLog, n)
                       /\ log = IF running THEN InMemory(diskLog, n) ELSE <<>>
  BY DEF Core, RowsOK
<1>2. Loaded(diskLog) = InMemory(diskLog, n)
  BY <1>1, LoadedWithoutGaps DEF Numbered, InMemory
<1>3. Kept(log, Loaded(diskLog)) = InMemory(diskLog, n)
  BY <1>1, <1>2 DEF Kept
<1>4. Rows = [k \in 1..n |-> diskLog[k]]
  BY <1>1 DEF Rows, Numbered
<1>5. Rows \in Seq(Entry)
  BY <1>1, <1>4 DEF Numbered
<1>6. Entries(Kept(log, Loaded(diskLog))) = Rows
  BY <1>1, <1>3, <1>4, EntriesInMemory
<1>7. Kept(currentTerm, diskTerm) = diskTerm /\ Kept(votedFor, diskVote) = diskVote
  BY DEF Core, FieldsOK, Kept
<1> QED BY <1>5, <1>6, <1>7 DEF OnDisk

\* The same for the next state.
LEMMA AbstractIsDiskNext == Core' => OnDisk'
BY AbstractIsDisk, PTL

\* Initial states map to initial states.
LEMMA RefinesInit == Init => Stable!Init
<1> SUFFICES ASSUME Init PROVE Stable!Init
  OBVIOUS
<1>1. Core
  BY CoreInit
<1>2. Rows = <<>>
  BY DEF Init, Rows
<1> QED BY <1>1, <1>2, AbstractIsDisk DEF Init, OnDisk, Stable!Init

\* A step that leaves the file alone is a stutter, or a crash or a restart.
LEMMA RefinesStutter ==
    ASSUME failures' = 0, Core, Core', UNCHANGED <<running, disk>>
    PROVE  UNCHANGED Stable!vars
<1>1. Rows' = Rows
  BY DEF disk, Rows
<1> QED BY <1>1, AbstractIsDisk, AbstractIsDiskNext
    DEF disk, OnDisk, Stable!vars, Core, FieldsOK

\* The latter two: the memory is lost or loaded, the fields stay.
LEMMA RefinesCrashOrRestart ==
    ASSUME Core, Core', running' = ~ running, UNCHANGED disk
    PROVE  Stable!CrashOrRestart
<1>1. Rows' = Rows
  BY DEF disk, Rows
<1> QED BY <1>1, AbstractIsDisk, AbstractIsDiskNext DEF disk, OnDisk, Stable!CrashOrRestart

\* Steps that write the term, or the vote.
LEMMA RefinesSetTerm ==
    ASSUME Core, Core', UNCHANGED <<diskVote, diskLog>>
    PROVE  Stable!SetTerm
<1>1. Rows' = Rows /\ diskTerm' \in Nat
  BY BoundsAreNaturals DEF Rows, Core, FieldsOK
<1> QED BY <1>1, AbstractIsDisk, AbstractIsDiskNext DEF OnDisk, Stable!SetTerm

\* The same for the vote.
LEMMA RefinesSetVote ==
    ASSUME Core, Core', UNCHANGED <<diskTerm, diskLog>>
    PROVE  Stable!SetVote
<1>1. Rows' = Rows /\ diskVote' \in {LocalNode} \cup {Nil}
  BY DEF Rows, Core, FieldsOK
<1> QED BY <1>1, AbstractIsDisk, AbstractIsDiskNext DEF OnDisk, Stable!SetVote

\* An added row is StableStorage's AddEntry.
LEMMA RefinesAddEntry ==
    ASSUME failures' = 0, Core, Core', NEW e \in Entry, AddEntry(e)
    PROVE  Stable!AddEntry
<1>1. PICK n \in Nat : Numbered(diskLog, n) /\ log = InMemory(diskLog, n)
  BY DEF Core, RowsOK, AddEntry, Acquires
<1>2. ~ WriteFails /\ Len(log) = n
  BY <1>1, LengthInMemory DEF Core, FieldsOK, WriteFails
<1>3. diskLog' = WithRow(diskLog, n + 1, e) /\ UNCHANGED <<diskTerm, diskVote>>
  BY <1>1, <1>2, AddedRow DEF AddEntry, AddPersistentLogEntry
<1>4. DOMAIN diskLog' = 1..(n + 1) /\ DOMAIN diskLog = 1..n
      /\ diskLog'[n + 1] = e /\ \A k \in 1..n : diskLog'[k] = diskLog[k]
  BY <1>1, <1>3 DEF WithRow, Numbered
<1>5. Rows \in Seq(Entry) /\ Rows' \in Seq(Entry) /\ Len(Rows) = n /\ Len(Rows') = n + 1
  BY <1>4, AbstractIsDisk, AbstractIsDiskNext DEF OnDisk, Rows
<1>6. Rows' = Append(Rows, e)
  <2>1. /\ Append(Rows, e) \in Seq(Entry)
        /\ Len(Append(Rows, e)) = n + 1
        /\ Append(Rows, e)[n + 1] = e
        /\ \A k \in 1..n : Append(Rows, e)[k] = Rows[k]
    BY <1>5, AppendProperties
  <2>2. \A k \in 1..n : Rows'[k] = Rows[k]
    BY <1>4 DEF Rows
  <2>3. Rows'[n + 1] = e
    BY <1>4 DEF Rows
  <2>4. \A k \in 1..(n + 1) : k \in 1..n \/ k = n + 1
    OBVIOUS
  <2>5. \A k \in 1..(n + 1) : Rows'[k] = Append(Rows, e)[k]
    BY <2>1, <2>2, <2>3, <2>4
  <2> QED BY <1>5, <2>1, <2>5, SeqEqual
<1> QED BY <1>3, <1>6, AbstractIsDisk, AbstractIsDiskNext DEF OnDisk, Stable!AddEntry

\* Deleted rows are its DropFrom.
LEMMA RefinesDropFrom ==
    ASSUME failures' = 0, Core, Core', NEW m \in 1..Len(log), NEW e \in Entry,
           DeleteConflicting(m, e)
    PROVE  Stable!Set
<1>1. PICK n \in Nat : Numbered(diskLog, n) /\ log = InMemory(diskLog, n)
  BY DEF Core, RowsOK, DeleteConflicting, Acquires
<1>2. ~ WriteFails /\ m \in 1..n
  BY <1>1, LengthInMemory DEF Core, FieldsOK, WriteFails
<1>3. diskLog' = RowsBelow(diskLog, m) /\ UNCHANGED <<diskTerm, diskVote>>
  BY <1>2 DEF DeleteConflicting, DeletePersistentLogEntryInclusive
<1>4. DOMAIN diskLog' = 1..(m - 1) /\ DOMAIN diskLog = 1..n
      /\ \A k \in 1..(m - 1) : diskLog'[k] = diskLog[k]
  BY <1>1, <1>2, <1>3 DEF RowsBelow, Numbered
<1>5. Rows \in Seq(Entry) /\ Rows' \in Seq(Entry) /\ Len(Rows) = n /\ Len(Rows') = m - 1
  BY <1>2, <1>4, AbstractIsDisk, AbstractIsDiskNext DEF OnDisk, Rows
<1>6. Rows' = SubSeq(Rows, 1, m - 1)
  <2>1. \A k \in 1..(m - 1) : Rows[k] \in Entry
    BY <1>2, <1>5
  <2>2. /\ SubSeq(Rows, 1, m - 1) \in Seq(Entry)
        /\ Len(SubSeq(Rows, 1, m - 1)) = m - 1
        /\ \A k \in 1..(m - 1) : SubSeq(Rows, 1, m - 1)[k] = Rows[k]
    BY <1>2, <2>1, SubSeqProperties
  <2>3. \A k \in 1..(m - 1) : Rows'[k] = Rows[k]
    BY <1>2, <1>4 DEF Rows
  <2> QED BY <1>5, <2>2, <2>3, SeqEqual
<1>7. Stable!DropFrom(m)
  BY <1>3, <1>6, AbstractIsDisk, AbstractIsDiskNext DEF OnDisk, Stable!DropFrom
<1>8. m \in 1..Len(Entries(Kept(log, Loaded(diskLog))))
  BY <1>2, <1>5, AbstractIsDisk DEF OnDisk
<1> QED BY <1>7, <1>8 DEF Stable!Set

\* Every step maps to a step of StableStorage or to a stutter.
LEMMA RefinesStep ==
    ASSUME failures' = 0, Core, Core', [Next]_vars
    PROVE  [Stable!Next]_(Stable!vars)
<1>0. ~ WriteFails
  BY DEF Core, FieldsOK, WriteFails
<1> DEFINE SetsField == running /\ UNCHANGED running /\ Stable!Set
<1>a. SetsField \/ Stable!CrashOrRestart => Stable!Next
  BY DEF Core, FieldsOK, Stable!Next
<1>1. ASSUME NEW term \in 1..MaxTerm, SeeNewerTerm(term)
      PROVE  UNCHANGED <<running, disk>>
  BY <1>1 DEF SeeNewerTerm
<1>2. ASSUME NEW term \in 1..MaxTerm, SetRaftCurrentTerm(term)
      PROVE  SetsField
  <2>1. UNCHANGED <<diskVote, diskLog>>
    BY <1>2 DEF SetRaftCurrentTerm, SetPersistentCurrentTerm
  <2> QED BY <1>2, <2>1, RefinesSetTerm DEF SetRaftCurrentTerm, Acquires, Stable!Set
<1>3. ASSUME ResetVote PROVE SetsField
  <2>1. running /\ UNCHANGED running
    BY <1>3 DEF ResetVote, Core, FieldsOK
  <2> QED BY <1>3, <2>1, RefinesSetVote DEF ResetVote, SetPersistentVotedFor, Stable!Set
<1>4. ASSUME IncrementElectionTerm PROVE SetsField
  BY <1>4, RefinesSetVote DEF IncrementElectionTerm, Acquires, SetPersistentVotedFor, Stable!Set
<1>5. ASSUME IncrementTerm PROVE SetsField
  <2>1. running /\ UNCHANGED running
    BY <1>5 DEF IncrementTerm, Core, FieldsOK
  <2> QED BY <1>5, <2>1, RefinesSetTerm DEF IncrementTerm, SetPersistentCurrentTerm, Stable!Set
<1>6. ASSUME VoteForSelf PROVE SetsField
  BY <1>6, RefinesSetVote DEF VoteForSelf, Acquires, SetPersistentVotedFor, Stable!Set
<1>7. ASSUME NEW e \in Entry, AddEntry(e) PROVE SetsField
  BY <1>7, RefinesAddEntry DEF AddEntry, Acquires, Stable!Set
<1>8. ASSUME NEW m \in 1..Len(log), NEW e \in Entry, DeleteConflicting(m, e)
      PROVE  SetsField
  BY <1>8, RefinesDropFrom DEF DeleteConflicting, Acquires
<1>9. ASSUME Crash \/ LoadPersistentState PROVE Stable!CrashOrRestart
  BY <1>9, RefinesCrashOrRestart DEF Crash, LoadPersistentState
<1>10. ASSUME UNCHANGED vars \/ \E term \in 1..MaxTerm : SeeNewerTerm(term)
       PROVE  UNCHANGED Stable!vars
  <2>1. UNCHANGED <<running, disk>>
    BY <1>1, <1>10 DEF vars
  <2> QED BY <2>1, RefinesStutter
<1> HIDE DEF SetsField
<1> QED BY <1>a, <1>2, <1>3, <1>4, <1>5, <1>6, <1>7, <1>8, <1>9, <1>10 DEF Next

(* Until a write fails the server has stable storage: every setter is one     *)
(* atomic step on one of the fields, and crash and restart, wherever they     *)
(* fall, change none.                                                         *)
THEOREM ImplementsStableStorage == Spec => SurvivesCrashes
<1>1. Init => Stable!Init
  BY RefinesInit
<1>2. IInv /\ IInv' /\ [Next]_vars => [Stable!Next]_(Stable!vars)
  <2> SUFFICES ASSUME IInv, IInv', [Next]_vars PROVE [Stable!Next]_(Stable!vars)
    OBVIOUS
  <2>1. CASE failures' = 0
    <3>1. failures = 0
      BY <2>1, FailuresStay DEF IInv
    <3> QED BY <2>1, <3>1, RefinesStep DEF IInv
  <2>2. CASE failures' # 0
    BY <2>2 DEF Stable!Next
  <2> QED BY <2>1, <2>2
<1> QED BY InvAlways, <1>1, <1>2, PTL DEF Spec, SurvivesCrashes, Stable!Spec
===============================================================================
