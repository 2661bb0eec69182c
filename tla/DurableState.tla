----------------------------- MODULE DurableState -----------------------------
(* The persistent state of one server: currentTerm, votedFor and the log, kept*)
(* in memory and in a SQLite file.  Every setter writes the file first, in a  *)
(* transaction of its own, then the memory, with the server's lock held; an   *)
(* error of the write is logged and the memory changes all the same.  After a *)
(* crash the memory is loaded from the file.                                  *)
EXTENDS Naturals, Sequences, FiniteSets

CONSTANTS LocalNode,   \* the server's own id, the only vote it ever stores
          Entry,       \* log entries
          Nil,         \* the empty string; also: no entry
          MaxTerm,     \* bound on the terms
          MaxLog,      \* bound on the length of the log
          MaxFailures  \* bound on the write errors of a behaviour

ASSUME NilIsNoValue == Nil # LocalNode /\ Nil \notin Entry
ASSUME BoundsAreNaturals == MaxTerm \in Nat /\ MaxLog \in Nat /\ MaxFailures \in Nat

VARIABLES
    running,                        \* FALSE from a crash to the restart
    currentTerm, votedFor, log,     \* the memory; log entries carry their LogIndex
    diskTerm, diskVote,             \* the rows of RaftKeyValue
    diskLog,                        \* the rows of RaftLog, by their key
    lock,     \* "free", or the second transaction the lock's holder has to do
    raising,  \* terms some goroutine has yet to write, having seen an older one
    campaign, \* between IncrementElectionTerm and VoteForSelf
    conflict, \* the entry to be added once the conflicting ones are deleted
    ownVotes, \* the terms in which the server voted for itself
    failures

memory == <<currentTerm, votedFor, log>>
disk   == <<diskTerm, diskVote, diskLog>>
calls  == <<raising, campaign, conflict>>
vars == <<running, memory, disk, lock, calls, ownVotes, failures>>

DiskLogEntry == [index : Nat, entry : Entry]

Init ==
    /\ running = TRUE
    /\ currentTerm = 0 /\ diskTerm = 0
    /\ votedFor = Nil /\ diskVote = Nil
    /\ log = <<>> /\ diskLog = <<>>
    /\ lock = "free"
    /\ raising = {}
    /\ campaign = FALSE
    /\ conflict = Nil
    /\ ownVotes = {}
    /\ failures = 0
-------------------------------------------------------------------------------
(* The setters, each one transaction.                                         *)
WriteFails ==
    /\ failures < MaxFailures
    /\ failures' = failures + 1

SetPersistentCurrentTerm(term) ==
    /\ currentTerm' = term
    /\ \/ diskTerm' = term /\ UNCHANGED failures
       \/ UNCHANGED diskTerm /\ WriteFails
    /\ UNCHANGED <<votedFor, log, diskVote, diskLog>>

SetPersistentVotedFor(node) ==
    /\ votedFor' = node
    /\ \/ diskVote' = node /\ UNCHANGED failures
       \/ UNCHANGED diskVote /\ WriteFails
    /\ UNCHANGED <<currentTerm, log, diskTerm, diskLog>>

WithRow_ZeroBased(rows, n, e) ==
    [k \in DOMAIN rows \cup {n - 1} |-> IF k = n - 1 THEN e ELSE rows[k]]
WithRow(rows, n, e) == [k \in DOMAIN rows \cup {n} |-> IF k = n THEN e ELSE rows[k]]
RowsBelow_OneMore(rows, n) == [k \in {m \in DOMAIN rows : m <= n} |-> rows[k]]
RowsBelow(rows, n) == [k \in {m \in DOMAIN rows : m < n} |-> rows[k]]

(* The index comes from the memory; a row that has it already is an error of  *)
(* the INSERT.                                                                *)
AddPersistentLogEntry(e) ==
    LET n == Len(log) + 1 IN
    /\ log' = Append(log, [index |-> n, entry |-> e])
    /\ \/ n \notin DOMAIN diskLog /\ diskLog' = WithRow(diskLog, n, e) /\ UNCHANGED failures
       \/ n \in DOMAIN diskLog /\ UNCHANGED <<diskLog, failures>>
       \/ UNCHANGED diskLog /\ WriteFails
    /\ UNCHANGED <<currentTerm, votedFor, diskTerm, diskVote>>

DeletePersistentLogEntryInclusive(n) ==
    /\ log' = SubSeq(log, 1, n - 1)
    /\ \/ diskLog' = RowsBelow(diskLog, n) /\ UNCHANGED failures
       \/ UNCHANGED diskLog /\ WriteFails
    /\ UNCHANGED <<currentTerm, votedFor, diskTerm, diskVote>>
-------------------------------------------------------------------------------
(* What the goroutines of the server call.                                    *)
Acquires == running /\ lock = "free"

(* A message has a newer term: SetRaftCurrentTerm is called, and looks at the *)
(* term before it takes the lock to write.                                    *)
SeeNewerTerm(term) ==
    /\ Acquires
    /\ term > currentTerm
    /\ raising' = raising \cup {term}
    /\ UNCHANGED <<running, memory, disk, lock, campaign, conflict, ownVotes, failures>>

(* The locked part of SetRaftCurrentTerm, for one of the goroutines that have *)
(* seen the term: the term in one transaction, no vote in another.            *)
SetRaftCurrentTerm(term) ==
    /\ Acquires
    /\ term \in raising
    /\ raising' \in {raising, raising \ {term}}
    /\ SetPersistentCurrentTerm(term)
    /\ lock' = "resetVote"
    /\ UNCHANGED <<running, campaign, conflict, ownVotes>>

ResetVote ==
    /\ lock = "resetVote"
    /\ SetPersistentVotedFor(Nil)
    /\ lock' = "free"
    /\ UNCHANGED <<running, calls, ownVotes>>

\* IncrementElectionTerm does it the other way round.
IncrementElectionTerm ==
    /\ Acquires
    /\ ~ campaign
    /\ currentTerm < MaxTerm
    /\ SetPersistentVotedFor(Nil)
    /\ lock' = "increment"
    /\ UNCHANGED <<running, calls, ownVotes>>

IncrementTerm ==
    /\ lock = "increment"
    /\ SetPersistentCurrentTerm(currentTerm + 1)
    /\ lock' = "free"
    /\ campaign' = TRUE
    /\ UNCHANGED <<running, raising, conflict, ownVotes>>

VoteForSelf ==
    /\ Acquires
    /\ campaign
    /\ SetPersistentVotedFor(LocalNode)
    /\ campaign' = FALSE
    /\ ownVotes' = ownVotes \cup {currentTerm}
    /\ UNCHANGED <<running, lock, raising, conflict>>

(* appendCommandToLocalLog, and handleAppendEntriesRpc: with no conflict the  *)
(* entry is added, with one the log is cut at n first.                        *)
AddEntry(e) ==
    /\ Acquires
    /\ conflict \in {Nil, e}
    /\ Len(log) < MaxLog
    /\ AddPersistentLogEntry(e)
    /\ conflict' = Nil
    /\ UNCHANGED <<running, lock, raising, campaign, ownVotes>>

DeleteConflicting(n, e) ==
    /\ Acquires
    /\ conflict = Nil
    /\ DeletePersistentLogEntryInclusive(n)
    /\ conflict' = e
    /\ UNCHANGED <<running, lock, raising, campaign, ownVotes>>

(* The process ends, be it between two transactions under one lock.           *)
Crash ==
    /\ running
    /\ running' = FALSE
    /\ currentTerm' = 0
    /\ votedFor' = Nil
    /\ log' = <<>>
    /\ lock' = "free"
    /\ raising' = {}
    /\ campaign' = FALSE
    /\ conflict' = Nil
    /\ UNCHANGED <<disk, ownVotes, failures>>

\* The k-th of a set of natural numbers.
Nth(S, k) == CHOOSE n \in S : Cardinality({m \in S : m <= n}) = k

\* LoadPersistentLog: the rows ordered by their key, whatever the keys are.
Loaded(rows) ==
    [k \in 1..Cardinality(DOMAIN rows) |->
        LET n == Nth(DOMAIN rows, k) IN [index |-> n, entry |-> rows[n]]]

LoadPersistentState_NoVote ==
    /\ ~ running
    /\ running' = TRUE
    /\ currentTerm' = diskTerm
    /\ log' = Loaded(diskLog)
    /\ UNCHANGED <<votedFor, disk, lock, calls, ownVotes, failures>>
LoadPersistentState ==
    /\ ~ running
    /\ running' = TRUE
    /\ currentTerm' = diskTerm
    /\ votedFor' = diskVote
    /\ log' = Loaded(diskLog)
    /\ UNCHANGED <<disk, lock, calls, ownVotes, failures>>

Next ==
    \/ \E term \in 1..MaxTerm : SeeNewerTerm(term) \/ SetRaftCurrentTerm(term)
    \/ ResetVote
    \/ IncrementElectionTerm \/ IncrementTerm
    \/ VoteForSelf
    \/ \E e \in Entry : AddEntry(e)
    \/ \E n \in 1..Len(log) : \E e \in Entry : DeleteConflicting(n, e)
    \/ Crash \/ LoadPersistentState

Spec == Init /\ [][Next]_vars
-------------------------------------------------------------------------------
(* Types and ranges of the variables.                                         *)
TypeOK ==
    /\ running \in BOOLEAN
    /\ currentTerm \in 0..MaxTerm /\ diskTerm \in 0..MaxTerm
    /\ votedFor \in {LocalNode, Nil} /\ diskVote \in {LocalNode, Nil}
    /\ log \in Seq(DiskLogEntry)
    /\ DOMAIN diskLog \in SUBSET (Nat \ {0}) /\ IsFiniteSet(DOMAIN diskLog)
    /\ \A n \in DOMAIN diskLog : diskLog[n] \in Entry
    /\ lock \in {"free", "resetVote", "increment"}
    /\ raising \subseteq 1..MaxTerm
    /\ campaign \in BOOLEAN
    /\ conflict \in Entry \cup {Nil}
    /\ ownVotes \subseteq 0..MaxTerm
    /\ failures \in Nat

(* While the server runs, its memory is what a restart would load: the index  *)
(* of an added entry is computed from the memory and the rows are deleted by  *)
(* key, so one lost or surplus row shifts all that follow.  True until a write*)
(* fails.                                                                     *)
MemoryMatchesDisk ==
    running /\ failures = 0 =>
        /\ currentTerm = diskTerm
        /\ votedFor = diskVote
        /\ DOMAIN diskLog = 1..Len(log)
        /\ \A n \in 1..Len(log) : log[n] = [index |-> n, entry |-> diskLog[n]]

(* Until a write fails the server has stable storage: a crash and a restart,  *)
(* at any point, leave the three fields as they were.                         *)
Kept(memoryValue, diskValue) == IF running THEN memoryValue ELSE diskValue
Entries(s) == [n \in 1..Len(s) |-> s[n].entry]
Stable == INSTANCE StableStorage WITH
    Voter <- {LocalNode},
    currentTerm <- Kept(currentTerm, diskTerm),
    votedFor <- Kept(votedFor, diskVote),
    log <- Entries(Kept(log, Loaded(diskLog))),
    reliable <- failures = 0
SurvivesCrashes == Stable!Spec

(* "Since it's a new term reset who voted for": a vote the server finds it has*)
(* given was given in its current term.                                       *)
VoteBelongsToTerm ==
    running /\ lock = "free" /\ votedFor # Nil => currentTerm \in ownVotes

(* "Mismatch between stored log index value and # of entries": the last entry *)
(* in memory has the number of entries as its index.                          *)
LastIndexIsLength == log # <<>> => log[Len(log)].index = Len(log)
===============================================================================
