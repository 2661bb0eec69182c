---------------------------- MODULE StableStorage ----------------------------
(* What the raft package expects of persistentState: three fields that a      *)
(* running server changes one at a time, and that no crash and no restart     *)
(* changes.  The promise ends with the first write that fails.                *)
EXTENDS Naturals, Sequences

CONSTANTS Voter,  \* what votedFor may hold besides the empty string
          Entry,  \* log entries
          Nil     \* the empty string

VARIABLES running, currentTerm, votedFor, log,
          reliable  \* no write has failed

vars == <<running, currentTerm, votedFor, log, reliable>>

Init ==
    /\ running = TRUE
    /\ currentTerm = 0
    /\ votedFor = Nil
    /\ log = <<>>
    /\ reliable = TRUE

SetTerm ==
    /\ currentTerm' \in Nat
    /\ UNCHANGED <<votedFor, log>>

SetVote ==
    /\ votedFor' \in Voter \cup {Nil}
    /\ UNCHANGED <<currentTerm, log>>

AddEntry ==
    /\ \E e \in Entry : log' = Append(log, e)
    /\ UNCHANGED <<currentTerm, votedFor>>

DropFrom(n) ==
    /\ log' = SubSeq(log, 1, n - 1)
    /\ UNCHANGED <<currentTerm, votedFor>>

Set == SetTerm \/ SetVote \/ AddEntry \/ \E n \in 1..Len(log) : DropFrom(n)

CrashOrRestart ==
    /\ running' = ~ running
    /\ UNCHANGED <<currentTerm, votedFor, log>>

Next ==
    reliable' =>
        /\ reliable
        /\ \/ running /\ Set /\ UNCHANGED running
           \/ CrashOrRestart

Spec == Init /\ [][Next]_vars
===============================================================================
