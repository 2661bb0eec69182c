------------------------------- MODULE RaftBase -------------------------------
(* Definitions shared by the models of the raft package: the cluster, the     *)
(* server states, the quorum and the comparison of two logs.                  *)
EXTENDS Naturals, FiniteSets

CONSTANTS Server,   \* the nodes of the cluster (localNode and otherNodes of each)
          Nil       \* the empty string: nobody voted for, no known leader

ASSUME ServerAssumption == IsFiniteSet(Server) /\ Server # {}
ASSUME NilAssumption == Nil \notin Server

\* The values of ServerState.
Follower  == "Follower"
Candidate == "Candidate"
Leader    == "Leader"
ServerState == {Follower, Candidate, Leader}

\* The clients in otherNodes.
Others(i) == Server \ {i}

\* Number of votes, or of copies of an entry, that make a majority.
QuorumSize == (Cardinality(Server) \div 2) + 1

\* What a RequestVote request, or a voter, says of a log: the index and the
\* term of its last entry, both 0 when the log is empty.
LogEnd == [index : Nat, term : Nat]

\* The voter's comparison: a log that ends in `cand' is at least as up to date
\* as one that ends in `mine'.
AtLeastAsUpToDate(cand, mine) ==
    \/ mine.term < cand.term
    \/ /\ mine.term = cand.term
       /\ mine.index <= cand.index
===============================================================================
