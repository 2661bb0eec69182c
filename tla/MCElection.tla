------------------------------ MODULE MCElection ------------------------------
EXTENDS Election, TLC
MCLogs == {[index |-> 2, term |-> 1], [index |-> 1, term |-> 2]}
OneLog == {[index |-> 0, term |-> 0]}
Symmetry == Permutations(Server)
VoterSymmetry == Permutations(Server \ Impatient)

\* One server that stands for no election has already seen the last term.
OneAhead ==
    /\ votedFor = [i \in Server |-> Nil]
    /\ \E i \in Server \ Impatient :
          \A j \in Server : (currentTerm[j] = MaxTerm) <=> (j = i)
AheadSpec == Init /\ OneAhead /\ [][Next]_vars
===============================================================================
