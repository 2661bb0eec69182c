----------------------------- MODULE MCReplication -----------------------------
EXTENDS Replication, TLC
EmptyLogs == {<<>>}
E(t, c) == [term |-> t, data |-> c]
CONSTANTS a, b, c
OneTail == {<<>>, <<E(1, a)>>}
TwoTails == {<<E(1, a)>>, <<E(2, b)>>}
OverwrittenTail == {<<E(1, a), E(1, b)>>, <<E(2, c)>>}
Symmetry == Permutations(Server)
AllSymmetry == Symmetry \cup Permutations(Command)
CommandSymmetry == Permutations(Command)
===============================================================================
