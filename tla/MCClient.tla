------------------------------- MODULE MCClient -------------------------------
EXTENDS Client
CONSTANTS n1, n2, select, update, random, dot, quit


ExitLine == <<quit>>

\* Complete lines, a fragment, a line of two statements, refused lines.
TypedLines == {<<>>, <<update>>, <<update, Semi>>,
               <<select, Quote, Semi, Quote, Semi, update, Semi>>,
               <<update, Semi, random, Semi>>, <<dot, Semi>>}

Flags(Attempts, Retry, Interactive, Address, Files) ==
    [attempts : Attempts, retry : Retry, interactive : Interactive,
     server : Address, file : Files]

\* All texts of at most n tokens.
Texts(n) == UNION {[1..k -> {Quote, Semi, select, update}] : k \in 0..n}

Batches == {<<update, Semi, update, Semi, select>>, <<update, Quote>>, <<random>>}

AllOptions ==
    Flags({1}, {FALSE}, {FALSE}, {n1}, Texts(5))
    \cup Flags({2}, {FALSE}, {TRUE}, {n1}, {NoFile} \cup Batches)
    \cup Flags({1, 2}, {TRUE}, {FALSE}, {n1}, Batches)
    \cup Flags({0}, BOOLEAN, {TRUE}, {n1, Nil}, {NoFile} \cup Batches)
===============================================================================
