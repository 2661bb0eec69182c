------------------------------ MODULE Statements ------------------------------
(* What the client makes of a text of SQL: Format splits it at semicolons     *)
(* with a regular expression, Sanitize refuses statements that would not do   *)
(* the same on every server, CommandIsRO tells queries from commands.         *)
(*                                                                            *)
(* A text is a sequence of quotes, semicolons and words; what is between two  *)
(* of those characters is a word, of which only its kind matters.             *)
EXTENDS Naturals, Sequences, FiniteSets

CONSTANTS Word,       \* anything without a quote or a semicolon
          SelectWord, \* those that begin with SELECT
          DotWord,    \* those that begin with a dot
          UnsafeWord, \* with RANDOM(), the time of day, or a transaction
          Quote, Semi

ASSUME KindAssumption == SelectWord \cup DotWord \cup UnsafeWord \subseteq Word
ASSUME TokenAssumption == Quote \notin Word /\ Semi \notin Word /\ Quote # Semi

Token == Word \cup {Quote, Semi}
-------------------------------------------------------------------------------
\* (?:^|;)([^';]*(?:'[^']*'[^';]*)*)(?=;|$)
(* A match begins at the start of the text or with a semicolon, and goes on to*)
(* the first semicolon, or the end, that is not within quotes.                *)
Smallest(S) == CHOOSE n \in S : \A m \in S : n <= m

Quotes(text, m, n) == Cardinality({k \in m..n : text[k] = Quote})
Outside(text, m, n) == Quotes(text, m, n) % 2 = 0

Body(p) == IF p = 1 THEN 1 ELSE p + 1

Ends_IgnoringQuotes(text, p) ==
    {e \in Body(p)..(Len(text) + 1) : e \in DOMAIN text => text[e] = Semi}
Ends(text, p) ==
    {e \in Body(p)..(Len(text) + 1) :
        /\ e \in DOMAIN text => text[e] = Semi
        /\ Outside(text, Body(p), e - 1)}

IsMatch(text, p) ==
    /\ p = 1 \/ (p \in DOMAIN text /\ text[p] = Semi)
    /\ Ends(text, p) # {}

(* FindStringMatch and FindNextMatch: the search goes on where the match      *)
(* ended, one further if it was empty.  A match contains its semicolon.       *)
Matches(text) ==
    LET from[p \in 1..(Len(text) + 2)] ==
          IF p > Len(text) + 1 THEN <<>>
          ELSE IF ~ IsMatch(text, p) THEN from[p + 1]
          ELSE LET e == Smallest(Ends(text, p))
               IN <<SubSeq(text, p, e - 1)>> \o from[IF e = p THEN p + 1 ELSE e]
    IN from[1]

Refused(command) ==
    \/ Len(command) > 0 /\ command[1] \in DotWord
    \/ \E n \in DOMAIN command : command[n] \in UnsafeWord

\* One refused statement and there are none.
Format_SkipsRefused(text, sanitize) ==
    SelectSeq(Matches(text), LAMBDA command : ~ (sanitize /\ Refused(command)))
Format(text, sanitize) ==
    LET commands == Matches(text)
    IN IF sanitize /\ \E n \in DOMAIN commands : Refused(commands[n])
       THEN <<>> ELSE commands

CommandIsRO_Anywhere(command) == \E n \in DOMAIN command : command[n] \in SelectWord
CommandIsRO(command) == Len(command) > 0 /\ command[1] \in SelectWord
-------------------------------------------------------------------------------
(* What a text means to SQL.                                                  *)
Balanced(text) == Outside(text, 1, Len(text))

\* The semicolons that end a statement.
Cuts(text) == {k \in DOMAIN text : text[k] = Semi /\ Outside(text, 1, k - 1)}

Joined(commands) ==
    LET upTo[n \in 0..Len(commands)] ==
          IF n = 0 THEN <<>> ELSE upTo[n - 1] \o commands[n]
    IN upTo[Len(commands)]

(* "Split commands using regex to handle queries with ; in them": nothing is  *)
(* lost, no string is cut in two, and the only semicolon of a command that    *)
(* ends a statement is the one before it, which ends the statement before.    *)
IsSplitOf(commands, text) ==
    /\ Joined(commands) = text
    /\ \A n \in DOMAIN commands :
          /\ Balanced(commands[n])
          /\ Cuts(commands[n]) = IF n = 1 THEN {} ELSE {1}
===============================================================================
