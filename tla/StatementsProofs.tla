--------------------------- MODULE StatementsProofs ---------------------------
(* Format splits every text at its statements, and loses nothing of it.       *)
EXTENDS Statements, SequenceTheorems, FiniteSetTheorems, WellFoundedInduction, TLAPS

-------------------------------------------------------------------------------
(* Induction on sets of numbers: the predicate is membership in a set.        *)

\* A set of numbers that is not empty has a least element.
LEMMA LeastExists ==
    ASSUME NEW T, T \subseteq Nat, T # {}
    PROVE  \E n \in T : \A m \in T : n <= m
<1> DEFINE R == OpToRel(<, Nat)
<1>1. IsWellFoundedOn(R, Nat)
  BY NatLessThanWellFounded
<1>2. \A m, n \in Nat : <<m, n>> \in R <=> m < n
  BY DEF OpToRel
<1> HIDE DEF R
<1>3. PICK n \in T : \A m \in T : <<m, n>> \notin R
  BY <1>1, WFMin
<1>4. ASSUME NEW m \in T PROVE n <= m
  <2>1. ~ (m < n)
    BY <1>2, <1>3
  <2> QED BY <2>1
<1> QED BY <1>4

\* A set that holds 0 and the successors of what it holds has all numbers.
LEMMA Induction ==
    ASSUME NEW S, 0 \in S, \A n \in Nat : n \in S => n + 1 \in S
    PROVE  Nat \subseteq S
<1> DEFINE T == Nat \ S
<1> SUFFICES ASSUME T # {} PROVE FALSE
  OBVIOUS
<1>1. PICK n \in T : \A m \in T : n <= m
  BY LeastExists
<1>2. n \in Nat /\ n # 0
  BY <1>1
<1>3. n - 1 \in Nat /\ n - 1 \notin T
  BY <1>1, <1>2
<1>4. n \in S
  BY <1>2, <1>3
<1> QED BY <1>1, <1>4

\* What Smallest chooses.
LEMMA SmallestIsLeast ==
    ASSUME NEW S, S \subseteq Nat, S # {}
    PROVE  Smallest(S) \in S /\ \A m \in S : Smallest(S) <= m
BY LeastExists DEF Smallest

-------------------------------------------------------------------------------
(* Counting quotes.                                                           *)

\* The quotes of a stretch of a text are finitely many.
LEMMA QuotesAreFinite ==
    ASSUME NEW text, NEW m \in Int, NEW n \in Int
    PROVE  /\ IsFiniteSet({k \in m..n : text[k] = Quote})
           /\ Quotes(text, m, n) \in Nat
<1>1. IsFiniteSet(m..n)
  BY FS_Interval
<1>2. IsFiniteSet({k \in m..n : text[k] = Quote})
  BY <1>1, FS_Subset
<1> QED BY <1>2, FS_CardinalityType DEF Quotes

\* There are none in an empty stretch.
LEMMA QuotesOfNone ==
    ASSUME NEW text, NEW m \in Int, NEW n \in Int, n < m
    PROVE  Quotes(text, m, n) = 0 /\ Outside(text, m, n)
<1>1. {k \in m..n : text[k] = Quote} = {}
  OBVIOUS
<1>2. Quotes(text, m, n) = 0
  BY <1>1, FS_EmptySet DEF Quotes
<1> QED BY <1>2 DEF Outside

\* Two stretches that follow on each other.
LEMMA QuotesAdd ==
    ASSUME NEW text, NEW m \in Int, NEW n \in Int, NEW k \in Int, m <= k + 1, k <= n
    PROVE  Quotes(text, m, n) = Quotes(text, m, k) + Quotes(text, k + 1, n)
<1> DEFINE A == {q \in m..k : text[q] = Quote}
           B == {q \in (k + 1)..n : text[q] = Quote}
<1> k + 1 \in Int
  OBVIOUS
<1>1. IsFiniteSet(A) /\ IsFiniteSet(B)
  <2>1. IsFiniteSet(A)
    BY QuotesAreFinite
  <2>2. IsFiniteSet(B)
    BY QuotesAreFinite
  <2> QED BY <2>1, <2>2
<1>2. A \cap B = {}
  OBVIOUS
<1>3. {q \in m..n : text[q] = Quote} = A \cup B
  OBVIOUS
<1>4. Cardinality(A) \in Nat /\ Cardinality(B) \in Nat
  BY <1>1, FS_CardinalityType
<1>5. /\ Quotes(text, m, n) = Cardinality(A \cup B)
      /\ Quotes(text, m, k) = Cardinality(A)
      /\ Quotes(text, k + 1, n) = Cardinality(B)
  BY <1>3 DEF Quotes
<1> HIDE DEF A, B
<1>6. Cardinality(A \cup B) = Cardinality(A) + Cardinality(B)
  BY <1>1, <1>2, <1>4, FS_Union, FS_EmptySet
<1> QED BY <1>5, <1>6

\* A stretch of one.
LEMMA QuotesOfOne ==
    ASSUME NEW text, NEW n \in Int
    PROVE  Quotes(text, n, n) = IF text[n] = Quote THEN 1 ELSE 0
<1>1. CASE text[n] = Quote
  <2>1. {k \in n..n : text[k] = Quote} = {n}
    BY <1>1
  <2> QED BY <1>1, <2>1, FS_Singleton DEF Quotes
<1>2. CASE text[n] # Quote
  <2>1. {k \in n..n : text[k] = Quote} = {}
    BY <1>2
  <2> QED BY <1>2, <2>1, FS_EmptySet DEF Quotes
<1> QED BY <1>1, <1>2

\* Going on from outside the quotes.
LEMMA OutsideAdd ==
    ASSUME NEW text, NEW m \in Int, NEW n \in Int, NEW k \in Int, m <= k + 1, k <= n,
           Outside(text, m, k)
    PROVE  Outside(text, m, n) <=> Outside(text, k + 1, n)
<1>1. Quotes(text, m, n) = Quotes(text, m, k) + Quotes(text, k + 1, n)
  BY QuotesAdd
<1>2. Quotes(text, m, k) \in Nat /\ Quotes(text, k + 1, n) \in Nat
  <2>1. k + 1 \in Int
    OBVIOUS
  <2>2. Quotes(text, m, k) \in Nat
    BY QuotesAreFinite
  <2>3. Quotes(text, k + 1, n) \in Nat
    BY <2>1, QuotesAreFinite
  <2> QED BY <2>2, <2>3
<1>3. \A a, b \in Nat : a % 2 = 0 => ((a + b) % 2 = 0 <=> b % 2 = 0)
  OBVIOUS
<1>4. Quotes(text, m, k) % 2 = 0
  BY DEF Outside
<1>5. (Quotes(text, m, k) + Quotes(text, k + 1, n)) % 2 = 0 <=> Quotes(text, k + 1, n) % 2 = 0
  BY <1>2, <1>3, <1>4
<1> QED BY <1>1, <1>5 DEF Outside

-------------------------------------------------------------------------------
(* The search for the matches.  It is a recursive function on positions; each *)
(* calls itself on a later one, so there is such a function.                  *)

\* Where the match at p ends, and where the search goes on.
End(text, p) == Smallest(Ends(text, p))
Piece(text, p) == SubSeq(text, p, End(text, p) - 1)
Resume(text, p) == IF End(text, p) = p THEN p + 1 ELSE End(text, p)

\* The matches from p on, of those from later positions on.
MatchesFrom(text, from, p) ==
    IF p > Len(text) + 1 THEN <<>>
    ELSE IF ~ IsMatch(text, p) THEN from[p + 1]
    ELSE <<Piece(text, p)>> \o from[Resume(text, p)]

IsSearch(text, from) ==
    from = [p \in 1..(Len(text) + 2) |-> MatchesFrom(text, from, p)]

\* A match ends at one of its ends, the first, and is resumed after it began.
LEMMA MatchEnds ==
    ASSUME NEW text \in Seq(Token), NEW p \in 1..(Len(text) + 1), IsMatch(text, p)
    PROVE  /\ End(text, p) \in Ends(text, p)
           /\ \A e \in Ends(text, p) : End(text, p) <= e
           /\ End(text, p) \in Body(p)..(Len(text) + 1)
           /\ Resume(text, p) \in (p + 1)..(Len(text) + 2)
<1>1. Body(p) \in Nat /\ Body(p) >= p /\ Len(text) \in Nat
  BY DEF Body
<1>2. Ends(text, p) \subseteq Body(p)..(Len(text) + 1)
  BY DEF Ends
<1>3. Ends(text, p) # {} /\ Ends(text, p) \subseteq Nat
  BY <1>1, <1>2 DEF IsMatch
<1>4. /\ End(text, p) \in Ends(text, p)
      /\ \A e \in Ends(text, p) : End(text, p) <= e
  BY <1>3, SmallestIsLeast DEF End
<1>5. End(text, p) \in Body(p)..(Len(text) + 1)
  BY <1>2, <1>4
<1> QED BY <1>1, <1>4, <1>5 DEF Resume

\* What is found from p on depends on what is found later only.
LEMMA LaterMatchesDecide ==
    ASSUME NEW text \in Seq(Token), NEW p \in 1..(Len(text) + 2), NEW f, NEW g,
           \A q \in (p + 1)..(Len(text) + 2) : f[q] = g[q]
    PROVE  MatchesFrom(text, f, p) = MatchesFrom(text, g, p)
<1>1. Len(text) \in Nat
  OBVIOUS
<1>2. CASE p > Len(text) + 1
  BY <1>2 DEF MatchesFrom
<1>3. CASE ~ (p > Len(text) + 1) /\ ~ IsMatch(text, p)
  <2>1. f[p + 1] = g[p + 1]
    BY <1>1, <1>3
  <2> QED BY <1>3, <2>1 DEF MatchesFrom
<1>4. CASE ~ (p > Len(text) + 1) /\ IsMatch(text, p)
  <2>1. p \in 1..(Len(text) + 1)
    BY <1>1, <1>4
  <2>2. f[Resume(text, p)] = g[Resume(text, p)]
    BY <1>4, <2>1, MatchEnds
  <2> QED BY <1>4, <2>2 DEF MatchesFrom
<1> QED BY <1>2, <1>3, <1>4

\* The search exists, from any position on: by induction on what is left.
LEMMA SearchExists ==
    ASSUME NEW text \in Seq(Token)
    PROVE  \E from : IsSearch(text, from)
<1> DEFINE N == Len(text) + 2
           From(p, f) == f = [q \in p..N |-> MatchesFrom(text, f, q)]
           S == {k \in Nat : k < N => \E f : From(N - k, f)}
<1>1. N \in Nat /\ N >= 2
  OBVIOUS
<1>2. 0 \in S
  <2> DEFINE f == [q \in N..N |-> <<>>]
  <2>1. \A q \in N..N : MatchesFrom(text, f, q) = <<>>
    BY <1>1 DEF MatchesFrom
  <2>2. f = [q \in N..N |-> MatchesFrom(text, f, q)]
    BY <2>1
  <2>3. From(N - 0, f)
    BY <1>1, <2>2
  <2> QED BY <1>1, <2>3
<1>3. ASSUME NEW k \in Nat, k \in S PROVE k + 1 \in S
  <2> SUFFICES ASSUME k + 1 < N PROVE \E f : From(N - (k + 1), f)
    OBVIOUS
  <2>1. PICK f : From(N - k, f)
    BY <1>1, <1>3
  <2> DEFINE p == N - (k + 1)
             g == [q \in p..N |-> IF q = p THEN MatchesFrom(text, f, p) ELSE f[q]]
  <2>2. p \in 1..N /\ N - k = p + 1
    BY <1>1
  <2>3. \A q \in (p + 1)..N : f[q] = g[q] /\ f[q] = MatchesFrom(text, f, q)
    <3> TAKE q \in (p + 1)..N
    <3>1. q \in p..N /\ q # p /\ q \in (N - k)..N
      BY <1>1, <2>2
    <3>2. f[q] = MatchesFrom(text, f, q)
      <4> HIDE DEF p, g
      <4> QED BY <2>1, <3>1
    <3>3. g[q] = f[q]
      BY <3>1
    <3> QED BY <3>2, <3>3
  <2>4. \A q \in p..N : MatchesFrom(text, f, q) = MatchesFrom(text, g, q)
    <3> TAKE q \in p..N
    <3>1. q \in 1..N /\ \A r \in (q + 1)..N : f[r] = g[r]
      BY <1>1, <2>2, <2>3
    <3> HIDE DEF g
    <3> QED BY <3>1, LaterMatchesDecide
  <2>5. \A q \in p..N : g[q] = MatchesFrom(text, g, q)
    <3> TAKE q \in p..N
    <3>1. CASE q = p
      BY <2>4, <3>1
    <3>2. CASE q # p
      <4>1. q \in (p + 1)..N
        BY <1>1, <2>2, <3>2
      <4> QED BY <2>3, <2>4, <4>1
    <3> QED BY <3>1, <3>2
  <2>6. From(p, g)
    BY <2>5
  <2> QED BY <2>6
<1> HIDE DEF S
<1>4. Nat \subseteq S
  BY <1>2, <1>3, Induction
<1> USE DEF S
<1>5. N - 1 \in S /\ N - (N - 1) = 1
  BY <1>1, <1>4
<1>6. \E f : From(1, f)
  BY <1>1, <1>5
<1> QED BY <1>6 DEF IsSearch

\* Matches is what the search finds from the first position on.
LEMMA MatchesBySearch ==
    ASSUME NEW text \in Seq(Token)
    PROVE  \E from : IsSearch(text, from) /\ Matches(text) = from[1]
<1> DEFINE from == CHOOSE f : IsSearch(text, f)
<1>1. IsSearch(text, from)
  BY SearchExists
<1>2. Matches(text) = from[1]
  BY DEF Matches, IsSearch, MatchesFrom, Piece, Resume, End
<1> QED BY <1>1, <1>2

\* What the search finds at a position.
LEMMA SearchAt ==
    ASSUME NEW text \in Seq(Token), NEW from, IsSearch(text, from), NEW p \in 1..(Len(text) + 2)
    PROVE  from[p] = MatchesFrom(text, from, p)
BY DEF IsSearch

\* What holds at a position if it holds at all later ones holds at all.
LEMMA Backwards ==
    ASSUME NEW N \in Nat, NEW S,
           \A p \in 1..N : (p + 1)..N \subseteq S => p \in S
    PROVE  1..N \subseteq S
<1> DEFINE T == {k \in Nat : (N + 1 - k)..N \cap 1..N \subseteq S}
<1>1. 0 \in T
  OBVIOUS
<1>2. ASSUME NEW k \in Nat, k \in T PROVE k + 1 \in T
  <2> SUFFICES ASSUME NEW p \in (N + 1 - (k + 1))..N \cap 1..N PROVE p \in S
    OBVIOUS
  <2>1. (p + 1)..N \subseteq (N + 1 - k)..N \cap 1..N
    OBVIOUS
  <2>2. (p + 1)..N \subseteq S
    BY <1>2, <2>1
  <2> QED BY <2>2
<1> HIDE DEF T
<1>3. N \in T
  BY <1>1, <1>2, Induction
<1> QED BY <1>3 DEF T

-------------------------------------------------------------------------------
(* The matches.                                                               *)
PiecesFrom(text, p) == {Piece(text, q) : q \in {r \in p..(Len(text) + 1) : IsMatch(text, r)}}

\* A match is a stretch of the text.
LEMMA PieceIs ==
    ASSUME NEW text \in Seq(Token), NEW p \in 1..(Len(text) + 1), IsMatch(text, p)
    PROVE  /\ Piece(text, p) \in Seq(Token)
           /\ Len(Piece(text, p)) = End(text, p) - p
           /\ \A k \in 1..(End(text, p) - p) : Piece(text, p)[k] = text[p + k - 1]
<1>1. End(text, p) \in Body(p)..(Len(text) + 1) /\ Len(text) \in Nat
  BY MatchEnds
<1>2. End(text, p) \in p..(Len(text) + 1)
  BY <1>1 DEF Body
<1>3. \A k \in p..(End(text, p) - 1) : text[k] \in Token
  BY <1>1, <1>2
<1>4. p \in Int /\ End(text, p) - 1 \in Int
  BY <1>1, <1>2
<1>5. /\ Piece(text, p) \in Seq(Token)
      /\ Len(Piece(text, p)) = IF p <= End(text, p) - 1 THEN End(text, p) - 1 - p + 1 ELSE 0
      /\ \A k \in 1..(End(text, p) - 1 - p + 1) : Piece(text, p)[k] = text[p + k - 1]
  BY <1>3, <1>4, SubSeqProperties DEF Piece
<1> QED BY <1>2, <1>5

\* The quotes of a stretch are those the text has there.
LEMMA QuotesOfPiece ==
    ASSUME NEW text, NEW piece, NEW p \in Nat, NEW n \in Nat,
           \A k \in 1..n : piece[k] = text[p + k - 1]
    PROVE  \A k \in 0..n : Quotes(piece, 1, k) = Quotes(text, p, p + k - 1)
<1> DEFINE S == {k \in Nat : k <= n => Quotes(piece, 1, k) = Quotes(text, p, p + k - 1)}
<1>1. 0 \in S
  BY QuotesOfNone
<1>2. ASSUME NEW k \in Nat, k \in S PROVE k + 1 \in S
  <2> SUFFICES ASSUME k + 1 <= n
               PROVE  Quotes(piece, 1, k + 1) = Quotes(text, p, p + (k + 1) - 1)
    OBVIOUS
  <2>1. Quotes(piece, 1, k) = Quotes(text, p, p + k - 1)
    BY <1>2
  <2>2. piece[k + 1] = text[p + k] /\ p + (k + 1) - 1 = p + k /\ (p + k - 1) + 1 = p + k
    OBVIOUS
  <2>3. Quotes(piece, k + 1, k + 1) = Quotes(text, p + k, p + k)
    BY <2>2, QuotesOfOne
  <2>4. Quotes(piece, 1, k + 1) = Quotes(piece, 1, k) + Quotes(piece, k + 1, k + 1)
    BY QuotesAdd
  <2>5. p + k - 1 \in Int /\ p + k \in Int /\ p <= (p + k - 1) + 1 /\ p + k - 1 <= p + k
    OBVIOUS
  <2>6. Quotes(text, p, p + k) = Quotes(text, p, p + k - 1) + Quotes(text, (p + k - 1) + 1, p + k)
    BY <2>5, QuotesAdd
  <2> QED BY <2>1, <2>2, <2>3, <2>4, <2>6
<1> HIDE DEF S
<1>3. Nat \subseteq S
  BY <1>1, <1>2, Induction
<1> QED BY <1>3 DEF S

\* The semicolon that a match begins with is no quote.
LEMMA OutsideBody ==
    ASSUME NEW text \in Seq(Token), NEW p \in 1..(Len(text) + 1), IsMatch(text, p),
           NEW n \in Int, n >= Body(p) - 1
    PROVE  Outside(text, p, n) <=> Outside(text, Body(p), n)
<1>1. CASE p = 1
  BY <1>1 DEF Body
<1>2. CASE p # 1
  <2>1. text[p] # Quote /\ Body(p) = p + 1 /\ p <= n
    BY <1>2, TokenAssumption DEF IsMatch, Body
  <2>2. Quotes(text, p, p) = 0
    BY <2>1, QuotesOfOne
  <2>3. Outside(text, p, p)
    BY <2>2 DEF Outside
  <2> QED BY <2>1, <2>3, OutsideAdd
<1> QED BY <1>1, <1>2

\* No match cuts a string in two, and no semicolon in it ends a statement but
\* the one it begins with, which ends the statement before.
LEMMA PieceIsStatement ==
    ASSUME NEW text \in Seq(Token), NEW p \in 1..(Len(text) + 1), IsMatch(text, p)
    PROVE  /\ Balanced(Piece(text, p))
           /\ Cuts(Piece(text, p)) = IF p = 1 THEN {} ELSE {1}
<1> DEFINE e == End(text, p)
           s == Piece(text, p)
<1>1. /\ e \in Ends(text, p) /\ \A d \in Ends(text, p) : e <= d
      /\ e \in Body(p)..(Len(text) + 1) /\ Body(p) \in {p, p + 1} /\ p \in Nat
      /\ Len(text) \in Nat
  BY MatchEnds DEF Body
<1>2. Len(s) = e - p /\ \A k \in 1..(e - p) : s[k] = text[p + k - 1]
  BY PieceIs
<1>3. s \in Seq(Token) /\ DOMAIN s = 1..(e - p)
  BY <1>2, PieceIs
<1> HIDE DEF e, s
<1>4. e - p \in Nat
  BY <1>1
<1>5. \A k \in 0..(e - p) : Quotes(s, 1, k) = Quotes(text, p, p + k - 1)
  <2>1. PICK n \in Nat : n = e - p
    BY <1>4
  <2>2. p \in Nat /\ \A k \in 1..n : s[k] = text[p + k - 1]
    BY <1>1, <1>2, <2>1
  <2>3. \A k \in 0..n : Quotes(s, 1, k) = Quotes(text, p, p + k - 1)
    BY <2>2, QuotesOfPiece, ZenonT(60)
  <2> QED BY <2>1, <2>3
<1>6. \A k \in 0..(e - p) : Outside(s, 1, k) <=> Outside(text, p, p + k - 1)
  BY <1>5 DEF Outside
<1>7. Balanced(s)
  <2>1. Outside(text, Body(p), e - 1)
    BY <1>1 DEF Ends
  <2>2. Outside(text, p, e - 1)
    BY <1>1, <2>1, OutsideBody
  <2>3. Outside(s, 1, e - p) <=> Outside(text, p, p + (e - p) - 1)
    BY <1>4, <1>6
  <2>4. p + (e - p) - 1 = e - 1
    BY <1>1
  <2> QED BY <1>2, <2>2, <2>3, <2>4 DEF Balanced
<1>8. ASSUME NEW k \in Cuts(s) PROVE k = 1 /\ p # 1
  <2>1. k \in 1..(e - p) /\ text[p + k - 1] = Semi /\ Outside(s, 1, k - 1)
    BY <1>2, <1>3 DEF Cuts
  <2>2. Outside(text, p, p + (k - 1) - 1)
    <3>1. k - 1 \in 0..(e - p)
      BY <1>4, <2>1
    <3> QED BY <1>6, <2>1, <3>1
  <2>3. SUFFICES ASSUME ~ (k = 1 /\ p # 1) PROVE FALSE
    OBVIOUS
  <2> DEFINE d == p + k - 1
  <2>4. d \in Body(p)..(Len(text) + 1) /\ d < e /\ text[d] = Semi /\ p + (k - 1) - 1 = d - 1
    BY <1>1, <2>1, <2>3 DEF Body
  <2> HIDE DEF d
  <2>5. Outside(text, Body(p), d - 1)
    BY <1>1, <2>2, <2>4, OutsideBody
  <2>6. d \in Ends(text, p)
    BY <2>4, <2>5 DEF Ends
  <2> QED BY <1>1, <2>4, <2>6
<1>9. ASSUME p # 1 PROVE 1 \in Cuts(s)
  <2>1. 1 \in 1..(e - p) /\ text[p] = Semi
    BY <1>1, <1>9 DEF Body, IsMatch
  <2>2. s[1] = Semi
    BY <1>1, <1>2, <2>1
  <2>3. Outside(s, 1, 1 - 1)
    BY QuotesOfNone
  <2> QED BY <1>3, <2>1, <2>2, <2>3 DEF Cuts
<1>10. Cuts(s) = IF p = 1 THEN {} ELSE {1}
  BY <1>8, <1>9
<1> QED BY <1>7, <1>10 DEF s

\* The search finds matches, each at or after the position it began at.
LEMMA SearchFindsPieces ==
    ASSUME NEW text \in Seq(Token), NEW from, IsSearch(text, from)
    PROVE  \A p \in 1..(Len(text) + 2) : from[p] \in Seq(PiecesFrom(text, p))
<1> DEFINE N == Len(text) + 2
           S == {p \in 1..N : from[p] \in Seq(PiecesFrom(text, p))}
<1>1. N \in Nat /\ Len(text) \in Nat
  OBVIOUS
<1>2. ASSUME NEW p \in 1..N, (p + 1)..N \subseteq S PROVE p \in S
  <2>1. from[p] = MatchesFrom(text, from, p)
    BY SearchAt
  <2>2. ASSUME NEW q \in (p + 1)..N PROVE from[q] \in Seq(PiecesFrom(text, p))
    <3>1. from[q] \in Seq(PiecesFrom(text, q))
      BY <1>2
    <3>2. PiecesFrom(text, q) \subseteq PiecesFrom(text, p)
      BY <1>1 DEF PiecesFrom
    <3> QED BY <3>1, <3>2, SeqMonotonic
  <2>3. CASE p > Len(text) + 1
    <3>1. from[p] = <<>>
      BY <2>1, <2>3 DEF MatchesFrom
    <3> QED BY <3>1, EmptySeq
  <2>4. CASE ~ (p > Len(text) + 1) /\ ~ IsMatch(text, p)
    <3>1. p + 1 \in (p + 1)..N
      BY <1>1, <2>4
    <3>2. from[p + 1] \in Seq(PiecesFrom(text, p))
      BY <2>2, <3>1
    <3> QED BY <2>1, <2>4, <3>2 DEF MatchesFrom
  <2>5. CASE ~ (p > Len(text) + 1) /\ IsMatch(text, p)
    <3>1. p \in 1..(Len(text) + 1)
      BY <1>1, <2>5
    <3>2. from[Resume(text, p)] \in Seq(PiecesFrom(text, p))
      BY <2>2, <2>5, <3>1, MatchEnds
    <3>3. Piece(text, p) \in PiecesFrom(text, p)
      BY <2>5, <3>1 DEF PiecesFrom
    <3>4. <<Piece(text, p)>> \in Seq(PiecesFrom(text, p))
      BY <3>3
    <3>5. <<Piece(text, p)>> \o from[Resume(text, p)] \in Seq(PiecesFrom(text, p))
      BY <3>2, <3>4, ConcatProperties
    <3> QED BY <2>1, <2>5, <3>5 DEF MatchesFrom
  <2> QED BY <2>3, <2>4, <2>5
<1> HIDE DEF S
<1>3. 1..N \subseteq S
  BY <1>1, <1>2, Backwards
<1> QED BY <1>3 DEF S

\* Matches finds stretches of the text, and nothing else.
LEMMA MatchesArePieces ==
    ASSUME NEW text \in Seq(Token)
    PROVE  /\ Matches(text) \in Seq(PiecesFrom(text, 1))
           /\ Matches(text) \in Seq(Seq(Token))
<1>1. PICK from : IsSearch(text, from) /\ Matches(text) = from[1]
  BY MatchesBySearch
<1>2. Matches(text) \in Seq(PiecesFrom(text, 1))
  BY <1>1, SearchFindsPieces
<1>3. PiecesFrom(text, 1) \subseteq Seq(Token)
  BY PieceIs DEF PiecesFrom
<1> QED BY <1>2, <1>3, SeqMonotonic

\* A match that begins with SELECT is the first, and is one statement.
LEMMA QueriesAreStatements ==
    ASSUME NEW text \in Seq(Token), NEW command \in PiecesFrom(text, 1), CommandIsRO(command)
    PROVE  command[1] \in SelectWord /\ Cuts(command) = {}
<1>1. PICK p \in 1..(Len(text) + 1) : IsMatch(text, p) /\ command = Piece(text, p)
  BY DEF PiecesFrom
<1>2. command[1] \in SelectWord
  BY DEF CommandIsRO
<1>3. ASSUME p # 1 PROVE FALSE
  <2>1. Cuts(command) = {1}
    BY <1>1, <1>3, PieceIsStatement
  <2>2. command[1] = Semi
    BY <2>1 DEF Cuts
  <2> QED BY <1>2, <2>2, KindAssumption, TokenAssumption
<1>4. Cuts(command) = {}
  BY <1>1, <1>3, PieceIsStatement
<1> QED BY <1>2, <1>4

-------------------------------------------------------------------------------
(* Joining commands again.                                                    *)
IsJoining(commands, upTo) ==
    upTo = [n \in 0..Len(commands) |->
              IF n = 0 THEN <<>> ELSE upTo[n - 1] \o commands[n]]

\* There is such a function: by induction on its length.
LEMMA JoiningExists ==
    ASSUME NEW commands, Len(commands) \in Nat
    PROVE  \E upTo : IsJoining(commands, upTo)
<1> DEFINE Step(f, n) == IF n = 0 THEN <<>> ELSE f[n - 1] \o commands[n]
           UpTo(k, f) == f = [n \in 0..k |-> Step(f, n)]
           S == {k \in Nat : \E f : UpTo(k, f)}
<1>1. 0 \in S
  <2> DEFINE f == [n \in 0..0 |-> <<>>]
  <2>1. \A n \in 0..0 : Step(f, n) = <<>>
    OBVIOUS
  <2>2. f = [n \in 0..0 |-> Step(f, n)]
    BY <2>1
  <2>3. UpTo(0, f)
    BY <2>2
  <2> QED BY <2>3
<1>2. ASSUME NEW k \in Nat, k \in S PROVE k + 1 \in S
  <2>1. PICK f : UpTo(k, f)
    BY <1>2
  <2> DEFINE g == [n \in 0..(k + 1) |-> IF n = k + 1 THEN Step(f, n) ELSE f[n]]
  <2>2. \A n \in 0..k : g[n] = f[n]
    OBVIOUS
  <2>3. \A n \in 0..(k + 1) : Step(g, n) = Step(f, n)
    <3> TAKE n \in 0..(k + 1)
    <3>1. n # 0 => g[n - 1] = f[n - 1]
      <4> HIDE DEF g
      <4>1. n # 0 => n - 1 \in 0..k
        OBVIOUS
      <4> QED BY <2>2, <4>1
    <3> HIDE DEF g
    <3> QED BY <3>1
  <2>4. \A n \in 0..k : f[n] = Step(f, n)
    <3> HIDE DEF g
    <3> QED BY <2>1
  <2>5. \A n \in 0..(k + 1) : g[n] = Step(g, n)
    <3> TAKE n \in 0..(k + 1)
    <3>1. g[n] = IF n = k + 1 THEN Step(f, n) ELSE f[n]
      OBVIOUS
    <3>2. Step(g, n) = Step(f, n)
      BY <2>3
    <3>3. n # k + 1 => f[n] = Step(f, n)
      <4>1. n # k + 1 => n \in 0..k
        OBVIOUS
      <4> HIDE DEF g, Step
      <4> QED BY <2>4, <4>1
    <3> HIDE DEF g, Step
    <3> QED BY <3>1, <3>2, <3>3
  <2>6. g = [n \in 0..(k + 1) |-> g[n]]
    OBVIOUS
  <2>7. UpTo(k + 1, g)
    <3> HIDE DEF g, Step
    <3> QED BY <2>5, <2>6
  <2> HIDE DEF g, UpTo
  <2>8. \E f_1 : UpTo(k + 1, f_1)
    BY <2>7
  <2> QED BY <2>8
<1> HIDE DEF S
<1>3. Nat \subseteq S
  BY <1>1, <1>2, Induction
<1>4. \E f : UpTo(Len(commands), f)
  BY <1>3 DEF S
<1> QED BY <1>4 DEF IsJoining

\* Joined is the last of its values.
LEMMA JoinedByJoining ==
    ASSUME NEW commands, Len(commands) \in Nat
    PROVE  \E upTo :
              /\ upTo[0] = <<>>
              /\ \A n \in Nat : n < Len(commands) => upTo[n + 1] = upTo[n] \o commands[n + 1]
              /\ Joined(commands) = upTo[Len(commands)]
<1> DEFINE upTo == CHOOSE f : IsJoining(commands, f)
<1>1. IsJoining(commands, upTo)
  BY JoiningExists
<1>2. Joined(commands) = upTo[Len(commands)]
  BY DEF Joined, IsJoining
<1> HIDE DEF upTo
<1>3. ASSUME NEW n \in 0..Len(commands)
      PROVE  upTo[n] = IF n = 0 THEN <<>> ELSE upTo[n - 1] \o commands[n]
  BY <1>1 DEF IsJoining
<1>4. upTo[0] = <<>>
  BY <1>3
<1>5. ASSUME NEW n \in Nat, n < Len(commands)
      PROVE  upTo[n + 1] = upTo[n] \o commands[n + 1]
  <2>1. n + 1 \in 0..Len(commands) /\ n + 1 # 0 /\ (n + 1) - 1 = n
    BY <1>5
  <2>2. upTo[n + 1] = upTo[(n + 1) - 1] \o commands[n + 1]
    BY <1>3, <2>1
  <2> QED BY <2>1, <2>2
<1> QED BY <1>2, <1>4, <1>5

\* Nothing joined is the empty text.
LEMMA JoinedOfNone == Joined(<<>>) = <<>>
<1>1. Len(<<>>) = 0 /\ Len(<<>>) \in Nat
  OBVIOUS
<1>2. PICK upTo : upTo[0] = <<>> /\ Joined(<<>>) = upTo[Len(<<>>)]
  BY <1>1, JoinedByJoining
<1> QED BY <1>1, <1>2

\* The first command comes first.
LEMMA JoinedOfMore ==
    ASSUME NEW T, NEW first \in Seq(T), NEW rest \in Seq(Seq(T))
    PROVE  /\ Joined(rest) \in Seq(T)
           /\ Joined(<<first>> \o rest) = first \o Joined(rest)
<1> DEFINE all == <<first>> \o rest
<1>1. /\ Len(rest) \in Nat /\ Len(all) = Len(rest) + 1 /\ Len(all) \in Nat
      /\ all[1] = first
      /\ \A n \in 1..Len(rest) : all[n + 1] = rest[n] /\ rest[n] \in Seq(T)
  <2>1. <<first>> \in Seq(Seq(T)) /\ Len(<<first>>) = 1
    OBVIOUS
  <2>2. /\ Len(all) = 1 + Len(rest)
        /\ \A n \in 1..(1 + Len(rest)) : all[n] = IF n <= 1 THEN <<first>>[n] ELSE rest[n - 1]
    BY <2>1, ConcatProperties
  <2> HIDE DEF all
  <2>3. Len(rest) \in Nat
    OBVIOUS
  <2>4. \A n \in 1..Len(rest) : all[n + 1] = rest[n]
    BY <2>2, <2>3
  <2>5. \A n \in 1..Len(rest) : rest[n] \in Seq(T)
    BY ElementOfSeq
  <2>6. all[1] = first
    <3>1. 1 \in 1..(1 + Len(rest)) /\ <<first>>[1] = first
      BY <2>3
    <3> QED BY <2>2, <3>1
  <2>7. Len(all) = Len(rest) + 1 /\ Len(all) \in Nat
    BY <2>2, <2>3
  <2> QED BY <2>3, <2>4, <2>5, <2>6, <2>7
<1> HIDE DEF all
<1>2. PICK f : /\ f[0] = <<>>
               /\ \A n \in Nat : n < Len(all) => f[n + 1] = f[n] \o all[n + 1]
               /\ Joined(all) = f[Len(all)]
  BY <1>1, JoinedByJoining
<1>3. PICK g : /\ g[0] = <<>>
               /\ \A n \in Nat : n < Len(rest) => g[n + 1] = g[n] \o rest[n + 1]
               /\ Joined(rest) = g[Len(rest)]
  BY <1>1, JoinedByJoining
<1> DEFINE S == {k \in Nat : k <= Len(rest) => g[k] \in Seq(T) /\ f[k + 1] = first \o g[k]}
<1>6. 0 \in S
  <2>1. f[0 + 1] = f[0] \o all[0 + 1]
    <3>1. 0 \in Nat /\ 0 < Len(all)
      BY <1>1
    <3> QED BY <1>2, <3>1
  <2>2. f[0 + 1] = first
    BY <1>1, <1>2, <2>1, ConcatEmptySeq
  <2>3. first \o g[0] = first
    BY <1>3, ConcatEmptySeq
  <2>4. g[0] \in Seq(T)
    BY <1>3, EmptySeq
  <2> QED BY <2>2, <2>3, <2>4
<1>7. ASSUME NEW k \in Nat, k \in S PROVE k + 1 \in S
  <2> SUFFICES ASSUME k + 1 <= Len(rest)
               PROVE  g[k + 1] \in Seq(T) /\ f[(k + 1) + 1] = first \o g[k + 1]
    OBVIOUS
  <2>1. g[k] \in Seq(T) /\ f[k + 1] = first \o g[k]
    BY <1>1, <1>7
  <2>2. k + 1 \in 1..Len(rest) /\ k + 1 \in Nat /\ k < Len(rest) /\ k + 1 < Len(all)
    BY <1>1
  <2>3. g[k + 1] = g[k] \o rest[k + 1]
    BY <1>3, <2>2
  <2>4. f[(k + 1) + 1] = f[k + 1] \o all[(k + 1) + 1]
    BY <1>2, <2>2
  <2>5. all[(k + 1) + 1] = rest[k + 1] /\ rest[k + 1] \in Seq(T)
    BY <1>1, <2>2
  <2>6. g[k + 1] \in Seq(T)
    BY <2>1, <2>3, <2>5, ConcatProperties
  <2>7. (first \o g[k]) \o rest[k + 1] = first \o (g[k] \o rest[k + 1])
    <3>1. \A s, t, u \in Seq(T) : (s \o t) \o u = s \o (t \o u)
      BY ConcatAssociative, SMTT(60)
    <3> QED BY <2>1, <2>5, <3>1
  <2>8. f[(k + 1) + 1] = first \o g[k + 1]
    BY <2>1, <2>3, <2>4, <2>5, <2>7
  <2> QED BY <2>6, <2>8
<1> HIDE DEF S
<1>8. Len(rest) \in S
  BY <1>1, <1>6, <1>7, Induction
<1>9. g[Len(rest)] \in Seq(T) /\ f[Len(rest) + 1] = first \o g[Len(rest)]
  BY <1>1, <1>8 DEF S
<1> QED BY <1>1, <1>2, <1>3, <1>9 DEF all

-------------------------------------------------------------------------------
(* The split.                                                                 *)

\* In a text whose quotes are closed, a semicolon that ends a statement begins a
\* match, and what is found from there on joins to the rest of the text.
AtCut(text, p) ==
    \/ p \in (Len(text) + 1)..(Len(text) + 2)
    \/ p \in Cuts(text)

\* A match that begins outside the quotes can be found, and the one after it
\* begins outside the quotes again.
LEMMA CutToCut ==
    ASSUME NEW text \in Seq(Token), Balanced(text), NEW p \in 1..Len(text),
           p = 1 \/ p \in Cuts(text), Outside(text, 1, p - 1), p = 1 => text[1] # Semi
    PROVE  /\ IsMatch(text, p)
           /\ End(text, p) # p
           /\ AtCut(text, End(text, p))
<1> DEFINE e == End(text, p)
<1>1. /\ p \in DOMAIN text /\ Len(text) \in Nat /\ p \in 1..(Len(text) + 1)
      /\ Body(p) \in {p, p + 1} /\ Body(p) \in p..(Len(text) + 1)
  BY DEF Body
<1>2. Outside(text, 1, Body(p) - 1)
  <2>1. CASE p = 1
    BY <2>1, QuotesOfNone DEF Body
  <2>2. CASE p # 1
    <3>1. Body(p) - 1 = p /\ text[p] # Quote
      BY <2>2, TokenAssumption DEF Body, Cuts
    <3>2. Quotes(text, p, p) = 0
      BY <3>1, QuotesOfOne
    <3>3. Outside(text, (p - 1) + 1, p)
      BY <3>2 DEF Outside
    <3>4. p \in Int /\ p - 1 \in Int /\ 1 <= (p - 1) + 1 /\ p - 1 <= p
      OBVIOUS
    <3>5. Outside(text, 1, p) <=> Outside(text, (p - 1) + 1, p)
      BY <3>4, OutsideAdd
    <3> QED BY <3>1, <3>3, <3>5
  <2> QED BY <2>1, <2>2
<1>3. \A d \in Body(p)..(Len(text) + 1) :
         Outside(text, 1, d - 1) <=> Outside(text, Body(p), d - 1)
  <2> TAKE d \in Body(p)..(Len(text) + 1)
  <2>1. PICK b \in Nat : b = Body(p) - 1
    BY <1>1
  <2>2. d - 1 \in Int /\ b \in Int /\ 1 <= b + 1 /\ b <= d - 1 /\ Body(p) = b + 1
    BY <1>1, <2>1
  <2>3. Outside(text, 1, d - 1) <=> Outside(text, b + 1, d - 1)
    BY <1>2, <2>1, <2>2, OutsideAdd
  <2> QED BY <2>2, <2>3
<1>4. Len(text) + 1 \in Ends(text, p)
  <2>1. Outside(text, 1, Len(text) + 1 - 1)
    BY <1>1 DEF Balanced
  <2>2. Len(text) + 1 \in Body(p)..(Len(text) + 1) /\ Len(text) + 1 \notin DOMAIN text
    BY <1>1
  <2>3. Outside(text, Body(p), Len(text) + 1 - 1)
    BY <1>3, <2>1, <2>2
  <2> QED BY <2>2, <2>3 DEF Ends
<1>5. IsMatch(text, p)
  BY <1>1, <1>4 DEF IsMatch, Cuts
<1>6. e \in Ends(text, p) /\ e \in Body(p)..(Len(text) + 1)
  BY <1>1, <1>5, MatchEnds
<1> HIDE DEF e
<1>7. e # p
  <2> SUFFICES ASSUME e = p PROVE FALSE
    OBVIOUS
  <2>1. p = 1
    BY <1>6 DEF Body
  <2>2. text[1] = Semi
    BY <1>1, <1>6, <2>1 DEF Ends
  <2> QED BY <2>1, <2>2
<1>8. AtCut(text, e)
  <2>1. CASE e \in DOMAIN text
    <3>1. text[e] = Semi /\ Outside(text, Body(p), e - 1)
      BY <1>6, <2>1 DEF Ends
    <3>2. Outside(text, 1, e - 1)
      BY <1>3, <1>6, <3>1
    <3> QED BY <2>1, <3>1, <3>2 DEF AtCut, Cuts
  <2>2. CASE e \notin DOMAIN text
    <3>1. e = Len(text) + 1
      BY <1>1, <1>6, <2>2
    <3> QED BY <1>1, <3>1 DEF AtCut
  <2> QED BY <2>1, <2>2
<1> QED BY <1>5, <1>7, <1>8 DEF e

\* What is found from a cut on joins to the text from there on.
LEMMA RestIsJoined ==
    ASSUME NEW text \in Seq(Token), Balanced(text), text # <<>> => text[1] # Semi,
           NEW from, IsSearch(text, from)
    PROVE  \A p \in 1..(Len(text) + 2) :
              p # 1 /\ AtCut(text, p) => Joined(from[p]) = SubSeq(text, p, Len(text))
<1> DEFINE N == Len(text) + 2
           S == {p \in 1..N : p # 1 /\ AtCut(text, p) =>
                                 Joined(from[p]) = SubSeq(text, p, Len(text))}
<1>1. N \in Nat /\ Len(text) \in Nat /\ DOMAIN text = 1..Len(text)
  OBVIOUS
<1>2. ASSUME NEW p \in 1..N, (p + 1)..N \subseteq S PROVE p \in S
  <2> SUFFICES ASSUME p # 1, AtCut(text, p)
               PROVE  Joined(from[p]) = SubSeq(text, p, Len(text))
    OBVIOUS
  <2>1. from[p] = MatchesFrom(text, from, p)
    BY SearchAt
  <2>2. CASE p > Len(text)
    <3>1. SubSeq(text, p, Len(text)) = <<>>
      BY <1>1, <2>2, SubSeqEmpty
    <3>2. from[p] = <<>>
      <4>1. CASE p = Len(text) + 2
        BY <1>1, <2>1, <4>1 DEF MatchesFrom
      <4>2. CASE p = Len(text) + 1
        <5>1. ~ IsMatch(text, p)
          BY <1>1, <4>2 DEF IsMatch
        <5>2. from[p] = from[p + 1]
          BY <1>1, <2>1, <4>2, <5>1 DEF MatchesFrom
        <5>3. p + 1 \in 1..N /\ p + 1 > Len(text) + 1
          BY <1>1, <4>2
        <5>4. from[p + 1] = <<>>
          BY <5>3, SearchAt DEF MatchesFrom
        <5> QED BY <5>2, <5>4
      <4> QED BY <1>1, <2>2, <4>1, <4>2
    <3> QED BY <3>1, <3>2, JoinedOfNone
  <2>3. CASE ~ (p > Len(text))
    <3>1. p \in Cuts(text) /\ p \in 1..Len(text) /\ Outside(text, 1, p - 1)
      BY <1>1, <2>3 DEF AtCut, Cuts
    <3> DEFINE e == End(text, p)
    <3>2. IsMatch(text, p) /\ e # p /\ AtCut(text, e)
      BY <3>1, CutToCut
    <3>3. p \in 1..(Len(text) + 1)
      BY <1>1, <3>1
    <3>4. e \in (p + 1)..(Len(text) + 1)
      BY <1>1, <3>2, <3>3, MatchEnds DEF Body
    <3>5. from[p] = <<Piece(text, p)>> \o from[e]
      BY <1>1, <2>1, <3>2, <3>3 DEF MatchesFrom, Resume
    <3>6. Joined(from[e]) = SubSeq(text, e, Len(text))
      BY <1>1, <1>2, <3>2, <3>4
    <3>7. from[e] \in Seq(Seq(Token))
      <4>1. e \in 1..(Len(text) + 2)
        BY <1>1, <3>4
      <4>2. from[e] \in Seq(PiecesFrom(text, e))
        BY <4>1, SearchFindsPieces
      <4>3. PiecesFrom(text, e) \subseteq Seq(Token)
        BY <4>1, PieceIs DEF PiecesFrom
      <4> QED BY <4>2, <4>3, SeqMonotonic
    <3>8. Piece(text, p) \in Seq(Token)
      BY <3>2, <3>3, PieceIs
    <3>9. Joined(from[p]) = Piece(text, p) \o SubSeq(text, e, Len(text))
      BY <3>5, <3>6, <3>7, <3>8, JoinedOfMore, ZenonT(60)
    <3>10. SubSeq(text, p, e - 1) \o SubSeq(text, (e - 1) + 1, Len(text)) = SubSeq(text, p, Len(text))
      <4>1. /\ p \in 1..(Len(text) + 1) /\ e - 1 \in (p - 1)..Len(text)
            /\ Len(text) \in (e - 1)..Len(text)
        BY <1>1, <3>3, <3>4
      <4> HIDE DEF e
      <4> QED BY <4>1, ConcatAdjacentSubSeq
    <3>11. (e - 1) + 1 = e
      BY <1>1, <3>4
    <3> QED BY <3>9, <3>10, <3>11 DEF Piece
  <2> QED BY <2>2, <2>3
<1> HIDE DEF S
<1>3. 1..N \subseteq S
  BY <1>1, <1>2, Backwards
<1> QED BY <1>3 DEF S

(* Format's regular expression: a text whose quotes are closed and that does  *)
(* not begin with a semicolon is split at the semicolons that end statements, *)
(* at no others, and nothing of it is lost.                                   *)
THEOREM MatchesSplit ==
    ASSUME NEW text \in Seq(Token), Balanced(text), text # <<>> => text[1] # Semi
    PROVE  IsSplitOf(Matches(text), text)
<1>1. PICK from : IsSearch(text, from) /\ Matches(text) = from[1]
  BY MatchesBySearch
<1>2. /\ Len(text) \in Nat /\ DOMAIN text = 1..Len(text)
      /\ 1 \in 1..(Len(text) + 1) /\ 1 \in 1..(Len(text) + 2)
  OBVIOUS
<1> DEFINE e == End(text, 1)
<1>3. /\ IsMatch(text, 1)
      /\ e \in 1..(Len(text) + 1)
      /\ Resume(text, 1) \in 2..(Len(text) + 2)
      /\ AtCut(text, Resume(text, 1))
      /\ Joined(<<Piece(text, 1)>> \o from[Resume(text, 1)]) = text
  <2>1. CASE Len(text) = 0
    <3>1. text = <<>>
      BY <1>2, <2>1
    <3>2. 1 \in Ends(text, 1)
      BY <1>2, <2>1, QuotesOfNone DEF Ends, Body
    <3>3. IsMatch(text, 1)
      BY <3>2 DEF IsMatch
    <3>4. e = 1 /\ Resume(text, 1) = 2
      <4>1. e \in Body(1)..(Len(text) + 1)
        BY <1>2, <3>3, MatchEnds
      <4>2. e = 1
        BY <2>1, <4>1 DEF Body
      <4> QED BY <4>2 DEF Resume
    <3>5. from[2] = <<>>
      <4>1. 2 \in 1..(Len(text) + 2) /\ 2 > Len(text) + 1
        BY <2>1
      <4>2. from[2] = MatchesFrom(text, from, 2)
        BY <1>1, <4>1, SearchAt
      <4> QED BY <4>1, <4>2 DEF MatchesFrom
    <3>6. Piece(text, 1) = <<>>
      BY <3>4, SubSeqEmpty DEF Piece
    <3>7. <<>> \in Seq(Token) /\ <<>> \in Seq(Seq(Token))
      OBVIOUS
    <3>8. Joined(<<<<>>>> \o <<>>) = <<>> \o Joined(<<>>)
      BY <3>7, JoinedOfMore
    <3>9. Joined(<<<<>>>> \o <<>>) = <<>>
      BY <3>7, <3>8, JoinedOfNone, ConcatEmptySeq
    <3>10. AtCut(text, 2)
      BY <2>1 DEF AtCut
    <3>11. Joined(<<Piece(text, 1)>> \o from[Resume(text, 1)]) = text
      BY <3>1, <3>4, <3>5, <3>6, <3>9
    <3> QED BY <2>1, <3>3, <3>4, <3>10, <3>11
  <2>2. CASE Len(text) # 0
    <3>1. 1 \in 1..Len(text) /\ text[1] # Semi
      BY <1>2, <2>2
    <3>2. Outside(text, 1, 1 - 1)
      BY QuotesOfNone
    <3>3. IsMatch(text, 1) /\ e # 1 /\ AtCut(text, e)
      BY <3>1, <3>2, CutToCut
    <3>4. e \in 2..(Len(text) + 1) /\ Resume(text, 1) = e
      BY <1>2, <3>3, MatchEnds DEF Body, Resume
    <3>5. Joined(from[e]) = SubSeq(text, e, Len(text))
      BY <1>1, <1>2, <3>3, <3>4, RestIsJoined, SMTT(60)
    <3>6. from[e] \in Seq(Seq(Token))
      <4>1. e \in 1..(Len(text) + 2)
        BY <1>2, <3>4
      <4>2. from[e] \in Seq(PiecesFrom(text, e))
        BY <1>1, <4>1, SearchFindsPieces
      <4>3. PiecesFrom(text, e) \subseteq Seq(Token)
        BY <4>1, PieceIs DEF PiecesFrom
      <4> QED BY <4>2, <4>3, SeqMonotonic
    <3>7. Piece(text, 1) \in Seq(Token)
      BY <1>2, <3>3, PieceIs
    <3>8. Joined(<<Piece(text, 1)>> \o from[e]) = Piece(text, 1) \o SubSeq(text, e, Len(text))
      BY <3>5, <3>6, <3>7, JoinedOfMore, ZenonT(60)
    <3>9. SubSeq(text, 1, e - 1) \o SubSeq(text, (e - 1) + 1, Len(text)) = SubSeq(text, 1, Len(text))
      <4>1. /\ 1 \in 1..(Len(text) + 1) /\ e - 1 \in (1 - 1)..Len(text)
            /\ Len(text) \in (e - 1)..Len(text)
        BY <1>2, <3>4
      <4> HIDE DEF e
      <4> QED BY <4>1, ConcatAdjacentSubSeq
    <3>10. (e - 1) + 1 = e /\ SubSeq(text, 1, Len(text)) = text
      BY <1>2, <3>4, SubSeqFull
    <3>11. Joined(<<Piece(text, 1)>> \o from[e]) = text
      BY <3>8, <3>9, <3>10 DEF Piece
    <3> QED BY <1>2, <3>3, <3>4, <3>11
  <2> QED BY <2>1, <2>2
<1>4. Matches(text) = <<Piece(text, 1)>> \o from[Resume(text, 1)]
  <2>1. from[1] = MatchesFrom(text, from, 1)
    BY <1>1, <1>2, SearchAt
  <2>2. ~ (1 > Len(text) + 1)
    BY <1>2
  <2> QED BY <1>1, <1>3, <2>1, <2>2 DEF MatchesFrom
<1>5. ASSUME NEW n \in DOMAIN Matches(text)
      PROVE  /\ Balanced(Matches(text)[n])
             /\ Cuts(Matches(text)[n]) = IF n = 1 THEN {} ELSE {1}
  <2> DEFINE rest == from[Resume(text, 1)]
             P == PiecesFrom(text, 2)
  <2>1. rest \in Seq(P)
    <3>1. rest \in Seq(PiecesFrom(text, Resume(text, 1)))
      BY <1>1, <1>2, <1>3, SearchFindsPieces
    <3>2. PiecesFrom(text, Resume(text, 1)) \subseteq PiecesFrom(text, 2)
      BY <1>2, <1>3 DEF PiecesFrom
    <3> QED BY <3>1, <3>2, SeqMonotonic
  <2> HIDE DEF rest, P
  <2>2. /\ DOMAIN Matches(text) = 1..(Len(rest) + 1) /\ Len(rest) \in Nat
        /\ Matches(text)[1] = Piece(text, 1)
        /\ n # 1 => Matches(text)[n] \in P
    <3> DEFINE T == P \cup {Piece(text, 1)}
    <3>1. rest \in Seq(T) /\ <<Piece(text, 1)>> \in Seq(T)
      BY <2>1, SeqMonotonic
    <3>2. rest \in Seq(P) /\ Len(rest) \in Nat
      BY <2>1
    <3> HIDE DEF T
    <3>3. Matches(text) = <<Piece(text, 1)>> \o rest
      BY <1>4 DEF rest
    <3>4. /\ Matches(text) \in Seq(T)
          /\ Len(Matches(text)) = 1 + Len(rest)
          /\ \A k \in 1..(1 + Len(rest)) :
                Matches(text)[k] = IF k <= 1 THEN <<Piece(text, 1)>>[k] ELSE rest[k - 1]
      BY <3>1, <3>3, ConcatProperties
    <3>5. DOMAIN Matches(text) = 1..(Len(rest) + 1)
      BY <3>2, <3>4
    <3>6. n # 1 => n - 1 \in 1..Len(rest) /\ Matches(text)[n] = rest[n - 1]
      BY <3>2, <3>4, <3>5
    <3>7. n # 1 => Matches(text)[n] \in P
      BY <3>2, <3>6, ElementOfSeq
    <3> QED BY <3>2, <3>4, <3>5, <3>7
  <2>3. CASE n = 1
    BY <1>2, <1>3, <2>2, <2>3, PieceIsStatement
  <2>4. CASE n # 1
    <3>1. PICK p \in 2..(Len(text) + 1) : IsMatch(text, p) /\ Matches(text)[n] = Piece(text, p)
      BY <2>2, <2>4 DEF P, PiecesFrom
    <3>2. p \in 1..(Len(text) + 1) /\ p # 1
      BY <1>2
    <3> QED BY <2>4, <3>1, <3>2, PieceIsStatement
  <2> QED BY <2>3, <2>4
<1> QED BY <1>3, <1>4, <1>5 DEF IsSplitOf

\* Format gives matches of the text, or nothing.
LEMMA FormatType ==
    ASSUME NEW text \in Seq(Token), NEW sanitize \in BOOLEAN
    PROVE  /\ Format(text, sanitize) \in Seq(PiecesFrom(text, 1))
           /\ Format(text, sanitize) \in Seq(Seq(Token))
<1>1. Format(text, sanitize) \in {Matches(text), <<>>}
  BY DEF Format
<1>2. <<>> \in Seq(PiecesFrom(text, 1)) /\ <<>> \in Seq(Seq(Token))
  BY EmptySeq
<1> QED BY <1>1, <1>2, MatchesArePieces
===============================================================================
