------------------------- MODULE MatrixCountsProofs -------------------------
(***************************************************************************)
(* Proofs about MatrixCounts for pools of any size, any number of cards a  *)
(* round and of players: cell by cell, what a player adds to the matrix of *)
(* pairs, and what to the matrix of transitions; then sum by sum, from     *)
(* what the sum of a function over a finite set is.                        *)
(***************************************************************************)
EXTENDS MatrixCounts, FiniteSetTheorems, SequenceTheorems,
        NaturalsInduction, WellFoundedInduction, TLAPS

Cells == Rows \X Cols

\* The cells are numbers, and the players are players.
MatrixInv ==
    /\ matrix \in [Documents \X Ids -> [Cells -> Nat]]
    /\ counted \in Seq(Players)

----------------------------------------------------------------------------
(* Sums over finite sets *)

\* The element that a sum takes next, and what it leaves.
First(s) == CHOOSE x \in s : TRUE
Rest(s) == s \ {First(s)}

LEMMA RestIsSmaller ==
    ASSUME NEW S, IsFiniteSet(S), NEW s \in SUBSET S, s # {}
    PROVE  /\ First(s) \in s /\ First(s) \in S
           /\ Rest(s) \in SUBSET S /\ First(s) \notin Rest(s) /\ s = Rest(s) \cup {First(s)}
           /\ Cardinality(s) \in Nat /\ Cardinality(Rest(s)) = Cardinality(s) - 1
<1>1. First(s) \in s
  BY DEF First
<1>2. IsFiniteSet(s) /\ Cardinality(s) \in Nat
  BY FS_Subset, FS_CardinalityType
<1>3. Cardinality(s \ {First(s)}) = Cardinality(s) - 1
  BY <1>1, <1>2, FS_RemoveElement
<1> QED
  BY <1>1, <1>2, <1>3 DEF Rest

LEMMA SmallestNumber ==
    ASSUME NEW T \in SUBSET Nat, T # {}
    PROVE  \E x \in T : \A y \in T : x <= y
<1>1. PICK x \in T : \A y \in T : ~ (<<y, x>> \in OpToRel(<, Nat))
  BY NatLessThanWellFounded, WFMin
<1>2. ASSUME NEW y \in T PROVE x <= y
  <2>1. x \in Nat /\ y \in Nat
    OBVIOUS
  <2>2. ~ (y < x)
    BY <1>1, <2>1 DEF OpToRel
  <2> QED
    BY <2>1, <2>2
<1> QED
  BY <1>2

\* A set of sets that has the empty set, and every set of which it has the rest, has all
\* subsets of a finite set.
LEMMA SubsetsByRest ==
    ASSUME NEW S, IsFiniteSet(S), NEW Good, {} \in Good,
           \A s \in SUBSET S : s # {} /\ Rest(s) \in Good => s \in Good
    PROVE  SUBSET S \subseteq Good
<1> SUFFICES ASSUME NEW bad \in SUBSET S, bad \notin Good PROVE FALSE
  OBVIOUS
<1> DEFINE Sizes0 == {Cardinality(s) : s \in (SUBSET S) \ Good}
<1>1. \A s \in SUBSET S : IsFiniteSet(s) /\ Cardinality(s) \in Nat
  BY FS_Subset, FS_CardinalityType
<1>2. Sizes0 \in SUBSET Nat /\ Sizes0 # {}
  BY <1>1
<1>3. PICK n \in Sizes0 : \A k \in Sizes0 : n <= k
  BY <1>2, SmallestNumber
<1>4. PICK s \in (SUBSET S) \ Good : Cardinality(s) = n
  BY <1>3
<1>5. s # {}
  BY <1>4
<1>6. Rest(s) \in SUBSET S /\ Cardinality(Rest(s)) = n - 1 /\ n \in Nat
  BY <1>4, <1>5, RestIsSmaller
<1>7. Rest(s) \in Good
  <2>1. Cardinality(Rest(s)) \notin Sizes0
    <3> HIDE DEF Sizes0
    <3> QED
      BY <1>2, <1>3, <1>6
  <2> QED
    BY <1>6, <2>1
<1> QED
  BY <1>4, <1>5, <1>7

\* The equation whose solution SumFunction takes, and a solution up to sets of n elements.
SumEq(f, g) ==
    g = [s \in SUBSET DOMAIN f |-> IF s = {} THEN 0 ELSE f[First(s)] + g[Rest(s)]]

SumUpTo(f, g, n) ==
    \A s \in SUBSET DOMAIN f : Cardinality(s) <= n =>
        g[s] = IF s = {} THEN 0 ELSE f[First(s)] + g[Rest(s)]

LEMMA SumsExtend ==
    ASSUME NEW S, IsFiniteSet(S), NEW f \in [S -> Nat], NEW n \in Nat,
           NEW g \in [SUBSET S -> Nat], SumUpTo(f, g, n)
    PROVE  \E h \in [SUBSET S -> Nat] : SumUpTo(f, h, n + 1)
<1> DEFINE h == [s \in SUBSET S |->
                   IF Cardinality(s) <= n THEN g[s]
                   ELSE IF s = {} THEN 0 ELSE f[First(s)] + g[Rest(s)]]
<1>1. h \in [SUBSET S -> Nat]
  <2>1. ASSUME NEW s \in SUBSET S, s # {} PROVE f[First(s)] + g[Rest(s)] \in Nat
    BY <2>1, RestIsSmaller
  <2> QED
    BY <2>1
<1>2. SumUpTo(f, h, n + 1)
  <2> SUFFICES ASSUME NEW s \in SUBSET S, Cardinality(s) <= n + 1
               PROVE  h[s] = IF s = {} THEN 0 ELSE f[First(s)] + h[Rest(s)]
    BY DEF SumUpTo
  <2>1. Cardinality(s) \in Nat
    BY FS_Subset, FS_CardinalityType
  <2>2. CASE s = {}
    BY <2>2, FS_EmptySet DEF SumUpTo
  <2>3. CASE s # {}
    <3>1. Rest(s) \in SUBSET S /\ Cardinality(Rest(s)) <= n
      BY <2>1, <2>3, RestIsSmaller
    <3>2. h[Rest(s)] = g[Rest(s)]
      BY <3>1
    <3>3. h[s] = f[First(s)] + g[Rest(s)]
      <4>1. CASE Cardinality(s) <= n
        BY <2>3, <4>1 DEF SumUpTo
      <4>2. CASE ~(Cardinality(s) <= n)
        BY <2>3, <4>2
      <4> QED
        BY <4>1, <4>2
    <3> QED
      BY <2>3, <3>2, <3>3
  <2> QED
    BY <2>2, <2>3
<1> QED
  BY <1>1, <1>2

LEMMA SumsExist ==
    ASSUME NEW S, IsFiniteSet(S), NEW f \in [S -> Nat]
    PROVE  \E g : SumEq(f, g)
<1> DEFINE Bad == {n \in Nat : \A g \in [SUBSET S -> Nat] : ~SumUpTo(f, g, n)}
<1>1. 0 \notin Bad
  <2> DEFINE z == [s \in SUBSET S |-> 0]
  <2>1. \A s \in SUBSET S : Cardinality(s) <= 0 => s = {}
    BY FS_Subset, FS_CardinalityType, FS_EmptySet
  <2>2. z \in [SUBSET S -> Nat] /\ SumUpTo(f, z, 0)
    BY <2>1 DEF SumUpTo
  <2> QED
    BY <2>2
<1>2. Bad = {}
  <2> SUFFICES ASSUME Bad # {} PROVE FALSE
    OBVIOUS
  <2>1. PICK n \in Bad : \A k \in Bad : n <= k
    BY SmallestNumber
  <2>2. n \in Nat /\ n # 0 /\ \A g \in [SUBSET S -> Nat] : ~SumUpTo(f, g, n)
    BY <1>1, <2>1
  <2>3. PICK m \in Nat : m + 1 = n
    <3>1. n - 1 \in Nat /\ (n - 1) + 1 = n
      BY <2>2
    <3> QED
      BY <3>1
  <2>4. m \notin Bad
    <3> HIDE DEF Bad
    <3> QED
      BY <2>1, <2>2, <2>3
  <2>5. PICK g \in [SUBSET S -> Nat] : SumUpTo(f, g, m)
    BY <2>4
  <2>6. \E h \in [SUBSET S -> Nat] : SumUpTo(f, h, m + 1)
    BY <2>5, SumsExtend
  <2> QED
    BY <2>2, <2>3, <2>6
<1>3. Cardinality(S) \in Nat
  BY FS_CardinalityType
<1>4. PICK g \in [SUBSET S -> Nat] : SumUpTo(f, g, Cardinality(S))
  BY <1>2, <1>3
<1>5. \A s \in SUBSET S : Cardinality(s) <= Cardinality(S)
  BY FS_Subset
<1>6. SumEq(f, g)
  BY <1>4, <1>5 DEF SumUpTo, SumEq
<1> QED
  BY <1>6

\* The sums of a function over the subsets of its domain.
SumsOf(f, S, g) ==
    /\ g \in [SUBSET S -> Nat]
    /\ g[{}] = 0
    /\ \A s \in SUBSET S : s # {} => g[s] = f[First(s)] + g[Rest(s)]

LEMMA SumUnfolds ==
    ASSUME NEW S, IsFiniteSet(S), NEW f \in [S -> Nat]
    PROVE  \E g : SumsOf(f, S, g) /\ SumFunction(f) = g[S]
<1>1. SumFunction(f) = (CHOOSE g : SumEq(f, g))[DOMAIN f]
  BY DEF SumEq, First, Rest, SumFunction, SumFunctionOnSet, FoldFunctionOnSet, MapThenFoldSet
<1>2. PICK g : g = CHOOSE h : SumEq(f, h)
  OBVIOUS
<1>3. SumEq(f, g)
  BY <1>2, SumsExist
<1>4. DOMAIN g = SUBSET S /\ g = [s \in SUBSET S |-> g[s]]
  BY <1>3 DEF SumEq
<1>5. g[{}] = 0
  BY <1>3 DEF SumEq
<1>6. \A s \in SUBSET S : s # {} => g[s] = f[First(s)] + g[Rest(s)]
  BY <1>3 DEF SumEq
<1> DEFINE Good == {s \in SUBSET S : g[s] \in Nat}
<1>7. SUBSET S \subseteq Good
  <2>1. {} \in Good
    BY <1>5
  <2>2. \A s \in SUBSET S : s # {} /\ Rest(s) \in Good => s \in Good
    BY <1>6, RestIsSmaller
  <2> HIDE DEF Good
  <2> QED
    BY <2>1, <2>2, SubsetsByRest
<1>8. g \in [SUBSET S -> Nat]
  BY <1>4, <1>7
<1> QED
  BY <1>1, <1>2, <1>5, <1>6, <1>8 DEF SumsOf

\* The sum of a sum is the sum of the sums.
LEMMA SumAdds ==
    ASSUME NEW S, IsFiniteSet(S), NEW f \in [S -> Nat], NEW h \in [S -> Nat],
           NEW k, k = [x \in S |-> f[x] + h[x]]
    PROVE  /\ SumFunction(f) \in Nat /\ SumFunction(h) \in Nat
           /\ SumFunction(k) = SumFunction(f) + SumFunction(h)
<1>1. k \in [S -> Nat]
  OBVIOUS
<1>2. PICK F : SumsOf(f, S, F) /\ SumFunction(f) = F[S]
  BY SumUnfolds
<1>3. PICK H : SumsOf(h, S, H) /\ SumFunction(h) = H[S]
  BY SumUnfolds
<1>4. PICK K : SumsOf(k, S, K) /\ SumFunction(k) = K[S]
  BY <1>1, SumUnfolds
<1> DEFINE Good == {s \in SUBSET S : K[s] = F[s] + H[s]}
<1>5. {} \in Good
  BY <1>2, <1>3, <1>4 DEF SumsOf
<1>6. ASSUME NEW s \in SUBSET S, s # {}, Rest(s) \in Good PROVE s \in Good
  <2>1. First(s) \in S /\ Rest(s) \in SUBSET S
    BY <1>6, RestIsSmaller
  <2>2. /\ K[s] = k[First(s)] + K[Rest(s)]
        /\ F[s] = f[First(s)] + F[Rest(s)]
        /\ H[s] = h[First(s)] + H[Rest(s)]
    BY <1>2, <1>3, <1>4, <1>6 DEF SumsOf
  <2>3. f[First(s)] \in Nat /\ h[First(s)] \in Nat /\ F[Rest(s)] \in Nat /\ H[Rest(s)] \in Nat
    BY <1>2, <1>3, <2>1 DEF SumsOf
  <2>4. k[First(s)] = f[First(s)] + h[First(s)] /\ K[Rest(s)] = F[Rest(s)] + H[Rest(s)]
    BY <1>6, <2>1
  <2> QED
    BY <2>2, <2>3, <2>4
<1>7. SUBSET S \subseteq Good
  <2> HIDE DEF Good
  <2> QED
    BY <1>5, <1>6, SubsetsByRest
<1> QED
  BY <1>2, <1>3, <1>4, <1>7 DEF SumsOf

\* Sorted by a key with values in Y, the elements of a set are counted key by key.
LEMMA SumCounts ==
    ASSUME NEW A, IsFiniteSet(A), NEW Y, IsFiniteSet(Y), NEW key,
           NEW f, f = [y \in Y |-> Cardinality({a \in A : key[a] = y})]
    PROVE  SumFunction(f) = Cardinality({a \in A : key[a] \in Y})
<1> DEFINE B(s) == {a \in A : key[a] \in s}
           E(y) == {a \in A : key[a] = y}
<1>1. \A s : IsFiniteSet(B(s)) /\ Cardinality(B(s)) \in Nat
  BY FS_Subset, FS_CardinalityType
<1>2. \A y : IsFiniteSet(E(y)) /\ Cardinality(E(y)) \in Nat
  BY FS_Subset, FS_CardinalityType
<1>3. f \in [Y -> Nat]
  BY <1>2
<1>4. PICK g : SumsOf(f, Y, g) /\ SumFunction(f) = g[Y]
  BY <1>3, SumUnfolds
<1> DEFINE Good == {s \in SUBSET Y : g[s] = Cardinality(B(s))}
<1>5. {} \in Good
  <2>1. B({}) = {}
    OBVIOUS
  <2> QED
    BY <1>4, <2>1, FS_EmptySet DEF SumsOf
<1>6. ASSUME NEW s \in SUBSET Y, s # {}, Rest(s) \in Good PROVE s \in Good
  <2>1. First(s) \in Y /\ First(s) \notin Rest(s) /\ s = Rest(s) \cup {First(s)}
    BY <1>6, RestIsSmaller
  <2>2. PICK y, r : y = First(s) /\ r = Rest(s)
    OBVIOUS
  <2>3. B(s) = B(r) \cup E(y) /\ B(r) \cap E(y) = {}
    BY <2>1, <2>2
  <2>4. Cardinality(B(s)) = Cardinality(B(r)) + Cardinality(E(y)) - Cardinality({})
    <3> HIDE DEF B, E
    <3> QED
      BY <1>1, <1>2, <2>3, FS_Union
  <2>5. g[s] = f[y] + g[r] /\ f[y] = Cardinality(E(y)) /\ g[r] = Cardinality(B(r))
    BY <1>4, <1>6, <2>1, <2>2 DEF SumsOf
  <2>6. g[s] = Cardinality(B(s))
    <3> HIDE DEF B, E
    <3> QED
      BY <1>1, <1>2, <2>4, <2>5, FS_EmptySet
  <2> QED
    BY <2>6
<1>7. SUBSET Y \subseteq Good
  <2> HIDE DEF Good
  <2> QED
    BY <1>5, <1>6, SubsetsByRest
<1> QED
  BY <1>4, <1>7

\* A sum with one term.
LEMMA SumOfOne ==
    ASSUME NEW S, IsFiniteSet(S), NEW a, NEW c \in Nat,
           NEW f, f = [x \in S |-> IF x = a THEN c ELSE 0]
    PROVE  SumFunction(f) = IF a \in S THEN c ELSE 0
<1>1. f \in [S -> Nat]
  OBVIOUS
<1>2. PICK g : SumsOf(f, S, g) /\ SumFunction(f) = g[S]
  BY <1>1, SumUnfolds
<1> DEFINE Good == {s \in SUBSET S : g[s] = IF a \in s THEN c ELSE 0}
<1>3. {} \in Good
  BY <1>2 DEF SumsOf
<1>4. ASSUME NEW s \in SUBSET S, s # {}, Rest(s) \in Good PROVE s \in Good
  <2>1. PICK y, r : y = First(s) /\ r = Rest(s)
    OBVIOUS
  <2>2. y \in S /\ y \notin r /\ s = r \cup {y}
    BY <1>4, <2>1, RestIsSmaller
  <2>3. g[s] = f[y] + g[r]
    BY <1>2, <1>4, <2>1 DEF SumsOf
  <2>4. g[r] = IF a \in r THEN c ELSE 0
    BY <1>4, <2>1
  <2>5. f[y] = IF y = a THEN c ELSE 0
    BY <2>2
  <2>6. g[s] = IF a \in s THEN c ELSE 0
    <3>1. CASE y = a
      BY <2>2, <2>3, <2>4, <2>5, <3>1
    <3>2. CASE y # a
      BY <2>2, <2>3, <2>4, <2>5, <3>2
    <3> QED
      BY <3>1, <3>2
  <2> QED
    BY <2>6
<1>5. SUBSET S \subseteq Good
  <2> HIDE DEF Good
  <2> QED
    BY <1>3, <1>4, SubsetsByRest
<1> QED
  BY <1>2, <1>5

LEMMA SumOfNothing ==
    ASSUME NEW S, IsFiniteSet(S)
    PROVE  SumFunction([x \in S |-> 0]) = 0
<1>1. [x \in S |-> 0] = [x \in S |-> IF x = 0 THEN 0 ELSE 0]
  OBVIOUS
<1> QED
  BY <1>1, SumOfOne, 0 \in Nat

----------------------------------------------------------------------------
(* The numbers of pairs and of transitions *)

LEMMA Sizes == Pool \in Nat \ {0} /\ RoundSize \in Nat \ {0} /\ PerPlayer \in Nat
BY LogsAssumption DEF PerPlayer, Rounds

LEMMA PositionsFinite ==
    IsFiniteSet(Positions) /\ IsFiniteSet(Positions \X Positions) /\ Positions \subseteq Nat
<1>1. IsFiniteSet(1..PerPlayer)
  BY Sizes, FS_Interval, 1 \in Int, PerPlayer \in Int
<1>2. Positions \subseteq Nat
  BY Sizes DEF Positions
<1> QED
  BY <1>1, <1>2, FS_Product DEF Positions

LEMMA StepsArePairs ==
    ASSUME NEW swapped \in SUBSET SameRound
    PROVE  Steps(swapped) \subseteq Positions \X Positions
<1>1. \A s \in swapped : s \in Positions \X Positions
  BY DEF SameRound
<1> QED
  BY <1>1 DEF Steps

\* A subset of the pairs of positions is counted by a number.
LEMMA PairsAreCounted ==
    ASSUME NEW S \in SUBSET (Positions \X Positions)
    PROVE  IsFiniteSet(S) /\ Cardinality(S) \in Nat
BY PositionsFinite, FS_Subset, FS_CardinalityType

LEMMA CoexistencesAreCounted ==
    ASSUME NEW log, NEW x, NEW y
    PROVE  CoexistenceXY(log, x, y) \in Nat
BY PairsAreCounted DEF CoexistenceXY

LEMMA TransitionsAreCounted ==
    ASSUME NEW log, NEW swapped \in SUBSET SameRound, NEW x, NEW y
    PROVE  TransitionXY(log, Steps(swapped), x, y) \in Nat
<1> DEFINE A == {s \in Steps(swapped) : log[s[1]] = x /\ log[s[2]] = y}
           B == {s \in Steps(swapped) : log[s[1]] = x}
           C == {p \in 1..RoundSize : log[p] = y}
<1>1. Cardinality(A) \in Nat /\ Cardinality(B) \in Nat
  BY StepsArePairs, PairsAreCounted
<1>2. Cardinality(C) \in Nat
  <2>1. IsFiniteSet(1..RoundSize)
    BY Sizes, FS_Interval, 1 \in Int, RoundSize \in Int
  <2>2. C \in SUBSET (1..RoundSize)
    OBVIOUS
  <2> QED
    BY <2>1, <2>2, FS_Subset, FS_CardinalityType
<1> HIDE DEF A, B, C
<1>3. Cardinality(A) + (IF x = y THEN Cardinality(B) ELSE 0)
        + (IF x = Pool THEN Cardinality(C) ELSE 0) \in Nat
  BY <1>1, <1>2
<1> QED
  BY <1>3 DEF TransitionXY, A, B, C

\* A card is at one position at most.
LEMMA CardsComeOnce ==
    ASSUME NEW log \in Logs, NEW p \in Positions, NEW q \in Positions, log[p] = log[q]
    PROVE  p = q
BY LogsAssumption

Has(log, x) == \E p \in Positions : log[p] = x

\* Two cards are one pair of positions, or none; a card with itself, too.
LEMMA CoexistenceOfTwo ==
    ASSUME NEW log \in Logs, NEW x, NEW y
    PROVE  CoexistenceXY(log, x, y) = IF Has(log, x) /\ Has(log, y) THEN 1 ELSE 0
<1> DEFINE S == {s \in Positions \X Positions : log[s[1]] = x /\ log[s[2]] = y}
<1>1. CASE Has(log, x) /\ Has(log, y)
  <2>1. PICK p \in Positions, q \in Positions : log[p] = x /\ log[q] = y
    BY <1>1 DEF Has
  <2>2. S = {<<p, q>>}
    BY <2>1, CardsComeOnce
  <2> QED
    BY <1>1, <2>2, FS_Singleton DEF CoexistenceXY
<1>2. CASE ~(Has(log, x) /\ Has(log, y))
  <2>1. S = {}
    BY <1>2 DEF Has
  <2> QED
    BY <1>2, <2>1, FS_EmptySet DEF CoexistenceXY
<1> QED
  BY <1>1, <1>2

\* The coin of a pair of positions decides which of the two steps is taken.
LEMMA OneStepOfTwo ==
    ASSUME NEW swapped \in SUBSET SameRound,
           NEW p \in Positions, NEW q \in Positions, p < q
    PROVE  <<p, q>> \in Steps(swapped) <=> <<q, p>> \notin Steps(swapped)
<1>1. p \in Nat /\ q \in Nat
  BY PositionsFinite
<1>2. \A s \in swapped : s = <<s[1], s[2]>> /\ s[1] \in Nat /\ s[2] \in Nat /\ s[1] < s[2]
  <2>1. \A s \in swapped : s \in Positions \X Positions /\ s[1] < s[2]
    BY DEF SameRound
  <2> QED
    BY <2>1, PositionsFinite
<1>3. <<p, q>> \in Steps(swapped) <=> <<p, q>> \notin swapped
  <2>1. <<p, q>> \notin {<<s[2], s[1]>> : s \in swapped}
    BY <1>1, <1>2
  <2> QED
    BY <2>1 DEF Steps
<1>4. <<q, p>> \in Steps(swapped) <=> <<p, q>> \in swapped
  <2>1. <<q, p>> \in {<<s[2], s[1]>> : s \in swapped} <=> <<p, q>> \in swapped
    BY <1>2
  <2>2. ~(q < p)
    BY <1>1
  <2> QED
    BY <2>1, <2>2 DEF Steps
<1> QED
  BY <1>3, <1>4

\* Two different cards of a player are one transition, in one order or the other.
LEMMA TransitionOfTwo ==
    ASSUME NEW log \in Logs, NEW swapped \in SUBSET SameRound,
           NEW x \in Cols, NEW y \in Cols, x # y
    PROVE  TransitionXY(log, Steps(swapped), x, y) + TransitionXY(log, Steps(swapped), y, x)
              = CoexistenceXY(log, x, y)
<1> DEFINE S(v, w) == {s \in Steps(swapped) : log[s[1]] = v /\ log[s[2]] = w}
<1>1. \A v \in Cols : v # Pool
  BY Sizes DEF Cols
<1>2. /\ S(x, y) \in SUBSET (Positions \X Positions)
      /\ S(y, x) \in SUBSET (Positions \X Positions)
  BY StepsArePairs
<1>3. Cardinality(S(x, y)) \in Nat /\ Cardinality(S(y, x)) \in Nat
  BY <1>2, PairsAreCounted
<1>4. /\ TransitionXY(log, Steps(swapped), x, y) = Cardinality(S(x, y))
      /\ TransitionXY(log, Steps(swapped), y, x) = Cardinality(S(y, x))
  BY <1>1, <1>3 DEF TransitionXY
<1>5. CASE Has(log, x) /\ Has(log, y)
  <2>1. PICK p \in Positions, q \in Positions : log[p] = x /\ log[q] = y
    BY <1>5 DEF Has
  <2>2. p # q /\ p \in Nat /\ q \in Nat
    BY <2>1, PositionsFinite
  <2>3. \/ <<p, q>> \in Steps(swapped) /\ <<q, p>> \notin Steps(swapped)
        \/ <<p, q>> \notin Steps(swapped) /\ <<q, p>> \in Steps(swapped)
    BY <2>2, OneStepOfTwo
  <2>4. /\ \A s \in S(x, y) : s = <<p, q>>
        /\ \A s \in S(y, x) : s = <<q, p>>
    BY <1>2, <2>1, CardsComeOnce
  <2>5. \/ S(x, y) = {<<p, q>>} /\ S(y, x) = {}
        \/ S(x, y) = {} /\ S(y, x) = {<<q, p>>}
    BY <2>1, <2>3, <2>4
  <2>6. Cardinality(S(x, y)) + Cardinality(S(y, x)) = 1
    <3>1. Cardinality({<<p, q>>}) = 1 /\ Cardinality({<<q, p>>}) = 1 /\ Cardinality({}) = 0
      BY FS_Singleton, FS_EmptySet
    <3> HIDE DEF S
    <3> QED
      BY <2>5, <3>1
  <2> QED
    BY <1>4, <1>5, <2>6, CoexistenceOfTwo
<1>6. CASE ~(Has(log, x) /\ Has(log, y))
  <2>1. S(x, y) = {} /\ S(y, x) = {}
    BY <1>2, <1>6 DEF Has
  <2> QED
    BY <1>4, <1>6, <2>1, CoexistenceOfTwo, FS_EmptySet
<1> QED
  BY <1>5, <1>6

----------------------------------------------------------------------------
(* One player more *)

\* What a player adds to a cell of a matrix of the given type.
Added(type, player, swapped, cell) ==
    IF type = "C"
    THEN CoexistenceXY(player.log, cell[1], cell[2])
    ELSE TransitionXY(player.log, Steps(swapped), cell[1], cell[2])

\* Whether the player is counted in a matrix.
CountedIn(d, id, player) == Concerns(d, player) /\ id \in MatrixIds(player)

LEMMA AddedIsCounted ==
    ASSUME NEW type, NEW player, NEW swapped \in SUBSET SameRound, NEW cell
    PROVE  Added(type, player, swapped, cell) \in Nat
BY CoexistencesAreCounted, TransitionsAreCounted DEF Added

LEMMA PlayerAdds ==
    ASSUME MatrixInv, NEW player \in Players, NEW swapped \in SUBSET SameRound,
           CountPlayer(player, swapped)
    PROVE  /\ MatrixInv'
           /\ \A d \in Documents, id \in Ids, cell \in Cells :
                 matrix'[<<d, id>>][cell] =
                    matrix[<<d, id>>][cell]
                    + (IF CountedIn(d, id, player) THEN Added(d[2], player, swapped, cell) ELSE 0)
<1> DEFINE together == [cell \in Cells |-> CoexistenceXY(player.log, cell[1], cell[2])]
           inOrder == [cell \in Cells |-> TransitionXY(player.log, Steps(swapped), cell[1], cell[2])]
           new == [m \in Documents \X Ids |->
                     IF Concerns(m[1], player) /\ m[2] \in MatrixIds(player)
                     THEN [cell \in Cells |-> matrix[m][cell] + (IF m[1][2] = "C" THEN together ELSE inOrder)[cell]]
                     ELSE matrix[m]]
<1>1. matrix' = new /\ counted' = Append(counted, player)
  BY DEF CountPlayer, Cells
<1>2. \A m \in Documents \X Ids, cell \in Cells :
         (IF m[1][2] = "C" THEN together ELSE inOrder)[cell] = Added(m[1][2], player, swapped, cell)
  BY DEF Added
<1>3. \A m \in Documents \X Ids : matrix[m] \in [Cells -> Nat]
  BY DEF MatrixInv
<1>4. \A m \in Documents \X Ids, cell \in Cells :
         new[m][cell] = matrix[m][cell]
                        + (IF CountedIn(m[1], m[2], player) THEN Added(m[1][2], player, swapped, cell) ELSE 0)
  <2> SUFFICES ASSUME NEW m \in Documents \X Ids, NEW cell \in Cells
               PROVE  new[m][cell] = matrix[m][cell]
                        + (IF CountedIn(m[1], m[2], player) THEN Added(m[1][2], player, swapped, cell) ELSE 0)
    OBVIOUS
  <2>1. matrix[m][cell] \in Nat
    BY <1>3
  <2>2. CASE CountedIn(m[1], m[2], player)
    BY <1>2, <2>2 DEF CountedIn
  <2>3. CASE ~CountedIn(m[1], m[2], player)
    BY <2>1, <2>3 DEF CountedIn
  <2> QED
    BY <2>2, <2>3
<1>5. new \in [Documents \X Ids -> [Cells -> Nat]]
  <2> SUFFICES ASSUME NEW m \in Documents \X Ids PROVE new[m] \in [Cells -> Nat]
    OBVIOUS
  <2>1. \A cell \in Cells : matrix[m][cell] + Added(m[1][2], player, swapped, cell) \in Nat
    BY <1>3, AddedIsCounted
  <2>2. CASE CountedIn(m[1], m[2], player)
    <3>1. new[m] = [cell \in Cells |-> matrix[m][cell] + Added(m[1][2], player, swapped, cell)]
      BY <1>2, <2>2 DEF CountedIn
    <3> QED
      BY <2>1, <3>1
  <2>3. CASE ~CountedIn(m[1], m[2], player)
    BY <1>3, <2>3 DEF CountedIn
  <2> QED
    BY <2>2, <2>3
<1> HIDE DEF new
<1>6. counted' \in Seq(Players)
  BY <1>1, AppendProperties DEF MatrixInv
<1>7. MatrixInv'
  BY <1>1, <1>5, <1>6 DEF MatrixInv
<1>8. \A d \in Documents, id \in Ids : <<d, id>> \in Documents \X Ids /\ <<d, id>>[1] = d /\ <<d, id>>[2] = id
  OBVIOUS
<1> QED
  BY <1>1, <1>4, <1>7, <1>8

LEMMA InitMatrix == Init => MatrixInv
<1>1. Skeleton \in [Cells -> Nat]
  BY DEF Skeleton, Cells
<1> QED
  BY <1>1, EmptySeq DEF Init, MatrixInv

\* A step counts a player, or nobody.
LEMMA NextKeepsMatrix == MatrixInv /\ [Next]_vars => MatrixInv'
<1>1. CASE UNCHANGED vars
  BY <1>1 DEF MatrixInv, vars
<1> QED
  BY <1>1, PlayerAdds DEF Next

LEMMA DocumentFacts ==
    ASSUME NEW kind \in {"pick", "win"}, NEW type \in {"C", "T"}, NEW class \in Classes
    PROVE  /\ <<kind, type, class>> \in Documents
           /\ <<kind, type, class>>[1] = kind
           /\ <<kind, type, class>>[2] = type
           /\ <<kind, type, class>>[3] = class
BY DEF Documents

LEMMA CellFacts ==
    ASSUME NEW x \in Cols, NEW y \in Cols
    PROVE  <<x, y>> \in Cells /\ <<x, y>>[1] = x /\ <<x, y>>[2] = y
BY Sizes DEF Cells, Rows, Cols

\* What a matrix of pairs gets and what the one of transitions gets.
LEMMA AddedAgree ==
    ASSUME NEW player \in Players, NEW swapped \in SUBSET SameRound,
           NEW x \in Cols, NEW y \in Cols, x # y
    PROVE  /\ Added("C", player, swapped, <<x, y>>) = Added("C", player, swapped, <<y, x>>)
           /\ Added("T", player, swapped, <<x, y>>) + Added("T", player, swapped, <<y, x>>)
                 = Added("C", player, swapped, <<x, y>>)
<1>1. player.log \in Logs
  BY DEF Players
<1>2. CoexistenceXY(player.log, x, y) = CoexistenceXY(player.log, y, x)
  BY <1>1, CoexistenceOfTwo
<1>3. TransitionXY(player.log, Steps(swapped), x, y) + TransitionXY(player.log, Steps(swapped), y, x)
         = CoexistenceXY(player.log, x, y)
  BY <1>1, TransitionOfTwo
<1> QED
  BY <1>2, <1>3 DEF Added

PairsAgree(m, n) ==
    \A x, y \in Cols : x # y =>
        /\ m[<<x, y>>] = m[<<y, x>>]
        /\ n[<<x, y>>] + n[<<y, x>>] = m[<<x, y>>]

LEMMA PlayerKeepsPairs ==
    ASSUME MatrixInv, NEW player \in Players, NEW swapped \in SUBSET SameRound,
           CountPlayer(player, swapped),
           NEW kind \in {"pick", "win"}, NEW class \in Classes, NEW id \in Ids,
           PairsAgree(matrix[<<<<kind, "C", class>>, id>>], matrix[<<<<kind, "T", class>>, id>>])
    PROVE  PairsAgree(matrix'[<<<<kind, "C", class>>, id>>], matrix'[<<<<kind, "T", class>>, id>>])
<1> DEFINE c == <<kind, "C", class>>
           t == <<kind, "T", class>>
<1>1. /\ c \in Documents /\ c[1] = kind /\ c[2] = "C" /\ c[3] = class
      /\ t \in Documents /\ t[1] = kind /\ t[2] = "T" /\ t[3] = class
  BY DocumentFacts
<1>2. CountedIn(c, id, player) = CountedIn(t, id, player)
  BY DEF CountedIn, Concerns
<1>3. /\ matrix[<<c, id>>] \in [Cells -> Nat]
      /\ matrix[<<t, id>>] \in [Cells -> Nat]
  BY <1>1 DEF MatrixInv
<1> SUFFICES ASSUME NEW x \in Cols, NEW y \in Cols, x # y
             PROVE  /\ matrix'[<<c, id>>][<<x, y>>] = matrix'[<<c, id>>][<<y, x>>]
                    /\ matrix'[<<t, id>>][<<x, y>>] + matrix'[<<t, id>>][<<y, x>>] = matrix'[<<c, id>>][<<x, y>>]
  BY DEF PairsAgree
<1>4. <<x, y>> \in Cells /\ <<y, x>> \in Cells
  BY CellFacts
<1>5. /\ matrix[<<c, id>>][<<x, y>>] = matrix[<<c, id>>][<<y, x>>]
      /\ matrix[<<t, id>>][<<x, y>>] + matrix[<<t, id>>][<<y, x>>] = matrix[<<c, id>>][<<x, y>>]
  BY DEF PairsAgree
<1>6. \A cell \in Cells :
         /\ matrix[<<c, id>>][cell] \in Nat /\ matrix[<<t, id>>][cell] \in Nat
         /\ Added("C", player, swapped, cell) \in Nat /\ Added("T", player, swapped, cell) \in Nat
  BY <1>3, AddedIsCounted
<1>7. \A cell \in Cells :
         /\ matrix'[<<c, id>>][cell] = matrix[<<c, id>>][cell]
               + (IF CountedIn(c, id, player) THEN Added("C", player, swapped, cell) ELSE 0)
         /\ matrix'[<<t, id>>][cell] = matrix[<<t, id>>][cell]
               + (IF CountedIn(c, id, player) THEN Added("T", player, swapped, cell) ELSE 0)
  BY <1>1, <1>2, PlayerAdds
<1> HIDE DEF c, t
<1>8. /\ Added("C", player, swapped, <<x, y>>) = Added("C", player, swapped, <<y, x>>)
      /\ Added("T", player, swapped, <<x, y>>) + Added("T", player, swapped, <<y, x>>)
            = Added("C", player, swapped, <<x, y>>)
  BY AddedAgree
<1> QED
  BY <1>4, <1>5, <1>6, <1>7, <1>8

WinnersWerePicked(class, id) ==
    \A type \in {"C", "T"}, cell \in Cells :
        matrix[<<<<"win", type, class>>, id>>][cell] <= matrix[<<<<"pick", type, class>>, id>>][cell]

LEMMA PlayerKeepsWinners ==
    ASSUME MatrixInv, NEW player \in Players, NEW swapped \in SUBSET SameRound,
           CountPlayer(player, swapped),
           NEW class \in Classes, NEW id \in Ids, WinnersWerePicked(class, id)
    PROVE  WinnersWerePicked(class, id)'
<1> SUFFICES ASSUME NEW type \in {"C", "T"}, NEW cell \in Cells
             PROVE  matrix'[<<<<"win", type, class>>, id>>][cell] <= matrix'[<<<<"pick", type, class>>, id>>][cell]
  BY DEF WinnersWerePicked
<1> DEFINE w == <<"win", type, class>>
           p == <<"pick", type, class>>
<1>1. /\ w \in Documents /\ w[1] = "win" /\ w[2] = type /\ w[3] = class
      /\ p \in Documents /\ p[1] = "pick" /\ p[2] = type /\ p[3] = class
  BY DocumentFacts
<1>2. CountedIn(w, id, player) => CountedIn(p, id, player)
  BY DEF CountedIn, Concerns
<1>3. matrix[<<w, id>>] \in [Cells -> Nat] /\ matrix[<<p, id>>] \in [Cells -> Nat]
  BY <1>1 DEF MatrixInv
<1>4. matrix[<<w, id>>][cell] <= matrix[<<p, id>>][cell]
  BY DEF WinnersWerePicked
<1>5. /\ matrix'[<<w, id>>][cell] = matrix[<<w, id>>][cell]
            + (IF CountedIn(w, id, player) THEN Added(type, player, swapped, cell) ELSE 0)
      /\ matrix'[<<p, id>>][cell] = matrix[<<p, id>>][cell]
            + (IF CountedIn(p, id, player) THEN Added(type, player, swapped, cell) ELSE 0)
  BY <1>1, PlayerAdds
<1>6. /\ Added(type, player, swapped, cell) \in Nat
      /\ matrix[<<w, id>>][cell] \in Nat /\ matrix[<<p, id>>][cell] \in Nat
  BY <1>3, AddedIsCounted
<1> HIDE DEF w, p
<1>7. matrix'[<<w, id>>][cell] <= matrix'[<<p, id>>][cell]
  BY <1>2, <1>4, <1>5, <1>6
<1> QED
  BY <1>7 DEF w, p

MatricesAgree ==
    \A class \in Classes, id \in Ids :
        /\ \A kind \in {"pick", "win"} :
              PairsAgree(matrix[<<<<kind, "C", class>>, id>>], matrix[<<<<kind, "T", class>>, id>>])
        /\ WinnersWerePicked(class, id)

LEMMA NextKeepsAgreement == MatrixInv /\ MatricesAgree /\ [Next]_vars => MatricesAgree'
<1> SUFFICES ASSUME MatrixInv, MatricesAgree, [Next]_vars PROVE MatricesAgree'
  OBVIOUS
<1>1. CASE UNCHANGED vars
  BY <1>1 DEF MatricesAgree, WinnersWerePicked, vars
<1>2. ASSUME NEW player \in Players, NEW swapped \in SUBSET SameRound, CountPlayer(player, swapped)
      PROVE  MatricesAgree'
  <2> SUFFICES ASSUME NEW class \in Classes, NEW id \in Ids
               PROVE  /\ \A kind \in {"pick", "win"} :
                            PairsAgree(matrix'[<<<<kind, "C", class>>, id>>], matrix'[<<<<kind, "T", class>>, id>>])
                      /\ WinnersWerePicked(class, id)'
    BY DEF MatricesAgree
  <2>1. ASSUME NEW kind \in {"pick", "win"}
        PROVE  PairsAgree(matrix'[<<<<kind, "C", class>>, id>>], matrix'[<<<<kind, "T", class>>, id>>])
    BY <1>2, PlayerKeepsPairs DEF MatricesAgree
  <2>2. WinnersWerePicked(class, id)'
    BY <1>2, PlayerKeepsWinners DEF MatricesAgree
  <2> QED
    BY <2>1, <2>2
<1> QED
  BY <1>1, <1>2 DEF Next

LEMMA InitAgreement == Init => MatricesAgree
<1> SUFFICES ASSUME Init PROVE MatricesAgree
  OBVIOUS
<1>1. \A d \in Documents, id \in Ids : matrix[<<d, id>>] = Skeleton
  BY DEF Init
<1>2. \A cell \in Cells : Skeleton[cell] = 0
  BY DEF Skeleton, Cells
<1>3. \A x, y \in Cols : <<x, y>> \in Cells
  BY CellFacts
<1>4. PairsAgree(Skeleton, Skeleton)
  BY <1>2, <1>3 DEF PairsAgree
<1>5. \A kind \in {"pick", "win"}, type \in {"C", "T"}, class \in Classes : <<kind, type, class>> \in Documents
  BY DocumentFacts
<1>6. ASSUME NEW class \in Classes, NEW id \in Ids PROVE WinnersWerePicked(class, id)
  BY <1>1, <1>2, <1>5 DEF WinnersWerePicked
<1> QED
  BY <1>1, <1>4, <1>5, <1>6 DEF MatricesAgree

----------------------------------------------------------------------------
(* The shares of the cards *)

\* Who played the class, or won with it, and who of them picked the card.
Played(kind, class) == {p \in Players : p.class = class /\ (kind = "pick" \/ p.won)}
Pickers(kind, class, card) == {p \in Played(kind, class) : Has(p.log, card)}

\* Who of a sequence of players is among those.
Among(players, those) == {i \in DOMAIN players : players[i] \in those}

\* One player more is one of those more, or none.
LEMMA AmongGrows ==
    ASSUME NEW players \in Seq(Players), NEW player \in Players, NEW those
    PROVE  /\ IsFiniteSet(Among(players, those)) /\ Cardinality(Among(players, those)) \in Nat
           /\ Cardinality(Among(Append(players, player), those))
                = Cardinality(Among(players, those)) + (IF player \in those THEN 1 ELSE 0)
<1> DEFINE n == Len(players)
           S == Among(players, those)
           T == Among(Append(players, player), those)
<1>1. /\ n \in Nat /\ DOMAIN players = 1..n
      /\ DOMAIN Append(players, player) = 1..(n + 1)
      /\ \A i \in 1..n : Append(players, player)[i] = players[i]
      /\ Append(players, player)[n + 1] = player
  BY AppendProperties, LenProperties
<1>2. IsFiniteSet(1..n)
  BY <1>1, FS_Interval, 1 \in Int, n \in Int
<1>3. S \in SUBSET (1..n) /\ n + 1 \notin S
  BY <1>1 DEF Among
<1>4. IsFiniteSet(S) /\ Cardinality(S) \in Nat
  BY <1>2, <1>3, FS_Subset, FS_CardinalityType
<1>5. T = IF player \in those THEN S \cup {n + 1} ELSE S
  <2>1. \A i \in 1..(n + 1) : i \in 1..n \/ i = n + 1
    BY <1>1
  <2>2. 1..n \subseteq 1..(n + 1) /\ n + 1 \in 1..(n + 1)
    BY <1>1
  <2>3. \A i \in 1..n : i \in T <=> i \in S
    BY <1>1, <2>2 DEF Among
  <2>4. n + 1 \in T <=> player \in those
    BY <1>1, <2>2 DEF Among
  <2>5. T \subseteq 1..(n + 1)
    BY <1>1 DEF Among
  <2> HIDE DEF S, T, n
  <2>6. \A i : i \in T => i \in 1..n \/ i = n + 1
    BY <2>1, <2>5
  <2>7. \A i : i \in S => i \in 1..n
    BY <1>3
  <2>8. CASE player \in those
    <3>1. T = S \cup {n + 1}
      BY <2>3, <2>4, <2>6, <2>7, <2>8
    <3> QED
      BY <2>8, <3>1
  <2>9. CASE player \notin those
    <3>1. T = S
      BY <2>3, <2>4, <2>6, <2>7, <2>9
    <3> QED
      BY <2>9, <3>1
  <2> QED
    BY <2>8, <2>9
<1>6. Cardinality(S \cup {n + 1}) = Cardinality(S) + 1
  BY <1>3, <1>4, FS_AddElement
<1> HIDE DEF S, T, n
<1>7. Cardinality(T) = Cardinality(S) + (IF player \in those THEN 1 ELSE 0)
  BY <1>4, <1>5, <1>6
<1> QED
  BY <1>4, <1>7 DEF S, T

CardsAreShared ==
    \A kind \in {"pick", "win"}, class \in Classes, card \in Cols :
        matrix[<<<<kind, "C", class>>, <<Any, Any>>>>][<<card, card>>]
            = Cardinality(Among(counted, Pickers(kind, class, card)))

LEMMA NextKeepsShares == MatrixInv /\ CardsAreShared /\ [Next]_vars => CardsAreShared'
<1> SUFFICES ASSUME MatrixInv, CardsAreShared, [Next]_vars PROVE CardsAreShared'
  OBVIOUS
<1>1. CASE UNCHANGED vars
  BY <1>1 DEF CardsAreShared, vars
<1>2. ASSUME NEW player \in Players, NEW swapped \in SUBSET SameRound, CountPlayer(player, swapped)
      PROVE  CardsAreShared'
  <2> SUFFICES ASSUME NEW kind \in {"pick", "win"}, NEW class \in Classes, NEW card \in Cols
               PROVE  matrix'[<<<<kind, "C", class>>, <<Any, Any>>>>][<<card, card>>]
                         = Cardinality(Among(counted', Pickers(kind, class, card)))
    BY DEF CardsAreShared
  <2> DEFINE d == <<kind, "C", class>>
             id == <<Any, Any>>
             cell == <<card, card>>
  <2>1. d \in Documents /\ d[1] = kind /\ d[2] = "C" /\ d[3] = class
    BY DocumentFacts
  <2>2. id \in Ids /\ id \in MatrixIds(player)
    BY DEF Ids, MatrixIds
  <2>3. cell \in Cells /\ cell[1] = card /\ cell[2] = card
    BY CellFacts
  <2>4. matrix'[<<d, id>>][cell] = matrix[<<d, id>>][cell]
           + (IF CountedIn(d, id, player) THEN Added("C", player, swapped, cell) ELSE 0)
    BY <1>2, <2>1, <2>2, <2>3, PlayerAdds
  <2>5. Added("C", player, swapped, cell) = IF Has(player.log, card) THEN 1 ELSE 0
    BY <2>3, CoexistenceOfTwo DEF Added, Players
  <2>6. CountedIn(d, id, player) <=> class = player.class /\ (kind = "win" => player.won)
    BY <2>1, <2>2 DEF CountedIn, Concerns
  <2>7. matrix[<<d, id>>][cell] = Cardinality(Among(counted, Pickers(kind, class, card)))
    BY DEF CardsAreShared
  <2>8. counted \in Seq(Players) /\ counted' = Append(counted, player)
    BY <1>2 DEF MatrixInv, CountPlayer
  <2>9. /\ Cardinality(Among(counted, Pickers(kind, class, card))) \in Nat
        /\ Cardinality(Among(counted', Pickers(kind, class, card)))
             = Cardinality(Among(counted, Pickers(kind, class, card)))
               + (IF player \in Pickers(kind, class, card) THEN 1 ELSE 0)
    BY <2>8, AmongGrows
  <2> HIDE DEF d, id, cell
  <2>10. player \in Pickers(kind, class, card) <=> CountedIn(d, id, player) /\ Has(player.log, card)
    BY <2>6 DEF Pickers, Played
  <2>11. matrix'[<<d, id>>][cell] = Cardinality(Among(counted', Pickers(kind, class, card)))
    BY <2>4, <2>5, <2>7, <2>9, <2>10
  <2> QED
    BY <2>11 DEF d, id, cell
<1> QED
  BY <1>1, <1>2 DEF Next

LEMMA InitShares == Init => CardsAreShared
<1> SUFFICES ASSUME Init, NEW kind \in {"pick", "win"}, NEW class \in Classes, NEW card \in Cols
             PROVE  matrix[<<<<kind, "C", class>>, <<Any, Any>>>>][<<card, card>>]
                       = Cardinality(Among(counted, Pickers(kind, class, card)))
  BY DEF CardsAreShared
<1>1. <<kind, "C", class>> \in Documents /\ <<Any, Any>> \in Ids /\ <<card, card>> \in Cells
  BY DocumentFacts, CellFacts DEF Ids
<1>2. matrix[<<<<kind, "C", class>>, <<Any, Any>>>>][<<card, card>>] = 0
  BY <1>1 DEF Init, Skeleton, Cells
<1>3. Among(counted, Pickers(kind, class, card)) = {}
  BY DEF Init, Among
<1> QED
  BY <1>2, <1>3, FS_EmptySet

LEMMA AmongPlayers ==
    ASSUME MatrixInv
    PROVE  \A i \in DOMAIN counted : counted[i] \in Players
BY LenProperties, ElementOfSeq DEF MatrixInv

LEMMA DomainIsFinite ==
    ASSUME MatrixInv
    PROVE  IsFiniteSet(DOMAIN counted)
<1>1. DOMAIN counted = 1..Len(counted) /\ Len(counted) \in Nat
  BY LenProperties DEF MatrixInv
<1> QED
  BY <1>1, FS_Interval, 1 \in Int, Len(counted) \in Int

LEMMA SharesOfCards == MatrixInv /\ CardsAreShared => CardSharesCountPlayers
<1> SUFFICES ASSUME MatrixInv, CardsAreShared,
                    NEW kind \in {"pick", "win"}, NEW class \in Classes, NEW card \in Cols
             PROVE  CardUp(kind, class, card) =
                      Cardinality({i \in DOMAIN counted :
                                     /\ counted[i].class = class /\ (kind = "pick" \/ counted[i].won)
                                     /\ \E j \in Positions : counted[i].log[j] = card})
  BY DEF CardSharesCountPlayers, CountedAs
<1>1. Among(counted, Pickers(kind, class, card)) =
         {i \in DOMAIN counted : /\ counted[i].class = class /\ (kind = "pick" \/ counted[i].won)
                                 /\ \E j \in Positions : counted[i].log[j] = card}
  BY AmongPlayers DEF Among, Pickers, Played, Has
<1> QED
  BY <1>1 DEF CardsAreShared, CardUp, Total

----------------------------------------------------------------------------
(* The shares of the classes *)

LEMMA ColsFinite == IsFiniteSet(Cols)
<1>1. Pool - 1 \in Int
  BY Sizes
<1> QED
  BY <1>1, FS_Interval, 0 \in Int DEF Cols

\* A player's cards are as many as the positions.
LEMMA CardsOfAPlayer ==
    ASSUME NEW log \in Logs
    PROVE  SumFunction([i \in Cols |-> IF Has(log, i) THEN 1 ELSE 0]) = PerPlayer
<1> DEFINE f == [i \in Cols |-> Cardinality({p \in Positions : log[p] = i})]
<1>1. \A p \in Positions : log[p] \in Cols
  BY LogsAssumption
<1>2. SumFunction(f) = Cardinality({p \in Positions : log[p] \in Cols})
  BY PositionsFinite, ColsFinite, SumCounts
<1>3. {p \in Positions : log[p] \in Cols} = 1..PerPlayer
  BY <1>1 DEF Positions
<1>4. Cardinality(1..PerPlayer) = PerPlayer
  <2>1. PerPlayer \in Nat
    BY Sizes
  <2>2. Cardinality(1..PerPlayer) = IF 1 > PerPlayer THEN 0 ELSE PerPlayer - 1 + 1
    BY <2>1, FS_Interval, 1 \in Int, PerPlayer \in Int
  <2> QED
    BY <2>1, <2>2
<1>5. \A i \in Cols : Cardinality({p \in Positions : log[p] = i}) = IF Has(log, i) THEN 1 ELSE 0
  <2> SUFFICES ASSUME NEW i \in Cols
               PROVE  Cardinality({p \in Positions : log[p] = i}) = IF Has(log, i) THEN 1 ELSE 0
    OBVIOUS
  <2>1. CASE Has(log, i)
    <3>1. PICK p \in Positions : log[p] = i
      BY <2>1 DEF Has
    <3>2. {q \in Positions : log[q] = i} = {p}
      BY <3>1, CardsComeOnce
    <3> QED
      BY <2>1, <3>2, FS_Singleton
  <2>2. CASE ~Has(log, i)
    <3>1. {p \in Positions : log[p] = i} = {}
      BY <2>2 DEF Has
    <3> QED
      BY <2>2, <3>1, FS_EmptySet
  <2> QED
    BY <2>1, <2>2
<1>6. f = [i \in Cols |-> IF Has(log, i) THEN 1 ELSE 0]
  BY <1>5
<1> QED
  BY <1>2, <1>3, <1>4, <1>6

\* The diagonal of a class has PerPlayer cells for each player of the class.
DiagonalsAreFull ==
    \A kind \in {"pick", "win"}, class \in Classes :
        Diagonal(Total(kind, "C", class)) = PerPlayer * Cardinality(Among(counted, Played(kind, class)))

LEMMA NextKeepsDiagonals == MatrixInv /\ DiagonalsAreFull /\ [Next]_vars => DiagonalsAreFull'
<1> SUFFICES ASSUME MatrixInv, DiagonalsAreFull, [Next]_vars PROVE DiagonalsAreFull'
  OBVIOUS
<1>1. CASE UNCHANGED vars
  BY <1>1 DEF DiagonalsAreFull, Total, vars
<1>2. ASSUME NEW player \in Players, NEW swapped \in SUBSET SameRound, CountPlayer(player, swapped)
      PROVE  DiagonalsAreFull'
  <2> SUFFICES ASSUME NEW kind \in {"pick", "win"}, NEW class \in Classes
               PROVE  Diagonal(matrix'[<<<<kind, "C", class>>, <<Any, Any>>>>])
                         = PerPlayer * Cardinality(Among(counted', Played(kind, class)))
    BY DEF DiagonalsAreFull, Total
  <2> DEFINE d == <<kind, "C", class>>
             id == <<Any, Any>>
             f == [i \in Cols |-> matrix[<<d, id>>][<<i, i>>]]
             h == [i \in Cols |-> IF player \in Played(kind, class) /\ Has(player.log, i) THEN 1 ELSE 0]
             k == [i \in Cols |-> matrix'[<<d, id>>][<<i, i>>]]
             n == Cardinality(Among(counted, Played(kind, class)))
  <2>1. d \in Documents /\ d[1] = kind /\ d[2] = "C" /\ d[3] = class
    BY DocumentFacts
  <2>2. id \in Ids /\ id \in MatrixIds(player)
    BY DEF Ids, MatrixIds
  <2>3. CountedIn(d, id, player) <=> player \in Played(kind, class)
    BY <2>1, <2>2 DEF CountedIn, Concerns, Played
  <2>4. \A i \in Cols : <<i, i>> \in Cells /\ <<i, i>>[1] = i /\ <<i, i>>[2] = i
    BY CellFacts
  <2>5. player.log \in Logs
    BY DEF Players
  <2>6. \A i \in Cols : Added("C", player, swapped, <<i, i>>) = IF Has(player.log, i) THEN 1 ELSE 0
    BY <2>4, <2>5, CoexistenceOfTwo DEF Added
  <2>7. matrix[<<d, id>>] \in [Cells -> Nat]
    BY <2>1, <2>2 DEF MatrixInv
  <2>8. f \in [Cols -> Nat] /\ h \in [Cols -> Nat]
    BY <2>4, <2>7
  <2>9. ASSUME NEW i \in Cols PROVE k[i] = f[i] + h[i]
    <3>1. matrix'[<<d, id>>][<<i, i>>] = matrix[<<d, id>>][<<i, i>>]
             + (IF CountedIn(d, id, player) THEN Added("C", player, swapped, <<i, i>>) ELSE 0)
      BY <1>2, <2>1, <2>2, <2>4, PlayerAdds
    <3> HIDE DEF d, id
    <3>2. CASE player \in Played(kind, class)
      BY <2>3, <2>6, <3>1, <3>2
    <3>3. CASE player \notin Played(kind, class)
      BY <2>3, <3>1, <3>3
    <3> QED
      BY <3>2, <3>3
  <2>10. k = [i \in Cols |-> f[i] + h[i]]
    BY <2>9
  <2>11. SumFunction(k) = SumFunction(f) + SumFunction(h)
    <3> HIDE DEF f, h, k
    <3> QED
      BY <2>8, <2>10, ColsFinite, SumAdds
  <2>12. SumFunction(h) = IF player \in Played(kind, class) THEN PerPlayer ELSE 0
    <3>1. CASE player \in Played(kind, class)
      <4>1. h = [i \in Cols |-> IF Has(player.log, i) THEN 1 ELSE 0]
        BY <3>1
      <4> QED
        BY <2>5, <3>1, <4>1, CardsOfAPlayer
    <3>2. CASE player \notin Played(kind, class)
      <4>1. h = [i \in Cols |-> 0]
        BY <3>2
      <4> QED
        BY <3>2, <4>1, ColsFinite, SumOfNothing
    <3> QED
      BY <3>1, <3>2
  <2>13. SumFunction(f) = PerPlayer * n
    BY DEF DiagonalsAreFull, Diagonal, Total
  <2>14. /\ n \in Nat
         /\ Cardinality(Among(counted', Played(kind, class)))
              = n + (IF player \in Played(kind, class) THEN 1 ELSE 0)
    BY <1>2, AmongGrows DEF MatrixInv, CountPlayer
  <2>15. SumFunction(k) = PerPlayer * Cardinality(Among(counted', Played(kind, class)))
    <3> HIDE DEF f, h, k, n
    <3>1. PerPlayer \in Nat /\ PerPlayer * (n + 1) = PerPlayer * n + PerPlayer /\ PerPlayer * n \in Nat
      BY <2>14, Sizes
    <3>2. CASE player \in Played(kind, class)
      BY <2>11, <2>12, <2>13, <2>14, <3>1, <3>2
    <3>3. CASE player \notin Played(kind, class)
      BY <2>11, <2>12, <2>13, <2>14, <3>1, <3>3
    <3> QED
      BY <3>2, <3>3
  <2> QED
    BY <2>15 DEF Diagonal
<1> QED
  BY <1>1, <1>2 DEF Next

LEMMA InitDiagonals == Init => DiagonalsAreFull
<1> SUFFICES ASSUME Init, NEW kind \in {"pick", "win"}, NEW class \in Classes
             PROVE  Diagonal(Total(kind, "C", class)) = PerPlayer * Cardinality(Among(counted, Played(kind, class)))
  BY DEF DiagonalsAreFull
<1>1. <<kind, "C", class>> \in Documents /\ <<Any, Any>> \in Ids
  BY DocumentFacts DEF Ids
<1>2. Total(kind, "C", class) = Skeleton
  BY <1>1 DEF Init, Total
<1>3. [i \in Cols |-> Skeleton[<<i, i>>]] = [i \in Cols |-> 0]
  BY CellFacts DEF Skeleton, Cells
<1>4. Diagonal(Skeleton) = 0
  BY <1>3, ColsFinite, SumOfNothing DEF Diagonal
<1>5. Among(counted, Played(kind, class)) = {}
  BY DEF Init, Among
<1>6. PerPlayer * 0 = 0
  BY Sizes
<1> QED
  BY <1>2, <1>4, <1>5, <1>6, FS_EmptySet

\* The division by PerPlayer is exact.
LEMMA CalculateCounts ==
    ASSUME MatrixInv, DiagonalsAreFull, NEW kind \in {"pick", "win"}, NEW class \in Classes
    PROVE  /\ Calculate(kind, class) = Cardinality(Among(counted, Played(kind, class)))
           /\ Calculate(kind, class) \in Nat
           /\ Among(counted, Played(kind, class))
                = {i \in DOMAIN counted : counted[i].class = class /\ (kind = "pick" \/ counted[i].won)}
<1>1. PICK n : n = Cardinality(Among(counted, Played(kind, class)))
  OBVIOUS
<1>2. n \in Nat
  BY <1>1, DomainIsFinite, FS_Subset, FS_CardinalityType DEF Among
<1>3. PerPlayer \in Nat \ {0}
  BY Sizes DEF PerPlayer, Rounds
<1>4. (PerPlayer * n) \div PerPlayer = n
  BY <1>2, <1>3
<1>5. Calculate(kind, class) = n
  BY <1>1, <1>4 DEF Calculate, DiagonalsAreFull
<1>6. Among(counted, Played(kind, class))
         = {i \in DOMAIN counted : counted[i].class = class /\ (kind = "pick" \/ counted[i].won)}
  BY AmongPlayers DEF Among, Played
<1> QED
  BY <1>1, <1>2, <1>5, <1>6

LEMMA SharesOfClasses == MatrixInv /\ CardsAreShared /\ DiagonalsAreFull => SharesCountPlayers
<1> SUFFICES ASSUME MatrixInv, CardsAreShared, DiagonalsAreFull PROVE SharesCountPlayers
  OBVIOUS
<1> DEFINE Playing(kind, class) ==
             {i \in DOMAIN counted : counted[i].class = class /\ (kind = "pick" \/ counted[i].won)}
<1>1. \A kind \in {"pick", "win"}, class \in Classes :
         Calculate(kind, class) = Cardinality(Playing(kind, class)) /\ Calculate(kind, class) \in Nat
  BY CalculateCounts
<1>2. ASSUME NEW kind \in {"pick", "win"}
      PROVE  ClassDown(kind) = Cardinality({i \in DOMAIN counted : kind = "pick" \/ counted[i].won})
  <2> DEFINE A == {i \in DOMAIN counted : kind = "pick" \/ counted[i].won}
             key == [i \in A |-> counted[i].class]
             f == [c \in Classes |-> Cardinality({i \in A : key[i] = c})]
  <2>1. IsFiniteSet(A)
    BY DomainIsFinite, FS_Subset
  <2>2. SumFunction(f) = Cardinality({i \in A : key[i] \in Classes})
    <3>1. IsFiniteSet(Classes)
      BY CodesAssumption
    <3> HIDE DEF A, key
    <3> QED
      BY <2>1, <3>1, SumCounts
  <2>3. {i \in A : key[i] \in Classes} = A
    BY AmongPlayers DEF Players
  <2>4. ASSUME NEW c \in Classes PROVE {i \in A : key[i] = c} = Playing(kind, c)
    OBVIOUS
  <2>5. f = [c \in Classes |-> Calculate(kind, c)]
    <3> HIDE DEF A, key, Playing
    <3> QED
      BY <1>1, <2>4
  <2> QED
    BY <2>2, <2>3, <2>5 DEF ClassDown
<1>3. ASSUME NEW kind \in {"pick", "win"}, NEW class \in Classes, class \in Shared
      PROVE  ClassUp(kind, class) = Cardinality(Playing(kind, class))
  <2> DEFINE f == [c \in Classes |-> IF c = class THEN Calculate(kind, class) ELSE 0]
  <2>1. IsFiniteSet(Classes)
    BY CodesAssumption
  <2>2. SumFunction(f) = IF class \in Classes THEN Calculate(kind, class) ELSE 0
    <3>1. PICK n \in Nat : n = Calculate(kind, class)
      BY <1>1
    <3> QED
      BY <2>1, <3>1, SumOfOne
  <2>3. f = [c \in Classes |-> IF Same(class, c) THEN Calculate(kind, c) ELSE 0]
    BY <1>3 DEF Same
  <2> QED
    BY <1>1, <2>2, <2>3 DEF ClassUp
<1>4. ASSUME NEW class \in Classes
      PROVE  CardDown(class) = Cardinality({i \in DOMAIN counted : counted[i].class = class})
  <2>1. CardDown(class) = Calculate("pick", class)
    BY DEF CardDown, Calculate
  <2>2. Playing("pick", class) = {i \in DOMAIN counted : counted[i].class = class}
    OBVIOUS
  <2> QED
    BY <1>1, <2>1, <2>2
<1> QED
  BY <1>2, <1>3, <1>4, SharesOfCards DEF SharesCountPlayers, CountedAs

----------------------------------------------------------------------------
(* Totals *)

\* One term more by c, and the sum is.
LEMMA SumGrows ==
    ASSUME NEW S, IsFiniteSet(S), NEW f \in [S -> Nat], NEW a \in S, NEW c \in Nat,
           NEW k, k = [x \in S |-> f[x] + (IF x = a THEN c ELSE 0)]
    PROVE  SumFunction(k) = SumFunction(f) + c
<1> DEFINE h == [x \in S |-> IF x = a THEN c ELSE 0]
<1>1. h \in [S -> Nat] /\ k = [x \in S |-> f[x] + h[x]]
  OBVIOUS
<1>2. SumFunction(h) = c
  BY SumOfOne
<1> HIDE DEF h
<1> QED
  BY <1>1, <1>2, SumAdds

OverCounts(d, m, cell) == [n \in Counts |-> matrix[<<d, <<m, n>>>>][cell]]
OverMaps(d, cell) == [m \in Maps |-> matrix[<<d, <<m, Any>>>>][cell]]

TotalsOf(d, cell) ==
    /\ \A m \in Maps \cup {Any} : matrix[<<d, <<m, Any>>>>][cell] = SumFunction(OverCounts(d, m, cell))
    /\ matrix[<<d, <<Any, Any>>>>][cell] = SumFunction(OverMaps(d, cell))

\* The transitions from a card are in the diagonal.
RowsOf(d, id) ==
    \A x \in Cols : matrix[<<d, id>>][<<x, x>>] =
                       SumFunction([y \in Cols \ {x} |-> matrix[<<d, id>>][<<x, y>>]])

Totals ==
    \A d \in Documents :
        /\ \A cell \in Cells : TotalsOf(d, cell)
        /\ d[2] = "T" => \A id \in Ids : RowsOf(d, id)

LEMMA NoCodeIsAny == Any \notin Maps /\ Any \notin Counts
BY CodesAssumption DEF Any

LEMMA PlayerKeepsTotals ==
    ASSUME MatrixInv, NEW player \in Players, NEW swapped \in SUBSET SameRound,
           CountPlayer(player, swapped),
           NEW d \in Documents, NEW cell \in Cells, TotalsOf(d, cell)
    PROVE  TotalsOf(d, cell)'
<1>1. PICK c \in Nat : c = IF Concerns(d, player) THEN Added(d[2], player, swapped, cell) ELSE 0
  BY AddedIsCounted
<1>2. player.map \in Maps /\ player.count \in Counts
  BY DEF Players
<1>3. \A id \in Ids : matrix[<<d, id>>] \in [Cells -> Nat]
  BY DEF MatrixInv
<1>4. ASSUME NEW m \in Maps \cup {Any}, NEW n \in Counts \cup {Any}
      PROVE  /\ matrix[<<d, <<m, n>>>>][cell] \in Nat
             /\ matrix'[<<d, <<m, n>>>>][cell] = matrix[<<d, <<m, n>>>>][cell]
                  + (IF m \in {player.map, Any} /\ n \in {player.count, Any} THEN c ELSE 0)
  <2>1. <<m, n>> \in Ids
    BY DEF Ids
  <2>2. matrix'[<<d, <<m, n>>>>][cell] = matrix[<<d, <<m, n>>>>][cell]
           + (IF CountedIn(d, <<m, n>>, player) THEN Added(d[2], player, swapped, cell) ELSE 0)
    BY <2>1, PlayerAdds
  <2>3. CountedIn(d, <<m, n>>, player) <=>
           Concerns(d, player) /\ m \in {player.map, Any} /\ n \in {player.count, Any}
    BY DEF CountedIn, MatrixIds
  <2>4. (IF CountedIn(d, <<m, n>>, player) THEN Added(d[2], player, swapped, cell) ELSE 0)
          = (IF m \in {player.map, Any} /\ n \in {player.count, Any} THEN c ELSE 0)
    BY <1>1, <2>3
  <2> QED
    BY <1>3, <2>1, <2>2, <2>4
<1>5. ASSUME NEW m \in Maps \cup {Any}
      PROVE  matrix'[<<d, <<m, Any>>>>][cell] = SumFunction([n \in Counts |-> matrix'[<<d, <<m, n>>>>][cell]])
  <2> DEFINE f == OverCounts(d, m, cell)
             k == [n \in Counts |-> matrix'[<<d, <<m, n>>>>][cell]]
  <2>1. PICK e \in Nat : e = IF m \in {player.map, Any} THEN c ELSE 0
    OBVIOUS
  <2>2. f \in [Counts -> Nat] /\ IsFiniteSet(Counts)
    BY <1>4, CodesAssumption DEF OverCounts
  <2>3. k = [n \in Counts |-> f[n] + (IF n = player.count THEN e ELSE 0)]
    <3>1. \A n \in Counts : k[n] = f[n] + (IF n = player.count THEN e ELSE 0)
      BY <1>4, <2>1, NoCodeIsAny DEF OverCounts
    <3> QED
      BY <3>1
  <2>4. SumFunction(k) = SumFunction(f) + e
    <3> HIDE DEF f, k
    <3> QED
      BY <1>2, <2>2, <2>3, SumGrows
  <2>5. matrix'[<<d, <<m, Any>>>>][cell] = matrix[<<d, <<m, Any>>>>][cell] + e
    BY <1>4, <2>1
  <2>6. matrix[<<d, <<m, Any>>>>][cell] = SumFunction(f)
    BY DEF TotalsOf
  <2> QED
    BY <2>4, <2>5, <2>6
<1>6. matrix'[<<d, <<Any, Any>>>>][cell] = SumFunction([m \in Maps |-> matrix'[<<d, <<m, Any>>>>][cell]])
  <2> DEFINE f == OverMaps(d, cell)
             k == [m \in Maps |-> matrix'[<<d, <<m, Any>>>>][cell]]
  <2>1. f \in [Maps -> Nat] /\ IsFiniteSet(Maps)
    BY <1>4, CodesAssumption DEF OverMaps
  <2>2. k = [m \in Maps |-> f[m] + (IF m = player.map THEN c ELSE 0)]
    <3>1. \A m \in Maps : k[m] = f[m] + (IF m = player.map THEN c ELSE 0)
      BY <1>4, NoCodeIsAny DEF OverMaps
    <3> QED
      BY <3>1
  <2>3. SumFunction(k) = SumFunction(f) + c
    <3>1. PICK a \in Maps : a = player.map
      BY <1>2
    <3>2. k = [m \in Maps |-> f[m] + (IF m = a THEN c ELSE 0)]
      BY <2>2, <3>1
    <3> HIDE DEF f, k
    <3> QED
      BY <2>1, <3>2, SumGrows
  <2>4. matrix'[<<d, <<Any, Any>>>>][cell] = matrix[<<d, <<Any, Any>>>>][cell] + c
    BY <1>4
  <2>5. matrix[<<d, <<Any, Any>>>>][cell] = SumFunction(f)
    BY DEF TotalsOf
  <2> QED
    BY <2>3, <2>4, <2>5
<1> QED
  BY <1>5, <1>6 DEF TotalsOf, OverCounts, OverMaps

\* What a player adds to the row of a card.
LEMMA TransitionsFromACard ==
    ASSUME NEW log \in Logs, NEW swapped \in SUBSET SameRound, NEW x \in Cols
    PROVE  TransitionXY(log, Steps(swapped), x, x) =
              SumFunction([y \in Cols \ {x} |-> TransitionXY(log, Steps(swapped), x, y)])
<1> DEFINE A == {s \in Steps(swapped) : log[s[1]] = x}
           E(y) == {s \in Steps(swapped) : log[s[1]] = x /\ log[s[2]] = y}
           key == [s \in A |-> log[s[2]]]
           f == [y \in Cols \ {x} |-> Cardinality({s \in A : key[s] = y})]
<1>1. x # Pool
  BY Sizes DEF Cols
<1>2. \A s \in Steps(swapped) : s[1] \in Positions /\ s[2] \in Positions /\ s[1] # s[2]
  <2>1. \A s \in SameRound : /\ s[1] \in Positions /\ s[2] \in Positions
                             /\ s[1] \in Nat /\ s[2] \in Nat /\ s[1] < s[2]
    BY PositionsFinite DEF SameRound
  <2>2. ASSUME NEW s \in Positions \X Positions, s[1] < s[2] PROVE s[1] # s[2]
    <3>1. s[1] \in Nat /\ s[2] \in Nat
      BY PositionsFinite
    <3> QED
      BY <2>2, <3>1
  <2>3. \A s \in swapped : s[1] # s[2]
    BY <2>1
  <2> QED
    BY <2>1, <2>2, <2>3 DEF Steps
<1>3. \A s \in A : log[s[2]] \in Cols \ {x}
  BY <1>2, LogsAssumption
<1>4. A \in SUBSET (Positions \X Positions) /\ \A y : E(y) \in SUBSET (Positions \X Positions)
  BY StepsArePairs
<1>5. IsFiniteSet(A) /\ Cardinality(A) \in Nat /\ \A y : Cardinality(E(y)) \in Nat
  BY <1>4, PairsAreCounted
<1>6. SumFunction(f) = Cardinality({s \in A : key[s] \in Cols \ {x}})
  <2>1. IsFiniteSet(Cols \ {x})
    BY ColsFinite, FS_Subset
  <2> HIDE DEF A, key
  <2> QED
    BY <1>5, <2>1, SumCounts
<1>7. {s \in A : key[s] \in Cols \ {x}} = A
  BY <1>3
<1>8. TransitionXY(log, Steps(swapped), x, x) = Cardinality(A)
  <2>1. E(x) = {}
    BY <1>3
  <2>2. Cardinality(E(x)) = 0
    BY <2>1, FS_EmptySet
  <2>3. TransitionXY(log, Steps(swapped), x, x) = Cardinality(E(x)) + Cardinality(A) + 0
    BY <1>1 DEF TransitionXY
  <2> HIDE DEF A, E
  <2> QED
    BY <1>5, <2>2, <2>3
<1>9. ASSUME NEW y \in Cols \ {x} PROVE TransitionXY(log, Steps(swapped), x, y) = f[y]
  <2>1. TransitionXY(log, Steps(swapped), x, y) = Cardinality(E(y)) + 0 + 0
    BY <1>1 DEF TransitionXY
  <2>2. {s \in A : key[s] = y} = E(y)
    OBVIOUS
  <2>3. f[y] = Cardinality(E(y))
    BY <2>2
  <2> HIDE DEF E, f
  <2> QED
    BY <1>5, <2>1, <2>3
<1>10. f = [y \in Cols \ {x} |-> TransitionXY(log, Steps(swapped), x, y)]
  <2>1. f = [y \in Cols \ {x} |-> f[y]]
    OBVIOUS
  <2> HIDE DEF f
  <2> QED
    BY <1>9, <2>1
<1> QED
  BY <1>6, <1>7, <1>8, <1>10

LEMMA PlayerKeepsRows ==
    ASSUME MatrixInv, NEW player \in Players, NEW swapped \in SUBSET SameRound,
           CountPlayer(player, swapped),
           NEW d \in Documents, d[2] = "T", NEW id \in Ids, RowsOf(d, id)
    PROVE  RowsOf(d, id)'
<1> SUFFICES ASSUME NEW x \in Cols
             PROVE  matrix'[<<d, id>>][<<x, x>>] =
                       SumFunction([y \in Cols \ {x} |-> matrix'[<<d, id>>][<<x, y>>]])
  BY DEF RowsOf
<1> DEFINE c(y) == IF CountedIn(d, id, player) THEN Added("T", player, swapped, <<x, y>>) ELSE 0
           f == [y \in Cols \ {x} |-> matrix[<<d, id>>][<<x, y>>]]
           h == [y \in Cols \ {x} |-> c(y)]
           k == [y \in Cols \ {x} |-> matrix'[<<d, id>>][<<x, y>>]]
<1>1. \A y \in Cols : <<x, y>> \in Cells /\ <<x, y>>[1] = x /\ <<x, y>>[2] = y
  BY CellFacts
<1>2. matrix[<<d, id>>] \in [Cells -> Nat]
  BY DEF MatrixInv
<1>3. \A y \in Cols : c(y) \in Nat
  BY AddedIsCounted
<1>4. \A y \in Cols : matrix'[<<d, id>>][<<x, y>>] = matrix[<<d, id>>][<<x, y>>] + c(y)
  BY <1>1, PlayerAdds
<1>5. f \in [Cols \ {x} -> Nat] /\ h \in [Cols \ {x} -> Nat]
  BY <1>1, <1>2, <1>3
<1>6. k = [y \in Cols \ {x} |-> f[y] + h[y]]
  <2>1. \A y \in Cols \ {x} : k[y] = f[y] + h[y]
    <3> HIDE DEF c
    <3> QED
      BY <1>4
  <2> QED
    BY <2>1
<1>7. SumFunction(k) = SumFunction(f) + SumFunction(h)
  <2>1. IsFiniteSet(Cols \ {x})
    BY ColsFinite, FS_Subset
  <2> HIDE DEF f, h, k
  <2> QED
    BY <1>5, <1>6, <2>1, SumAdds
<1>8. SumFunction(h) = c(x)
  <2>1. CASE CountedIn(d, id, player)
    <3>1. player.log \in Logs
      BY DEF Players
    <3>2. \A y \in Cols : c(y) = TransitionXY(player.log, Steps(swapped), x, y)
      BY <1>1, <2>1 DEF Added
    <3>3. h = [y \in Cols \ {x} |-> TransitionXY(player.log, Steps(swapped), x, y)]
      <4> HIDE DEF c
      <4> QED
        BY <3>2
    <3> HIDE DEF h, c
    <3> QED
      BY <3>1, <3>2, <3>3, TransitionsFromACard
  <2>2. CASE ~CountedIn(d, id, player)
    <3>1. h = [y \in Cols \ {x} |-> 0] /\ c(x) = 0
      BY <2>2
    <3>2. IsFiniteSet(Cols \ {x})
      BY ColsFinite, FS_Subset
    <3> HIDE DEF h, c
    <3> QED
      BY <3>1, <3>2, SumOfNothing
  <2> QED
    BY <2>1, <2>2
<1>9. matrix[<<d, id>>][<<x, x>>] = SumFunction(f)
  BY DEF RowsOf
<1>10. matrix'[<<d, id>>][<<x, x>>] = SumFunction(k)
  <2> HIDE DEF f, h, k, c
  <2> QED
    BY <1>4, <1>7, <1>8, <1>9
<1> QED
  BY <1>10

LEMMA NextKeepsTotals == MatrixInv /\ Totals /\ [Next]_vars => Totals'
<1> SUFFICES ASSUME MatrixInv, Totals, [Next]_vars PROVE Totals'
  OBVIOUS
<1>1. CASE UNCHANGED vars
  <2>1. matrix' = matrix
    BY <1>1 DEF vars
  <2>2. \A d \in Documents, cell \in Cells : TotalsOf(d, cell)' <=> TotalsOf(d, cell)
    BY <2>1 DEF TotalsOf, OverCounts, OverMaps
  <2>3. \A d \in Documents, id \in Ids : RowsOf(d, id)' <=> RowsOf(d, id)
    BY <2>1 DEF RowsOf
  <2> QED
    BY <2>2, <2>3 DEF Totals
<1>2. ASSUME NEW player \in Players, NEW swapped \in SUBSET SameRound, CountPlayer(player, swapped)
      PROVE  Totals'
  <2> SUFFICES ASSUME NEW d \in Documents
               PROVE  /\ \A cell \in Cells : TotalsOf(d, cell)'
                      /\ d[2] = "T" => \A id \in Ids : RowsOf(d, id)'
    BY DEF Totals
  <2>1. ASSUME NEW cell \in Cells PROVE TotalsOf(d, cell)'
    BY <1>2, PlayerKeepsTotals DEF Totals
  <2>2. ASSUME d[2] = "T", NEW id \in Ids PROVE RowsOf(d, id)'
    BY <1>2, <2>2, PlayerKeepsRows DEF Totals
  <2> QED
    BY <2>1, <2>2
<1> QED
  BY <1>1, <1>2 DEF Next

LEMMA InitTotals == Init => Totals
<1> SUFFICES ASSUME Init, NEW d \in Documents
             PROVE  /\ \A cell \in Cells : TotalsOf(d, cell)
                    /\ d[2] = "T" => \A id \in Ids : RowsOf(d, id)
  BY DEF Totals
<1>1. \A id \in Ids, cell \in Cells : matrix[<<d, id>>][cell] = 0
  BY DEF Init, Skeleton, Cells
<1>2. ASSUME NEW cell \in Cells PROVE TotalsOf(d, cell)
  <2>1. \A m \in Maps \cup {Any}, n \in Counts \cup {Any} : matrix[<<d, <<m, n>>>>][cell] = 0
    BY <1>1 DEF Ids
  <2>2. OverMaps(d, cell) = [m \in Maps |-> 0]
    BY <2>1 DEF OverMaps
  <2>3. \A m \in Maps \cup {Any} : OverCounts(d, m, cell) = [n \in Counts |-> 0]
    BY <2>1 DEF OverCounts
  <2>4. SumFunction([m \in Maps |-> 0]) = 0 /\ SumFunction([n \in Counts |-> 0]) = 0
    BY CodesAssumption, SumOfNothing
  <2> QED
    BY <2>1, <2>2, <2>3, <2>4 DEF TotalsOf
<1>3. ASSUME NEW id \in Ids PROVE RowsOf(d, id)
  <2> SUFFICES ASSUME NEW x \in Cols
               PROVE  matrix[<<d, id>>][<<x, x>>] = SumFunction([y \in Cols \ {x} |-> matrix[<<d, id>>][<<x, y>>]])
    BY DEF RowsOf
  <2>1. \A y \in Cols : matrix[<<d, id>>][<<x, y>>] = 0
    BY <1>1, CellFacts
  <2>2. [y \in Cols \ {x} |-> matrix[<<d, id>>][<<x, y>>]] = [y \in Cols \ {x} |-> 0]
    BY <2>1
  <2>3. SumFunction([y \in Cols \ {x} |-> 0]) = 0
    BY ColsFinite, FS_Subset, SumOfNothing
  <2> QED
    BY <2>1, <2>2, <2>3
<1> QED
  BY <1>2, <1>3

----------------------------------------------------------------------------
(* The theorems *)

\* The cells of all matrices are numbers, whatever games insertData counts.
THEOREM MatricesCount == Spec => []MatrixInv
BY InitMatrix, NextKeepsMatrix, PTL DEF Spec

\* generateTransitionXY and generateCoexistenceXY agree on every pair of cards, for
\* every fall of the coins, every size of a pool and of a round, and every number of
\* players; and no cell of the winners is larger than that of the players.
THEOREM MatricesAgreeAlways == Spec => []TransitionsAreCoexistences
<1>1. MatricesAgree => TransitionsAreCoexistences
  BY DEF MatricesAgree, PairsAgree, WinnersWerePicked, TransitionsAreCoexistences, Cells
<1>2. Spec => []MatricesAgree
  BY MatricesCount, InitAgreement, NextKeepsAgreement, PTL DEF Spec
<1> QED
  BY <1>1, <1>2, PTL

\* MasterHintMatrixService and MasterHintMatrixCardService divide numbers of players:
\* the diagonal of the total matrix of a class is nine for each of its players, so that
\* its ninth is their number, and the sum over the classes is the number of all; and
\* the diagonal cell of a card counts the players who picked it.
THEOREM SharesArePlayers == Spec => []SharesCountPlayers
<1>1. Spec => [](MatrixInv /\ CardsAreShared /\ DiagonalsAreFull)
  BY MatricesCount, InitShares, NextKeepsShares, InitDiagonals, NextKeepsDiagonals, PTL DEF Spec
<1> QED
  BY <1>1, SharesOfClasses, PTL

\* A matrix that generateMatrixId names with -1 is the sum of those it stands for, and
\* the diagonal of a transition matrix the sum of its row.
THEOREM TotalsAreAlwaysSums == Spec => []TotalsAreSums
<1>1. Totals => TotalsAreSums
  BY DEF Totals, TotalsOf, RowsOf, OverCounts, OverMaps, TotalsAreSums, Cells
<1>2. Spec => []Totals
  BY MatricesCount, InitTotals, NextKeepsTotals, PTL DEF Spec
<1> QED
  BY <1>1, <1>2, PTL
=============================================================================
