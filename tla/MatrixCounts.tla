---------------------------- MODULE MatrixCounts ----------------------------
(***************************************************************************)
(* What the indicator counts, and what the master hints make of it: the    *)
(* two kinds of matrix of GamerHintMatrixSubService, filled with the cards *)
(* of one player after the other, and the shares of MasterHintMatrixService*)
(* and MasterHintMatrixCardService.  A card is its index in the pool of    *)
(* its class.  A player whose cards, class or map are not in the pools is  *)
(* skipped with the rest of the game, and a player of class 100, the code  *)
(* of faulty logs, alone; both before anything of them is counted.         *)
(***************************************************************************)
EXTENDS Integers, Sequences, FiniteSetsExt

CONSTANTS
    Classes,         \* class codes
    Maps, Counts,    \* map ids and numbers of players
    Pool,            \* number of cards in the pool of a class
    RoundSize,       \* cards a player picks in a round: 3
    Logs,            \* round1Set, round2Set and round3Set, one after the other
    MaxPlayers       \* bound on the players counted

Rounds == 3
PerPlayer == Rounds * RoundSize      \* the 9 of the code
Positions == 1..PerPlayer
Cols == 0..(Pool - 1)
Rows == 0..Pool                      \* the last row is for "no card yet"
Any == -1
Ids == (Maps \cup {Any}) \X (Counts \cup {Any})
Documents == {"pick", "win"} \X {"C", "T"} \X Classes
Players == [class : Classes, map : Maps, count : Counts, log : Logs, won : BOOLEAN]

\* Nobody picks a card twice: the game deals without replacement, and nothing in the
\* indicator looks.
ASSUME LogsAssumption ==
    /\ {Pool, RoundSize, MaxPlayers} \subseteq Nat \ {0}
    /\ \A log \in Logs : /\ DOMAIN log = Positions
                         /\ \A p \in Positions : log[p] \in Cols
                         /\ \A p, q \in Positions : p # q => log[p] # log[q]
ASSUME CodesAssumption ==
    /\ Classes \subseteq Nat /\ Maps \subseteq Nat /\ Counts \subseteq Nat
    /\ IsFiniteSet(Classes) /\ IsFiniteSet(Maps) /\ IsFiniteSet(Counts)

VARIABLES
    matrix,     \* matrixMap of every document: [Documents \X Ids -> [Rows \X Cols -> Nat]]
    counted     \* the sequence of Players counted so far, which no code keeps

vars == <<matrix, counted>>

\* generateSkeletonMatrix
Skeleton == [cell \in Rows \X Cols |-> 0]

Init ==
    /\ matrix = [m \in Documents \X Ids |-> Skeleton]
    /\ counted = <<>>

----------------------------------------------------------------------------

\* generateMatrixId, and a plausible bug.
MatrixIds_NoTotals(player) == {player.map} \X {player.count, Any}
MatrixIds(player) == {player.map, Any} \X {player.count, Any}

\* How often generateCoexistenceXY returns the cell <<x, y>>.
CoexistenceXY(log, x, y) ==
    Cardinality({s \in Positions \X Positions : log[s[1]] = x /\ log[s[2]] = y})

\* Pairs of cards picked in one round, whose order is random: nextBoolean.
Round(p) == (p - 1) \div RoundSize
SameRound == {s \in Positions \X Positions : s[1] < s[2] /\ Round(s[1]) = Round(s[2])}

\* A plausible bug: a pair whose coin falls the other way is taken in both orders.
Steps_BothWays(swapped) ==
    {s \in Positions \X Positions : s[1] < s[2]} \cup {<<s[2], s[1]>> : s \in swapped}

\* The transitions of a player, from a position to a later one, or to an earlier one
\* of the same round where the coin fell so.
Steps(swapped) ==
    {s \in Positions \X Positions : s[1] < s[2] /\ s \notin swapped} \cup {<<s[2], s[1]>> : s \in swapped}

\* A plausible bug: no total for the pairs of one round.
TransitionXY_NoTotals(log, steps, x, y) ==
    LET between == {s \in steps : Round(s[1]) # Round(s[2])}
    IN Cardinality({s \in steps : log[s[1]] = x /\ log[s[2]] = y})
       + (IF x = y THEN Cardinality({s \in between : log[s[1]] = x}) ELSE 0)
       + (IF x = Pool THEN Cardinality({p \in 1..RoundSize : log[p] = y}) ELSE 0)

\* How often generateTransitionXY returns the cell <<x, y>>: once for each step from
\* x to y, once in the diagonal for each step from x, and in the last row once for
\* each card of the first round.
TransitionXY(log, steps, x, y) ==
    Cardinality({s \in steps : log[s[1]] = x /\ log[s[2]] = y})
    + (IF x = y THEN Cardinality({s \in steps : log[s[1]] = x}) ELSE 0)
    + (IF x = Pool THEN Cardinality({p \in 1..RoundSize : log[p] = y}) ELSE 0)

\* A plausible bug: losers are counted among the winners, too.
Concerns_EveryWin(document, player) ==
    document[3] = player.class

\* The documents a player's cards are counted in, those of the class; the ones of the
\* winners only with the highest score of the game.
Concerns(document, player) ==
    document[3] = player.class /\ (document[1] = "win" => player.won)

\* The class code of a log that is passed over.
FaultyClass == 100

\* The body of the loop of insertData over the players, with updateMatrix and
\* updateWinMatrix.
CountPlayer(player, swapped) ==
    /\ player.class # FaultyClass
    /\ Len(counted) < MaxPlayers
    /\ counted' = Append(counted, player)
    /\ LET together == [cell \in Rows \X Cols |-> CoexistenceXY(player.log, cell[1], cell[2])]
           steps == Steps(swapped)
           inOrder == [cell \in Rows \X Cols |-> TransitionXY(player.log, steps, cell[1], cell[2])]
       IN matrix' = [m \in Documents \X Ids |->
            IF Concerns(m[1], player) /\ m[2] \in MatrixIds(player)
            THEN [cell \in Rows \X Cols |-> matrix[m][cell] + (IF m[1][2] = "C" THEN together ELSE inOrder)[cell]]
            ELSE matrix[m]]

Next == \E player \in Players, swapped \in SUBSET SameRound : CountPlayer(player, swapped)

Spec == Init /\ [][Next]_vars

----------------------------------------------------------------------------
(* MasterHintMatrixService and MasterHintMatrixCardService *)

Total(kind, type, class) == matrix[<<<<kind, type, class>>, <<Any, Any>>>>]

Diagonal(m) == SumFunction([i \in Cols |-> m[<<i, i>>]])

\* calculatePick and calculateWin
Calculate(kind, class) == Diagonal(Total(kind, "C", class)) \div PerPlayer

\* Two objects of class Integer are compared: != is only right for the small values
\* that the runtime keeps one object of.
Shared == -128..127
Same(a, b) == a = b /\ a \in Shared

\* setPick and setWin of MasterHintMatrixService: the numerator and denominator of a
\* class's share.
ClassUp(kind, class) ==
    SumFunction([c \in Classes |-> IF Same(class, c) THEN Calculate(kind, c) ELSE 0])
ClassDown(kind) == SumFunction([c \in Classes |-> Calculate(kind, c)])

\* setPick and setWin of MasterHintMatrixCardService, of a card in a class.
CardUp(kind, class, card) == Total(kind, "C", class)[<<card, card>>]
CardDown(class) == Diagonal(Total("pick", "C", class)) \div PerPlayer

----------------------------------------------------------------------------
(* Properties *)

CountedAs(Test(_)) == Cardinality({i \in DOMAIN counted : Test(counted[i])})

\* Of those who played the class, or won with it, the card's share has those who
\* picked the card.
CardSharesCountPlayers ==
    \A kind \in {"pick", "win"}, class \in Classes, card \in Cols :
        CardUp(kind, class, card) =
          CountedAs(LAMBDA p : /\ p.class = class /\ (kind = "pick" \/ p.won)
                               /\ \E i \in Positions : p.log[i] = card)

\* The shares are shares of the players: of all, those who played the class, or won
\* with it; of those who played the class, those who picked the card.  The division
\* of the diagonal by nine is exact.  Codes of three digits and more are never
\* attributed to their class.
SharesCountPlayers ==
    /\ \A kind \in {"pick", "win"} :
        /\ ClassDown(kind) = CountedAs(LAMBDA p : kind = "pick" \/ p.won)
        /\ \A class \in Classes : class \in Shared =>
             ClassUp(kind, class) = CountedAs(LAMBDA p : p.class = class /\ (kind = "pick" \/ p.won))
    /\ \A class \in Classes : CardDown(class) = CountedAs(LAMBDA p : p.class = class)
    /\ CardSharesCountPlayers

\* The two matrices agree, in whatever order the coins put the cards of a round: two
\* cards were picked one after the other as often as they were picked together; and
\* nobody wins who was not picked.
TransitionsAreCoexistences ==
    \A class \in Classes, id \in Ids :
        /\ \A kind \in {"pick", "win"}, x, y \in Cols : x # y =>
             LET together == matrix[<<<<kind, "C", class>>, id>>]
                 inOrder == matrix[<<<<kind, "T", class>>, id>>]
             IN /\ together[<<x, y>>] = together[<<y, x>>]
                /\ inOrder[<<x, y>>] + inOrder[<<y, x>>] = together[<<x, y>>]
        /\ \A type \in {"C", "T"}, cell \in Rows \X Cols :
             matrix[<<<<"win", type, class>>, id>>][cell] <= matrix[<<<<"pick", type, class>>, id>>][cell]

\* A matrix over all maps, or over all numbers of players, is the sum of those it
\* stands for, and the diagonal of a card is the number of transitions from it.
TotalsAreSums ==
    \A d \in Documents :
        /\ \A cell \in Rows \X Cols :
            /\ \A m \in Maps \cup {Any} :
                 matrix[<<d, <<m, Any>>>>][cell] =
                   SumFunction([n \in Counts |-> matrix[<<d, <<m, n>>>>][cell]])
            /\ matrix[<<d, <<Any, Any>>>>][cell] =
                 SumFunction([m \in Maps |-> matrix[<<d, <<m, Any>>>>][cell]])
        /\ d[2] = "T" => \A id \in Ids, x \in Cols :
             LET inOrder == matrix[<<d, id>>]
             IN inOrder[<<x, x>>] = SumFunction([y \in Cols \ {x} |-> inOrder[<<x, y>>]])
=============================================================================
