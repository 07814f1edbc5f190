-------------------------- MODULE RoomStoreProofs --------------------------
(***************************************************************************)
(* Proofs about RoomStore for every set of rooms, users and games, and     *)
(* with or without database failures.                                      *)
(***************************************************************************)
EXTENDS RoomStore, FiniteSetTheorems, TLAPS

\* No room is created for more than eight players.
LimitInRange == \A r \in Rooms : maxPlayers[r] \in 0..8

\* The inductive invariant.  The capacity of a reused room depends on the room
\* being empty when its limit is overwritten, hence on TerminatedRoomIsEmpty.
IInv ==
    /\ TypeOK
    /\ LimitInRange
    /\ NoRoomOverfull
    /\ TerminatedRoomIsEmpty
    /\ RunningGameHoldsItsRoom

----------------------------------------------------------------------------
(* Facts about rooms, which are finite because the table of users is *)

\* The number of players of a room is a natural number.
LEMMA PlayersFinite ==
    ASSUME TypeOK, NEW r \in Rooms
    PROVE  IsFiniteSet(players[r]) /\ PlayerCount(r) \in Nat
<1>1. players[r] \subseteq Users
  BY DEF TypeOK
<1>2. IsFiniteSet(players[r])
  BY <1>1, UsersAssumption, FS_Subset
<1> QED
  BY <1>2, FS_CardinalityType DEF PlayerCount

\* What a service call does to the tables, whichever way it answers.
TablesStep ==
    \/ UNCHANGED tables
    \/ \E r \in Rooms, u \in Users, n \in 2..8 : CreateRoomWithHost(r, u, n)
    \/ \E r \in Rooms, u \in Users : AddPlayer(r, u) \/ RemovePlayerFrom(r, u)
    \/ \E r \in Rooms, g \in Games : CreateGame(g, r)
    \/ \E g \in Games : CompleteGame(g)

\* A step of the specification answers a call and runs at most one transaction:
\* database failures add no new way for the tables to change.
LEMMA NextRunsOneTransaction ==
    ASSUME TypeOK, [Next]_vars
    PROVE  TablesStep /\ reply' \in [op : Ops, ok : BOOLEAN]
<1> DEFINE Answered == reply' \in [op : Ops, ok : BOOLEAN]
<1>a. ASSUME NEW o \in Ops, NEW b \in BOOLEAN, Answer(o, b) PROVE Answered
  BY <1>a DEF Answer
<1>r. ASSUME NEW o \in Ops, Refuse(o) PROVE TablesStep /\ Answered
  BY <1>r, <1>a DEF Refuse, TablesStep
<1>b. ASSUME NEW o \in Ops, Abort(o) PROVE TablesStep /\ Answered
  BY <1>b, <1>r DEF Abort
<1> HIDE DEF Answered
<1>1. CASE UNCHANGED vars
  <2>1. UNCHANGED tables /\ reply' = reply
    BY <1>1 DEF vars
  <2> QED
    BY <2>1 DEF Answered, TypeOK, TablesStep
<1>2. ASSUME NEW u \in Callers, NEW valid \in BOOLEAN, NEW n \in Sizes,
             CreateRoom(u, valid, n)
      PROVE  TablesStep /\ Answered
  <2> DEFINE Txn == \E r \in Rooms : CreateRoomWithHost(r, u, n)
  <2>1. "createRoom" \in Ops
    BY DEF Ops
  <2>2. CASE valid /\ n \in 2..8 /\ CanCreateRoom(u)
    <3>1. u \in Users /\ n \in 2..8
      BY <2>2 DEF CanCreateRoom
    <3>2. Txn => TablesStep
      BY <3>1 DEF TablesStep
    <3>3. Commit("createRoom", Txn, TRUE) \/ Abort("createRoom")
      BY <1>2, <2>2 DEF CreateRoom
    <3> HIDE DEF Txn
    <3>4. Commit("createRoom", Txn, TRUE) => TablesStep /\ Answered
      BY <3>2, <2>1, <1>a DEF Commit
    <3> QED
      BY <3>3, <3>4, <2>1, <1>b
  <2>3. CASE ~(valid /\ n \in 2..8 /\ CanCreateRoom(u))
    BY <1>2, <2>3, <2>1, <1>r DEF CreateRoom
  <2> QED
    BY <2>2, <2>3
<1>3. ASSUME NEW u \in Callers, NEW r \in Rooms \cup {NoRoom}, JoinRoom(r, u)
      PROVE  TablesStep /\ Answered
  <2>1. "joinRoom" \in Ops
    BY DEF Ops
  <2>2. CASE CanAddPlayer(r, u)
    <3>1. AddPlayer(r, u) => TablesStep
      BY <2>2 DEF CanAddPlayer, TablesStep
    <3>2. Commit("joinRoom", AddPlayer(r, u), TRUE) \/ Abort("joinRoom")
      BY <1>3, <2>2 DEF JoinRoom
    <3>3. Commit("joinRoom", AddPlayer(r, u), TRUE) => TablesStep /\ Answered
      BY <3>1, <2>1, <1>a DEF Commit
    <3> QED
      BY <3>2, <3>3, <2>1, <1>b
  <2>3. CASE ~CanAddPlayer(r, u)
    BY <1>3, <2>3, <2>1, <1>r DEF JoinRoom
  <2> QED
    BY <2>2, <2>3
<1>4. ASSUME NEW u \in Callers, ExitRoom(u)
      PROVE  TablesStep /\ Answered
  <2>1. "exitRoom" \in Ops
    BY DEF Ops
  <2>2. CASE RoomsOf(u) # {}
    <3>1. u \in Users
      BY <2>2 DEF RoomsOf, TypeOK
    <3>2. RemovePlayer(u) => TablesStep
      BY <3>1 DEF RemovePlayer, TablesStep
    <3>3. Commit("exitRoom", RemovePlayer(u), TRUE) \/ Abort("exitRoom")
      BY <1>4, <2>2 DEF ExitRoom
    <3>4. Commit("exitRoom", RemovePlayer(u), TRUE) => TablesStep /\ Answered
      BY <3>2, <2>1, <1>a DEF Commit
    <3> QED
      BY <3>3, <3>4, <2>1, <1>b
  <2>3. CASE ~(RoomsOf(u) # {})
    BY <1>4, <2>3, <2>1, <1>r DEF ExitRoom
  <2> QED
    BY <2>2, <2>3
<1>5. ASSUME NEW r \in Rooms \cup {NoRoom}, NEW mapped \in BOOLEAN, GameStart(r, mapped)
      PROVE  TablesStep /\ Answered
  <2>1. "gameStart" \in Ops
    BY DEF Ops
  <2>2. CASE r \in Rooms /\ mapped
    <3>1. ASSUME NEW g \in Games, Commit("gameStart", CreateGame(g, r), ReturnsGameId(g))
          PROVE  TablesStep /\ Answered
      <4>1. CreateGame(g, r) => TablesStep
        BY <2>2 DEF TablesStep
      <4>2. ReturnsGameId(g) \in BOOLEAN
        BY DEF ReturnsGameId
      <4> QED
        BY <3>1, <4>1, <4>2, <2>1, <1>a DEF Commit
    <3> QED
      BY <1>5, <2>1, <2>2, <3>1, <1>b DEF GameStart
  <2>3. CASE ~(r \in Rooms /\ mapped)
    BY <1>5, <2>3, <2>1, <1>r DEF GameStart
  <2> QED
    BY <2>2, <2>3
<1>6. ASSUME NEW g \in Games, GameEnd(g)
      PROVE  TablesStep /\ Answered
  <2>1. "gameEnd" \in Ops
    BY DEF Ops
  <2>2. CASE gameStatus[g] # "none"
    <3>1. CompleteGame(g) => TablesStep
      BY DEF TablesStep
    <3>2. ReturnsGameId(g) \in BOOLEAN
      BY DEF ReturnsGameId
    <3>3. Commit("gameEnd", CompleteGame(g), ReturnsGameId(g)) \/ Abort("gameEnd")
      BY <1>6, <2>2 DEF GameEnd
    <3>4. Commit("gameEnd", CompleteGame(g), ReturnsGameId(g)) => TablesStep /\ Answered
      BY <3>1, <3>2, <2>1, <1>a DEF Commit
    <3> QED
      BY <3>3, <3>4, <2>1, <1>b
  <2>3. CASE ~(gameStatus[g] # "none")
    BY <1>6, <2>3, <2>1, <1>r DEF GameEnd
  <2> QED
    BY <2>2, <2>3
<1>7. ASSUME Next PROVE TablesStep /\ Answered
  <2>1. ASSUME NEW u \in Callers,
               \/ \E valid \in BOOLEAN, n \in Sizes : CreateRoom(u, valid, n)
               \/ \E r \in Rooms \cup {NoRoom} : JoinRoom(r, u)
               \/ ExitRoom(u)
        PROVE  TablesStep /\ Answered
    BY <2>1, <1>2, <1>3, <1>4
  <2> QED
    BY <1>7, <2>1, <1>5, <1>6 DEF Next
<1> QED
  BY <1>1, <1>7 DEF Answered

----------------------------------------------------------------------------
(* The invariant is inductive *)

LEMMA InitEstablishesIInv == Init => IInv
<1> SUFFICES ASSUME Init PROVE IInv
  OBVIOUS
<1>1. TypeOK
  BY DEF Init, TypeOK, RoomStatus, GameStatus, Ops
<1>2. \A r \in Rooms : PlayerCount(r) = 0 /\ maxPlayers[r] = 8
  BY FS_EmptySet DEF Init, PlayerCount
<1> QED
  BY <1>1, <1>2 DEF Init, IInv, LimitInRange, NoRoomOverfull, TerminatedRoomIsEmpty,
                    TerminatedRooms, RunningGameHoldsItsRoom

\* Every transaction writes values the schema allows.
LEMMA TransactionsKeepTypes ==
    ASSUME TypeOK, LimitInRange, TablesStep, reply' \in [op : Ops, ok : BOOLEAN]
    PROVE  TypeOK' /\ LimitInRange'
<1> USE DEF TypeOK, LimitInRange, RoomStatus, GameStatus, rooms, games, tables
<1>1. CASE UNCHANGED tables
  BY <1>1
<1>2. ASSUME NEW r \in Rooms, NEW u \in Users, NEW n \in 2..8, CreateRoomWithHost(r, u, n)
      PROVE  TypeOK' /\ LimitInRange'
  BY <1>2 DEF CreateRoomWithHost
<1>3. ASSUME NEW r \in Rooms, NEW u \in Users, AddPlayer(r, u)
      PROVE  TypeOK' /\ LimitInRange'
  BY <1>3 DEF AddPlayer
<1>4. ASSUME NEW r \in Rooms, NEW u \in Users, RemovePlayerFrom(r, u)
      PROVE  TypeOK' /\ LimitInRange'
  BY <1>4 DEF RemovePlayerFrom
<1>5. ASSUME NEW r \in Rooms, NEW g \in Games, CreateGame(g, r)
      PROVE  TypeOK' /\ LimitInRange'
  BY <1>5 DEF CreateGame
<1>6. ASSUME NEW g \in Games, CompleteGame(g)
      PROVE  TypeOK' /\ LimitInRange'
  BY <1>6 DEF CompleteGame
<1> QED
  BY <1>1, <1>2, <1>3, <1>4, <1>5, <1>6 DEF TablesStep

\* Creating a room starts its new life with one player and a limit of at least
\* two; every other transaction keeps the limit.
LEMMA TransactionsKeepCapacity ==
    ASSUME IInv, TablesStep
    PROVE  NoRoomOverfull'
<1> USE DEF IInv, rooms, games, tables
<1> SUFFICES ASSUME NEW q \in Rooms PROVE Cardinality(players'[q]) <= maxPlayers'[q]
  BY DEF NoRoomOverfull, PlayerCount
<1>0. /\ IsFiniteSet(players[q])
      /\ Cardinality(players[q]) \in Nat
      /\ Cardinality(players[q]) <= maxPlayers[q]
      /\ maxPlayers[q] \in Nat
  BY PlayersFinite DEF NoRoomOverfull, PlayerCount, TypeOK
<1>1. CASE UNCHANGED tables
  BY <1>1, <1>0
<1>2. ASSUME NEW r \in Rooms, NEW u \in Users, NEW n \in 2..8, CreateRoomWithHost(r, u, n)
      PROVE  Cardinality(players'[q]) <= maxPlayers'[q]
  <2>1. CASE q = r
    <3>1. players[r] = {}
      BY <1>2 DEF CreateRoomWithHost, IsFirstTerminated, TerminatedRoomIsEmpty
    <3>2. players'[r] = {u} /\ maxPlayers'[r] = n
      BY <1>2, <3>1 DEF CreateRoomWithHost, TypeOK
    <3> QED
      BY <2>1, <3>2, FS_Singleton
  <2>2. CASE q # r
    BY <1>2, <1>0, <2>2 DEF CreateRoomWithHost, TypeOK
  <2> QED
    BY <2>1, <2>2
<1>3. ASSUME NEW r \in Rooms, NEW u \in Users, AddPlayer(r, u)
      PROVE  Cardinality(players'[q]) <= maxPlayers'[q]
  <2>1. CASE q = r
    <3>1. /\ players'[r] = players[r] \cup {u}
          /\ u \notin players[r]
          /\ Cardinality(players[r]) < maxPlayers[r]
          /\ maxPlayers' = maxPlayers
      BY <1>3 DEF AddPlayer, CanAddPlayer, TypeOK, PlayerCount
    <3>2. Cardinality(players[r] \cup {u}) = Cardinality(players[r]) + 1
      BY <1>0, <2>1, <3>1, FS_AddElement
    <3> QED
      BY <1>0, <2>1, <3>1, <3>2
  <2>2. CASE q # r
    BY <1>3, <1>0, <2>2 DEF AddPlayer, TypeOK
  <2> QED
    BY <2>1, <2>2
<1>4. ASSUME NEW r \in Rooms, NEW u \in Users, RemovePlayerFrom(r, u)
      PROVE  Cardinality(players'[q]) <= maxPlayers'[q]
  <2>1. players'[q] = players[q] \ {u} /\ maxPlayers' = maxPlayers
    BY <1>4 DEF RemovePlayerFrom
  <2>2. Cardinality(players[q] \ {u}) <= Cardinality(players[q])
        /\ Cardinality(players[q] \ {u}) \in Nat
    BY <1>0, FS_Subset, FS_CardinalityType
  <2> QED
    BY <1>0, <2>1, <2>2
<1>5. ASSUME NEW r \in Rooms, NEW g \in Games, CreateGame(g, r)
      PROVE  Cardinality(players'[q]) <= maxPlayers'[q]
  BY <1>5, <1>0 DEF CreateGame
<1>6. ASSUME NEW g \in Games, CompleteGame(g)
      PROVE  Cardinality(players'[q]) <= maxPlayers'[q]
  BY <1>6, <1>0 DEF CompleteGame
<1> QED
  BY <1>1, <1>2, <1>3, <1>4, <1>5, <1>6 DEF TablesStep

\* A room is terminated only by the exit that empties it, and players only
\* enter a room that is, or becomes, WAITING.
LEMMA TransactionsKeepTerminatedEmpty ==
    ASSUME IInv, TablesStep
    PROVE  TerminatedRoomIsEmpty'
<1> USE DEF IInv, TypeOK, rooms, games, tables, TerminatedRooms
<1> SUFFICES ASSUME NEW q \in Rooms, roomStatus'[q] = "TERMINATED"
             PROVE  players'[q] = {}
  BY DEF TerminatedRoomIsEmpty
<1>0. roomStatus[q] = "TERMINATED" => players[q] = {}
  BY DEF TerminatedRoomIsEmpty
<1>1. CASE UNCHANGED tables
  BY <1>1, <1>0
<1>2. ASSUME NEW r \in Rooms, NEW u \in Users, NEW n \in 2..8, CreateRoomWithHost(r, u, n)
      PROVE  players'[q] = {}
  BY <1>2, <1>0 DEF CreateRoomWithHost
<1>3. ASSUME NEW r \in Rooms, NEW u \in Users, AddPlayer(r, u)
      PROVE  players'[q] = {}
  BY <1>3, <1>0 DEF AddPlayer, CanAddPlayer
<1>4. ASSUME NEW r \in Rooms, NEW u \in Users, RemovePlayerFrom(r, u)
      PROVE  players'[q] = {}
  BY <1>4, <1>0 DEF RemovePlayerFrom
<1>5. ASSUME NEW r \in Rooms, NEW g \in Games, CreateGame(g, r)
      PROVE  players'[q] = {}
  BY <1>5, <1>0 DEF CreateGame
<1>6. ASSUME NEW g \in Games, CompleteGame(g)
      PROVE  players'[q] = {}
  BY <1>6, <1>0 DEF CompleteGame
<1> QED
  BY <1>1, <1>2, <1>3, <1>4, <1>5, <1>6 DEF TablesStep

\* A game starts together with its room, and the transaction that terminates a
\* room completes its games.
LEMMA TransactionsKeepRunningGames ==
    ASSUME IInv, TablesStep
    PROVE  RunningGameHoldsItsRoom'
<1> USE DEF IInv, TypeOK, rooms, games, tables, GameStatus
<1> DEFINE Holds(x) == gameRoom'[x] \in Rooms /\ roomStatus'[gameRoom'[x]] = "GAME_IN_PROGRESS"
<1> SUFFICES ASSUME NEW h \in Games, gameStatus'[h] = "IN_PROGRESS" PROVE Holds(h)
  BY DEF RunningGameHoldsItsRoom
<1>0. gameStatus[h] = "IN_PROGRESS" =>
        gameRoom[h] \in Rooms /\ roomStatus[gameRoom[h]] = "GAME_IN_PROGRESS"
  BY DEF RunningGameHoldsItsRoom
<1>1. CASE UNCHANGED tables
  BY <1>1, <1>0
<1>2. ASSUME NEW r \in Rooms, NEW u \in Users, NEW n \in 2..8, CreateRoomWithHost(r, u, n)
      PROVE  Holds(h)
  BY <1>2, <1>0 DEF CreateRoomWithHost, IsFirstTerminated, TerminatedRooms
<1>3. ASSUME NEW r \in Rooms, NEW u \in Users, AddPlayer(r, u)
      PROVE  Holds(h)
  BY <1>3, <1>0 DEF AddPlayer
<1>4. ASSUME NEW r \in Rooms, NEW u \in Users, RemovePlayerFrom(r, u)
      PROVE  Holds(h)
  BY <1>4, <1>0 DEF RemovePlayerFrom
<1>5. ASSUME NEW r \in Rooms, NEW g \in Games, CreateGame(g, r)
      PROVE  Holds(h)
  BY <1>5, <1>0 DEF CreateGame
<1>6. ASSUME NEW g \in Games, CompleteGame(g)
      PROVE  Holds(h)
  BY <1>6, <1>0 DEF CompleteGame
<1> QED
  BY <1>1, <1>2, <1>3, <1>4, <1>5, <1>6 DEF TablesStep

LEMMA NextKeepsIInv == IInv /\ [Next]_vars => IInv'
<1> SUFFICES ASSUME IInv, [Next]_vars PROVE IInv'
  OBVIOUS
<1>1. TypeOK /\ LimitInRange
  BY DEF IInv
<1>2. TablesStep /\ reply' \in [op : Ops, ok : BOOLEAN]
  BY <1>1, NextRunsOneTransaction
<1>3. TypeOK' /\ LimitInRange'
  BY <1>1, <1>2, TransactionsKeepTypes
<1>4. NoRoomOverfull' /\ TerminatedRoomIsEmpty' /\ RunningGameHoldsItsRoom'
  BY <1>2, TransactionsKeepCapacity, TransactionsKeepTerminatedEmpty,
     TransactionsKeepRunningGames
<1> QED
  BY <1>3, <1>4 DEF IInv

----------------------------------------------------------------------------
(* The theorems *)

\* The tables and the answer always have the values the schema gives them.
THEOREM RoomStoreTypeCorrect == Spec => []TypeOK
<1>1. Spec => []IInv
  BY InitEstablishesIInv, NextKeepsIInv, PTL DEF Spec
<1>2. IInv => TypeOK
  BY DEF IInv
<1> QED
  BY <1>1, <1>2, PTL

\* Capacity, emptiness of terminated rooms, and games held by their rooms, in
\* every reachable state of the tables.
THEOREM RoomStoreSafety ==
    Spec => [](NoRoomOverfull /\ TerminatedRoomIsEmpty /\ RunningGameHoldsItsRoom)
<1>1. Spec => []IInv
  BY InitEstablishesIInv, NextKeepsIInv, PTL DEF Spec
<1>2. IInv => NoRoomOverfull /\ TerminatedRoomIsEmpty /\ RunningGameHoldsItsRoom
  BY DEF IInv
<1> QED
  BY <1>1, <1>2, PTL

\* A room that is offered again after its last player left has no players of its
\* former life, whatever calls and failed commits came in between.
THEOREM TerminatedRoomsAreEmpty == Spec => []TerminatedRoomIsEmpty
BY RoomStoreSafety, PTL

\* A game that has not ended holds its room: no call makes the room of a running
\* game WAITING, so that nobody enters it.
THEOREM RunningGamesHoldTheirRooms == Spec => []RunningGameHoldsItsRoom
BY RoomStoreSafety, PTL

----------------------------------------------------------------------------
(* Steps *)

\* Players are added to waiting rooms only, by themselves or as the host of a
\* terminated, hence empty, room.
LEMMA TransactionsEnterWhileWaiting ==
    ASSUME IInv, TablesStep, NEW q \in Rooms, NEW v \in players'[q] \ players[q]
    PROVE  /\ roomStatus'[q] = "WAITING"
           /\ roomStatus[q] = "WAITING" \/ players'[q] = {v}
<1> DEFINE Enters == /\ roomStatus'[q] = "WAITING"
                     /\ roomStatus[q] = "WAITING" \/ players'[q] = {v}
<1> USE DEF IInv, TypeOK, rooms, tables
<1>1. CASE UNCHANGED tables
  BY <1>1
<1>2. ASSUME NEW r \in Rooms, NEW u \in Users, NEW n \in 2..8, CreateRoomWithHost(r, u, n)
      PROVE  Enters
  BY <1>2 DEF CreateRoomWithHost, IsFirstTerminated, TerminatedRoomIsEmpty
<1>3. ASSUME NEW r \in Rooms, NEW u \in Users, AddPlayer(r, u)
      PROVE  Enters
  BY <1>3 DEF AddPlayer, CanAddPlayer
<1>4. ASSUME NEW r \in Rooms, NEW u \in Users, RemovePlayerFrom(r, u)
      PROVE  Enters
  BY <1>4 DEF RemovePlayerFrom
<1>5. ASSUME NEW r \in Rooms, NEW g \in Games, CreateGame(g, r)
      PROVE  Enters
  BY <1>5 DEF CreateGame
<1>6. ASSUME NEW g \in Games, CompleteGame(g)
      PROVE  Enters
  BY <1>6 DEF CompleteGame
<1> QED
  BY <1>1, <1>2, <1>3, <1>4, <1>5, <1>6 DEF TablesStep

\* Nobody ever enters a room that is playing, and nobody finds former players
\* in a room that is opened again.
THEOREM PlayersEnterWaitingRooms == Spec => EnterOnlyWhileWaiting
<1> DEFINE Step == \A r \in Rooms : \A u \in players'[r] \ players[r] :
                      /\ roomStatus'[r] = "WAITING"
                      /\ roomStatus[r] = "WAITING" \/ players'[r] = {u}
<1>1. Spec => []IInv
  BY InitEstablishesIInv, NextKeepsIInv, PTL DEF Spec
<1>2. IInv /\ [Next]_vars => [Step]_vars
  <2> SUFFICES ASSUME IInv, [Next]_vars PROVE Step
    OBVIOUS
  <2>1. TablesStep
    BY NextRunsOneTransaction DEF IInv
  <2> QED
    BY <2>1, TransactionsEnterWhileWaiting
<1> HIDE DEF Step
<1>3. Spec => [][Step]_vars
  BY <1>1, <1>2, PTL DEF Spec
<1> QED
  BY <1>3 DEF EnterOnlyWhileWaiting, Step

\* Only rows of the caller's own user_id are inserted or deleted.
LEMMA TransactionsMoveOneUser ==
    ASSUME TypeOK, TablesStep
    PROVE  \/ players' = players
           \/ \E w \in Users : \A u \in Users \ {w}, r \in Rooms :
                 u \in players[r] <=> u \in players'[r]
<1> DEFINE Moves == \E w \in Users : \A u \in Users \ {w}, r \in Rooms :
                       u \in players[r] <=> u \in players'[r]
<1> USE DEF TypeOK, rooms, tables
<1>1. CASE UNCHANGED tables
  BY <1>1
<1>2. ASSUME NEW q \in Rooms, NEW w \in Users, NEW n \in 2..8, CreateRoomWithHost(q, w, n)
      PROVE  Moves
  BY <1>2 DEF CreateRoomWithHost
<1>3. ASSUME NEW q \in Rooms, NEW w \in Users, AddPlayer(q, w) \/ RemovePlayerFrom(q, w)
      PROVE  Moves
  BY <1>3 DEF AddPlayer, RemovePlayerFrom
<1>4. ASSUME NEW q \in Rooms, NEW g \in Games, CreateGame(g, q)
      PROVE  players' = players
  BY <1>4 DEF CreateGame
<1>5. ASSUME NEW g \in Games, CompleteGame(g)
      PROVE  players' = players
  BY <1>5 DEF CompleteGame
<1> QED
  BY <1>1, <1>2, <1>3, <1>4, <1>5 DEF TablesStep

\* No transaction changes the rooms of two users.
THEOREM OneUserMoves == Spec => OneUserMovesAtATime
<1> DEFINE Step == \A u, v \in Users :
                      u # v => \/ \A r \in Rooms : u \in players[r] <=> u \in players'[r]
                               \/ \A r \in Rooms : v \in players[r] <=> v \in players'[r]
<1>1. Spec => []IInv
  BY InitEstablishesIInv, NextKeepsIInv, PTL DEF Spec
<1>2. IInv /\ [Next]_vars => [Step]_vars
  <2> SUFFICES ASSUME IInv, [Next]_vars PROVE Step
    OBVIOUS
  <2>1. TypeOK /\ TablesStep
    BY NextRunsOneTransaction DEF IInv
  <2> QED
    BY <2>1, TransactionsMoveOneUser
<1> HIDE DEF Step
<1>3. Spec => [][Step]_vars
  BY <1>1, <1>2, PTL DEF Spec
<1> QED
  BY <1>3 DEF OneUserMovesAtATime, Step

\* Only removePlayer empties a room, and when its first row is the only one the
\* room it looks at is the room that was emptied.
LEMMA TransactionsTerminateOnLastExit ==
    ASSUME IInv, TablesStep, NEW q \in Rooms, NEW v \in Users,
           players[q] = {v}, players'[q] = {}, RoomsOf(v) = {q}
    PROVE  /\ roomStatus'[q] = "TERMINATED"
           /\ \A g \in Games : gameRoom'[g] = q => gameStatus'[g] # "IN_PROGRESS"
<1> DEFINE Ends == /\ roomStatus'[q] = "TERMINATED"
                   /\ \A g \in Games : gameRoom'[g] = q => gameStatus'[g] # "IN_PROGRESS"
<1> USE DEF IInv, TypeOK, rooms, tables
<1>1. CASE UNCHANGED tables
  BY <1>1
<1>2. ASSUME NEW r \in Rooms, NEW u \in Users, NEW n \in 2..8, CreateRoomWithHost(r, u, n)
      PROVE  Ends
  BY <1>2 DEF CreateRoomWithHost
<1>3. ASSUME NEW r \in Rooms, NEW u \in Users, AddPlayer(r, u)
      PROVE  Ends
  BY <1>3 DEF AddPlayer
<1>4. ASSUME NEW r \in Rooms, NEW u \in Users, RemovePlayerFrom(r, u)
      PROVE  Ends
  <2>1. u = v
    BY <1>4 DEF RemovePlayerFrom
  <2>2. r = q
    BY <1>4, <2>1 DEF RemovePlayerFrom
  <2> QED
    BY <1>4, <2>1, <2>2 DEF RemovePlayerFrom
<1>5. ASSUME NEW r \in Rooms, NEW g \in Games, CreateGame(g, r)
      PROVE  Ends
  BY <1>5 DEF CreateGame
<1>6. ASSUME NEW g \in Games, CompleteGame(g)
      PROVE  Ends
  BY <1>6 DEF CompleteGame
<1> QED
  BY <1>1, <1>2, <1>3, <1>4, <1>5, <1>6 DEF TablesStep

\* The exit that empties a room terminates it and completes its games in the same
\* step, for every player who is in no other room.
THEOREM LastExitsTerminate == Spec => LastExitTerminates
<1> DEFINE Step == \A r \in Rooms, u \in Users :
                      players[r] = {u} /\ players'[r] = {} /\ RoomsOf(u) = {r} =>
                          /\ roomStatus'[r] = "TERMINATED"
                          /\ \A g \in Games : gameRoom'[g] = r =>
                                gameStatus'[g] # "IN_PROGRESS"
<1>1. Spec => []IInv
  BY InitEstablishesIInv, NextKeepsIInv, PTL DEF Spec
<1>2. IInv /\ [Next]_vars => [Step]_vars
  <2> SUFFICES ASSUME IInv, [Next]_vars PROVE Step
    OBVIOUS
  <2>1. TablesStep
    BY NextRunsOneTransaction DEF IInv
  <2> QED
    BY <2>1, TransactionsTerminateOnLastExit
<1> HIDE DEF Step
<1>3. Spec => [][Step]_vars
  BY <1>1, <1>2, PTL DEF Spec
<1> QED
  BY <1>3 DEF LastExitTerminates, Step

----------------------------------------------------------------------------
(* Refinement *)

\* The tables start as a lobby with no open room.
LEMMA InitRefinesLobby == Init => Lobby!Init
BY DEF Init, Lobby!Init, OpenRooms

\* Every transaction is a step of the lobby, or changes nothing a player sees.
LEMMA TransactionsRefineLobby ==
    ASSUME IInv, TablesStep
    PROVE  [Lobby!Next]_(Lobby!vars)
<1> USE DEF IInv, TypeOK, RoomStatus, rooms, games, tables, OpenRooms
<1>0. ASSUME NEW r \in Rooms, Lobby!Start(r) PROVE Lobby!Next
  BY <1>0 DEF Lobby!Next
<1>a. ASSUME NEW r \in Rooms, NEW u \in Users,
             Lobby!Open(r, u) \/ Lobby!Enter(r, u) \/ Lobby!Leave(u)
      PROVE  Lobby!Next
  BY <1>a DEF Lobby!Next
<1>1. CASE UNCHANGED tables
  BY <1>1 DEF Lobby!vars
<1>2. ASSUME NEW r \in Rooms, NEW u \in Users, NEW n \in 2..8, CreateRoomWithHost(r, u, n)
      PROVE  Lobby!Open(r, u)
  <2>1. players[r] = {} /\ roomStatus[r] = "TERMINATED"
    BY <1>2 DEF CreateRoomWithHost, IsFirstTerminated, TerminatedRooms, TerminatedRoomIsEmpty
  <2>2. Lobby!Where(u) = {}
    BY <1>2 DEF CreateRoomWithHost, CanCreateRoom, RoomsOf, Lobby!Where
  <2>3. OpenRooms' = OpenRooms \cup {r}
    BY <1>2 DEF CreateRoomWithHost
  <2>4. players' = [players EXCEPT ![r] = {u}]
    BY <1>2, <2>1 DEF CreateRoomWithHost
  <2> QED
    BY <2>1, <2>2, <2>3, <2>4 DEF Lobby!Open
<1>3. ASSUME NEW r \in Rooms, NEW u \in Users, AddPlayer(r, u)
      PROVE  Lobby!Enter(r, u)
  <2>1. /\ roomStatus[r] = "WAITING" /\ u \notin players[r]
        /\ Cardinality(players[r]) < maxPlayers[r]
        /\ players' = [players EXCEPT ![r] = @ \cup {u}]
        /\ roomStatus' = roomStatus
    BY <1>3 DEF AddPlayer, CanAddPlayer, PlayerCount
  <2>2. Cardinality(players[r]) < 8
    <3>1. Cardinality(players[r]) \in Nat
      BY PlayersFinite DEF PlayerCount
    <3>2. maxPlayers[r] \in 0..8
      BY DEF LimitInRange
    <3> QED
      BY <3>1, <3>2, <2>1
  <2>3. OpenRooms' = OpenRooms /\ r \in OpenRooms
    BY <2>1
  <2>4. /\ r \in OpenRooms
        /\ u \notin players[r]
        /\ Cardinality(players[r]) < 8
        /\ players' = [players EXCEPT ![r] = players[r] \cup {u}]
        /\ OpenRooms' = OpenRooms
    BY <2>1, <2>2, <2>3
  <2> QED
    BY <2>4 DEF Lobby!Enter, HasSeat
<1>4. ASSUME NEW r \in Rooms, NEW u \in Users, RemovePlayerFrom(r, u)
      PROVE  Lobby!Leave(u)
  <2>1. r \in Lobby!Where(u)
    BY <1>4 DEF RemovePlayerFrom, RoomsOf, Lobby!Where
  <2>2. players' = [q \in Rooms |-> players[q] \ {u}]
    BY <1>4 DEF RemovePlayerFrom
  <2>3. OpenRooms' = IF players[r] = {u} THEN OpenRooms \ {r} ELSE OpenRooms
    BY <1>4 DEF RemovePlayerFrom
  <2> QED
    BY <2>1, <2>2, <2>3 DEF Lobby!Leave
<1>5. ASSUME NEW r \in Rooms, NEW g \in Games, CreateGame(g, r)
      PROVE  Lobby!Start(r)
  BY <1>5 DEF CreateGame, Lobby!Start
<1>6. ASSUME NEW g \in Games, CompleteGame(g)
      PROVE  UNCHANGED Lobby!vars
  BY <1>6 DEF CompleteGame, Lobby!vars
<1> QED
  BY <1>0, <1>a, <1>1, <1>2, <1>3, <1>4, <1>5, <1>6 DEF TablesStep

\* The tables implement the lobby: with the rooms that are not TERMINATED as the
\* open ones, every behaviour of the server's transactions is one the lobby allows.
THEOREM RoomStoreImplementsLobby == Spec => ImplementsLobby
<1>1. Spec => []IInv
  BY InitEstablishesIInv, NextKeepsIInv, PTL DEF Spec
<1>2. IInv /\ [Next]_vars => [Lobby!Next]_(Lobby!vars)
  BY NextRunsOneTransaction, TransactionsRefineLobby DEF IInv
<1>3. Spec => Lobby!Spec
  BY <1>1, <1>2, InitRefinesLobby, PTL DEF Spec, Lobby!Spec
<1> QED
  BY <1>3 DEF ImplementsLobby
=============================================================================
