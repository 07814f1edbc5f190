----------------------------- MODULE RoomStore -----------------------------
(***************************************************************************)
(* The room and game tables of the matching server (db-init.sql) and the   *)
(* transactions its repositories run on them, each wrapped in the service  *)
(* call that turns its outcome into a success or an error answer.          *)
(*                                                                         *)
(* The server handles one request at a time, and each repository call is   *)
(* one PostgreSQL transaction, so a service call is one step.  What can    *)
(* still go wrong is the database: a call may fail and roll back, or fail  *)
(* after its commit took effect; both are answered as an error.            *)
(***************************************************************************)
EXTENDS Integers, FiniteSets

CONSTANTS
    Rooms,      \* room_id of the rows of rooms, fixed by db-init.sql
    Users,      \* user_id of the rows of users
    Callers,    \* ids a session may carry: users, and ports of mirror servers
    Games,      \* game_id values SERIAL may hand out: bounds the games created
    Sizes,      \* maxPlayers values a client may ask for
    DbFaults    \* whether the database may fail in a call

ASSUME RoomsAssumption == Rooms \subseteq Nat \ {0}
ASSUME CallersAssumption == Users \subseteq Callers
ASSUME UsersAssumption == IsFiniteSet(Users)
ASSUME SizesAssumption == Sizes \subseteq Int
ASSUME DbFaultsAssumption == DbFaults \in BOOLEAN

VARIABLES
    roomStatus,   \* rooms.status
    maxPlayers,   \* rooms.max_players
    players,      \* room_users, grouped by room
    gameStatus,   \* games.status, "none" when the id is not used yet
    gameRoom,     \* games.room_id
    reply         \* what the last service call answered

rooms == <<roomStatus, maxPlayers, players>>
games == <<gameStatus, gameRoom>>
tables == <<rooms, games>>
vars == <<tables, reply>>

\* The room id of a row of games that does not exist, and an id no room has.
NoRoom == 0

RoomStatus == {"TERMINATED", "WAITING", "GAME_IN_PROGRESS"}
GameStatus == {"none", "IN_PROGRESS", "COMPLETED"}
Ops == {"none", "createRoom", "joinRoom", "exitRoom", "gameStart", "gameEnd"}

TypeOK ==
    /\ roomStatus \in [Rooms -> RoomStatus]
    /\ maxPlayers \in [Rooms -> Nat]
    /\ players \in [Rooms -> SUBSET Users]
    /\ gameStatus \in [Games -> GameStatus]
    /\ gameRoom \in [Games -> Rooms \cup {NoRoom}]
    /\ reply \in [op : Ops, ok : BOOLEAN]

Init ==
    /\ roomStatus = [r \in Rooms |-> "TERMINATED"]
    /\ maxPlayers = [r \in Rooms |-> 8]
    /\ players = [r \in Rooms |-> {}]
    /\ gameStatus = [g \in Games |-> "none"]
    /\ gameRoom = [g \in Games |-> NoRoom]
    /\ reply = [op |-> "none", ok |-> TRUE]

----------------------------------------------------------------------------
(* Queries *)

RoomsOf(u) == {r \in Rooms : u \in players[r]}

PlayerCount(r) == Cardinality(players[r])

OpenRooms == {r \in Rooms : roomStatus[r] \in {"WAITING", "GAME_IN_PROGRESS"}}

TerminatedRooms == {r \in Rooms : roomStatus[r] = "TERMINATED"}

----------------------------------------------------------------------------
(* How a service call ends *)

Answer(op, ok) == reply' = [op |-> op, ok |-> ok]

\* The call leaves the tables as they were and answers an error.
Refuse(op) == Answer(op, FALSE) /\ UNCHANGED tables

\* The transaction fails and is rolled back by the catch block.
Abort(op) == DbFaults /\ Refuse(op)

\* The transaction commits, and the call answers ok; or the commit takes
\* effect but the repository sees an exception (connection lost in COMMIT, or
\* a conversion of the result that throws after it) and answers an error.
Commit(op, txn, ok) ==
    /\ txn
    /\ \/ Answer(op, ok)
       \/ DbFaults /\ Answer(op, FALSE)

----------------------------------------------------------------------------
(* Transactions of RoomRepository and GameRepository *)

\* The first TERMINATED room in room_id order.
IsFirstTerminated(r) ==
    /\ r \in TerminatedRooms
    /\ \A q \in TerminatedRooms : r <= q

\* A plausible bug of createRoomWithHost: the host may already be in a room.
CanCreateRoom_InRoom(u) == u \in Users /\ TerminatedRooms # {}

CanCreateRoom(u) ==
    /\ u \in Users                  \* room_users.user_id REFERENCES users
    /\ RoomsOf(u) = {}
    /\ TerminatedRooms # {}

CreateRoomWithHost(r, u, n) ==
    /\ CanCreateRoom(u)
    /\ IsFirstTerminated(r)
    /\ roomStatus' = [roomStatus EXCEPT ![r] = "WAITING"]
    /\ maxPlayers' = [maxPlayers EXCEPT ![r] = n]
    /\ players' = [players EXCEPT ![r] = @ \cup {u}]
    /\ UNCHANGED games

\* Plausible bugs of addPlayer: an off-by-one in the limit, no status check.
CanAddPlayer_OneTooMany(r, u) ==
    r \in Rooms /\ u \in Users /\ roomStatus[r] = "WAITING" /\ u \notin players[r]
    /\ PlayerCount(r) <= maxPlayers[r]
CanAddPlayer_AnyStatus(r, u) ==
    r \in OpenRooms /\ u \in Users /\ u \notin players[r]
    /\ PlayerCount(r) < maxPlayers[r]

\* Looks at the room that is joined only: the user may be in another one.
CanAddPlayer(r, u) ==
    /\ r \in Rooms
    /\ u \in Users
    /\ roomStatus[r] = "WAITING"
    /\ u \notin players[r]
    /\ PlayerCount(r) < maxPlayers[r]

AddPlayer(r, u) ==
    /\ CanAddPlayer(r, u)
    /\ players' = [players EXCEPT ![r] = @ \cup {u}]
    /\ UNCHANGED <<roomStatus, maxPlayers, games>>

\* Plausible bugs of removePlayer: games left in progress; the count off by
\* one; rows deleted by room and not by user, or by both; players counted before
\* the DELETE.
RemovePlayerFrom_KeepsGames(r, u) ==
    /\ r \in RoomsOf(u)
    /\ players' = [q \in Rooms |-> players[q] \ {u}]
    /\ IF players[r] = {u}
       THEN roomStatus' = [roomStatus EXCEPT ![r] = "TERMINATED"]
       ELSE UNCHANGED roomStatus
    /\ UNCHANGED <<maxPlayers, games>>
RemovePlayerFrom_OneLeft(r, u) ==
    /\ r \in RoomsOf(u)
    /\ players' = [q \in Rooms |-> players[q] \ {u}]
    /\ IF PlayerCount(r) <= 2
       THEN roomStatus' = [roomStatus EXCEPT ![r] = "TERMINATED"]
       ELSE UNCHANGED roomStatus
    /\ UNCHANGED <<maxPlayers, games>>
RemovePlayerFrom_WholeRoom(r, u) ==
    /\ r \in RoomsOf(u)
    /\ players' = [players EXCEPT ![r] = {}]
    /\ roomStatus' = [roomStatus EXCEPT ![r] = "TERMINATED"]
    /\ UNCHANGED <<maxPlayers, games>>
RemovePlayerFrom_FirstRoom(r, u) ==
    /\ r \in RoomsOf(u)
    /\ players' = [players EXCEPT ![r] = @ \ {u}]
    /\ UNCHANGED <<roomStatus, maxPlayers, games>>
RemovePlayerFrom_CountsFirst(r, u) ==
    /\ r \in RoomsOf(u)
    /\ players' = [q \in Rooms |-> players[q] \ {u}]
    /\ UNCHANGED <<roomStatus, maxPlayers, games>>

\* Deletes the user's rows in every room, but looks for remaining players only
\* in r, the room of the first row the SELECT returned.
RemovePlayerFrom(r, u) ==
    /\ r \in RoomsOf(u)
    /\ players' = [q \in Rooms |-> players[q] \ {u}]
    /\ IF players[r] = {u}
       THEN /\ roomStatus' = [roomStatus EXCEPT ![r] = "TERMINATED"]
            /\ gameStatus' = [g \in Games |->
                    IF gameRoom[g] = r /\ gameStatus[g] = "IN_PROGRESS"
                    THEN "COMPLETED" ELSE gameStatus[g]]
       ELSE UNCHANGED <<roomStatus, gameStatus>>
    /\ UNCHANGED <<maxPlayers, gameRoom>>

\* The SELECT has no ORDER BY: any of the user's rows may come first.
RemovePlayer(u) == \E r \in Rooms : RemovePlayerFrom(r, u)

\* The UPDATE of rooms does not look at the status the room is in.
CreateGame(g, r) ==
    /\ r \in Rooms
    /\ gameStatus[g] = "none"
    /\ gameStatus' = [gameStatus EXCEPT ![g] = "IN_PROGRESS"]
    /\ gameRoom' = [gameRoom EXCEPT ![g] = r]
    /\ roomStatus' = [roomStatus EXCEPT ![r] = "GAME_IN_PROGRESS"]
    /\ UNCHANGED <<maxPlayers, players>>

\* A plausible bug of endGame: the room's status written to the game.
CompleteGame_RoomStatus(g) ==
    /\ gameStatus[g] # "none"
    /\ gameStatus' = [gameStatus EXCEPT ![g] = "TERMINATED"]
    /\ UNCHANGED <<rooms, gameRoom>>

\* Leaves the room GAME_IN_PROGRESS.
CompleteGame(g) ==
    /\ gameStatus[g] # "none"
    /\ gameStatus' = [gameStatus EXCEPT ![g] = "COMPLETED"]
    /\ UNCHANGED <<rooms, gameRoom>>

\* Whether the gameId the repository's response carries differs from -1: both
\* responses start with -1 and neither call ever assigns it.
ReturnsGameId(g) == FALSE

----------------------------------------------------------------------------
(* Calls of RoomService and GameService *)

\* valid: every field is there and the room name passes isValidRoomName.
CreateRoom(u, valid, n) ==
    IF valid /\ n \in 2..8 /\ CanCreateRoom(u)
    THEN \/ Commit("createRoom", \E r \in Rooms : CreateRoomWithHost(r, u, n), TRUE)
         \/ Abort("createRoom")
    ELSE Refuse("createRoom")

JoinRoom(r, u) ==
    IF CanAddPlayer(r, u)
    THEN \/ Commit("joinRoom", AddPlayer(r, u), TRUE)
         \/ Abort("joinRoom")
    ELSE Refuse("joinRoom")

ExitRoom(u) ==
    IF RoomsOf(u) # {}
    THEN \/ Commit("exitRoom", RemovePlayer(u), TRUE)
         \/ Abort("exitRoom")
    ELSE Refuse("exitRoom")

\* mapped: map_id is a row of maps; an unknown room or map violates a foreign
\* key and the INSERT throws.
GameStart(r, mapped) ==
    IF r \in Rooms /\ mapped
    THEN \/ \E g \in Games : Commit("gameStart", CreateGame(g, r), ReturnsGameId(g))
         \/ Abort("gameStart")
    ELSE Refuse("gameStart")

GameEnd(g) ==
    IF gameStatus[g] # "none"
    THEN \/ Commit("gameEnd", CompleteGame(g), ReturnsGameId(g))
         \/ Abort("gameEnd")
    ELSE Refuse("gameEnd")

Next ==
    \/ \E u \in Callers :
        \/ \E valid \in BOOLEAN, n \in Sizes : CreateRoom(u, valid, n)
        \/ \E r \in Rooms \cup {NoRoom} : JoinRoom(r, u)
        \/ ExitRoom(u)
    \/ \E r \in Rooms \cup {NoRoom}, mapped \in BOOLEAN : GameStart(r, mapped)
    \/ \E g \in Games : GameEnd(g)

Spec == Init /\ [][Next]_vars

----------------------------------------------------------------------------
(* Safety *)

\* A room never holds more players than the limit it was created with: the
\* count addPlayer checks, and the limit createRoomWithHost overwrites when it
\* reuses the row, always belong to the same life of the room.
NoRoomOverfull == \A r \in Rooms : PlayerCount(r) <= maxPlayers[r]

\* A room that createRoomWithHost may hand to a new host holds nobody: rows of
\* a former life of the room never become players of the next one.
TerminatedRoomIsEmpty == \A r \in TerminatedRooms : players[r] = {}

\* A game in progress belongs to a room in GAME_IN_PROGRESS: a room is not
\* terminated, and so not reused, while one of its games still runs, although
\* games and rooms are updated by different calls.
RunningGameHoldsItsRoom ==
    \A g \in Games : gameStatus[g] = "IN_PROGRESS" =>
        /\ gameRoom[g] \in Rooms
        /\ roomStatus[gameRoom[g]] = "GAME_IN_PROGRESS"

\* No call moves two users: whoever joins, leaves or is removed after a
\* disconnect, everybody else stays in exactly the rooms they were in.
OneUserMovesAtATime ==
    [][\A u, v \in Users :
          u # v => \/ \A r \in Rooms : u \in players[r] <=> u \in players'[r]
                   \/ \A r \in Rooms : v \in players[r] <=> v \in players'[r]]_vars

\* Nobody enters a room that is playing: a user found in a room after a step and
\* not before it entered while the room was WAITING, or created it.
EnterOnlyWhileWaiting ==
    [][\A r \in Rooms : \A u \in players'[r] \ players[r] :
          /\ roomStatus'[r] = "WAITING"
          /\ roomStatus[r] = "WAITING" \/ players'[r] = {u}]_vars

\* The room is terminated, with the games it was running, in the same step in
\* which its last player leaves, provided that player was in no other room.
LastExitTerminates ==
    [][\A r \in Rooms, u \in Users :
          players[r] = {u} /\ players'[r] = {} /\ RoomsOf(u) = {r} =>
              /\ roomStatus'[r] = "TERMINATED"
              /\ \A g \in Games : gameRoom'[g] = r => gameStatus'[g] # "IN_PROGRESS"]_vars

----------------------------------------------------------------------------
(* What the code's comments say and the code does not do *)

\* "No players left in the room: set its status to TERMINATED" (removePlayer).
\* A player of two rooms who leaves empties both, and one of them stays open
\* with nobody in it: no exit can ever terminate it again.
EmptiedRoomIsTerminated ==
    [][\A r \in Rooms : players[r] # {} /\ players'[r] = {} =>
          roomStatus'[r] = "TERMINATED"]_vars

----------------------------------------------------------------------------
(* The abstract specification *)

\* No room ever takes a ninth player.
HasSeat(crew) == Cardinality(crew) < 8

Lobby == INSTANCE RoomLobby WITH open <- OpenRooms, crew <- players, HasSeat <- HasSeat

\* The tables behave as the rooms of RoomLobby do, whatever the database, the
\* mirror servers and the players do: opening, entering, leaving and the late
\* start are the only ways the rooms a player sees ever change.
ImplementsLobby == Lobby!Spec
=============================================================================
