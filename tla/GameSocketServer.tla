-------------------------- MODULE GameSocketServer --------------------------
(***************************************************************************)
(* GameSocketServer, the earlier form of the matching server: one thread   *)
(* that reads a request of a session, calls the repositories, and writes   *)
(* the answer.  Every repository call is a transaction on a connection of  *)
(* the pool and a step here, so that the process may die between two of    *)
(* them; nothing else runs meanwhile.  Sessions that end leave the rooms   *)
(* alone: there is neither a time-out nor a table of sessions.             *)
(*                                                                         *)
(* GameService is not reachable: session.cpp sends gameStart and gameEnd   *)
(* to a controller that knows startGame and endGame only.                  *)
(***************************************************************************)
EXTENDS Integers, FiniteSets

CONSTANTS
    Sessions,
    Users,       \* a user name and the id of its row
    Rooms,       \* the rows of rooms
    Sizes,       \* maxPlayers values that pass the validation
    PoolSize,    \* connections the pool starts with: 5
    MaxConn,     \* connections the database grants the process
    DbFaults,    \* whether the database may fail in a call
    Nobody

ASSUME GssRoomsAssumption == Rooms \subseteq Nat \ {0}
ASSUME GssSizesAssumption == Sizes \subseteq 2..8
ASSUME GssPoolAssumption == PoolSize \in Nat /\ MaxConn \in Nat /\ PoolSize <= MaxConn
ASSUME GssFaultsAssumption == DbFaults \in BOOLEAN
ASSUME GssNobodyAssumption == Nobody \notin Users

VARIABLES
    conn,         \* what the session waits for; an answer counts as one
    userId,       \* Session::user_id_
    call,         \* the request being served, and its next repository call
    users,        \* the rows of users
    roomStatus, maxPlayers, players,
    pool,         \* connections made so far
    leaked        \* connections in_use_ that nobody will return

tables == <<roomStatus, maxPlayers, players>>
vars == <<conn, userId, call, users, tables, pool, leaked>>

\* The room, and the limit, of a request that has none.
NoRoom == 0
NoSize == 0

Conn == {"closed", "reading", "handling", "success", "error"}
Stages == {"find", "insert", "touch", "pick", "open", "seat", "count", "remove", "list"}
AuthOps == {"register", "login"}
RoomOps == {"createRoom", "joinRoom", "exitRoom", "listRooms"}
Call == [session : Sessions, op : AuthOps \cup RoomOps, stage : Stages,
         user : Users, room : Rooms \cup {NoRoom}, size : Sizes \cup {NoSize}]
Idle == [stage |-> "idle"]

TypeOK ==
    /\ conn \in [Sessions -> Conn]
    /\ userId \in [Sessions -> Users \cup {Nobody}]
    /\ call \in Call \cup {Idle}
    /\ users \subseteq Users
    /\ roomStatus \in [Rooms -> {"TERMINATED", "WAITING"}]
    /\ maxPlayers \in [Rooms -> 2..8]
    /\ players \in [Rooms -> SUBSET users]
    /\ pool \in PoolSize..MaxConn
    /\ leaked \in 0..pool

Init ==
    /\ conn = [s \in Sessions |-> "closed"]
    /\ userId = [s \in Sessions |-> Nobody]
    /\ call = Idle
    /\ users = {}
    /\ roomStatus = [r \in Rooms |-> "TERMINATED"]
    /\ maxPlayers = [r \in Rooms |-> 8]
    /\ players = [r \in Rooms |-> {}]
    /\ pool = PoolSize
    /\ leaked = 0

----------------------------------------------------------------------------
(* DbPool, and how a repository call uses it *)

\* A plausible bug of get_connection: it hands out a connection that is in use.
Lend_InUse ==
    /\ leaked < pool \/ pool < MaxConn
    /\ UNCHANGED pool

\* get_connection: a free connection, or else a new one.
Lend ==
    /\ leaked < pool \/ pool < MaxConn
    /\ pool' = IF leaked < pool THEN pool ELSE pool + 1

\* The call gives its connection back, after a commit or an abort.
Borrow == Lend /\ UNCHANGED leaked

\* The call returns, or throws, without return_connection.
Leak == Lend /\ leaked' = leaked + 1

\* The call throws before its try block: there is no connection, or the
\* transaction cannot be started on the one it got.
NoConnection ==
    \/ /\ DbFaults \/ (leaked = pool /\ pool = MaxConn)
       /\ UNCHANGED <<pool, leaked>>
    \/ DbFaults /\ Leak

----------------------------------------------------------------------------
(* Sessions *)

\* The answer of RoomController is a string.  That of AuthController is an
\* object, whose conversion for write_response throws: the client is told
\* "Invalid request format" whatever happened.
Answer(ok) ==
    /\ call' = Idle
    /\ conn' = [conn EXCEPT ![call.session] =
                    IF ok /\ call.op \notin AuthOps THEN "success" ELSE "error"]

Proceed(stage, r) ==
    /\ call' = [call EXCEPT !.stage = stage, !.room = r]
    /\ UNCHANGED conn

Accept(s) ==
    /\ call = Idle
    /\ conn[s] = "closed"
    /\ conn' = [conn EXCEPT ![s] = "reading"]
    /\ userId' = [userId EXCEPT ![s] = Nobody]
    /\ UNCHANGED <<call, users, tables, pool, leaked>>

\* Requests that reach no repository: not JSON, without a field, of an unknown
\* action, refused by a validation, about rooms without a login; and every
\* request about games.
Refuse(s) ==
    /\ call = Idle
    /\ conn[s] = "reading"
    /\ conn' = [conn EXCEPT ![s] = "error"]
    /\ UNCHANGED <<userId, call, users, tables, pool, leaked>>

Begin(s, op, stage, u, r, n) ==
    /\ call = Idle
    /\ conn[s] = "reading"
    /\ conn' = [conn EXCEPT ![s] = "handling"]
    /\ call' = [session |-> s, op |-> op, stage |-> stage, user |-> u, room |-> r, size |-> n]
    /\ UNCHANGED <<userId, users, tables, pool, leaked>>

AuthRequest(s) ==
    \E op \in AuthOps, u \in Users : Begin(s, op, "find", u, NoRoom, NoSize)

\* user_id_ is written over the userId of the request.
RoomRequest(s) ==
    \E u \in Users \cap {userId[s]} :
        \/ \E n \in Sizes : Begin(s, "createRoom", "pick", u, NoRoom, n)
        \/ \E r \in Rooms \cup {NoRoom} : Begin(s, "joinRoom", "seat", u, r, NoSize)
        \/ Begin(s, "exitRoom", "remove", u, NoRoom, NoSize)
        \/ Begin(s, "listRooms", "list", u, NoRoom, NoSize)

\* The answer is written; the next request may be read.
WriteDone(s) ==
    /\ call = Idle
    /\ conn[s] \in {"success", "error"}
    /\ conn' = [conn EXCEPT ![s] = "reading"]
    /\ UNCHANGED <<userId, call, users, tables, pool, leaked>>

\* handle_error: the socket is closed and nothing else is cleaned up; no
\* handler keeps the session alive.
HandleError(s) ==
    /\ call = Idle
    /\ conn[s] \in {"reading", "success", "error"}
    /\ conn' = [conn EXCEPT ![s] = "closed"]
    /\ userId' = [userId EXCEPT ![s] = Nobody]
    /\ UNCHANGED <<call, users, tables, pool, leaked>>

----------------------------------------------------------------------------
(* UserRepository, called by AuthService *)

\* The name is taken, for a registration; a login checks the password.
NameFound ==
    \/ call.op = "login" /\ Proceed("touch", NoRoom)
    \/ Answer(FALSE)

NameUnknown ==
    IF call.op = "register" THEN Proceed("insert", NoRoom) ELSE Answer(FALSE)

\* A plausible bug of get_connection: it waits until a connection is returned.
FindByUsername_Waits ==
    /\ call.stage = "find"
    /\ \/ call.user \in users /\ Borrow /\ NameFound
       \/ call.user \notin users /\ Leak /\ NameUnknown
    /\ UNCHANGED <<userId, users, tables>>

\* The early return for an unknown name keeps the connection; a failing query
\* is answered like an unknown name.
FindByUsername ==
    /\ call.stage = "find"
    /\ \/ call.user \in users /\ Borrow /\ NameFound
       \/ call.user \notin users /\ Leak /\ NameUnknown
       \/ DbFaults /\ Borrow /\ NameUnknown
       \/ NoConnection /\ Answer(FALSE)
    /\ UNCHANGED <<userId, users, tables>>

\* users.user_name is UNIQUE.
CreateUser ==
    /\ call.stage = "insert"
    /\ \/ call.user \notin users /\ Borrow /\ users' = users \cup {call.user}
       \/ (call.user \in users \/ DbFaults) /\ Borrow /\ UNCHANGED users
       \/ NoConnection /\ UNCHANGED users
    /\ Answer(TRUE)
    /\ UNCHANGED <<userId, tables>>

\* Whether the UPDATE worked is not looked at.  The session's user is set
\* before the answer is converted.
UpdateLastLogin ==
    /\ call.stage = "touch"
    /\ \/ Borrow /\ userId' = [userId EXCEPT ![call.session] = call.user] /\ Answer(TRUE)
       \/ NoConnection /\ UNCHANGED userId /\ Answer(FALSE)
    /\ UNCHANGED <<users, tables>>

----------------------------------------------------------------------------
(* RoomRepository, called by RoomService *)

TerminatedRooms == {r \in Rooms : roomStatus[r] = "TERMINATED"}
OpenRooms == {r \in Rooms : roomStatus[r] = "WAITING"}
PlayerCount(r) == Cardinality(players[r])
RoomsOf(u) == {r \in Rooms : u \in players[r]}

\* The transaction is not committed, or is not even begun; the call answers
\* false, or throws into the service.
Fails(refused) ==
    /\ \/ (refused \/ DbFaults) /\ Borrow
       \/ NoConnection
    /\ Answer(FALSE)
    /\ UNCHANGED tables

\* The transaction is committed; the answer may still be lost in an exception.
Commits(txn, next) ==
    /\ Borrow
    /\ txn
    /\ \/ next
       \/ DbFaults /\ Answer(FALSE)

\* The first TERMINATED room, or -1 when there is none or the query fails.
FindValidRoom ==
    /\ call.stage = "pick"
    /\ \/ /\ Borrow
          /\ \E r \in TerminatedRooms :
                (\A q \in TerminatedRooms : r <= q) /\ Proceed("open", r)
       \/ Borrow /\ (TerminatedRooms = {} \/ DbFaults) /\ Proceed("open", NoRoom)
       \/ NoConnection /\ Answer(FALSE)
    /\ UNCHANGED <<userId, users, tables>>

ReopenRoom(r, n) ==
    /\ roomStatus' = [roomStatus EXCEPT ![r] = "WAITING"]
    /\ maxPlayers' = [maxPlayers EXCEPT ![r] = n]
    /\ UNCHANGED players

\* RoomRepository::create.
Create ==
    /\ call.stage = "open"
    /\ \/ /\ call.room \in TerminatedRooms
          /\ Commits(ReopenRoom(call.room, call.size), Proceed("seat", call.room))
       \/ Fails(call.room \notin TerminatedRooms)
    /\ UNCHANGED <<userId, users>>

\* Plausible bugs of addPlayer: an off-by-one in the limit, no status check.
CanAddPlayer_OneTooMany(r, u) ==
    r \in OpenRooms /\ u \notin players[r] /\ PlayerCount(r) <= maxPlayers[r]
CanAddPlayer_AnyStatus(r, u) ==
    r \in Rooms /\ u \notin players[r] /\ PlayerCount(r) < maxPlayers[r]

CanAddPlayer(r, u) ==
    /\ r \in OpenRooms
    /\ u \notin players[r]
    /\ PlayerCount(r) < maxPlayers[r]

Enter(r, u) ==
    /\ players' = [players EXCEPT ![r] = @ \cup {u}]
    /\ UNCHANGED <<roomStatus, maxPlayers>>

\* A host is done; a player who joins is shown the room first.
AddPlayer ==
    /\ call.stage = "seat"
    /\ \/ /\ CanAddPlayer(call.room, call.user)
          /\ Commits(Enter(call.room, call.user),
                     IF call.op = "createRoom" THEN Answer(TRUE) ELSE Proceed("count", call.room))
       \/ Fails(~CanAddPlayer(call.room, call.user))
    /\ UNCHANGED <<userId, users>>

\* getPlayerCount and getPlayersInRoom: an error in them is an error of
\* joinRoom, although the player was added.
ShowRoom ==
    /\ call.stage = "count"
    /\ \/ Borrow /\ Answer(TRUE)
       \/ NoConnection /\ Answer(FALSE)
    /\ UNCHANGED <<userId, users, tables>>

\* Plausible bugs of removePlayer: a room left by all but one is terminated;
\* players are counted before the DELETE.
LeaveFrom_OneLeft(r, u) ==
    /\ players' = [q \in Rooms |-> players[q] \ {u}]
    /\ roomStatus' = [roomStatus EXCEPT ![r] = IF PlayerCount(r) <= 2 THEN "TERMINATED" ELSE @]
    /\ UNCHANGED maxPlayers
LeaveFrom_CountsFirst(r, u) ==
    /\ players' = [q \in Rooms |-> players[q] \ {u}]
    /\ UNCHANGED <<roomStatus, maxPlayers>>

\* Deletes the user's rows in all rooms and counts the players of r only, the
\* room of the first row found.
LeaveFrom(r, u) ==
    /\ players' = [q \in Rooms |-> players[q] \ {u}]
    /\ roomStatus' = [roomStatus EXCEPT ![r] = IF players[r] = {u} THEN "TERMINATED" ELSE @]
    /\ UNCHANGED maxPlayers

RemovePlayer ==
    /\ call.stage = "remove"
    /\ \/ \E r \in RoomsOf(call.user) : Commits(LeaveFrom(r, call.user), Answer(TRUE))
       \/ Fails(RoomsOf(call.user) = {})
    /\ UNCHANGED <<userId, users>>

\* findAllOpen, and the number of players of each room.
ListRooms ==
    /\ call.stage = "list"
    /\ \/ Borrow /\ Answer(TRUE) /\ UNCHANGED tables
       \/ Fails(FALSE)
    /\ UNCHANGED <<userId, users>>

----------------------------------------------------------------------------

\* The thread goes on with the request it serves.
Serve ==
    \/ FindByUsername \/ CreateUser \/ UpdateLastLogin
    \/ FindValidRoom \/ Create \/ AddPlayer \/ ShowRoom \/ RemovePlayer \/ ListRooms

\* The process dies, by a signal or a crash, and is started again.
Restart ==
    /\ conn' = [s \in Sessions |-> "closed"]
    /\ userId' = [s \in Sessions |-> Nobody]
    /\ call' = Idle
    /\ pool' = PoolSize
    /\ leaked' = 0
    /\ UNCHANGED <<users, tables>>

Next ==
    \/ \E s \in Sessions :
        \/ Accept(s)
        \/ Refuse(s)
        \/ AuthRequest(s)
        \/ RoomRequest(s)
        \/ WriteDone(s)
        \/ HandleError(s)
    \/ Serve
    \/ Restart

Spec == Init /\ [][Next]_vars

\* io_context.run() goes on as long as there is a handler to run.
LiveSpec == Spec /\ WF_vars(Serve)

----------------------------------------------------------------------------
(* Properties *)

\* findValidRoom hands out rooms that hold nobody, although createRoom opens a
\* room in one transaction and seats its host in another.
TerminatedRoomIsEmpty == \A r \in TerminatedRooms : players[r] = {}

\* A host who is told that the room was created is in it, alone: whatever
\* failed or died in earlier calls left nobody in the row.
HostStartsAlone ==
    [][\A s \in Sessions :
          /\ conn[s] = "handling" /\ conn'[s] = "success"
          /\ call.op = "createRoom"
          => players'[call.room] = {userId[s]}]_vars

\* No room takes more players than the largest room has seats.
HasSeat(crew) == \E n \in Sizes : Cardinality(crew) < n

Lobby == INSTANCE RoomLobby WITH open <- OpenRooms, crew <- players, HasSeat <- HasSeat

\* The rooms behave as those of the server that replaced this one: createRoom is
\* a late start followed by its host's entering, and may stop after the first;
\* nobody enters a full or a terminated room, leaving moves nobody else, and the last
\* player of a room, who is in no other, terminates it by leaving.
ImplementsLobby == Lobby!Spec

\* Every request is answered or dies with its process: no path through the
\* services and their exception handlers, with or without a connection left,
\* keeps the only thread from answering.
RequestIsAnswered ==
    \A s \in Sessions : conn[s] = "handling" ~> conn[s] # "handling"
=============================================================================
