----------------------- MODULE GameSocketServerProofs -----------------------
(***************************************************************************)
(* Proofs about GameSocketServer for every set of sessions, users and      *)
(* rooms, every pool, and with or without failures of the database.  One   *)
(* thread serves one request at a time: what a repository call finds is    *)
(* what the call before it left, unless the process died between them.     *)
(***************************************************************************)
EXTENDS GameSocketServer, TLAPS

----------------------------------------------------------------------------
(* The inductive invariant *)

\* The rooms of the database.  A limit is one that createRoom checked, as long as
\* the room is open.
TablesInv ==
    /\ roomStatus \in [Rooms -> {"TERMINATED", "WAITING"}]
    /\ maxPlayers \in [Rooms -> 2..8]
    /\ players \in [Rooms -> SUBSET users]
    /\ TerminatedRoomIsEmpty
    /\ \A r \in OpenRooms : maxPlayers[r] \in Sizes

PoolInv == pool \in PoolSize..MaxConn /\ leaked \in 0..pool

\* Which repository calls a request makes.
StagesOf(op) ==
    CASE op = "register" -> {"find", "insert"}
      [] op = "login" -> {"find", "touch"}
      [] op = "createRoom" -> {"pick", "open", "seat"}
      [] op = "joinRoom" -> {"seat", "count"}
      [] op = "exitRoom" -> {"remove"}
      [] op = "listRooms" -> {"list"}

\* The request being served: whose it is, and what its earlier repository calls
\* have established.  A host finds the room that was picked still empty.
CallOK(c) ==
    /\ c \in Call
    /\ c.stage \in StagesOf(c.op)
    /\ conn[c.session] = "handling"
    /\ c.op \in RoomOps => userId[c.session] = c.user
    /\ c.stage \notin {"find", "insert"} => c.user \in users
    /\ c.op = "createRoom" => c.size \in Sizes
    /\ c.op = "createRoom" /\ c.stage = "seat" => c.room \in Rooms /\ players[c.room] = {}

IInv ==
    /\ conn \in [Sessions -> Conn]
    /\ userId \in [Sessions -> users \cup {Nobody}]
    /\ users \subseteq Users
    /\ TablesInv
    /\ PoolInv
    /\ call = Idle \/ CallOK(call)
    /\ \A s \in Sessions : conn[s] = "handling" => call # Idle /\ call.session = s

LEMMA IInvType == IInv => TypeOK
BY DEF IInv, TypeOK, TablesInv, PoolInv, CallOK

\* The thread has no request, or it is in one of the stages.
LEMMA Serving ==
    ASSUME IInv, call.stage \in Stages
    PROVE  CallOK(call) /\ call \in Call /\ call # Idle
BY DEF IInv, Idle, Stages, CallOK

----------------------------------------------------------------------------
(* The pool *)

\* Every way a repository call uses the pool keeps its accounts.
LEMMA PoolStep ==
    ASSUME PoolInv, Borrow \/ Leak \/ NoConnection
    PROVE  PoolInv'
<1>1. pool \in Nat /\ leaked \in Nat /\ PoolSize \in Nat /\ MaxConn \in Nat
      /\ PoolSize <= pool /\ pool <= MaxConn /\ leaked <= pool
  BY GssPoolAssumption DEF PoolInv
<1>2. CASE UNCHANGED <<pool, leaked>>
  BY <1>2 DEF PoolInv
<1>3. CASE Borrow
  BY <1>1, <1>3 DEF Borrow, Lend, PoolInv
<1>4. CASE Leak
  BY <1>1, <1>4 DEF Leak, Lend, PoolInv
<1> QED
  BY <1>2, <1>3, <1>4 DEF NoConnection

----------------------------------------------------------------------------
(* What one step leaves of the invariant to show *)

\* The request ends.
LEMMA AnswerStep ==
    ASSUME IInv, CallOK(call), NEW ok \in BOOLEAN, Answer(ok),
           userId' \in [Sessions -> users' \cup {Nobody}], users' \subseteq Users,
           TablesInv', PoolInv'
    PROVE  IInv'
<1>1. call \in Call /\ call' = Idle /\ call.session \in Sessions
  BY DEF Answer, CallOK, Call
<1>2. /\ conn' \in [Sessions -> Conn] /\ conn'[call.session] # "handling"
      /\ \A s \in Sessions : s # call.session => conn'[s] = conn[s]
  BY <1>1 DEF Answer, IInv, Conn
<1> QED
  BY <1>1, <1>2 DEF IInv

\* The request goes on to its next repository call.
LEMMA ProceedStep ==
    ASSUME IInv, CallOK(call), NEW stage \in Stages, NEW r \in Rooms \cup {NoRoom},
           Proceed(stage, r), stage \in StagesOf(call.op),
           users' = users, userId' = userId,
           stage \notin {"find", "insert"} => call.user \in users,
           call.op = "createRoom" /\ stage = "seat" => r \in Rooms /\ players'[r] = {},
           TablesInv', PoolInv'
    PROVE  IInv'
<1>1. /\ call' = [call EXCEPT !.stage = stage, !.room = r] /\ conn' = conn
      /\ call \in Call
  BY DEF Proceed, CallOK
<1>2. /\ call' \in Call /\ call'.stage = stage /\ call'.room = r /\ call'.op = call.op
      /\ call'.user = call.user /\ call'.session = call.session /\ call'.size = call.size
  BY <1>1 DEF Call
<1>3. call' # Idle
  BY <1>2 DEF Idle, Stages
<1>4. CallOK(call)'
  BY <1>1, <1>2 DEF CallOK
<1> QED
  BY <1>1, <1>2, <1>3, <1>4 DEF IInv

\* The rooms are as they were; the table of users may have grown.
LEMMA TablesStay ==
    ASSUME TablesInv, UNCHANGED tables, users \subseteq users'
    PROVE  TablesInv'
BY DEF TablesInv, tables, TerminatedRoomIsEmpty, TerminatedRooms, OpenRooms

LEMMA ReopenKeepsTables ==
    ASSUME TablesInv, users' = users, NEW r \in TerminatedRooms, NEW n \in Sizes, ReopenRoom(r, n)
    PROVE  TablesInv' /\ players'[r] = {}
BY GssSizesAssumption
   DEF TablesInv, ReopenRoom, TerminatedRoomIsEmpty, TerminatedRooms, OpenRooms

LEMMA EnterKeepsTables ==
    ASSUME TablesInv, users' = users, NEW r, NEW u \in users, CanAddPlayer(r, u), Enter(r, u)
    PROVE  TablesInv'
BY DEF TablesInv, Enter, CanAddPlayer, TerminatedRoomIsEmpty, TerminatedRooms, OpenRooms

LEMMA LeaveKeepsTables ==
    ASSUME TablesInv, users' = users, NEW r \in Rooms, NEW u, u \in players[r], LeaveFrom(r, u)
    PROVE  TablesInv'
<1>1. /\ roomStatus' \in [Rooms -> {"TERMINATED", "WAITING"}] /\ maxPlayers' = maxPlayers
      /\ players' \in [Rooms -> SUBSET users']
      /\ players' = [q \in Rooms |-> players[q] \ {u}]
  BY DEF TablesInv, LeaveFrom
<1>2. \A q \in Rooms : roomStatus'[q] = IF q = r /\ players[r] = {u} THEN "TERMINATED" ELSE roomStatus[q]
  BY DEF TablesInv, LeaveFrom
<1> QED
  BY <1>1, <1>2 DEF TablesInv, TerminatedRoomIsEmpty, TerminatedRooms, OpenRooms

----------------------------------------------------------------------------
(* The repository calls *)

LEMMA FindByUsernameKeeps ==
    ASSUME IInv, FindByUsername
    PROVE  IInv' /\ call.op \in AuthOps /\ UNCHANGED tables
<1>1. CallOK(call) /\ call \in Call /\ call.stage = "find"
  BY Serving DEF FindByUsername, Stages
<1>2. call.op \in AuthOps
  BY <1>1 DEF CallOK, Call, StagesOf, AuthOps, RoomOps
<1>3. users' = users /\ userId' = userId /\ UNCHANGED tables
  BY DEF FindByUsername
<1>4. TablesInv' /\ PoolInv'
  BY <1>3, TablesStay, PoolStep DEF FindByUsername, IInv
<1>5. \/ Answer(FALSE)
      \/ call.op = "login" /\ call.user \in users /\ Proceed("touch", NoRoom)
      \/ call.op = "register" /\ Proceed("insert", NoRoom)
  BY DEF FindByUsername, NameFound, NameUnknown
<1>6. CASE Answer(FALSE)
  BY <1>1, <1>2, <1>3, <1>4, <1>6, AnswerStep DEF IInv
<1>7. CASE call.op = "login" /\ call.user \in users /\ Proceed("touch", NoRoom)
  BY <1>1, <1>2, <1>3, <1>4, <1>7, ProceedStep DEF StagesOf, Stages
<1>8. CASE call.op = "register" /\ Proceed("insert", NoRoom)
  BY <1>1, <1>2, <1>3, <1>4, <1>8, ProceedStep DEF StagesOf, Stages
<1> QED
  BY <1>5, <1>6, <1>7, <1>8

LEMMA CreateUserKeeps ==
    ASSUME IInv, CreateUser
    PROVE  IInv' /\ call.op = "register" /\ UNCHANGED tables
<1>1. CallOK(call) /\ call \in Call /\ call.stage = "insert"
  BY Serving DEF CreateUser, Stages
<1>2. call.op = "register" /\ call.user \in Users
  BY <1>1 DEF CallOK, Call, StagesOf, AuthOps, RoomOps
<1>3. Answer(TRUE) /\ userId' = userId /\ UNCHANGED tables
  BY DEF CreateUser
<1>4. users \subseteq users' /\ users' \subseteq Users
  BY <1>2 DEF CreateUser, IInv
<1>5. TablesInv' /\ PoolInv'
  BY <1>3, <1>4, TablesStay, PoolStep DEF CreateUser, IInv
<1>6. userId' \in [Sessions -> users' \cup {Nobody}]
  BY <1>3, <1>4 DEF IInv
<1> QED
  BY <1>1, <1>2, <1>3, <1>4, <1>5, <1>6, AnswerStep

LEMMA UpdateLastLoginKeeps ==
    ASSUME IInv, UpdateLastLogin
    PROVE  IInv' /\ call.op = "login" /\ UNCHANGED tables
<1>1. CallOK(call) /\ call \in Call /\ call.stage = "touch"
  BY Serving DEF UpdateLastLogin, Stages
<1>2. call.op = "login" /\ call.user \in users
  BY <1>1 DEF CallOK, Call, StagesOf, AuthOps, RoomOps
<1>3. users' = users /\ UNCHANGED tables
  BY DEF UpdateLastLogin
<1>4. TablesInv' /\ PoolInv'
  BY <1>3, TablesStay, PoolStep DEF UpdateLastLogin, IInv
<1>5. userId' \in [Sessions -> users' \cup {Nobody}] /\ users' \subseteq Users
  BY <1>2, <1>3 DEF UpdateLastLogin, IInv
<1>6. \E ok \in BOOLEAN : Answer(ok)
  BY DEF UpdateLastLogin
<1> QED
  BY <1>1, <1>2, <1>3, <1>4, <1>5, <1>6, AnswerStep

LEMMA FindValidRoomKeeps ==
    ASSUME IInv, FindValidRoom
    PROVE  /\ IInv' /\ call.stage = "pick" /\ UNCHANGED tables
           /\ Answer(FALSE) \/ UNCHANGED conn
<1>1. CallOK(call) /\ call \in Call /\ call.stage = "pick"
  BY Serving DEF FindValidRoom, Stages
<1>2. call.op = "createRoom"
  BY <1>1 DEF CallOK, Call, StagesOf, AuthOps, RoomOps
<1>3. users' = users /\ userId' = userId /\ UNCHANGED tables
  BY DEF FindValidRoom
<1>4. TablesInv' /\ PoolInv'
  BY <1>3, TablesStay, PoolStep DEF FindValidRoom, IInv
<1>5. Answer(FALSE) \/ \E r \in Rooms \cup {NoRoom} : Proceed("open", r)
  BY DEF FindValidRoom, TerminatedRooms
<1>6. CASE Answer(FALSE)
  BY <1>1, <1>3, <1>4, <1>6, AnswerStep DEF IInv
<1>7. ASSUME NEW r \in Rooms \cup {NoRoom}, Proceed("open", r)
      PROVE  IInv' /\ UNCHANGED conn
  <2>1. call.user \in users /\ "open" \in StagesOf(call.op) /\ "open" \in Stages
    BY <1>1, <1>2 DEF CallOK, StagesOf, Stages
  <2> QED
    BY <1>1, <1>3, <1>4, <1>7, <2>1, ProceedStep DEF Proceed
<1> QED
  BY <1>1, <1>3, <1>5, <1>6, <1>7

LEMMA CreateKeeps ==
    ASSUME IInv, Create
    PROVE  /\ IInv' /\ call.stage = "open"
           /\ \/ UNCHANGED tables
              \/ \E r \in TerminatedRooms, n \in Sizes : ReopenRoom(r, n)
           /\ Answer(FALSE) \/ UNCHANGED conn
<1>1. CallOK(call) /\ call \in Call /\ call.stage = "open"
  BY Serving DEF Create, Stages
<1>2. call.op = "createRoom"
  BY <1>1 DEF CallOK, Call, StagesOf, AuthOps, RoomOps
<1>3. users' = users /\ userId' = userId /\ call.size \in Sizes /\ call.user \in users
  BY <1>1, <1>2 DEF Create, CallOK
<1>4. CASE Fails(call.room \notin TerminatedRooms)
  <2>1. UNCHANGED tables /\ Answer(FALSE)
    BY <1>4 DEF Fails
  <2>2. TablesInv' /\ PoolInv'
    BY <1>3, <1>4, <2>1, TablesStay, PoolStep DEF Fails, IInv
  <2> QED
    BY <1>1, <1>3, <2>1, <2>2, AnswerStep DEF IInv
<1>5. CASE /\ call.room \in TerminatedRooms
           /\ Commits(ReopenRoom(call.room, call.size), Proceed("seat", call.room))
  <2>1. ReopenRoom(call.room, call.size) /\ Borrow
    BY <1>5 DEF Commits
  <2>2. TablesInv' /\ players'[call.room] = {} /\ call.room \in Rooms
    BY <1>3, <1>5, <2>1, ReopenKeepsTables DEF IInv, TerminatedRooms
  <2>3. PoolInv'
    BY <2>1, PoolStep DEF IInv
  <2>4. CASE Proceed("seat", call.room)
    <3>1. "seat" \in StagesOf(call.op) /\ "seat" \in Stages
      BY <1>2 DEF StagesOf, Stages
    <3>2. IInv'
      BY <1>1, <1>3, <2>2, <2>3, <2>4, <3>1, ProceedStep
    <3> QED
      BY <1>1, <1>3, <1>5, <2>1, <2>4, <3>2 DEF Proceed
  <2>5. CASE Answer(FALSE)
    <3>1. IInv'
      BY <1>1, <1>3, <2>2, <2>3, <2>5, AnswerStep DEF IInv
    <3> QED
      BY <1>1, <1>3, <1>5, <2>1, <2>5, <3>1
  <2> QED
    BY <1>5, <2>4, <2>5 DEF Commits
<1> QED
  BY <1>4, <1>5 DEF Create

\* A host is told of a room that was empty before; who joins is told later.
LEMMA AddPlayerKeeps ==
    ASSUME IInv, AddPlayer
    PROVE  /\ IInv' /\ call.stage = "seat"
           /\ \/ UNCHANGED tables
              \/ \E r \in OpenRooms, u \in users : CanAddPlayer(r, u) /\ Enter(r, u)
           /\ \/ Answer(FALSE) \/ UNCHANGED conn
              \/ /\ call.op = "createRoom"
                 /\ players'[call.room] = {userId[call.session]}
<1>1. CallOK(call) /\ call \in Call /\ call.stage = "seat"
  BY Serving DEF AddPlayer, Stages
<1>2. call.op \in {"createRoom", "joinRoom"} /\ call.user \in users
      /\ userId[call.session] = call.user
  BY <1>1 DEF CallOK, Call, StagesOf, AuthOps, RoomOps
<1>3. users' = users /\ userId' = userId
  BY DEF AddPlayer
<1>4. CASE Fails(~CanAddPlayer(call.room, call.user))
  <2>1. UNCHANGED tables /\ Answer(FALSE)
    BY <1>4 DEF Fails
  <2>2. TablesInv' /\ PoolInv'
    BY <1>3, <1>4, <2>1, TablesStay, PoolStep DEF Fails, IInv
  <2> QED
    BY <1>1, <1>3, <2>1, <2>2, AnswerStep DEF IInv
<1>5. CASE /\ CanAddPlayer(call.room, call.user)
           /\ Commits(Enter(call.room, call.user),
                      IF call.op = "createRoom" THEN Answer(TRUE) ELSE Proceed("count", call.room))
  <2>1. Enter(call.room, call.user) /\ Borrow
    BY <1>5 DEF Commits
  <2>2. TablesInv' /\ call.room \in OpenRooms /\ call.room \in Rooms
    BY <1>2, <1>3, <1>5, <2>1, EnterKeepsTables DEF IInv, CanAddPlayer, OpenRooms
  <2>3. PoolInv'
    BY <2>1, PoolStep DEF IInv
  <2>4. \E r \in OpenRooms, u \in users : CanAddPlayer(r, u) /\ Enter(r, u)
    <3>1. PICK r \in OpenRooms : r = call.room
      BY <2>2
    <3>2. PICK u \in users : u = call.user
      BY <1>2
    <3> QED
      BY <1>5, <2>1, <3>1, <3>2 DEF Enter
  <2>5. CASE call.op = "createRoom" /\ Answer(TRUE)
    <3>1. IInv'
      BY <1>1, <1>3, <2>2, <2>3, <2>5, AnswerStep DEF IInv
    <3>2. players[call.room] = {}
      BY <1>1, <2>5 DEF CallOK
    <3>3. players'[call.room] = {userId[call.session]}
      BY <1>2, <2>1, <2>2, <3>2 DEF Enter, IInv, TablesInv
    <3> QED
      BY <1>1, <2>4, <2>5, <3>1, <3>3
  <2>6. CASE call.op # "createRoom" /\ Proceed("count", call.room)
    <3>1. "count" \in StagesOf(call.op) /\ "count" \in Stages
      BY <1>2, <2>6 DEF StagesOf, Stages
    <3>2. IInv'
      BY <1>1, <1>2, <1>3, <2>2, <2>3, <2>6, <3>1, ProceedStep
    <3> QED
      BY <1>1, <2>4, <2>6, <3>2 DEF Proceed
  <2>7. CASE Answer(FALSE)
    <3>1. IInv'
      BY <1>1, <1>3, <2>2, <2>3, <2>7, AnswerStep DEF IInv
    <3> QED
      BY <1>1, <2>4, <2>7, <3>1
  <2> QED
    BY <1>5, <2>5, <2>6, <2>7 DEF Commits
<1> QED
  BY <1>4, <1>5 DEF AddPlayer

LEMMA ShowRoomKeeps ==
    ASSUME IInv, ShowRoom
    PROVE  IInv' /\ call.op = "joinRoom" /\ UNCHANGED tables
<1>1. CallOK(call) /\ call \in Call /\ call.stage = "count"
  BY Serving DEF ShowRoom, Stages
<1>2. call.op = "joinRoom"
  BY <1>1 DEF CallOK, Call, StagesOf, AuthOps, RoomOps
<1>3. users' = users /\ userId' = userId /\ UNCHANGED tables
  BY DEF ShowRoom
<1>4. TablesInv' /\ PoolInv'
  BY <1>3, TablesStay, PoolStep DEF ShowRoom, IInv
<1>5. \E ok \in BOOLEAN : Answer(ok)
  BY DEF ShowRoom
<1> QED
  BY <1>1, <1>2, <1>3, <1>4, <1>5, AnswerStep DEF IInv

LEMMA RemovePlayerKeeps ==
    ASSUME IInv, RemovePlayer
    PROVE  /\ IInv' /\ call.op = "exitRoom"
           /\ \/ UNCHANGED tables
              \/ \E r \in Rooms, u \in Users : r \in RoomsOf(u) /\ LeaveFrom(r, u)
<1>1. CallOK(call) /\ call \in Call /\ call.stage = "remove"
  BY Serving DEF RemovePlayer, Stages
<1>2. call.op = "exitRoom"
  BY <1>1 DEF CallOK, Call, StagesOf, AuthOps, RoomOps
<1>3. users' = users /\ userId' = userId
  BY DEF RemovePlayer
<1>4. CASE Fails(RoomsOf(call.user) = {})
  <2>1. UNCHANGED tables /\ Answer(FALSE)
    BY <1>4 DEF Fails
  <2>2. TablesInv' /\ PoolInv'
    BY <1>3, <1>4, <2>1, TablesStay, PoolStep DEF Fails, IInv
  <2> QED
    BY <1>1, <1>2, <1>3, <2>1, <2>2, AnswerStep DEF IInv
<1>5. ASSUME NEW r \in RoomsOf(call.user), Commits(LeaveFrom(r, call.user), Answer(TRUE))
      PROVE  /\ IInv'
             /\ \E q \in Rooms, u \in Users : q \in RoomsOf(u) /\ LeaveFrom(q, u)
  <2>1. LeaveFrom(r, call.user) /\ Borrow /\ r \in Rooms /\ call.user \in players[r]
    BY <1>5 DEF Commits, RoomsOf
  <2>2. TablesInv' /\ PoolInv'
    BY <1>3, <2>1, LeaveKeepsTables, PoolStep DEF IInv
  <2>3. \E ok \in BOOLEAN : Answer(ok)
    BY <1>5 DEF Commits
  <2>4. IInv'
    BY <1>1, <1>3, <2>2, <2>3, AnswerStep DEF IInv
  <2>5. PICK u \in Users : u = call.user
    BY <1>1 DEF Call
  <2> QED
    BY <2>1, <2>4, <2>5 DEF LeaveFrom, RoomsOf
<1> QED
  BY <1>2, <1>4, <1>5 DEF RemovePlayer

LEMMA ListRoomsKeeps ==
    ASSUME IInv, ListRooms
    PROVE  IInv' /\ call.op = "listRooms" /\ UNCHANGED tables
<1>1. CallOK(call) /\ call \in Call /\ call.stage = "list"
  BY Serving DEF ListRooms, Stages
<1>2. call.op = "listRooms"
  BY <1>1 DEF CallOK, Call, StagesOf, AuthOps, RoomOps
<1>3. users' = users /\ userId' = userId /\ UNCHANGED tables
  BY DEF ListRooms, Fails
<1>4. TablesInv' /\ PoolInv'
  BY <1>3, TablesStay, PoolStep DEF ListRooms, Fails, IInv
<1>5. \E ok \in BOOLEAN : Answer(ok)
  BY DEF ListRooms, Fails
<1> QED
  BY <1>1, <1>2, <1>3, <1>4, <1>5, AnswerStep DEF IInv

----------------------------------------------------------------------------
(* Sessions *)

\* Sessions act only while no request is served.
LEMMA IdleStep ==
    ASSUME IInv, call = Idle, UNCHANGED <<users, tables, pool, leaked>>
    PROVE  /\ TablesInv' /\ PoolInv' /\ users' \subseteq Users
           /\ \A s \in Sessions : conn[s] # "handling"
<1>1. TablesInv' /\ PoolInv'
  BY TablesStay DEF IInv, PoolInv
<1> QED
  BY <1>1 DEF IInv

LEMMA SessionKeeps ==
    ASSUME IInv, NEW s \in Sessions,
           Accept(s) \/ Refuse(s) \/ WriteDone(s) \/ HandleError(s)
    PROVE  /\ IInv' /\ UNCHANGED tables
           /\ \A q \in Sessions : conn[q] # "handling"
<1>1. /\ call = Idle /\ call' = Idle /\ UNCHANGED <<users, tables, pool, leaked>>
      /\ userId' = userId \/ userId' = [userId EXCEPT ![s] = Nobody]
      /\ \E c \in Conn \ {"handling"} : conn' = [conn EXCEPT ![s] = c]
  BY DEF Accept, Refuse, WriteDone, HandleError, Conn
<1>2. /\ TablesInv' /\ PoolInv' /\ users' \subseteq Users
      /\ \A q \in Sessions : conn[q] # "handling"
  BY <1>1, IdleStep
<1>3. /\ conn' \in [Sessions -> Conn] /\ \A q \in Sessions : conn'[q] # "handling"
      /\ userId' \in [Sessions -> users' \cup {Nobody}]
  BY <1>1, <1>2 DEF IInv
<1> QED
  BY <1>1, <1>2, <1>3 DEF IInv

LEMMA BeginKeeps ==
    ASSUME IInv, NEW s \in Sessions, NEW op \in AuthOps \cup RoomOps, NEW stage \in StagesOf(op),
           NEW u \in Users, NEW r \in Rooms \cup {NoRoom}, NEW n \in Sizes \cup {NoSize},
           stage \in Stages, stage # "seat" \/ op # "createRoom",
           op \in RoomOps => u = userId[s], stage # "find" => u \in users,
           op = "createRoom" => n \in Sizes,
           Begin(s, op, stage, u, r, n)
    PROVE  /\ IInv' /\ UNCHANGED tables
           /\ \A q \in Sessions : conn[q] # "handling"
<1>1. /\ call = Idle /\ UNCHANGED <<userId, users, tables, pool, leaked>>
      /\ conn' = [conn EXCEPT ![s] = "handling"]
      /\ call' = [session |-> s, op |-> op, stage |-> stage, user |-> u, room |-> r, size |-> n]
  BY DEF Begin
<1>2. /\ TablesInv' /\ PoolInv' /\ users' \subseteq Users
      /\ \A q \in Sessions : conn[q] # "handling"
  BY <1>1, IdleStep
<1>3. /\ call' \in Call /\ call'.session = s /\ call'.op = op /\ call'.stage = stage
      /\ call'.user = u /\ call'.size = n
  BY <1>1 DEF Call
<1>4. call' # Idle
  BY <1>3 DEF Idle, Stages
<1>5. conn' \in [Sessions -> Conn] /\ \A q \in Sessions : conn'[q] = "handling" => q = s
  BY <1>1, <1>2 DEF IInv, Conn
<1>6. conn'[s] = "handling"
  BY <1>1 DEF IInv
<1>7. CallOK(call)'
  BY <1>1, <1>3, <1>6 DEF CallOK, Stages
<1>8. userId' \in [Sessions -> users' \cup {Nobody}]
  BY <1>1 DEF IInv
<1> QED
  BY <1>1, <1>2, <1>3, <1>4, <1>5, <1>7, <1>8 DEF IInv

LEMMA RequestKeeps ==
    ASSUME IInv, NEW s \in Sessions, AuthRequest(s) \/ RoomRequest(s)
    PROVE  /\ IInv' /\ UNCHANGED tables
           /\ \A q \in Sessions : conn[q] # "handling"
<1> DEFINE Kept == /\ IInv' /\ UNCHANGED tables
                   /\ \A q \in Sessions : conn[q] # "handling"
<1> USE DEF AuthOps, RoomOps, StagesOf, Stages
<1>1. ASSUME NEW op \in AuthOps, NEW u \in Users, Begin(s, op, "find", u, NoRoom, NoSize)
      PROVE  Kept
  BY <1>1, BeginKeeps
<1>2. ASSUME NEW u \in Users \cap {userId[s]}
      PROVE  u \in Users /\ u = userId[s] /\ u \in users
  BY GssNobodyAssumption DEF IInv
<1>3. ASSUME NEW u \in Users \cap {userId[s]}, NEW n \in Sizes,
             Begin(s, "createRoom", "pick", u, NoRoom, n)
      PROVE  Kept
  BY <1>2, <1>3, BeginKeeps
<1>4. ASSUME NEW u \in Users \cap {userId[s]}, NEW r \in Rooms \cup {NoRoom},
             Begin(s, "joinRoom", "seat", u, r, NoSize)
      PROVE  Kept
  BY <1>2, <1>4, BeginKeeps
<1>5. ASSUME NEW u \in Users \cap {userId[s]},
             \/ Begin(s, "exitRoom", "remove", u, NoRoom, NoSize)
             \/ Begin(s, "listRooms", "list", u, NoRoom, NoSize)
      PROVE  Kept
  BY <1>2, <1>5, BeginKeeps
<1> QED
  BY <1>1, <1>3, <1>4, <1>5 DEF AuthRequest, RoomRequest

LEMMA RestartKeeps ==
    ASSUME IInv, Restart
    PROVE  IInv' /\ UNCHANGED tables /\ \A s \in Sessions : conn'[s] = "closed"
<1>1. TablesInv' /\ users' \subseteq Users
  BY TablesStay DEF Restart, IInv
<1>2. PoolInv'
  BY GssPoolAssumption DEF Restart, PoolInv
<1> QED
  BY <1>1, <1>2 DEF Restart, IInv, Conn

LEMMA InitEstablishesIInv == Init => IInv
<1> SUFFICES ASSUME Init PROVE IInv
  OBVIOUS
<1>1. TablesInv
  BY DEF Init, TablesInv, TerminatedRoomIsEmpty, TerminatedRooms, OpenRooms
<1>2. PoolInv
  BY GssPoolAssumption DEF Init, PoolInv
<1> QED
  BY <1>1, <1>2 DEF Init, IInv, Conn

\* What a step does to the tables.
TablesStep ==
    \/ UNCHANGED tables
    \/ \E r \in TerminatedRooms, n \in Sizes : ReopenRoom(r, n)
    \/ \E r \in OpenRooms, u \in users : CanAddPlayer(r, u) /\ Enter(r, u)
    \/ \E r \in Rooms, u \in Users : r \in RoomsOf(u) /\ LeaveFrom(r, u)

LEMMA NextKeepsIInv ==
    ASSUME IInv, [Next]_vars
    PROVE  IInv' /\ TablesStep
<1>1. ASSUME NEW s \in Sessions,
             \/ Accept(s) \/ Refuse(s) \/ WriteDone(s) \/ HandleError(s)
             \/ AuthRequest(s) \/ RoomRequest(s)
      PROVE  IInv' /\ TablesStep
  BY <1>1, SessionKeeps, RequestKeeps DEF TablesStep
<1>2. ASSUME FindByUsername \/ CreateUser \/ UpdateLastLogin \/ ShowRoom \/ ListRooms
             \/ FindValidRoom \/ Restart
      PROVE  IInv' /\ TablesStep
  BY <1>2, FindByUsernameKeeps, CreateUserKeeps, UpdateLastLoginKeeps, ShowRoomKeeps,
     ListRoomsKeeps, FindValidRoomKeeps, RestartKeeps DEF TablesStep
<1>3. ASSUME Create \/ AddPlayer \/ RemovePlayer
      PROVE  IInv' /\ TablesStep
  BY <1>3, CreateKeeps, AddPlayerKeeps, RemovePlayerKeeps DEF TablesStep
<1>4. CASE UNCHANGED vars
  <2>1. TablesInv'
    BY <1>4, TablesStay DEF IInv, vars
  <2>2. call = Idle \/ CallOK(call)'
    BY <1>4 DEF IInv, CallOK, vars, tables
  <2> QED
    BY <1>4, <2>1, <2>2 DEF IInv, PoolInv, vars, TablesStep
<1> QED
  BY <1>1, <1>2, <1>3, <1>4 DEF Next, Serve

----------------------------------------------------------------------------
(* The theorems *)

\* The inductive invariant: what the tables hold between two repository calls, and what
\* the earlier calls of the request being served have established for the later ones.
THEOREM Invariance == Spec => []IInv
<1>1. IInv /\ [Next]_vars => IInv'
  BY NextKeepsIInv
<1> QED
  BY <1>1, InitEstablishesIInv, PTL DEF Spec

\* Rows, sessions and the accounts of the pool stay of their types, whatever fails.
THEOREM ServerTypes == Spec => []TypeOK
BY Invariance, IInvType, PTL

\* A room that may be picked for a new host holds nobody, wherever createRoom was
\* stopped between its transactions.
THEOREM TerminatedRoomsAreEmpty == Spec => []TerminatedRoomIsEmpty
<1>1. IInv => TerminatedRoomIsEmpty
  BY DEF IInv, TablesInv
<1> QED
  BY <1>1, Invariance, PTL

\* What a step answers to the host of a room.
HostIsAlone(s) ==
    conn[s] = "handling" /\ conn'[s] = "success" /\ call.op = "createRoom"
        => players'[call.room] = {userId[s]}

LEMMA StepsSeatHostsAlone ==
    ASSUME IInv, [Next]_vars, NEW s \in Sessions
    PROVE  HostIsAlone(s)
<1> SUFFICES ASSUME conn[s] = "handling", conn'[s] = "success", call.op = "createRoom"
             PROVE  players'[call.room] = {userId[s]}
  BY DEF HostIsAlone
<1>1. call # Idle /\ call.session = s /\ conn \in [Sessions -> Conn]
  BY DEF IInv
<1>2. ~Answer(FALSE)
  BY <1>1 DEF Answer
<1>3. conn' # conn
  OBVIOUS
<1>4. \A q \in Sessions : ~(\/ Accept(q) \/ Refuse(q) \/ WriteDone(q) \/ HandleError(q)
                            \/ AuthRequest(q) \/ RoomRequest(q))
  BY SessionKeeps, RequestKeeps
<1>5. ~(FindByUsername \/ CreateUser \/ UpdateLastLogin \/ ShowRoom \/ RemovePlayer \/ ListRooms)
  BY FindByUsernameKeeps, CreateUserKeeps, UpdateLastLoginKeeps, ShowRoomKeeps,
     RemovePlayerKeeps, ListRoomsKeeps DEF AuthOps
<1>6. ~(FindValidRoom \/ Create)
  BY <1>2, <1>3, FindValidRoomKeeps, CreateKeeps
<1>7. ~Restart
  BY RestartKeeps
<1>8. ~(UNCHANGED vars)
  BY <1>3 DEF vars
<1>9. AddPlayer
  BY <1>4, <1>5, <1>6, <1>7, <1>8 DEF Next, Serve
<1> QED
  BY <1>1, <1>2, <1>3, <1>9, AddPlayerKeeps

\* A host who is told that the room was created is in it, alone, although the room
\* was picked, opened and entered in three transactions.
THEOREM HostsStartAlone == Spec => HostStartsAlone
<1>1. IInv /\ [Next]_vars => [\A s \in Sessions :
          /\ conn[s] = "handling" /\ conn'[s] = "success"
          /\ call.op = "createRoom"
          => players'[call.room] = {userId[s]}]_vars
  BY StepsSeatHostsAlone DEF HostIsAlone
<1> QED
  BY <1>1, Invariance, PTL DEF Spec, HostStartsAlone

----------------------------------------------------------------------------
(* The rooms implement the lobby *)

LEMMA InitRefinesLobby == Init => Lobby!Init
BY DEF Init, Lobby!Init, OpenRooms

LEMMA TablesRefineLobby ==
    ASSUME IInv, TablesStep
    PROVE  [Lobby!Next]_(Lobby!vars)
<1>0. /\ roomStatus \in [Rooms -> {"TERMINATED", "WAITING"}] /\ players \in [Rooms -> SUBSET users]
      /\ users \subseteq Users
  BY DEF IInv, TablesInv
<1>1. CASE UNCHANGED tables
  BY <1>1 DEF tables, Lobby!vars, OpenRooms
<1>2. ASSUME NEW r \in TerminatedRooms, NEW n \in Sizes, ReopenRoom(r, n)
      PROVE  Lobby!Next
  <2>1. r \in Rooms /\ OpenRooms' = OpenRooms \cup {r} /\ players' = players
    BY <1>0, <1>2 DEF ReopenRoom, OpenRooms, TerminatedRooms
  <2>2. Lobby!Start(r)
    BY <2>1 DEF Lobby!Start
  <2> QED
    BY <2>1, <2>2 DEF Lobby!Next
<1>3. ASSUME NEW r \in OpenRooms, NEW u \in users, CanAddPlayer(r, u), Enter(r, u)
      PROVE  Lobby!Next
  <2>1. HasSeat(players[r])
    BY <1>3 DEF HasSeat, CanAddPlayer, PlayerCount, IInv, TablesInv
  <2>2. r \in Rooms /\ u \in Users /\ u \notin players[r] /\ OpenRooms' = OpenRooms
        /\ players' = [players EXCEPT ![r] = players[r] \cup {u}]
    BY <1>0, <1>3 DEF CanAddPlayer, Enter, OpenRooms
  <2>3. Lobby!Enter(r, u)
    BY <2>1, <2>2 DEF Lobby!Enter
  <2> QED
    BY <2>2, <2>3 DEF Lobby!Next
<1>4. ASSUME NEW r \in Rooms, NEW u \in Users, r \in RoomsOf(u), LeaveFrom(r, u)
      PROVE  Lobby!Next
  <2>1. players' = [q \in Rooms |-> players[q] \ {u}]
    BY <1>4 DEF LeaveFrom
  <2>2. OpenRooms' = IF players[r] = {u} THEN OpenRooms \ {r} ELSE OpenRooms
    BY <1>0, <1>4 DEF LeaveFrom, OpenRooms
  <2>3. r \in Lobby!Where(u)
    BY <1>4 DEF RoomsOf, Lobby!Where
  <2>4. Lobby!Leave(u)
    BY <2>1, <2>2, <2>3 DEF Lobby!Leave
  <2> QED
    BY <2>4 DEF Lobby!Next
<1> QED
  BY <1>1, <1>2, <1>3, <1>4 DEF TablesStep

\* The rooms behave as those of the server that replaced this one, for every number
\* of seats, wherever a request is stopped.
THEOREM ServerImplementsLobby == Spec => ImplementsLobby
<1>1. IInv /\ [Next]_vars => [Lobby!Next]_(Lobby!vars)
  BY NextKeepsIInv, TablesRefineLobby
<1>2. Spec => Lobby!Spec
  BY <1>1, Invariance, InitRefinesLobby, PTL DEF Spec, Lobby!Spec
<1> QED
  BY <1>2 DEF ImplementsLobby

=============================================================================
