--------------------------- MODULE MatchingServer ---------------------------
(***************************************************************************)
(* The matching server as a whole: the sessions of SessionRegistry call    *)
(* the services of RoomStore.  A request that succeeds changes the tables  *)
(* and the session in one step; handle_error takes the session's user out  *)
(* of the rooms, also when a late handler calls it again; a signal stops   *)
(* the server, which takes the users of its sessions out of the rooms; and *)
(* a restart forgets the sessions and keeps the tables.                    *)
(***************************************************************************)
EXTENDS Integers, FiniteSets

CONSTANTS
    Sessions, Users, Ports, Tokens, Ips, MaxPending,
    NoSession, NoToken, NoPort, NoIp, Nobody, Unknown,
    Rooms, Games, Sizes, DbFaults,
    PortOf,      \* rooms.port: the mirror server of each room; db-init.sql gives every row one
    Crashes,     \* whether the server may crash and be started again
    Stops        \* whether it may be stopped by a signal and be started again

\* What SessionRegistry and RoomStore assume of their constants.
ASSUME IdsAssumption ==
    /\ NoSession \notin Sessions /\ NoToken \notin Tokens
    /\ NoPort \notin Ports /\ NoIp \notin Ips
    /\ Nobody \notin Users \cup Ports /\ Unknown \notin Users \cup Ports
    /\ Nobody # Unknown /\ Users \cap Ports = {}
ASSUME MaxPendingAssumption == MaxPending \in Nat
ASSUME TablesAssumption ==
    /\ Rooms \subseteq Nat \ {0} /\ IsFiniteSet(Users)
    /\ Sizes \subseteq Int /\ DbFaults \in BOOLEAN
ASSUME PortOfAssumption == PortOf \in [Rooms -> Ports]
ASSUME EndsAssumption == {Crashes, Stops} \subseteq BOOLEAN

VARIABLES
    ops, open, userId, token, mirrorPort, status, idle, ip,
    sessions, tokens, mirrors, connectedIps, request, sweep,
    roomStatus, maxPlayers, players, gameStatus, gameRoom,
    reply,       \* what the service call of the last step answered, if it made one
    leaving      \* the users Server::stop still has to take out of the rooms

registry == <<ops, open, userId, token, mirrorPort, status, idle, ip,
              sessions, tokens, mirrors, connectedIps, request, sweep>>
tables == <<roomStatus, maxPlayers, players, gameStatus, gameRoom>>
served == <<registry, tables, reply>>
vars == <<served, leaving>>

Reg == INSTANCE SessionRegistry

Store == INSTANCE RoomStore WITH Callers <- Users \cup Ports \cup {Unknown}

Init == Reg!Init /\ Store!Init /\ leaving = {}

----------------------------------------------------------------------------
(* Steps of a session on the tables *)

\* No service is called.
NoCall == UNCHANGED tables /\ Store!Answer("none", TRUE)

\* Plausible bugs of handle_error: it takes a user out of the rooms only while the
\* socket is still open, or only while the session is registered.
LeaveRooms_OnceOnly(s) ==
    IF open[s] /\ userId[s] \in Users \cup Ports THEN Store!ExitRoom(userId[s]) ELSE NoCall

LeaveRooms_OfRegistered(s) ==
    IF userId[s] \in Users /\ \E t \in Tokens : sessions'[t] = s
    THEN Store!ExitRoom(userId[s]) ELSE NoCall

\* The part of handle_error before the socket is closed: user_id_ > 0.
LeaveRooms(s) ==
    IF userId[s] \in Users \cup Ports THEN Store!ExitRoom(userId[s]) ELSE NoCall

\* s asks a service that wants a user id.
Asks(s) == request = s /\ userId[s] # Nobody

JoinRoom(s) ==
    /\ Asks(s)
    /\ \E r \in Rooms \cup {Store!NoRoom} : Store!JoinRoom(r, userId[s])
    /\ IF reply'.ok THEN Reg!JoinRoom(s) ELSE Reg!AnswerOnly(s)

ExitRoom(s) ==
    /\ Asks(s)
    /\ Store!ExitRoom(userId[s])
    /\ IF reply'.ok THEN Reg!ExitRoom(s) ELSE Reg!AnswerOnly(s)

\* The room's mirror server is told after the room was committed; without one
\* the host gets an error and stays in the room.
TellMirror(s, r) ==
    \/ Reg!CreateRoom(s, PortOf[r])
    \/ Reg!CreateRoomNoMirror(s, PortOf[r])

CreateRoom(s) ==
    /\ Asks(s)
    /\ \E valid \in BOOLEAN, n \in Sizes : Store!CreateRoom(userId[s], valid, n)
    /\ IF reply'.ok
       THEN \E r \in Rooms : players'[r] # players[r] /\ TellMirror(s, r)
       ELSE Reg!AnswerOnly(s)

\* Requests of mirror servers; neither is ever answered with success.
GameRequest(s) ==
    /\ Asks(s)
    /\ mirrorPort[s] # NoPort
    /\ \/ \E r \in Rooms, mapped \in BOOLEAN : Store!GameStart(r, mapped)
       \/ \E g \in Games : Store!GameEnd(g)
    /\ Reg!AnswerOnly(s)

\* Requests that call no room or game service: pings, logins, refusals, queries.
OtherRequest(s) ==
    /\ \/ Reg!AnswerOnly(s)
       \/ Reg!AlivePing(s)
       \/ \E u \in Users, t \in Tokens : Reg!Login(s, u, t)
       \/ Reg!LoginLosesUser(s)
    /\ NoCall

Logout(s) == Reg!Logout(s) /\ LeaveRooms(s)

\* A handshake's session has no user yet, so its handle_error calls no service.
Connect(s) ==
    /\ (\E a \in Ips : Reg!Accept(s, a)) \/ Reg!Handshake(s)
    /\ NoCall

Complete(s) == (Reg!ReadDone(s) \/ Reg!WriteDone(s) \/ Reg!CastDone(s)) /\ NoCall

Fail(s, k) == Reg!OpFails(s, k) /\ LeaveRooms(s)

RemoveInactive(t) ==
    /\ Reg!RemoveInactive(t)
    /\ IF sessions[t] = NoSession THEN NoCall ELSE LeaveRooms(sessions[t])

Timer == (Reg!CheckInactiveSessions \/ Reg!BroadcastCCU) /\ NoCall

Request(s) ==
    \/ JoinRoom(s)
    \/ ExitRoom(s)
    \/ CreateRoom(s)
    \/ GameRequest(s)
    \/ OtherRequest(s)
    \/ Logout(s)

----------------------------------------------------------------------------
(* The end of the process *)

\* The maps and sessions that the next process starts with.
Forget ==
    /\ ops' = [s \in Sessions |-> Reg!NoOps]
    /\ open' = [s \in Sessions |-> FALSE]
    /\ userId' = [s \in Sessions |-> Nobody]
    /\ token' = [s \in Sessions |-> NoToken]
    /\ mirrorPort' = [s \in Sessions |-> NoPort]
    /\ status' = [s \in Sessions |-> "none"]
    /\ idle' = [s \in Sessions |-> FALSE]
    /\ ip' = [s \in Sessions |-> NoIp]
    /\ sessions' = [t \in Tokens |-> NoSession]
    /\ tokens' = [u \in Users |-> NoToken]
    /\ mirrors' = [p \in Ports |-> NoSession]
    /\ connectedIps' = {}
    /\ request' = NoSession
    /\ sweep' = {}

\* The process dies, in the middle of a handler or of stop too, or hangs in stop on a
\* mutex the interrupted handler holds and is killed; and is started again.
Restart ==
    /\ Crashes
    /\ Forget
    /\ NoCall
    /\ leaving' = {}

\* Users of the sessions that are still in sessions_.
Registered == {userId[s] : s \in {s \in Sessions : \E t \in Tokens : sessions[t] = s}} \ {Nobody}

\* signal_handler: stop runs on top of the handler it interrupts, and exit never
\* returns to it, so that nothing but the loop of stop happens in this process.
Signal ==
    /\ Stops
    /\ leaving' = Registered
    /\ Forget
    /\ NoCall

\* The handle_error of one session in that loop.
LeaveAtStop(u) ==
    /\ u \in leaving
    /\ leaving' = leaving \ {u}
    /\ Store!ExitRoom(u)
    /\ UNCHANGED registry

Serve ==
    \/ \E s \in Sessions :
        \/ Connect(s)
        \/ Complete(s)
        \/ \E k \in Reg!OpKinds : Fail(s, k)
        \/ Request(s)
        \/ Reg!Elapse(s) /\ NoCall
    \/ \E t \in Tokens : RemoveInactive(t)
    \/ Timer

Next ==
    \/ leaving = {} /\ ((Serve /\ UNCHANGED leaving) \/ Signal)
    \/ \E u \in leaving : LeaveAtStop(u)
    \/ Restart

Spec == Init /\ [][Next]_vars

----------------------------------------------------------------------------
(* Safety *)

\* Nobody loses a login and keeps a seat: the session of a player leaves the rooms
\* when it is closed; a request that was read before may put the player back, and is
\* always followed by another handle_error before the destructor gives up the login;
\* and stop asks for the rooms of all who are logged in.  Only a crash strands
\* players, and a stop those who came back after their session had timed out.
\* Needs a database that does not fail.
Stranded(u) == tokens[u] = NoToken /\ u \notin leaving

OnlyCrashesStrandPlayers ==
    [][\A r \in Rooms : \A u \in players'[r] :
          Stranded(u)' =>
              \/ u \in players[r] /\ Stranded(u)
              \/ Restart
              \/ Signal /\ u \notin Registered]_vars

\* sessions_ and mirrors_ name live sessions only, and under the keys these remember,
\* also while the rooms they create add writes to the mirror servers' sessions.
NoDanglingEntry == Reg!NoDanglingEntry

\* A client's open session always has its handshake, its next read or the answer that
\* starts it in flight, and never two reads.
ConversationContinues == Reg!ConversationContinues

\* A session that ends leaves nobody behind in the rooms, in whatever state the
\* previous run of the server left the tables.
EndFreesSeats ==
    [][\A s \in Sessions, u \in Users :
          Reg!Live(s) /\ ~Reg!Live(s)' /\ userId[s] = u /\ ~(Signal \/ Restart) =>
              \A r \in Rooms : u \notin players'[r]]_vars

----------------------------------------------------------------------------
(* Liveness *)

\* The run queue is first in, first out: what is in flight on a closed socket has
\* completed, and its handler runs although other handlers keep adding work; so
\* does the handler of the time-out timer.  Nothing is assumed of open sockets,
\* whose peers may stay silent.
Fairness ==
    /\ \A s \in Sessions :
        /\ WF_served(Request(s))
        /\ SF_served(~open[s] /\ (Complete(s) \/ \E k \in Reg!OpKinds \ {"dead"} : Fail(s, k)))
        /\ SF_served(Fail(s, "dead"))
    /\ SF_served(Reg!CheckInactiveSessions /\ NoCall)
    /\ WF_served(\E t \in Tokens : RemoveInactive(t))

LiveSpec == Init /\ [][Next /\ Reg!Paced]_vars /\ Fairness

\* A closed session ends: its late handlers and the broadcasts it still gets do
\* not keep it, its address and its user's login alive.
ClosedSessionEnds == \A s \in Sessions : ~open[s] ~> ~Reg!Live(s)

\* A registered session that stops pinging is closed, unless it pings again.
IdleSessionIsClosed ==
    \A s \in Sessions :
        (idle[s] /\ \E t \in Tokens : sessions[t] = s) ~> (~idle[s] \/ ~open[s])

\* A player who stops pinging is taken out of the rooms for as long as the
\* session lives that should ping, and at the latest when it ends: unless it
\* pings again or becomes somebody else's, nobody's seat stays taken.
SilentPlayerLeaves ==
    \A s \in Sessions, u \in Users :
        (idle[s] /\ userId[s] = u) ~>
            \/ \A r \in Rooms : u \notin players[r]
            \/ Reg!Live(s) /\ (~idle[s] \/ userId[s] # u)
=============================================================================
