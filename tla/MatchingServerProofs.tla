------------------------ MODULE MatchingServerProofs ------------------------
(***************************************************************************)
(* Proofs about MatchingServer for every set of sessions, users, rooms and *)
(* mirror servers: what holds of the sessions alone still holds when their *)
(* requests change the tables and a stop or a crash forgets them; and who  *)
(* takes the players out of the rooms.                                     *)
(***************************************************************************)
EXTENDS MatchingServer, TLAPS

\* The sessions again, with the facts that are proved about them.
P == INSTANCE SessionRegistryProofs

----------------------------------------------------------------------------
(* The actions of Reg are those the facts are about *)

LEMMA SameBasics ==
    /\ Reg!OpKinds = P!OpKinds /\ Reg!NoOps = P!NoOps
    /\ Reg!Idle = P!Idle
    /\ \A s : /\ Reg!Live(s) = P!Live(s) /\ Reg!Live(s)' = P!Live(s)'
              /\ Reg!AllowConnection(s) = P!AllowConnection(s)
              /\ Reg!Pending(s) = P!Pending(s)
    /\ \A o, k, b : Reg!Started(o, k, b) = P!Started(o, k, b)
    /\ \A s, k : /\ Reg!Without(s, k) = P!Without(s, k)
                 /\ Reg!Completes(s, k) = P!Completes(s, k)
BY DEF Reg!OpKinds, P!OpKinds, Reg!NoOps, P!NoOps, Reg!Idle, P!Idle, Reg!Live, P!Live,
       Reg!AllowConnection, P!AllowConnection, Reg!Pending, P!Pending,
       Reg!Started, P!Started, Reg!Without, P!Without, Reg!Completes, P!Completes

LEMMA SameEnds ==
    \A s, left : /\ Reg!Return(s, left) => P!Return(s, left)
                 /\ Reg!CloseAndReturn(s, left) => P!CloseAndReturn(s, left)
<1>1. \A s : Reg!Destroy(s) => P!Destroy(s)
  BY SameBasics
     DEF Reg!Destroy, Reg!RemoveMirrorSession, Reg!RemoveSession, Reg!RemoveConnection,
         P!Destroy, P!RemoveMirrorSession, P!RemoveSession, P!RemoveConnection
<1> QED
  BY <1>1, SameBasics
     DEF Reg!Return, Reg!CloseAndReturn, Reg!fields, Reg!maps,
         P!Return, P!CloseAndReturn, P!fields, P!maps

LEMMA SameRegistrations ==
    /\ \A s, t, u : Reg!RegisterSession(s, t, u) => P!RegisterSession(s, t, u)
    /\ \A s, p : Reg!RegisterMirror(s, p) => P!RegisterMirror(s, p)
    /\ \A u : Reg!CheckAlreadyLogin(u) = P!CheckAlreadyLogin(u)
    /\ \A p : Reg!GetMirrorSession(p) = P!GetMirrorSession(p)
    /\ \A s : Reg!AfterAllow(s) = P!AfterAllow(s)
    /\ \A s : Reg!Respond(s) => P!Respond(s)
BY SameBasics
   DEF Reg!RegisterSession, Reg!Fresh, Reg!RegisterMirror, Reg!CheckAlreadyLogin,
       Reg!GetMirrorSession, Reg!AfterAllow, Reg!Respond,
       P!RegisterSession, P!Fresh, P!RegisterMirror, P!CheckAlreadyLogin,
       P!GetMirrorSession, P!AfterAllow, P!Respond

LEMMA SameAnswers ==
    ASSUME NEW s \in Sessions
    PROVE  /\ (\/ Reg!AnswerOnly(s) \/ Reg!AlivePing(s) \/ Reg!LoginLosesUser(s)
               \/ Reg!JoinRoom(s) \/ Reg!ExitRoom(s))
                 => P!Answered(s)
           /\ \A u \in Users, t \in Tokens : Reg!Login(s, u, t) => P!Answered(s)
           /\ \A p \in Ports : Reg!CreateRoom(s, p) \/ Reg!CreateRoomNoMirror(s, p)
                 => P!Answered(s)
<1>1. /\ Reg!AnswerOnly(s) => P!AnswerOnly(s)
      /\ Reg!AlivePing(s) => P!AlivePing(s)
      /\ Reg!LoginLosesUser(s) => P!LoginLosesUser(s)
      /\ Reg!JoinRoom(s) => P!JoinRoom(s)
      /\ Reg!ExitRoom(s) => P!ExitRoom(s)
  BY SameRegistrations
     DEF Reg!AnswerOnly, Reg!AlivePing, Reg!LoginLosesUser, Reg!JoinRoom, Reg!ExitRoom,
         P!AnswerOnly, P!AlivePing, P!LoginLosesUser, P!JoinRoom, P!ExitRoom
<1>2. \A u \in Users, t \in Tokens : Reg!Login(s, u, t) => P!Login(s, u, t)
  BY SameRegistrations DEF Reg!Login, P!Login
<1>3. \A p \in Ports : Reg!CreateRoom(s, p) => P!CreateRoom(s, p)
  BY SameBasics, SameRegistrations DEF Reg!CreateRoom, Reg!maps, P!CreateRoom, P!maps
<1>4. \A p \in Ports : Reg!CreateRoomNoMirror(s, p) => P!CreateRoomNoMirror(s, p)
  BY SameRegistrations DEF Reg!CreateRoomNoMirror, P!CreateRoomNoMirror
<1> QED
  BY <1>1, <1>2, <1>3, <1>4 DEF P!Answered

LEMMA SameCompletions ==
    ASSUME NEW s \in Sessions
    PROVE  /\ Reg!ReadDone(s) \/ Reg!WriteDone(s) \/ Reg!CastDone(s) => P!Completed(s)
           /\ Reg!Logout(s) => P!Closing(s)
           /\ \A k \in Reg!OpKinds : Reg!OpFails(s, k) => P!Closing(s)
<1>1. /\ Reg!ReadDone(s) => P!ReadDone(s)
      /\ Reg!WriteDone(s) => P!WriteDone(s)
  BY SameBasics
     DEF Reg!ReadDone, Reg!WriteDone, Reg!fields, Reg!maps, Reg!thread,
         P!ReadDone, P!WriteDone, P!fields, P!maps, P!thread
<1>2. /\ Reg!CastDone(s) => P!CastDone(s)
      /\ Reg!Logout(s) => P!Logout(s)
      /\ \A k : Reg!OpFails(s, k) => P!OpFails(s, k)
  BY SameBasics, SameEnds
     DEF Reg!CastDone, Reg!Logout, Reg!OpFails, Reg!thread,
         P!CastDone, P!Logout, P!OpFails, P!thread
<1> QED
  BY <1>1, <1>2, SameBasics DEF P!Completed, P!Closing

LEMMA SameConnections ==
    ASSUME NEW s \in Sessions
    PROVE  (\E a \in Ips : Reg!Accept(s, a)) \/ Reg!Handshake(s) => P!Begun(s)
<1>1. \A a : Reg!Accept(s, a) => P!Accept(s, a)
  BY SameBasics DEF Reg!Accept, Reg!maps, Reg!thread, P!Accept, P!maps, P!thread
<1>2. \A p : /\ Reg!MirrorHandshake(s, p) => P!MirrorHandshake(s, p)
             /\ Reg!MalformedMirrorHandshake(s, p) => P!MalformedMirrorHandshake(s, p)
  BY SameBasics, SameRegistrations
     DEF Reg!MirrorHandshake, Reg!MalformedMirrorHandshake, Reg!thread,
         P!MirrorHandshake, P!MalformedMirrorHandshake, P!thread
<1>3. Reg!OutdatedHandshake(s) => P!OutdatedHandshake(s)
  BY SameBasics, SameEnds, SameRegistrations
     DEF Reg!OutdatedHandshake, Reg!thread, P!OutdatedHandshake, P!thread
<1>4. \A t, b : Reg!ClientHandshake(s, t, b) => P!ClientHandshake(s, t, b)
  BY SameBasics, SameRegistrations DEF Reg!ClientHandshake, P!ClientHandshake
<1> QED
  BY <1>1, <1>2, <1>3, <1>4 DEF Reg!Handshake, P!Handshake, P!Begun

LEMMA SameTimers ==
    /\ Reg!CheckInactiveSessions \/ Reg!BroadcastCCU => P!Ticked
    /\ \A t \in Tokens : Reg!RemoveInactive(t) => P!Ticked
    /\ \A s \in Sessions : Reg!Elapse(s) => P!Ticked
<1>1. Reg!CheckInactiveSessions => P!CheckInactiveSessions
  BY SameBasics
     DEF Reg!CheckInactiveSessions, Reg!TimedOut, Reg!fields, Reg!maps,
         P!CheckInactiveSessions, P!TimedOut, P!fields, P!maps
<1>2. Reg!BroadcastCCU => P!BroadcastCCU
  <2>1. Reg!Listeners = P!Listeners
    BY SameBasics DEF Reg!Listeners, P!Listeners
  <2> QED
    BY <2>1, SameBasics
       DEF Reg!BroadcastCCU, Reg!fields, Reg!maps, Reg!thread,
           P!BroadcastCCU, P!fields, P!maps, P!thread
<1>3. \A t : Reg!RemoveInactive(t) => P!RemoveInactive(t)
  BY DEF Reg!RemoveInactive, Reg!fields, P!RemoveInactive, P!fields
<1>4. \A s : Reg!Elapse(s) => P!Elapse(s)
  BY SameBasics DEF Reg!Elapse, Reg!maps, Reg!thread, P!Elapse, P!maps, P!thread
<1> QED
  BY <1>1, <1>2, <1>3, <1>4 DEF P!Ticked

\* A start of the process is a start of the registry.
LEMMA SameInit ==
    /\ Reg!Init => P!Init
    /\ Forget => P!Init'
BY SameBasics DEF Reg!Init, P!Init, Forget, P!NoOps

LEMMA SameProperties ==
    /\ P!NoDanglingEntry => NoDanglingEntry
    /\ P!ConversationContinues => ConversationContinues
BY SameBasics
   DEF NoDanglingEntry, Reg!NoDanglingEntry, P!NoDanglingEntry, ConversationContinues,
       Reg!ConversationContinues, Reg!Conversation, P!ConversationContinues, P!Conversation

----------------------------------------------------------------------------
(* What is proved about the sessions *)

LEMMA RegistryInit == P!Init => P!IInv /\ P!ConversationContinues
<1>1. P!Init => P!IInv
  BY IdsAssumption, MaxPendingAssumption, P!InitInv DEF P!InitInv
<1>2. P!Init => P!ConversationContinues
  BY DEF P!Init, P!ConversationContinues
<1> QED
  BY <1>1, <1>2

LEMMA RegistryNext ==
    /\ P!IInv /\ [P!Next]_(P!vars) => P!IInv'
    /\ P!IInv /\ P!ConversationContinues /\ [P!Next]_(P!vars) => P!ConversationContinues'
BY IdsAssumption, MaxPendingAssumption, P!NextKeepsInv, P!NextKeepsConversations
   DEF P!NextKeepsInv, P!NextKeepsConversations

LEMMA RegistryForgets == Forget => P!IInv' /\ P!ConversationContinues'
<1>1. P!Init' => P!IInv' /\ P!ConversationContinues'
  BY RegistryInit, PTL
<1> QED
  BY <1>1, SameInit
----------------------------------------------------------------------------
(* What service calls do to the players *)

PlayersTyped == players \in [Rooms -> SUBSET Users]

Still == players' = players
NobodyEnters == \A r \in Rooms : players'[r] \subseteq players[r]
OnlyMoves(v) == \A r \in Rooms : players'[r] \subseteq players[r] \cup {v}
TakesOut(v) == \A r \in Rooms : players'[r] = players[r] \ {v}

LEMMA StillFacts ==
    ASSUME PlayersTyped,
           \/ NoCall
           \/ \E r, mapped : Store!GameStart(r, mapped)
           \/ \E g : Store!GameEnd(g)
    PROVE  PlayersTyped' /\ Still
<1> USE DEF Store!Commit, Store!Abort, Store!Refuse, Store!Answer, Store!tables,
            Store!rooms, Store!games
<1>1. CASE NoCall
  BY <1>1 DEF NoCall, tables, PlayersTyped, Still
<1>2. ASSUME NEW r, NEW mapped, Store!GameStart(r, mapped) PROVE PlayersTyped' /\ Still
  BY <1>2 DEF Store!GameStart, Store!CreateGame, PlayersTyped, Still
<1>3. ASSUME NEW g, Store!GameEnd(g) PROVE PlayersTyped' /\ Still
  BY <1>3 DEF Store!GameEnd, Store!CompleteGame, PlayersTyped, Still
<1> QED
  BY <1>1, <1>2, <1>3

\* exitRoom and handle_error; without database failures the user is out of all rooms.
LEMMA ExitFacts ==
    ASSUME PlayersTyped, NEW v, Store!ExitRoom(v)
    PROVE  PlayersTyped' /\ NobodyEnters /\ (~DbFaults => TakesOut(v))
<1> USE DEF Store!Commit, Store!Abort, Store!Refuse, Store!Answer, Store!tables,
            Store!rooms, Store!games
<1>1. CASE Store!RoomsOf(v) = {}
  <2>1. Still
    BY <1>1 DEF Store!ExitRoom, Still
  <2>2. \A r \in Rooms : v \notin players[r]
    BY <1>1 DEF Store!RoomsOf
  <2> QED
    BY <2>1, <2>2 DEF Still, PlayersTyped, NobodyEnters, TakesOut
<1>2. CASE Store!RoomsOf(v) # {}
  <2>1. Store!RemovePlayer(v) \/ (DbFaults /\ Still)
    BY <1>2 DEF Store!ExitRoom, Still
  <2>2. Store!RemovePlayer(v) => players' = [q \in Rooms |-> players[q] \ {v}]
    BY DEF Store!RemovePlayer, Store!RemovePlayerFrom
  <2> QED
    BY <2>1, <2>2 DEF Still, PlayersTyped, NobodyEnters, TakesOut
<1> QED
  BY <1>1, <1>2

LEMMA EnterFacts ==
    ASSUME PlayersTyped, NEW v,
           \/ \E r : Store!JoinRoom(r, v)
           \/ \E valid, n : Store!CreateRoom(v, valid, n)
    PROVE  PlayersTyped' /\ OnlyMoves(v)
<1> USE DEF Store!Commit, Store!Abort, Store!Refuse, Store!Answer, Store!tables,
            Store!rooms, Store!games, PlayersTyped, OnlyMoves
<1>1. ASSUME NEW r, Store!JoinRoom(r, v) PROVE PlayersTyped' /\ OnlyMoves(v)
  BY <1>1 DEF Store!JoinRoom, Store!AddPlayer, Store!CanAddPlayer
<1>2. ASSUME NEW valid, NEW n, Store!CreateRoom(v, valid, n)
      PROVE  PlayersTyped' /\ OnlyMoves(v)
  BY <1>2 DEF Store!CreateRoom, Store!CreateRoomWithHost, Store!CanCreateRoom
<1> QED
  BY <1>1, <1>2

LEMMA LeaveFacts ==
    ASSUME PlayersTyped, NEW s, LeaveRooms(s)
    PROVE  /\ PlayersTyped' /\ NobodyEnters
           /\ ~DbFaults /\ userId[s] \in Users => TakesOut(userId[s])
BY ExitFacts, StillFacts DEF LeaveRooms, Still, NobodyEnters

----------------------------------------------------------------------------
(* Steps of the server by their effect on the sessions and on the players *)

\* Requests, completions and timers that move nobody.
QuietStep ==
    /\ Still
    /\ \/ P!Ticked
       \/ \E s \in Sessions : P!Answered(s) \/ P!Completed(s) \/ P!Begun(s)

\* s is answered, and its user is the only one who may have entered a room.
MovingStep(s) ==
    /\ P!Answered(s) /\ request = s
    /\ OnlyMoves(userId[s])
    /\ UNCHANGED <<userId, tokens>>

\* handle_error of s.
ClosingStep(s) ==
    /\ P!Closing(s)
    /\ NobodyEnters
    /\ ~DbFaults /\ userId[s] \in Users => TakesOut(userId[s])

\* The loop over timed-out sessions.
SweepingStep == P!Ticked /\ NobodyEnters

LEMMA ServeByEffect ==
    ASSUME PlayersTyped, P!IInv, Serve
    PROVE  /\ PlayersTyped'
           /\ \/ QuietStep
              \/ \E s \in Sessions : MovingStep(s) \/ ClosingStep(s)
              \/ SweepingStep
<1> DEFINE Goal == /\ PlayersTyped'
                   /\ \/ QuietStep
                      \/ \E s \in Sessions : MovingStep(s) \/ ClosingStep(s)
                      \/ SweepingStep
<1>1. ASSUME NEW s \in Sessions, Connect(s) PROVE Goal
  BY <1>1, StillFacts, SameConnections DEF Connect, QuietStep
<1>2. ASSUME NEW s \in Sessions, Complete(s) PROVE Goal
  BY <1>2, StillFacts, SameCompletions DEF Complete, QuietStep
<1>3. ASSUME NEW s \in Sessions, NEW k \in Reg!OpKinds, Fail(s, k) PROVE Goal
  BY <1>3, LeaveFacts, SameCompletions DEF Fail, ClosingStep
<1>4. ASSUME NEW s \in Sessions, Logout(s) PROVE Goal
  BY <1>4, LeaveFacts, SameCompletions DEF Logout, ClosingStep
<1>5. ASSUME NEW s \in Sessions, OtherRequest(s) PROVE Goal
  BY <1>5, StillFacts, SameAnswers DEF OtherRequest, QuietStep
<1>6. ASSUME NEW s \in Sessions, GameRequest(s) PROVE Goal
  BY <1>6, StillFacts, SameAnswers DEF GameRequest, QuietStep
<1>7. ASSUME NEW s \in Sessions, JoinRoom(s) PROVE Goal
  <2>1. request = s /\ PlayersTyped' /\ OnlyMoves(userId[s])
    BY <1>7, EnterFacts DEF JoinRoom, Asks
  <2>2. Reg!JoinRoom(s) \/ Reg!AnswerOnly(s)
    BY <1>7 DEF JoinRoom
  <2>3. P!Answered(s) /\ UNCHANGED <<userId, tokens>>
    BY <2>2, SameAnswers DEF Reg!JoinRoom, Reg!AnswerOnly
  <2> QED
    BY <2>1, <2>3 DEF MovingStep
<1>8. ASSUME NEW s \in Sessions, ExitRoom(s) PROVE Goal
  <2>1. request = s /\ PlayersTyped' /\ OnlyMoves(userId[s])
    BY <1>8, ExitFacts DEF ExitRoom, Asks, NobodyEnters, OnlyMoves
  <2>2. Reg!ExitRoom(s) \/ Reg!AnswerOnly(s)
    BY <1>8 DEF ExitRoom
  <2>3. P!Answered(s) /\ UNCHANGED <<userId, tokens>>
    BY <2>2, SameAnswers DEF Reg!ExitRoom, Reg!AnswerOnly
  <2> QED
    BY <2>1, <2>3 DEF MovingStep
<1>9. ASSUME NEW s \in Sessions, CreateRoom(s) PROVE Goal
  <2>1. request = s /\ PlayersTyped' /\ OnlyMoves(userId[s])
    BY <1>9, EnterFacts DEF CreateRoom, Asks
  <2>2. \/ Reg!AnswerOnly(s)
        \/ \E p \in Ports : Reg!CreateRoom(s, p) \/ Reg!CreateRoomNoMirror(s, p)
    BY <1>9, PortOfAssumption DEF CreateRoom, TellMirror
  <2>3. P!Answered(s) /\ UNCHANGED <<userId, tokens>>
    BY <2>2, SameAnswers
       DEF Reg!CreateRoom, Reg!CreateRoomNoMirror, Reg!AnswerOnly, Reg!maps
  <2> QED
    BY <2>1, <2>3 DEF MovingStep
<1>10. ASSUME NEW t \in Tokens, RemoveInactive(t) PROVE Goal
  <2>1. P!Ticked
    BY <1>10, SameTimers DEF RemoveInactive
  <2>2. NoCall \/ LeaveRooms(sessions[t])
    BY <1>10 DEF RemoveInactive
  <2>3. PlayersTyped' /\ NobodyEnters
    <3>1. CASE NoCall
      BY <3>1, StillFacts DEF Still, NobodyEnters
    <3>2. CASE LeaveRooms(sessions[t])
      <4>1. PICK s : s = sessions[t]
        OBVIOUS
      <4> QED
        BY <3>2, <4>1, LeaveFacts
    <3> QED
      BY <2>2, <3>1, <3>2
  <2> QED
    BY <2>1, <2>3 DEF SweepingStep
<1>11. ASSUME Timer \/ \E s \in Sessions : Reg!Elapse(s) /\ NoCall PROVE Goal
  BY <1>11, StillFacts, SameTimers DEF Timer, QuietStep
<1> QED
  BY <1>1, <1>2, <1>3, <1>4, <1>5, <1>6, <1>7, <1>8, <1>9, <1>10, <1>11 DEF Serve, Request

----------------------------------------------------------------------------
(* What is proved about the sessions holds of the server *)

RegInv == P!IInv /\ P!ConversationContinues /\ PlayersTyped

LEMMA InitRegInv == Init => RegInv
<1>1. Store!Init => PlayersTyped
  BY DEF Store!Init, PlayersTyped
<1> QED
  BY <1>1, SameInit, RegistryInit DEF Init, RegInv

\* Every step of Serve is one of the registry.
LEMMA ServeIsNext == ASSUME PlayersTyped, P!IInv, Serve PROVE P!Next
<1>1. \/ P!Ticked
      \/ \E s \in Sessions : P!Answered(s) \/ P!Completed(s) \/ P!Begun(s) \/ P!Closing(s)
  BY ServeByEffect DEF QuietStep, MovingStep, ClosingStep, SweepingStep
<1> QED
  BY <1>1, IdsAssumption, MaxPendingAssumption, P!EffectsAreSteps DEF P!EffectsAreSteps

LEMMA StopFacts ==
    ASSUME PlayersTyped, NEW u, LeaveAtStop(u)
    PROVE  /\ PlayersTyped' /\ NobodyEnters
           /\ ~DbFaults => TakesOut(u)
           /\ UNCHANGED P!vars
BY ExitFacts
   DEF LeaveAtStop, registry, P!vars, P!fields, P!maps, P!thread

LEMMA NextKeepsRegInv == RegInv /\ [Next]_vars => RegInv'
<1> SUFFICES ASSUME RegInv, [Next]_vars PROVE RegInv'
  OBVIOUS
<1> USE DEF RegInv
<1>1. CASE Serve
  BY <1>1, ServeByEffect, ServeIsNext, RegistryNext
<1>2. CASE Signal \/ Restart
  BY <1>2, RegistryForgets, StillFacts DEF Signal, Restart
<1>3. ASSUME NEW u \in leaving, LeaveAtStop(u) PROVE RegInv'
  BY <1>3, StopFacts, RegistryNext
<1>4. CASE UNCHANGED vars
  <2>1. UNCHANGED P!vars /\ players' = players
    BY <1>4 DEF vars, served, registry, tables, P!vars, P!fields, P!maps, P!thread
  <2> QED
    BY <2>1, RegistryNext DEF PlayersTyped
<1> QED
  BY <1>1, <1>2, <1>3, <1>4 DEF Next

LEMMA SpecKeepsRegInv == Spec => []RegInv
BY InitRegInv, NextKeepsRegInv, PTL DEF Spec

\* The services that requests call, the writes on the mirror servers' sockets, a stop
\* and a restart leave no entry of the maps to a session that is gone.
THEOREM MapsNameLiveSessions == Spec => []NoDanglingEntry
<1>1. RegInv => NoDanglingEntry
  BY IdsAssumption, MaxPendingAssumption, P!InvAgrees, SameProperties
     DEF RegInv, P!InvAgrees
<1> QED
  BY <1>1, SpecKeepsRegInv, PTL

\* Whatever the services answer, the exchange with a client goes on.
THEOREM ServerKeepsConversations == Spec => []ConversationContinues
<1>1. RegInv => ConversationContinues
  BY SameProperties DEF RegInv
<1> QED
  BY <1>1, SpecKeepsRegInv, PTL

----------------------------------------------------------------------------
(* Nobody loses a login and keeps a seat *)

HasSeat(u) == \E r \in Rooms : u \in players[r]

\* The session of a player in a room has a handler that will call handle_error.
SeatsAttended ==
    \A s \in Sessions : userId[s] \in Users /\ HasSeat(userId[s]) => P!Attended(s)

\* What the invariant of the registry says of sessions and their users.
LEMMA SessionFacts ==
    RegInv =>
      \A s, x \in Sessions :
                 /\ request = s => P!Attended(s)
                 /\ P!Attended(s) => P!Live(s)
                 /\ userId[s] \in Users /\ userId[s] = userId[x] => s = x
                 /\ userId[s] \in Users => tokens[userId[s]] # NoToken
<1>1. RegInv => P!OneSessionPerUser /\ P!LoginIsRegistered
  BY IdsAssumption, MaxPendingAssumption, P!InvAgrees DEF RegInv, P!InvAgrees
<1>2. ASSUME RegInv, NEW s \in Sessions
      PROVE  (request = s => P!Attended(s)) /\ (P!Attended(s) => P!Live(s))
  <2>1. P!IInv
    BY <1>2 DEF RegInv
  <2> QED
    BY <2>1, IdsAssumption, MaxPendingAssumption, P!AttendedFacts DEF P!AttendedFacts
<1> QED
  BY <1>1, <1>2 DEF P!OneSessionPerUser, P!LoginIsRegistered

\* Who had a handler keeps one, except a session that is closed and its user taken out.
LEMMA ServeKeepsAttention ==
    ASSUME ~DbFaults, RegInv, Serve,
           NEW x \in Sessions, NEW u \in Users, userId[x] = u,
           P!Attended(x), HasSeat(u)'
    PROVE  P!Attended(x)'
<1>0. PlayersTyped /\ P!IInv
  BY DEF RegInv
<1>1. CASE QuietStep \/ SweepingStep
  BY <1>0, <1>1, IdsAssumption, MaxPendingAssumption, P!AttentionIsKept
     DEF QuietStep, SweepingStep, P!AttentionIsKept
<1>2. ASSUME NEW z \in Sessions, MovingStep(z) PROVE P!Attended(x)'
  BY <1>0, <1>2, IdsAssumption, MaxPendingAssumption, P!AttentionIsKept
     DEF MovingStep, P!AttentionIsKept
<1>3. ASSUME NEW z \in Sessions, ClosingStep(z) PROVE P!Attended(x)'
  BY <1>0, <1>3, IdsAssumption, MaxPendingAssumption, P!AttentionIsKept
     DEF ClosingStep, P!AttentionIsKept, TakesOut, HasSeat
<1> QED
  BY <1>0, <1>1, <1>2, <1>3, ServeByEffect

\* A user enters a room only by a request of its own session.
LEMMA SeatsAreAskedFor ==
    ASSUME RegInv, Serve, NEW u \in Users, HasSeat(u)', ~HasSeat(u)
    PROVE  /\ UNCHANGED <<userId, tokens>>
           /\ \E z \in Sessions : request = z /\ userId[z] = u /\ P!Answered(z)
<1>1. ~Still /\ ~NobodyEnters
  BY DEF HasSeat, Still, NobodyEnters
<1>2. PICK z \in Sessions : MovingStep(z)
  BY <1>1, ServeByEffect DEF RegInv, QuietStep, ClosingStep, SweepingStep
<1>3. userId[z] = u
  BY <1>2 DEF MovingStep, OnlyMoves, HasSeat
<1> QED
  BY <1>2, <1>3 DEF MovingStep

\* A session gets a user by its own request.
LEMMA LoginsAreAskedFor ==
    ASSUME RegInv, Serve, NEW x \in Sessions, userId'[x] \in Users, userId'[x] # userId[x]
    PROVE  request = x /\ \E z \in Sessions : P!Answered(z)
<1>0. PlayersTyped /\ P!IInv
  BY DEF RegInv
<1>1. /\ P!Ticked => userId'[x] = userId[x]
      /\ \A s \in Sessions :
            /\ P!Answered(s) => userId'[x] = userId[x] \/ request = x
            /\ P!Completed(s) \/ P!Begun(s) \/ P!Closing(s) =>
                  (userId'[x] \in Users => userId'[x] = userId[x])
  BY <1>0, IdsAssumption, MaxPendingAssumption, P!UsersComeByRequest
     DEF P!UsersComeByRequest
<1>2. PICK z \in Sessions : P!Answered(z)
  BY <1>0, <1>1, ServeByEffect DEF QuietStep, MovingStep, ClosingStep, SweepingStep
<1> QED
  BY <1>1, <1>2

\* Who is in a room after a step is the user of no session without a handler.
LEMMA ServeAttends ==
    ASSUME ~DbFaults, RegInv, SeatsAttended, Serve,
           NEW x \in Sessions, NEW u \in Users, HasSeat(u)',
           userId[x] = u \/ userId'[x] = u
    PROVE  P!Attended(x)'
<1>0. P!IInv
  BY DEF RegInv
<1>1. CASE userId[x] = u
  <2>1. CASE HasSeat(u)
    BY <1>1, <2>1, ServeKeepsAttention DEF SeatsAttended
  <2>2. CASE ~HasSeat(u)
    <3>1. request = x
      BY <1>1, <2>2, SeatsAreAskedFor, SessionFacts
    <3> QED
      BY <1>1, <3>1, SessionFacts, ServeKeepsAttention
  <2> QED
    BY <2>1, <2>2
<1>2. CASE userId[x] # u
  <2>1. PICK z \in Sessions : request = x /\ P!Answered(z)
    BY <1>2, LoginsAreAskedFor
  <2>2. P!Attended(x)
    BY <2>1, SessionFacts
  <2> QED
    BY <1>0, <2>1, <2>2, IdsAssumption, MaxPendingAssumption, P!AttentionIsKept
       DEF P!AttentionIsKept
<1> QED
  BY <1>1, <1>2

LEMMA NextKeepsSeatsAttended ==
    ASSUME ~DbFaults
    PROVE  RegInv /\ SeatsAttended /\ [Next]_vars => SeatsAttended'
<1> SUFFICES ASSUME RegInv, SeatsAttended, [Next]_vars PROVE SeatsAttended'
  OBVIOUS
<1>1. CASE Serve
  BY <1>1, ServeAttends DEF SeatsAttended
<1>2. CASE Signal \/ Restart
  BY <1>2, IdsAssumption DEF Signal, Restart, Forget, SeatsAttended
<1>3. ASSUME NEW u \in leaving, LeaveAtStop(u) PROVE SeatsAttended'
  <2>1. NobodyEnters /\ userId' = userId /\ ops' = ops /\ request' = request
    BY <1>3, StopFacts DEF LeaveAtStop, registry, RegInv
  <2>2. \A s : P!Attended(s) => P!Attended(s)'
    BY <2>1 DEF P!Attended, P!Conversation
  <2> QED
    BY <2>1, <2>2 DEF SeatsAttended, HasSeat, NobodyEnters
<1>4. CASE UNCHANGED vars
  BY <1>4
     DEF vars, served, registry, tables, SeatsAttended, HasSeat, P!Attended, P!Conversation
<1> QED
  BY <1>1, <1>2, <1>3, <1>4 DEF Next

LEMMA SpecKeepsSeatsAttended == ASSUME ~DbFaults PROVE Spec => [](RegInv /\ SeatsAttended)
<1>1. Init => SeatsAttended
  BY IdsAssumption DEF Init, Reg!Init, SeatsAttended
<1> QED
  BY <1>1, InitRegInv, NextKeepsRegInv, NextKeepsSeatsAttended, PTL DEF Spec

\* A session with a handler lives: in the next state, too.
HandlersLive == \A s \in Sessions : P!Attended(s) => P!Live(s)

LEMMA HandlersKeepSessions == RegInv => HandlersLive
BY SessionFacts DEF HandlersLive

LEMMA HandlersKeepSessionsNext == RegInv' => HandlersLive'
BY HandlersKeepSessions, PTL

\* A session that ends leaves its user in no room.
LEMMA EndsEmptyHanded ==
    ASSUME ~DbFaults, RegInv, RegInv', SeatsAttended, Serve,
           NEW s \in Sessions, NEW u \in Users, userId[s] = u, ~P!Live(s)'
    PROVE  ~HasSeat(u)'
BY ServeAttends, HandlersKeepSessionsNext DEF HandlersLive

\* handle_error takes the user of a session out of the rooms before the session ends,
\* and again if a request that was read before put the player back; whatever rooms the
\* previous run of the server left the user in.  The database must not fail.
THEOREM EndsFreeSeats == ASSUME ~DbFaults PROVE Spec => EndFreesSeats
<1> DEFINE A == \A s \in Sessions, u \in Users :
                   Reg!Live(s) /\ ~Reg!Live(s)' /\ userId[s] = u /\ ~(Signal \/ Restart) =>
                      \A r \in Rooms : u \notin players'[r]
<1>1. RegInv /\ RegInv' /\ SeatsAttended /\ [Next]_vars => [A]_vars
  <2> SUFFICES ASSUME RegInv, RegInv', SeatsAttended, [Next]_vars, ~UNCHANGED vars,
                      NEW s \in Sessions, NEW u \in Users,
                      Reg!Live(s), ~Reg!Live(s)', userId[s] = u, ~(Signal \/ Restart)
               PROVE  \A r \in Rooms : u \notin players'[r]
    OBVIOUS
  <2>1. P!Live(s) /\ ~P!Live(s)'
    BY SameBasics
  <2>2. CASE Serve
    BY <2>1, <2>2, EndsEmptyHanded DEF HasSeat
  <2>3. ASSUME NEW v \in leaving, LeaveAtStop(v) PROVE FALSE
    BY <2>1, <2>3 DEF LeaveAtStop, registry, P!Live
  <2> QED
    BY <2>2, <2>3 DEF Next
<1> QED
  BY <1>1, SpecKeepsSeatsAttended, PTL DEF Spec, EndFreesSeats

\* Nobody who is in a room loses the login or the place in the loop of stop and stays in
\* the room, but by a crash and by a stop that the player's session does not live to see.
THEOREM PlayersAreStrandedByCrashes == ASSUME ~DbFaults PROVE Spec => OnlyCrashesStrandPlayers
<1> DEFINE A == \A r \in Rooms : \A u \in players'[r] :
                   Stranded(u)' =>
                      \/ u \in players[r] /\ Stranded(u)
                      \/ Restart
                      \/ Signal /\ u \notin Registered
<1>1. RegInv /\ RegInv' /\ SeatsAttended /\ [Next]_vars => [A]_vars
  <2> SUFFICES ASSUME RegInv, RegInv', SeatsAttended, [Next]_vars, ~UNCHANGED vars,
                      NEW r \in Rooms, NEW u \in players'[r], Stranded(u)'
               PROVE  \/ u \in players[r] /\ Stranded(u)
                      \/ Restart
                      \/ Signal /\ u \notin Registered
    OBVIOUS
  <2>1. u \in Users /\ tokens'[u] = NoToken /\ u \notin leaving'
    BY DEF RegInv, PlayersTyped, Stranded
  <2>2. ASSUME Serve, UNCHANGED leaving PROVE u \in players[r] /\ Stranded(u)
    <3>1. tokens[u] = NoToken
      <4> SUFFICES ASSUME tokens[u] # NoToken PROVE FALSE
        OBVIOUS
      <4>1. P!TokensStep
        BY <2>2, ServeIsNext, IdsAssumption, MaxPendingAssumption, P!StepsSpareLogins
           DEF RegInv, P!StepsSpareLogins
      <4>2. PICK s \in Sessions : userId[s] = u /\ ~P!Live(s)'
        BY <2>1, <4>1 DEF P!TokensStep
      <4>3. ~HasSeat(u)'
        BY <2>1, <2>2, <4>2, EndsEmptyHanded
      <4> QED
        BY <4>3 DEF HasSeat
    <3>2. u \in players[r]
      <4> SUFFICES ASSUME u \notin players[r] PROVE FALSE
        OBVIOUS
      <4>1. PICK z \in Sessions : MovingStep(z)
        BY <2>2, ServeByEffect
           DEF RegInv, QuietStep, ClosingStep, SweepingStep, Still, NobodyEnters
      <4>2. userId[z] = u
        BY <4>1 DEF MovingStep, OnlyMoves
      <4> QED
        BY <2>1, <3>1, <4>2, SessionFacts
    <3> QED
      BY <2>1, <2>2, <3>1, <3>2 DEF Stranded
  <2>3. ASSUME NEW v \in leaving, LeaveAtStop(v) PROVE u \in players[r] /\ Stranded(u)
    <3>1. u \in players[r] \ {v} /\ tokens' = tokens /\ leaving' = leaving \ {v}
      BY <2>3, StopFacts DEF RegInv, TakesOut, LeaveAtStop, registry
    <3> QED
      BY <2>1, <3>1 DEF Stranded
  <2>4. CASE Signal
    BY <2>1, <2>4 DEF Signal
  <2> QED
    BY <2>2, <2>3, <2>4 DEF Next
<1> QED
  BY <1>1, SpecKeepsSeatsAttended, PTL DEF Spec, OnlyCrashesStrandPlayers
=============================================================================
