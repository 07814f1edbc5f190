-------------------------- MODULE SessionRegistry --------------------------
(***************************************************************************)
(* The sessions of the matching server and the maps of Server that refer   *)
(* to them: from handshake to destructor.                                  *)
(*                                                                         *)
(* One thread runs the io_context, so a completion handler is one step.  A *)
(* session is kept alive by the handlers of the operations it has started  *)
(* and nothing else: when the last one returns its destructor runs, in the *)
(* same step.  Two handlers do more than one thing and are split, with     *)
(* every other handler held back meanwhile: a handler that goes on to      *)
(* process_request (request), and the loop over timed-out sessions (sweep).*)
(***************************************************************************)
EXTENDS Integers, FiniteSets

CONSTANTS
    Sessions,    \* session objects; one is used again after its destructor ran
    Users,       \* user ids
    Ports,       \* ports of mirror servers, which serve as their user_id_ too
    Tokens,      \* session tokens (UUIDs)
    Ips,         \* remote addresses
    MaxPending,  \* bound: operations a session may have in flight
    NoSession, NoToken, NoPort, NoIp,
    Nobody,      \* user id 0: not logged in
    Unknown      \* user id -1: what a failed look-up answers

ASSUME IdsAssumption ==
    /\ NoSession \notin Sessions /\ NoToken \notin Tokens
    /\ NoPort \notin Ports /\ NoIp \notin Ips
    /\ Nobody \notin Users \cup Ports /\ Unknown \notin Users \cup Ports
    /\ Nobody # Unknown /\ Users \cap Ports = {}
ASSUME MaxPendingAssumption == MaxPending \in Nat

\* What a session may be waiting for: the handshake, a message, a write whose
\* handler reads the next message, a broadcast write, and an operation started
\* after the socket was closed, which can only fail.
OpKinds == {"handshake", "read", "write", "cast", "dead"}
Status == {"none", "waiting", "inRoom"}

VARIABLES
    ops,         \* operations in flight, by session and kind
    open,        \* socket_.is_open()
    userId,      \* user_id_
    token,       \* token_
    mirrorPort,  \* mirror_port_ when is_mirror_, NoPort otherwise
    status,      \* status_
    idle,        \* no alivePing for session_timeout_ seconds
    ip,          \* remote_ip_
    sessions,    \* Server::sessions_
    tokens,      \* Server::tokens_
    mirrors,     \* Server::mirrors_
    connectedIps,\* Server::connected_ips_
    request,     \* the session whose request is being processed
    sweep        \* tokens check_inactive_sessions has still to remove

maps == <<sessions, tokens, mirrors, connectedIps>>
fields == <<userId, token, mirrorPort, status, idle, ip>>
thread == <<request, sweep>>
vars == <<ops, open, fields, maps, thread>>

TypeOK ==
    /\ ops \in [Sessions -> [OpKinds -> Nat]]
    /\ open \in [Sessions -> BOOLEAN]
    /\ userId \in [Sessions -> Users \cup Ports \cup {Nobody, Unknown}]
    /\ token \in [Sessions -> Tokens \cup {NoToken}]
    /\ mirrorPort \in [Sessions -> Ports \cup {NoPort}]
    /\ status \in [Sessions -> Status]
    /\ idle \in [Sessions -> BOOLEAN]
    /\ ip \in [Sessions -> Ips \cup {NoIp}]
    /\ sessions \in [Tokens -> Sessions \cup {NoSession}]
    /\ tokens \in [Users -> Tokens \cup {NoToken}]
    /\ mirrors \in [Ports -> Sessions \cup {NoSession}]
    /\ connectedIps \subseteq Ips
    /\ request \in Sessions \cup {NoSession}
    /\ sweep \subseteq Tokens

NoOps == [k \in OpKinds |-> 0]

Init ==
    /\ ops = [s \in Sessions |-> NoOps]
    /\ open = [s \in Sessions |-> FALSE]
    /\ userId = [s \in Sessions |-> Nobody]
    /\ token = [s \in Sessions |-> NoToken]
    /\ mirrorPort = [s \in Sessions |-> NoPort]
    /\ status = [s \in Sessions |-> "none"]
    /\ idle = [s \in Sessions |-> FALSE]
    /\ ip = [s \in Sessions |-> NoIp]
    /\ sessions = [t \in Tokens |-> NoSession]
    /\ tokens = [u \in Users |-> NoToken]
    /\ mirrors = [p \in Ports |-> NoSession]
    /\ connectedIps = {}
    /\ request = NoSession
    /\ sweep = {}

----------------------------------------------------------------------------
(* Operations in flight and the life of a session *)

\* Whether the session object exists: a handler in flight or running holds it.
Live(s) == ops[s] # NoOps \/ request = s

Pending(s) == ops[s]["handshake"] + ops[s]["read"] + ops[s]["write"]
              + ops[s]["cast"] + ops[s]["dead"]

\* The thread is between two handlers.
Idle == request = NoSession /\ sweep = {}

\* The operations o of a session with one more of kind k, started on its socket.
Started(o, k, isOpen) == [o EXCEPT ![IF isOpen THEN k ELSE "dead"] = @ + 1]

\* The operations of s when the one of kind k whose handler runs is taken away.
Without(s, k) == [ops[s] EXCEPT ![k] = @ - 1]

Completes(s, k) == Idle /\ ops[s][k] > 0

\* Erases the entry of the port, whoever it belongs to by now.
RemoveMirrorSession(s) ==
    mirrors' = [p \in Ports |-> IF p = mirrorPort[s] THEN NoSession ELSE mirrors[p]]

\* A plausible bug of removeSession: erases every entry of the session's user.
RemoveSession_AllOfUser(s) ==
    /\ sessions' = [t \in Tokens |->
            IF sessions[t] # NoSession /\ userId[sessions[t]] = userId[s]
            THEN NoSession ELSE sessions[t]]
    /\ tokens' = [u \in Users |-> IF u = userId[s] THEN NoToken ELSE tokens[u]]

\* Erases sessions_ by token and tokens_ by user id.
RemoveSession(s) ==
    /\ sessions' = [t \in Tokens |-> IF t = token[s] THEN NoSession ELSE sessions[t]]
    /\ tokens' = [u \in Users |-> IF u = userId[s] /\ token[s] # NoToken
                                  THEN NoToken ELSE tokens[u]]

\* A plausible bug of removeConnection: done for logged-in sessions only.
RemoveConnection_OfUsers(s) ==
    connectedIps' = IF userId[s] = Nobody THEN connectedIps ELSE connectedIps \ {ip[s]}

\* Erases the address, whoever put it there.
RemoveConnection(s) == connectedIps' = connectedIps \ {ip[s]}

\* ~Session.
Destroy(s) ==
    /\ RemoveMirrorSession(s)
    /\ RemoveSession(s)
    /\ RemoveConnection(s)
    /\ ops' = [ops EXCEPT ![s] = NoOps]
    /\ open' = [open EXCEPT ![s] = FALSE]
    /\ userId' = [userId EXCEPT ![s] = Nobody]
    /\ token' = [token EXCEPT ![s] = NoToken]
    /\ mirrorPort' = [mirrorPort EXCEPT ![s] = NoPort]
    /\ status' = [status EXCEPT ![s] = "none"]
    /\ idle' = [idle EXCEPT ![s] = FALSE]
    /\ ip' = [ip EXCEPT ![s] = NoIp]

\* A handler of s returns with the operations left in flight.
Return(s, left) ==
    IF left = NoOps
    THEN Destroy(s)
    ELSE ops' = [ops EXCEPT ![s] = left] /\ UNCHANGED <<open, fields, maps>>

\* A handler of s calls handle_error, which closes the socket, and returns.
CloseAndReturn(s, left) ==
    IF left = NoOps
    THEN Destroy(s)
    ELSE /\ ops' = [ops EXCEPT ![s] = left]
         /\ open' = [open EXCEPT ![s] = FALSE]
         /\ UNCHANGED <<fields, maps>>

----------------------------------------------------------------------------
(* The registry *)

\* A UUID nobody refers to.
Fresh(t) ==
    /\ sessions[t] = NoSession
    /\ \A s \in Sessions : token[s] # t
    /\ \A u \in Users : tokens[u] # t

\* A plausible bug of registerSession: the entry under the old token stays.
RegisterSession_KeepsOld(s, t, u) ==
    /\ Fresh(t)
    /\ sessions' = [sessions EXCEPT ![t] = s]
    /\ tokens' = [v \in Users |-> IF v = u THEN t ELSE tokens[v]]
    /\ token' = [token EXCEPT ![s] = t]

\* registerSession for a session that is, or has just become, user u.
RegisterSession(s, t, u) ==
    /\ Fresh(t)
    /\ sessions' = [x \in Tokens |-> IF x = t THEN s
                                     ELSE IF sessions[x] = s THEN NoSession
                                     ELSE sessions[x]]
    /\ tokens' = [v \in Users |-> IF v = u THEN t ELSE tokens[v]]
    /\ token' = [token EXCEPT ![s] = t]

\* registerMirrorSession: overwrites the entry of whoever had the port before.
RegisterMirror(s, p) ==
    mirrors' = [q \in Ports |-> IF q = p THEN s
                                ELSE IF mirrors[q] = s THEN NoSession
                                ELSE mirrors[q]]

\* A plausible bug of checkAlreadyLogin: looks for a registered session.
CheckAlreadyLogin_BySession(u) ==
    \E t \in Tokens : sessions[t] # NoSession /\ userId[sessions[t]] = u

CheckAlreadyLogin(u) == tokens[u] # NoToken

GetMirrorSession(p) ==
    IF mirrors[p] # NoSession /\ Live(mirrors[p]) THEN mirrors[p] ELSE NoSession

----------------------------------------------------------------------------
(* Connecting *)

\* A plausible bug of the constructor: remote_ip_ is not set.
Accept_NoAddress(s, a) ==
    /\ Idle
    /\ ~Live(s)
    /\ ops' = [ops EXCEPT ![s] = Started(NoOps, "handshake", TRUE)]
    /\ open' = [open EXCEPT ![s] = TRUE]
    /\ UNCHANGED <<fields, maps, thread>>

Accept(s, a) ==
    /\ Idle
    /\ ~Live(s)
    /\ ops' = [ops EXCEPT ![s] = Started(NoOps, "handshake", TRUE)]
    /\ open' = [open EXCEPT ![s] = TRUE]
    /\ ip' = [ip EXCEPT ![s] = a]
    /\ UNCHANGED <<userId, token, mirrorPort, status, idle, maps, thread>>

\* The port is no integer: is_mirror_ is already set and mirror_port_ still holds
\* whatever the memory held, so the destructor may remove any mirror's entry.
MalformedMirrorHandshake(s, p) ==
    /\ Completes(s, "handshake")
    /\ open' = [open EXCEPT ![s] = FALSE]
    /\ ops' = [ops EXCEPT ![s] = NoOps]
    /\ ip' = [ip EXCEPT ![s] = NoIp]
    /\ idle' = [idle EXCEPT ![s] = FALSE]
    /\ mirrors' = [mirrors EXCEPT ![p] = NoSession]
    /\ connectedIps' = connectedIps \ {ip[s]}
    /\ UNCHANGED <<userId, token, mirrorPort, status, sessions, tokens, thread>>

MirrorHandshake(s, p) ==
    /\ Completes(s, "handshake")
    /\ mirrorPort' = [mirrorPort EXCEPT ![s] = p]
    /\ RegisterMirror(s, p)
    /\ userId' = [userId EXCEPT ![s] = p]
    /\ ops' = [ops EXCEPT ![s] = Started(Without(s, "handshake"), "write", open[s])]
    /\ UNCHANGED <<open, token, status, idle, ip, sessions, tokens, connectedIps, thread>>

AllowConnection(s) == ip[s] \notin connectedIps

\* What is left in flight when a client's address was looked up: a refused
\* client is sent an error, on a socket that is closed right after.
AfterAllow(s) ==
    IF AllowConnection(s) THEN NoOps ELSE Started(NoOps, "write", open[s])

\* The client's version is not the server's.
OutdatedHandshake(s) ==
    /\ Completes(s, "handshake")
    /\ CloseAndReturn(s, AfterAllow(s))
    /\ UNCHANGED thread

\* A handshake with the right version is registered, also after the refusal of
\* its address: that branch of the code does not return.  The handshake may
\* itself be a request.
ClientHandshake(s, t, isRequest) ==
    /\ Completes(s, "handshake")
    /\ LET stillOpen == open[s] /\ AllowConnection(s)
       IN  /\ open' = [open EXCEPT ![s] = stillOpen]
           /\ IF isRequest
              THEN ops' = [ops EXCEPT ![s] = AfterAllow(s)] /\ request' = s
              ELSE /\ ops' = [ops EXCEPT ![s] = Started(AfterAllow(s), "write", stillOpen)]
                   /\ request' = NoSession
    /\ connectedIps' = connectedIps \cup {ip[s]}
    /\ RegisterSession(s, t, Nobody)
    /\ UNCHANGED <<userId, mirrorPort, status, idle, ip, mirrors, sweep>>

----------------------------------------------------------------------------
(* Completions *)

\* A message arrives and process_request starts.
ReadDone(s) ==
    /\ Completes(s, "read")
    /\ ops' = [ops EXCEPT ![s] = Without(s, "read")]
    /\ request' = s
    /\ UNCHANGED <<open, fields, maps, sweep>>

\* A plausible bug of write_response: no read after the write.
WriteDone_NoRead(s) ==
    /\ Completes(s, "write")
    /\ Return(s, Without(s, "write"))
    /\ UNCHANGED thread

\* An answer, or a message to a mirror server, is written: read the next request.
WriteDone(s) ==
    /\ Completes(s, "write")
    /\ ops' = [ops EXCEPT ![s] = Started(Without(s, "write"), "read", open[s])]
    /\ UNCHANGED <<open, fields, maps, thread>>

CastDone(s) ==
    /\ Completes(s, "cast")
    /\ Return(s, Without(s, "cast"))
    /\ UNCHANGED thread

\* A plausible bug of the error handler: it reads again from the closed socket.
OpFails_ReadsAgain(s, k) ==
    /\ Completes(s, k)
    /\ CloseAndReturn(s, Started(Without(s, k), "read", FALSE))
    /\ UNCHANGED thread

\* The operation completes with an error; so does a handshake that cannot be
\* parsed, which is the same call of handle_error.
OpFails(s, k) ==
    /\ Completes(s, k)
    /\ CloseAndReturn(s, Without(s, k))
    /\ UNCHANGED thread

----------------------------------------------------------------------------
(* Requests *)

\* process_request answers and the thread is free again.
Respond(s) ==
    /\ request = s
    /\ ops' = [ops EXCEPT ![s] = Started(@, "write", open[s])]
    /\ request' = NoSession
    /\ UNCHANGED <<open, mirrorPort, ip, connectedIps, sweep>>

\* Errors, queries, and every request that leaves the session as it is.
AnswerOnly(s) ==
    Respond(s) /\ UNCHANGED <<userId, token, status, idle, sessions, tokens, mirrors>>

AlivePing(s) ==
    /\ Respond(s)
    /\ idle' = [idle EXCEPT ![s] = FALSE]
    /\ UNCHANGED <<userId, token, status, sessions, tokens, mirrors>>

\* A plausible bug of the login: registered before user_id_ is set.
Login_RegistersFirst(s, u, t) ==
    /\ ~CheckAlreadyLogin(u)
    /\ Respond(s)
    /\ userId' = [userId EXCEPT ![s] = u]
    /\ status' = [status EXCEPT ![s] = "waiting"]
    /\ RegisterSession(s, t, userId[s])
    /\ UNCHANGED <<idle, mirrors>>

\* The credentials are u's and u is not logged in.  The session may already be
\* logged in as somebody else, whose entry in tokens_ is left behind.
Login(s, u, t) ==
    /\ ~CheckAlreadyLogin(u)
    /\ Respond(s)
    /\ userId' = [userId EXCEPT ![s] = u]
    /\ status' = [status EXCEPT ![s] = "waiting"]
    /\ RegisterSession(s, t, u)
    /\ UNCHANGED <<idle, mirrors>>

\* SSAFYlogin whose second look-up of the user fails in the database: answered as
\* a success with user id -1 and no name, on which init_current_user throws after
\* it has assigned user_id_.
LoginLosesUser(s) ==
    /\ Respond(s)
    /\ userId' = [userId EXCEPT ![s] = Unknown]
    /\ UNCHANGED <<token, status, idle, sessions, tokens, mirrors>>

\* The room tables accept users only, so a mirror server's session joins nothing.
JoinRoom(s) ==
    /\ userId[s] \in Users
    /\ Respond(s)
    /\ status' = [status EXCEPT ![s] = "inRoom"]
    /\ UNCHANGED <<userId, token, idle, sessions, tokens, mirrors>>

ExitRoom(s) ==
    /\ userId[s] \in Users
    /\ Respond(s)
    /\ status' = [status EXCEPT ![s] = "waiting"]
    /\ UNCHANGED <<userId, token, idle, sessions, tokens, mirrors>>

\* The room was created and its mirror server is told: a write on the mirror's
\* socket whose handler starts one more read there.
CreateRoom(s, p) ==
    LET m == GetMirrorSession(p) IN
    /\ request = s
    /\ userId[s] \in Users
    /\ m # NoSession
    /\ Pending(m) < MaxPending
    /\ LET told == [ops EXCEPT ![m] = Started(@, "write", open[m])]
       IN  ops' = [told EXCEPT ![s] = Started(@, "write", open[s])]
    /\ status' = [status EXCEPT ![s] = "inRoom"]
    /\ request' = NoSession
    /\ UNCHANGED <<open, userId, token, mirrorPort, idle, ip, maps, sweep>>

\* The room was created but no mirror server answers at its port: an error, and
\* an entry whose session is gone is erased on the way.
CreateRoomNoMirror(s, p) ==
    /\ userId[s] \in Users
    /\ GetMirrorSession(p) = NoSession
    /\ Respond(s)
    /\ mirrors' = [mirrors EXCEPT ![p] = NoSession]
    /\ UNCHANGED <<userId, token, status, idle, sessions, tokens>>

\* Logout, and a handshake whose action is no string: the error path throws again,
\* and the handshake's own handler closes the socket.
Logout(s) ==
    /\ request = s
    /\ CloseAndReturn(s, ops[s])
    /\ request' = NoSession
    /\ UNCHANGED sweep

Request(s) ==
    \/ AnswerOnly(s)
    \/ AlivePing(s)
    \/ \E u \in Users, t \in Tokens : Login(s, u, t)
    \/ LoginLosesUser(s)
    \/ JoinRoom(s)
    \/ ExitRoom(s)
    \/ \E p \in Ports : CreateRoom(s, p) \/ CreateRoomNoMirror(s, p)
    \/ Logout(s)

----------------------------------------------------------------------------
(* Timers *)

\* session_timeout_ passes without a ping; the bound of the clock is 1 bit.
Elapse(s) ==
    /\ Idle
    /\ Live(s)
    /\ ~idle[s]
    /\ idle' = [idle EXCEPT ![s] = TRUE]
    /\ UNCHANGED <<ops, open, userId, token, mirrorPort, status, ip, maps, thread>>

TimedOut(t) ==
    /\ sessions[t] # NoSession
    /\ ~Live(sessions[t]) \/ idle[sessions[t]]

\* check_inactive_sessions collects the tokens first, then removes them.
CheckInactiveSessions ==
    /\ Idle
    /\ sweep' = {t \in Tokens : TimedOut(t)}
    /\ UNCHANGED <<ops, open, fields, maps, request>>

\* Plausible bugs of the time-out: the user's entry is erased along with the
\* session's; the socket is left open.
RemoveInactive_FreesUser(t) ==
    /\ t \in sweep
    /\ sweep' = sweep \ {t}
    /\ sessions' = [sessions EXCEPT ![t] = NoSession]
    /\ tokens' = [u \in Users |-> IF tokens[u] = t THEN NoToken ELSE tokens[u]]
    /\ open' = [s \in Sessions |-> open[s] /\ sessions[t] # s]
    /\ UNCHANGED <<ops, fields, mirrors, connectedIps, request>>
RemoveInactive_NoClose(t) ==
    /\ t \in sweep
    /\ sweep' = sweep \ {t}
    /\ sessions' = [sessions EXCEPT ![t] = NoSession]
    /\ UNCHANGED <<ops, open, fields, tokens, mirrors, connectedIps, request>>

\* Only sessions_ loses the entry here; tokens_ keeps the user until the
\* destructor, so the user cannot log in before the socket's handlers ran.
RemoveInactive(t) ==
    /\ t \in sweep
    /\ sweep' = sweep \ {t}
    /\ sessions' = [sessions EXCEPT ![t] = NoSession]
    /\ open' = [s \in Sessions |-> open[s] /\ sessions[t] # s]
    /\ UNCHANGED <<ops, fields, tokens, mirrors, connectedIps, request>>

\* Sessions that get the list of users: logged in and waiting.
Listeners ==
    {s \in Sessions : /\ \E t \in Tokens : sessions[t] = s
                      /\ Live(s)
                      /\ userId[s] # Nobody
                      /\ status[s] = "waiting"}

BroadcastCCU ==
    /\ Idle
    /\ Listeners # {}
    /\ \A s \in Listeners : Pending(s) < MaxPending
    /\ ops' = [s \in Sessions |->
                  IF s \in Listeners THEN Started(ops[s], "cast", open[s]) ELSE ops[s]]
    /\ UNCHANGED <<open, fields, maps, thread>>

----------------------------------------------------------------------------

Handshake(s) ==
    \/ \E p \in Ports : MirrorHandshake(s, p) \/ MalformedMirrorHandshake(s, p)
    \/ OutdatedHandshake(s)
    \/ \E t \in Tokens, isRequest \in BOOLEAN : ClientHandshake(s, t, isRequest)

Completion(s) ==
    \/ ReadDone(s)
    \/ WriteDone(s)
    \/ CastDone(s)
    \/ \E k \in OpKinds : OpFails(s, k)

Next ==
    \/ \E s \in Sessions :
        \/ \E a \in Ips : Accept(s, a)
        \/ Handshake(s)
        \/ Completion(s)
        \/ Request(s)
        \/ Elapse(s)
    \/ CheckInactiveSessions
    \/ \E t \in Tokens : RemoveInactive(t)
    \/ BroadcastCCU

Spec == Init /\ [][Next]_vars

----------------------------------------------------------------------------
(* Safety *)

\* The maps hold weak pointers and never hold a dangling or an outdated one:
\* every entry is a live session's, under the token or the port the session
\* itself remembers and will erase.  Code that uses a locked pointer without a
\* test (setSessionStatus) relies on it.
NoDanglingEntry ==
    /\ \A t \in Tokens : sessions[t] # NoSession =>
          Live(sessions[t]) /\ token[sessions[t]] = t
    /\ \A p \in Ports : mirrors[p] # NoSession =>
          Live(mirrors[p]) /\ mirrorPort[mirrors[p]] = p

\* No user is logged in twice, however logins, time-outs, disconnects and late
\* handlers of closed sockets interleave.
OneSessionPerUser ==
    \A s1, s2 \in Sessions :
        userId[s1] \in Users /\ userId[s1] = userId[s2] => s1 = s2

\* A logged-in session is the one tokens_ names for its user, which is why its
\* destructor, which erases tokens_ by user id, erases its own entry.
LoginIsRegistered ==
    \A s \in Sessions : userId[s] \in Users =>
        token[s] # NoToken /\ tokens[userId[s]] = token[s]

\* An address is not locked out for good: as long as it is in connected_ips_
\* there is a session at that address whose destructor will take it out.
NoStaleAddress ==
    \A a \in connectedIps : \E s \in Sessions : Live(s) /\ ip[s] = a

\* What keeps the exchange with s going.
Conversation(s) ==
    ops[s]["handshake"] + ops[s]["read"] + ops[s]["write"] + (IF request = s THEN 1 ELSE 0)

\* An open session is never left without a read, or a write that leads to one:
\* every path through process_request answers.  A client's session has exactly
\* one, so that its buffer is never read into twice at the same time.
ConversationContinues ==
    \A s \in Sessions : open[s] =>
        /\ Conversation(s) >= 1
        /\ mirrorPort[s] = NoPort => Conversation(s) = 1

\* A session leaves sessions_ because it got a new token, was closed or ended,
\* never because of the end of another one.
UnregisteredByOwnEnd ==
    [][\A t \in Tokens, s \in Sessions :
          sessions[t] = s /\ sessions'[t] # s =>
              token'[s] # t \/ ~open'[s] \/ ~Live(s)']_vars

\* A user stays logged in until the session that logged in ends: the entry in
\* tokens_ is neither overwritten nor erased before, not even by the time-out.
LoginEndsWithItsSession ==
    [][\A u \in Users : tokens[u] # NoToken /\ tokens'[u] # tokens[u] =>
          \E s \in Sessions : token[s] = tokens[u] /\ userId[s] = u /\ ~Live(s)']_vars

----------------------------------------------------------------------------
(* Pace *)

\* An operation started on a closed socket fails at once, so its handler is queued
\* and runs before the next broadcast, three seconds later, or the next room
\* created for a mirror, starts another one there.
Paced ==
    \A s \in Sessions : ~open[s] /\ ops[s]["dead"] > 0 /\ request # s =>
        Pending(s)' <= Pending(s)

----------------------------------------------------------------------------
(* What the documentation says and the code does not do *)

\* "The user is already logged in" (process_request): a user who is refused for
\* that reason has a session.  One who logged in on a session that then logged
\* in as somebody else has none, and is refused until the server restarts.
LoggedInUserHasSession ==
    \A u \in Users : tokens[u] # NoToken => \E s \in Sessions : userId[s] = u
=============================================================================
