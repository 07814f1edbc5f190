# Verification of the WarlocksOrganization back end

TLA+ models of the servers in this repository, TLC configurations that check
them on small instances, and TLAPS proofs of theorems about them. Paths are
relative to `src/`; MS stands for `MatchingServer/src`.

## 1. The system

| Part | State | Operations | What is hard |
|---|---|---|---|
| Matching server, sessions (`MS/core/session.cpp`) | socket, `user_id_`, `token_`, `mirror_port_`, `status_`, `last_activity_time_` | handshake, `read_message`, `process_request`, `write_response`, `write_mirror`, `write_broadcast`, `handle_error`, destructor | life time held by handlers in flight only; handlers that run after the socket was closed; paths that miss a `return` |
| Matching server, registry (`MS/core/server.cpp`) | `sessions_`, `tokens_`, `mirrors_`, `connected_ips_` | register, remove, look up, time-out sweep, user broadcast, accept, stop | four maps with weak pointers, keyed by things sessions remember and may change |
| Matching server, rooms and games (`MS/repository`, `MS/service`, `MatchingServer/db-init.sql`) | tables `rooms`, `room_users`, `games` | `createRoom`, `joinRoom`, `exitRoom`, `listRooms`, `gameStart`, `gameEnd` | rows of rooms are used again; rooms and games are updated by different calls; commits that took effect but look failed |
| Matching server, accounts (`MS/service/auth_service.cpp`) | table `users` | register, login, SSAFYlogin, updateNickName | several queries per call, each may fail |
| Matching server, pool, start, stop (`MS/util/db_pool.cpp`, `MS/main.cpp`) | connections and leases | lease, return, signal handler | connections never returned; a signal handler that runs on top of any handler |
| GameSocketServer | an earlier form of the matching server: a user id per session, the tables, the pool | the same requests without handshake, mirrors and time-outs | `createRoom` in three transactions; an answer whose conversion throws after the request took effect; connections that are never returned |
| GameSocketTestClient | `response_queue_`, `running_`, shared by three threads | request, ping, stop | answers that say nothing of the request they are to; joins before the close; two servers that treat it differently |
| indicator (Spring): hints | version, batch count, pools, Mongo documents | `insertData`, hourly tick, patch update, reads | optimistic locking with a retry of the whole call, multi-step updates without isolation, patches that overlap |
| indicator: matrices and shares | the matrices in those documents | coordinates of a player's cards, sums, master hints | totals, diagonals and quotients that have to agree |
| logging (Spring) | none | forward a batch to Kafka and to the indicator | one bad record in the middle of a batch |
| APIGatewayServer | - | - | does not link: its methods are declared and not defined |

How the parts interact. Game clients and mirror (game) servers connect to the
matching server over TCP; a mirror announces itself in its handshake. A request
goes session -> controller -> service -> repository -> PostgreSQL and back
within one handler; `createRoom` also writes to the mirror's session;
`handle_error` runs `exitRoom` for the session's user. Timers sweep timed-out
sessions every 10 s and broadcast the list of users every 3 s. One thread runs
the `io_context`, so handlers never overlap; what interleaves is the order in
which they run. A signal runs `Server::stop` on that same thread and then calls
`exit`. Games are logged through the logging service, which hands every record to
Kafka and posts the finished games to the indicator; there, threads of requests,
the hourly tick and patches meet in MongoDB and in the fields of `VersionService`.

What makes each part correct:

* sessions and registry: the maps name live sessions only, under the keys those
  will erase; no user is logged in twice, and a user stays logged in exactly as
  long as the session; no address stays locked out; an open session always goes
  on to read; a session that is silent or closed ends;
* rooms and games: no overfull room, no leftover players or games in a room that
  is used again, players enter waiting rooms only, the last exit closes the room;
* accounts and pool: a name belongs to one account, a success is of the account
  that was asked for, and a connection is given back unless it broke at the wrong
  moment;
* indicator and logging: what a document has counted it keeps, the documents of a
  batch are carried over whole to the next one, no game is counted more often than
  it was sent or is in the statistics without having been logged, and the shares
  that are read off the matrices are shares of players;
* test client: answers keep their order, match their request as long as nothing
  slips in between, and stop ends once the server has closed the connection.

## 2. Modules

| Module | What it is |
|---|---|
| `RoomLobby` | What rooms promise a player: open, enter, leave, start. No tables, no answers. |
| `RoomStore` | The tables `rooms`, `room_users`, `games` and every service call on them. Implements `RoomLobby`. |
| `RoomStoreProofs` | TLAPS proofs about `RoomStore`. |
| `MCRoomStore` | Constants for TLC. |
| `SessionRegistry` | Sessions, the maps of `Server`, timers, requests. |
| `SessionRegistryProofs` | TLAPS proofs about `SessionRegistry`. |
| `MCSessionRegistry` | Constants for TLC. |
| `MatchingServer` | The two composed: sessions that call the services of the rooms, crashes and stops. |
| `MatchingServerProofs` | TLAPS proofs about the composition; instantiates `SessionRegistryProofs`. |
| `Accounts` | The requests of `AuthService`, query by query, with the pool's connections. |
| `AccountsProofs` | TLAPS proofs about `Accounts`. |
| `GameSocketServer` | The earlier server: sessions, accounts, rooms, pool. Implements `RoomLobby`. |
| `GameSocketServerProofs` | TLAPS proofs about `GameSocketServer`. |
| `TestClient` | The three threads of the test client and the stream of answers. |
| `TestClientProofs` | TLAPS proofs about `TestClient`. |
| `HintLedger` | What the indicator promises of its documents: tallies that only grow, that a tick copies whole, and that count no game more often than it was sent. |
| `HintStore` | `insertData`, the hourly tick, patches and restarts on the documents. Implements `HintLedger`. |
| `HintPipeline` | The logging service in front of `HintStore`. |
| `HintPipelineProofs` | TLAPS proofs about `HintStore` and `HintPipeline`. |
| `MatrixCounts` | The matrices one player after the other, and the shares computed from them. |
| `MatrixCountsProofs` | TLAPS proofs about `MatrixCounts`. |
| `MC...` | Constants for TLC, one module for each of the above that is run by itself. |

Operators named `X_Something`, placed before `X`, are plausible bugs of `X`;
`X_Something` in place of `X` breaks the property it is paired with in
`PROJECT.json`. No specification uses them.

### RoomStore

`roomStatus`, `maxPlayers` are columns of `rooms`; `players` is `room_users`
grouped by room (its primary key is the pair); `gameStatus`, `gameRoom` are
`games`. `reply` is what the last service call answered: the services turn every
outcome into success or error, and that is all a client learns.

A service call is one step, because the server handles one request at a time and
each repository call is one transaction. A call refuses (guards and early
returns), commits, aborts, or commits although an exception is seen
(`DbFaults`): the connection may be lost in COMMIT, and
`createRoomWithHost` converts columns after its commit inside the same `try`.
`RemovePlayer` picks any row of the user, since the SELECT has no ORDER BY.
`Callers` are the ids a session may carry: users, and ports of mirror servers
(a mirror's port is its `user_id_`), which violate the foreign key.

### SessionRegistry

`ops` counts a session's operations in flight by what their handler will do. A
session object is alive as long as such a handler holds it (`Live`); when the
last one returns, the destructor runs in the same step (`Destroy`). An operation
started on a closed socket is `dead`: it can only fail. A handler is one step,
except that a request being processed (`request`) and the loop over timed-out
sessions (`sweep`) are several, with all other handlers held back meanwhile.
Requests are reduced to what they do to the sessions and the maps; what they do
to the tables is RoomStore's, so `AnswerOnly` stands for all errors and queries.
The branch of `read_handshake` that refuses an address does not return; the
model follows it (`ClientHandshake`, `AfterAllow`). `MalformedMirrorHandshake`
is a handshake whose port does not convert: `is_mirror_` is set and
`mirror_port_` is whatever the memory held, any port in the model. The
destructor that can only erase ports outside `Ports` is `OpFails`.

### MatchingServer

`Reg` is SessionRegistry and `Store` is RoomStore, over the same sessions and
users. A request that calls a service is one step of both: the tables change as
the service says, and the session goes on by the service's answer, `reply'`
(`JoinRoom`, `ExitRoom`, `CreateRoom`, `GameRequest`). `LeaveRooms` is the call of
`exitRoom` in `handle_error`, which the code makes for every session with a user
id, whether the socket is still open or not: it is part of `Logout`, `Fail` and
`RemoveInactive`. Every other step of a session leaves the tables alone
(`NoCall`). `createRoom` commits the room before it looks for the room's mirror
(`TellMirror`), so an error answer may leave the host in the room. A mirror
server's id is its port, with which it acts on the tables like a user who is not
there.

The process ends in two ways. `Restart` (constant `Crashes`) is its death between
any two steps, also in the middle of a stop: the maps are gone and the tables are
not. `Signal` (constant `Stops`) is the signal handler: `stop` runs on top of
whatever it interrupts and `exit` never returns there, so that from then on only
the loop of `stop` happens, which calls `handle_error` of the sessions in
`sessions_` (`leaving`, `LeaveAtStop`). The mutexes are not modelled: a `stop` that
waits for ever for one that the interrupted handler holds is a crash at that
point.

### Accounts

A call of `UserRepository` is a step (`Find`, `Create`, `FindAgain`, `LogIn`,
`UpdateNickName`); between two of them PostgreSQL may stop or start and the
server may die. `pool` is `DbPool`: connections in their order, whether they are
in use, and whether they are open (`up`), broken without knowing it (`lost`) or
known to be broken (`closed`). `Works`, `Breaks` and `Throws` are the three ways a
repository call ends: with a commit; in the `catch`, where the connection is
given back; or in the constructor of the transaction before the `try`, which
keeps the connection. A query that fails returns "no such user" like one that
finds nothing (`FindByUsername`). A name is what `Lower` and the UNIQUE
constraint tell apart; a password is compared, not hashed.

### HintStore, HintLedger and HintPipeline

A document is the number of times each game is counted in it, in whatever cells,
and its revision. `insertData` is `ReadPicks`, `ReadWins`, `CountGames` and one
`Save` for each document; a revision that has moved restarts it, three attempts
in all. `Countable` is what a retry makes of a request whose card ids were
replaced by indexes: it skips what was converted; but nothing keeps an index of a
pool from being the id of a card (`PoolManager::updatePoolPost` takes any ids), and
the games of `Ambiguous`, where it is one, may be skipped or counted with other
cards. The fields `version` and `batch` are read in the same step as the query built
from them, and the version that `CountGames` compares with is read once for all
games of a call: the reads follow one another with nothing in between that takes
time. A failed query or save is an exception (`InsertFails`, `TickFails`,
`PatchFails`; constant `DbFaults`), which is not retried. `updatePatchVersion` takes
no lock: each of the `Operators` has a call under way, which compares the version,
updates the pools, sets the version and looks for documents in steps of its own.

`HintLedger` has no revisions, requests or versions. A document is opened blank, and
what a tick has read of the batch before (`carried`) is copied as a whole into a new
document of the same rank or dropped; a game is added to a document only below its
`Limit`. The pipeline implements it with the limit `LimitOf`: once for each batch of
records the game is in, times the three attempts if it is ambiguous. That a tick
copies everything it has read, and not only some of the documents, is
`CarryOverIsComplete`, as a failure may end the loops and leaves the copies
incomplete.

In `HintPipeline` a batch of records goes to Kafka one by one (`Forward`), which
may throw, as does a record without an event type, and its finished games go to
the indicator at the end (`Post`). The acknowledgement of Kafka is not awaited by
the code and not modelled: `log` is what `KafkaTemplate` was handed.

### MatrixCounts

`matrix` maps a document and the id of a matrix in it to its cells. One step
(`CountPlayer`) is the body of the loop of `insertData` over the players: the
coordinates of `generateCoexistenceXY` and `generateTransitionXY`, with the coin
that orders each pair of a round as a choice, added to the matrices of the
player's map and number of players and of the totals. A player of class 100, the code
of faulty logs, is passed over. The shares of the master
hints are read off the matrices by the code's own formulas (`Calculate`,
`ClassUp`, `CardDown`). `Same` is the comparison of two `Integer` objects with
`!=`, which is one of values for small codes only. No player picks a card twice
(`LogsAssumption`): the game deals without replacement, and nothing in the
indicator checks it.

### TestClient

`main`, `io` and `ping` are the threads. `toServer` and `toClient` are the two
directions of the socket: what was written and not read yet is read together, so
several answers may arrive as one text that is no JSON and is dropped
(`ReadAnswers`). An answer is its number and the request it is to, which only the
model knows. `slipped` records whether a ping or a time-out has happened, after which
answers may be out of step. A message is written and arrives whole.

Two servers may listen on the port it connects to (`peer`). The one it was made for,
GameSocketServer, answers every message it reads with an error (`ServerAnswers`): it
has no handshake and no ping, the answers of its `AuthController` do not convert, and
it has no time-outs, so that it never closes. The matching server refuses a handshake
without `version`, which the client's is (`session.cpp:125`), and closes
(`ServerRefuses`); when another connection has its address, the refusal that does not
return has been written before. So no server lets this client log in, `user_id_`
stays 0 and the branches that need it are not reached.

### GameSocketServer

The same thread serves one request at a time, but here a request is several
steps, one for each repository call (`call.stage` is the next one), because
`createRoom` commits twice and the process may die in between. `conn` is what a
session waits for: a read, the end of its request, or the end of the write of a
success or an error answer. `Answer` is `write_response` as process_request calls
it: answers of `AuthController` are objects and their conversion throws. `pool`
and `leaked` are the number of connections made and of those marked in use for
ever; as the server has one thread, all others are free between two calls.
`NoConnection` stands for every exception a repository call throws before its
`try`. Names, columns and rows are those the queries name;
`GameSocketServer/DB/init.sql` calls the column `user_name` `username`, with which
no query on users works, and inserts no rooms: the model starts with rows that
are TERMINATED, which somebody must have inserted.

## 3. What the runs check

| Run | Instance | What it shows |
|---|---|---|
| `room_store` | 3 users, 1 mirror id, 2 rooms, 2 games, sizes in and out of 2..8, database faults | All safety and action properties of the tables, and that they implement `RoomLobby`. 13,499 states. |
| `room_leak` | same, no faults | `EmptiedRoomIsTerminated` is violated (section 6). |
| `session_registry` | 2 sessions, 2 users, no mirror, 1 address, 4 tokens, at most 2 operations in flight per session | Logins, their entries and addresses agree. 45,651 states. |
| `session_orphan` | 2 sessions, 2 users | `LoggedInUserHasSession` is violated. |
| `matching_server` | 2 sessions, 1 user, 1 mirror, 1 room, crashes, stops, no faults | The maps name live sessions and conversations go on, also while rooms add writes to a mirror's session; nobody loses the login and keeps the seat but by a crash or a late return before a stop (`OnlyCrashesStrandPlayers`); the end of a session empties its user's seats, those of a former run too (`EndFreesSeats`). 630,174 states. |
| `matching_liveness` | 1 connection, client or mirror, at most 3 operations in flight, 2 rooms, 1 game | A closed session ends, a silent one is closed, a silent player's seats become free, in both rooms. 119,716 states. |
| `game_socket` | 1 connection, 3 users, 2 rooms of 2, a pool of 1 that may grow to 2, faults, restarts | Terminated rooms are empty, hosts start alone, the rooms implement `RoomLobby`, and every request is answered. 43,098 states. |
| `accounts` | 3 names, two that differ in capital letters, 2 passwords, 2 accounts, a pool of 2, PostgreSQL stops and starts, restarts | Names stay unique unless a query failed, a success names the right account, only connections that broke leave the pool. 243,586 states. |
| `test_client` | 3 requests, 2 pings, either server | Answers keep their order and match until something slips in between; the threads have ended when stop returns; stop ends once the server has closed. 18,497 states. |
| `hint_pipeline` | 2 games in 2 batches, one of them ambiguous, 1 document of each kind, 2 hourly batches, 1 operator, failures and restarts everywhere | Documents keep what they count, are carried over whole and count no game more often than it was sent (`ImplementsLedger`); a tick that ends its loops has carried over all it read (`CarryOverIsComplete`); no game counted that was not logged. 1,007,370 states. |
| `hint_retry` | same, 1 hourly batch, no failures of MongoDB | `AnsweredGamesAreCounted` is violated. |
| `matrix_counts` | 3 classes, one with a code beyond 127 and one with code 100, 2 maps, 1 number of players, 7 cards, 2 a round, 2 players | Shares count players, the two kinds of matrix agree, totals are sums. 3,865 states. |

Why the bounds are enough. RoomStore: two rooms let a player be in two at once
and let `createRoomWithHost` choose the first of several; three users fill a
room of size 2 and leave one to be refused; two games let a room be reused with
a finished game and two run in one room. SessionRegistry: every conflict is
between two sessions, one that ends and one that replaced it; a session object
is used again after its destructor, so histories are longer than two
connections. Tokens are a current one for each session and one for each user
that a second login may leave behind in `tokens_`: four for two users. When all
tokens are in use no new one is handed out: with UUIDs the model's states are
those of longer runs in which old ones are forgotten. `MaxPending` bounds the
operations a session may have in flight when a broadcast or a mirror message is
added; it appears in the guards of `BroadcastCCU` and `CreateRoom` only. Users
conflict by logging in on each other's sessions, mirrors by overlapping
operations; neither needs the other, so `session_registry` has two users and no mirror, and `matching_server`
one user, whose two sessions race, and a mirror, whose writes keep handlers in
flight. Faults are off in the composition, since an `exitRoom` that fails leaves
the player in the room whatever the sessions do. `matching_liveness` has two
rooms, so that the silent player may be in both, and no ends of the process:
after a crash or a stop nobody is there to take a player out before the next
login.

GameSocketServer: requests are served one after another and sessions meet in the
tables only, so one connection that is used by all users in turn has every
sequence of calls; three users overfill a room of two and two rooms let a player
be in both; a pool that may grow from one connection to two is full, grown or
exhausted within three names. Accounts: two accounts are the one that is found
and the one it is confused with; a pool of two has a first connection that is
gone and a next one; `MaxLost` stops PostgreSQL from breaking more than three,
after which every further one repeats. TestClient: an answer is out of step with
its request by one ping or time-out, and a third request shows that it stays so.
HintStore: a conflict needs two calls and a document each of them saved before,
or one call and a tick; a document of picks and one of wins are the two lists
that are read and saved one after the other; the second batch is the one a tick
copies to. One operator has patches that meet calls and ticks after a restart, when the
version is set again; two operators whose patches overlap, or a second version, take
TLC more than the time a run has. The theorems of section 5 cover both. Neither batch has a
malformed record, whose effect, the end of the batch, a failed hand-over to Kafka
has as well. MatrixCounts: two
players meet in every cell or differ in every coordinate; a round of two has a
pair whose order is a coin. A clock is one bit, `idle`: whether `session_timeout_`
has passed since the last ping.

Deadlock is checked in every run but those of the test client, which stops, and
`matrix_counts`, which has counted its players.

## 4. Fairness

Safety needs none. `LiveSpec` of `MatchingServer` assumes what asio's run queue
gives: a handler that is queued runs, although other handlers keep being added
(`SF` on completions of operations of closed sockets, which complete at once,
and on the sweep's timer); process_request and the sweep's loop run to their end
(`WF`). `Paced` is an assumption about time: an operation on a closed socket has
failed before the next broadcast, three seconds later, starts another one there.
Nothing is assumed about open sockets: their peers may stay silent for ever, and
`IdleSessionIsClosed` is exactly about those. `GameSocketServer` assumes only
that the thread goes on with the request it serves (`WF` on `Serve`): the calls
are made one after another in one handler. `TestClient` assumes that each of its
threads goes on (`WF`), which the operating system's scheduler gives, and so does
the server's `io_context` when there is something to read. No server is assumed to
close: `StopEndsOnceClosed` is about one that did.

## 5. What is proved

The theorems hold for every value of the constants that satisfies the modules'
assumptions: any number of sessions, users, rooms, games, connections, requests,
documents and failures. The assumptions are that ids and null values differ, that
rooms have positive ids, users are among the callers, every room has a port
(`db-init.sql` gives each row one), bounds are natural numbers, and that a pool of
`Accounts` starts with a connection (the code starts with 20). The theorems
of one group have the further hypothesis `~DbFaults`, named below.

Every proof has the same shape: an inductive invariant, one lemma for each action
or group of actions that may disturb it, and a last step of temporal logic. TLC has
checked the invariants on the instances of section 3 before they were proved.

**Rooms and games** (`RoomStoreProofs`): `RoomStoreTypeCorrect`, `RoomStoreSafety`
(`NoRoomOverfull`, `TerminatedRoomIsEmpty`, `RunningGameHoldsItsRoom`, also stated
one by one), `PlayersEnterWaitingRooms`, `OneUserMoves`, `LastExitsTerminate`,
`RoomStoreImplementsLobby`. Lemma `NextRunsOneTransaction` reduces a step, through
services, refusals and database faults, to at most one transaction. The inductive
invariant adds to the three invariants that limits are at most 8 (`LimitInRange`),
without which a player could enter a room the lobby has no seat in. The refinement
needs it too, and that a terminated room is empty: only then is the host the crew. That
a call moves one user only (`OneUserMovesAtATime`) follows from the refinement and
that invariant, and has no run of its own.

**Sessions** (`SessionRegistryProofs`): `SessionTypeCorrect`; `RegistryAgrees`
(`NoDanglingEntry`, `OneSessionPerUser`, `LoginIsRegistered`, `NoStaleAddress`, also
one by one); `LoginsEndWithTheirSession`; `EntriesEndWithTheirSession`
(`UnregisteredByOwnEnd`). The inductive invariant says that a session that has ended
has no traces (`GoneIsBlank`), that a session in its handshake does nothing else
(`HandshakeIsFirst`), that different sessions have different tokens (`TokensDiffer`),
that entries are under the key the session remembers (`EntriesAreOwn`) and that
addresses are held by a live session (`AddressesAreHeld`). `OneSessionPerUser`
follows: two sessions of a user would have the token `tokens_` names, and tokens
differ.

**What keeps a session going** (in the same module): `ConversationsContinue`
(`ConversationContinues`), for any number of operations in flight, from the
invariant above. Each handler is classified by what it does to the exchange: it
answers, it completes an operation, it begins one, or it closes. It is also
shown that a session with a user id has a handler left that will call `handle_error`
(`Attended`), which the composition needs.

**The composition** (`MatchingServerProofs`): `MapsNameLiveSessions`
(`NoDanglingEntry`) and `ServerKeepsConversations` (`ConversationContinues`). Every
step of a session is a step of SessionRegistry (`ServeByEffect`), a stop adds steps
that leave sessions alone and a restart is its initial state, so the invariants of
the registry carry over. With the hypothesis `~DbFaults`: `EndsFreeSeats`
(`EndFreesSeats`) and `PlayersAreStrandedByCrashes` (`OnlyCrashesStrandPlayers`). The
invariant is `SeatsAttended`: the session of a user with a seat is attended, so that
one of its handlers will still take the user out of the room. An `exitRoom` that
fails in `handle_error` is not repeated, so without the hypothesis both are false.

**Accounts** (`AccountsProofs`): `AccountsTypes`, `LostConnectionsLeak`
(`OnlyLostConnectionsLeak`), `NamesAreTakenOnce` (`TakenNamesAreRefused`),
`SuccessIsOfAnAccount` (`SuccessNamesAnAccount`). What an earlier query of a request
has found stays true until the later ones use it (`Knows`), because nobody else
writes in between; and a pool has no more connections than it started with and those
leased for ever, all of which are closed (`PoolInv`).

**GameSocketServer** (`GameSocketServerProofs`): `ServerTypes`,
`TerminatedRoomsAreEmpty`, `HostsStartAlone`, `ServerImplementsLobby`. The invariant
says what the earlier repository calls of a request have established (`CallOK`): the
row that was picked is terminated, the room that was opened is empty. It holds from
one transaction to the next because one thread serves one request at a time: that is
what keeps the three transactions of `createRoom` safe.

**Indicator and logging** (`HintPipelineProofs`): `StoreTypes` and `StoreAloneTypes`
(`TypeOK`, behind the logging service and for requests from anywhere);
`DocumentsOnlyGrow`; `CountedGamesAreInTheLog` (`CountedGamesAreLogged`);
`PipelineImplementsLedger` (`ImplementsLedger`); `CarryOverCompletes`
(`CarryOverIsComplete`). Lemma after lemma says that a document which has still the
revision that was read has still the games that were read, so that a save adds to it
and takes nothing away. How often a game is counted needs more (`CountInv`), since a
call holds copies of documents with its own game counted in them: a copy under way is
exactly what was read plus what the call counts in it (`Exact`); each attempt of each
batch is a token, which is spent for the documents of a rank when the attempt has
saved there or never will (`Spent`, `Over`); and no document has more of a game than
there are spent tokens (`Bounded`). An attempt that saves in a document finds its own
token unspent, because nobody else saved it since, so the limit is not passed. `CopyInv` says of
every document a tick has read and is no longer going to save that a document with at
least its games exists; documents only grow, so it stays true whatever patches do to
version and batch meanwhile. Neither theorem has further hypotheses: a batch sent
twice and indexes that are ids of cards are in the limit.

**Test client** (`TestClientProofs`): `ClientTypes`, `AnswersComeInOrder`
(`AnswersKeepTheirOrder`), `AnswersMatch` (`AnswersMatchUntilOneSlips`). The
invariant `OrderInv` orders the four places an answer may be in (returned, queue, in
the reader's hand, socket) and puts the server's next number above them all.
`OneUnderWay` says that until a ping or a time-out there is one request or
answer under way at most while the menu waits, and none while it does not.

**Matrices** (`MatrixCountsProofs`): `MatricesAgreeAlways`
(`TransitionsAreCoexistences`), `SharesArePlayers` (`SharesCountPlayers`),
`TotalsAreAlwaysSums` (`TotalsAreSums`), for any finite sets of classes, maps and
numbers of players, and pools, rounds and games of any size. Two cards of a player
are one pair of positions or none, since no card is picked twice, and the coin of the
pair decides which of its two steps is taken: so a player adds the same to both
matrices. The rest is about sums. `SumFunction` takes a solution of a recursive
equation; that it has one (`SumsExist`), and then each fact about its value
(`SumAdds`, `SumCounts`, `SumOfOne`), is shown of every finite set by way of a
smallest subset that is an exception (`SmallestNumber`, `SubsetsByRest`). With them a
player of a class adds nine to its diagonal (`CardsOfAPlayer`), and to each total what
one term of its sum gets.

Model-checked only:

* the liveness properties (`ClosedSessionEnds`, `IdleSessionIsClosed`,
  `SilentPlayerLeaves`, `RequestIsAnswered`, `StopEndsOnceClosed`): liveness under fairness is
  beyond the prover;
* the three properties of section 6, which are false.

## 6. Disagreements between the code and its documentation

Each is a run that TLC must find violated, with the quoted line in
`PROJECT.json`.

* A player of two rooms who leaves is taken out of both, and only one is looked at
  (`room_leak`): `addPlayer` does not look for other rooms, `removePlayer` counts
  in one room. If the other is empty then, it stays listed as WAITING until someone joins it and
  leaves again.
* A second login on a session locks the first user out until the server restarts
  (`session_orphan`).
* A retry of `insertData` skips the games whose cards the first attempt replaced
  by indexes (`hint_retry`): they stay in the documents saved before the conflict
  and are missing in the others, and the call is answered with success.

Seen while modelling, and followed by the models without a run of their own:

* `gameStart` and `gameEnd` always answer an error, after committing: the
  response's `gameId` stays -1. Hence `setSessionStatus` is never reached, and a
  room never leaves GAME_IN_PROGRESS by `gameEnd`.
* The limit of one client per address does not hold: every destructor erases its
  address, also that of a connection that was refused because of it.
* The end of a mirror server's old connection erases the entry of the new one
  (`OpFails`, by port).
* `stop` says that it notifies all sessions ("모든 세션에 종료 알림") and walks
  through `sessions_`: a player whose session had timed out and who came back to
  a room by a request that was read before is left there (`Signal`).
* A connection that never sends its handshake is in no map the time-out looks at.
* `SSAFYlogin` stamps the user it created, and the user -1 when it found one,
  where the comment says that the time of the login is updated ("로그인 시간
  업데이트"); when its second look-up fails it answers success with the user id -1
  (`FindAgain`, `LogIn`). A look-up that fails lets a name be registered that
  differs from an existing one in capital letters only (`TakenNamesAreRefused`
  excepts that case by name).
* GameSocketServer: a login or registration with a name that is not in use keeps a
  connection of the pool for ever; when the database grants no more, every request
  is answered with an error. A login or registration that succeeds is answered
  with "Invalid request format" (`Answer`); game requests are routed under names
  that the controller does not know (`Refuse`).
* Class codes outside -128..127 are never attributed to their class in the master
  hints (`Same`).
* A tick carries over what it read: a call of `insertData` that read its documents
  before the batch was raised saves them after the tick has read them. It meets no
  newer revision, is answered with success, and its games are in documents of the old
  batch only, where the comment says that all picks and wins are carried over ("pick 과
  win 다 이월시킴!").
* `stop` of the test client joins the thread that reads before it closes the socket:
  GameSocketServer closes no session, so the menu's "0", which is to end all threads
  ("모든 스레드 종료"), waits for ever. It ends with a server that has closed
  (`StopEndsOnceClosed`).
* A patch in the middle of a tick changes the version and batch the tick's copies are
  saved under: the copies of one batch may end up under two versions (`TickSave`).
* A failed first document of wins leaves a batch of picks only, which later ticks copy
  as it is (`SaveBlank`, `PatchFails`).

## 7. Not modelled, and what is left to do

Left out for good: the hash functions; the controllers, which route and keep no
state; the gateway, whose methods are declared and not defined, so that it does
not link; message texts; the contents of mirrors' overlapping reads.
`async_write` of GameSocketServer is given a buffer over a string that is gone
when the write runs; what is then sent is undefined and no property is about the
bytes. `util/session_pool.cpp` there is commented out as a whole. Mutexes: all
handlers run on one thread, and what a signal handler does to them is a crash.
`PoolManager`'s contents and `ReadyMadeManager`'s list of hints: caches that are
filled from the documents and read by queries only; the list is cleared and
filled while readers iterate over a view of it, which no step of the store sees.
Prefixes of document ids are taken to be matched as a whole.

To model next:

1. A second version in `hint_pipeline`, on an instance small enough to finish:
   patches from one version to another while a tick copies documents. With one
   operator and no failures it has about 1.4 to 1.8 million states, too many for five
   minutes.
2. `SessionTimeout`: the clock of the sweep (time-out 12 s, every 10 s), with the
   bound on how long a silent session stays.
3. The composition with database faults: what a failed `exitRoom` leaves behind,
   and when the player's next session repairs it.

To prove next: what holds when an `exitRoom` fails, in place of the hypothesis
`~DbFaults`: a seat is attended, or a failed `exitRoom` left it behind. This needs the
third item above.
