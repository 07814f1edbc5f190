----------------------------- MODULE TestClient -----------------------------
(***************************************************************************)
(* The GameClient of GameSocketTestClient: the menu's thread, which sends  *)
(* a request and waits for an answer; the thread of io_context, which      *)
(* reads answers into a queue; and the ping thread.  Answers carry nothing *)
(* that says which request they belong to, and the two directions of the   *)
(* socket are streams: what is not read yet is read together.              *)
(*                                                                         *)
(* Two servers listen where the client connects.  The GameSocketServer, for*)
(* which the client is made, answers every read with an error: it knows no *)
(* handshake and no ping, and it cannot send what its controllers return.  *)
(* The MatchingServer refuses a handshake without a version.  No answer is *)
(* a success, so that user_id_ stays 0; it is left out.                    *)
(***************************************************************************)
EXTENDS Integers, Sequences, SequencesExt

CONSTANTS
    MaxRequests,     \* bound on the requests of the menu
    MaxPings         \* bound on the pings

ASSUME TestClientAssumption == {MaxRequests, MaxPings} \subseteq Nat

VARIABLES
    main,       \* the menu's thread
    running,    \* running_
    io,         \* io_thread_
    ping,       \* ping_thread_
    queue,      \* response_queue_
    returned,   \* the answer the menu got last
    requests, pings, slipped,    \* what was sent, and whether an answer may be out of step
    toServer, toClient,          \* the socket: what was written and not read yet
    peer, link, answers          \* the server, its side of the connection, what it said

client == <<main, running, io, ping, queue, returned, requests, pings, slipped>>
server == <<peer, link, answers>>
vars == <<client, server, toServer, toClient>>

Servers == {"GameSocketServer", "MatchingServer"}

\* Messages are numbered like the requests; the first is the handshake.
NoRequest == 0      \* the number of a ping, and what an answer to several messages is to

\* The n-th answer of the server, and the request it answers.
Answer == [n : Nat, to : 0..MaxRequests]
NoAnswer == [n |-> 0, to |-> NoRequest]

TypeOK ==
    /\ main \in {"start", "menu", "waiting", "join io", "join ping", "stopped"}
    /\ running \in BOOLEAN
    /\ io.phase \in {"none", "reading", "pushing", "ended"} /\ io.answer \in Answer
    /\ ping \in {"none", "sleeping", "sending", "ended"}
    /\ queue \in Seq(Answer) /\ toClient \in Seq(Answer)
    /\ returned \in Answer
    /\ requests \in 0..MaxRequests /\ pings \in 0..MaxPings
    /\ slipped \in BOOLEAN
    /\ toServer \in Seq(0..MaxRequests)
    /\ peer \in Servers /\ link \in {"open", "closed"} /\ answers \in Nat
    /\ main = "stopped" => ~running /\ io.phase \in {"none", "ended"} /\ ping \in {"none", "ended"}

Init ==
    /\ main = "start" /\ running = FALSE
    /\ io = [phase |-> "none", answer |-> NoAnswer] /\ ping = "none"
    /\ queue = <<>> /\ returned = NoAnswer
    /\ requests = 0 /\ pings = 0 /\ slipped = FALSE
    /\ toServer = <<>> /\ toClient = <<>>
    /\ peer \in Servers /\ link = "open" /\ answers = 0

----------------------------------------------------------------------------
(* The menu's thread *)

\* connect, which may fail and end the program.
Connect ==
    /\ main = "start"
    /\ \/ /\ main' = "menu" /\ running' = TRUE
          /\ io' = [io EXCEPT !.phase = "reading"] /\ ping' = "sleeping"
       \/ main' = "stopped" /\ UNCHANGED <<running, io, ping>>
    /\ UNCHANGED <<queue, returned, requests, pings, slipped, toServer, toClient, server>>

\* The write of a message: it is on its way, or lost when the server has closed.
Write(id) ==
    toServer' = IF link = "open" THEN Append(toServer, id) ELSE toServer

\* sendRequest up to the wait.  A write on a socket the server has closed may throw,
\* which is answered like an error of the server's.
Send ==
    /\ main = "menu" /\ requests < MaxRequests
    /\ requests' = requests + 1
    /\ \/ main' = "waiting" /\ Write(requests')
       \/ link = "closed" /\ UNCHANGED <<main, toServer>>
    /\ UNCHANGED <<running, io, ping, queue, returned, pings, slipped, toClient, server>>

\* A plausible bug: the answer is not taken out of the queue.
Receive_Peeks ==
    /\ main = "waiting" /\ queue # <<>>
    /\ returned' = Head(queue)
    /\ main' = "menu"
    /\ UNCHANGED <<running, io, ping, queue, requests, pings, slipped, toServer, toClient, server>>

\* The wait ends with an answer, the oldest there is; or after five seconds with none.
Receive ==
    /\ main = "waiting" /\ queue # <<>>
    /\ returned' = Head(queue)
    /\ queue' = Tail(queue)
    /\ main' = "menu"
    /\ UNCHANGED <<running, io, ping, requests, pings, slipped, toServer, toClient, server>>

TimeOut ==
    /\ main = "waiting" /\ queue = <<>>
    /\ slipped' = TRUE
    /\ main' = "menu"
    /\ UNCHANGED <<running, io, ping, queue, returned, requests, pings, toServer, toClient, server>>

\* stop: the threads are joined before the socket is closed.
Stop ==
    /\ main = "menu" /\ requests > 0
    /\ running' = FALSE
    /\ main' = "join io"
    /\ UNCHANGED <<io, ping, queue, returned, requests, pings, slipped, toServer, toClient, server>>

\* A plausible bug: the ping thread is not joined.
Join_OnlyIo ==
    /\ main = "join io" /\ io.phase = "ended" /\ main' = "stopped" /\ link' = "closed"
    /\ UNCHANGED <<running, io, ping, queue, returned, requests, pings, slipped,
                   toServer, toClient, peer, answers>>

Join ==
    /\ \/ main = "join io" /\ io.phase = "ended" /\ main' = "join ping" /\ UNCHANGED link
       \/ main = "join ping" /\ ping = "ended" /\ main' = "stopped" /\ link' = "closed"
    /\ UNCHANGED <<running, io, ping, queue, returned, requests, pings, slipped,
                   toServer, toClient, peer, answers>>

----------------------------------------------------------------------------
(* io_thread_ *)

\* handleRead: everything that has arrived is one text.  More than one answer in it
\* is no JSON text, and all of them are dropped.
ReadAnswers ==
    /\ io.phase = "reading"
    /\ \E k \in 1..Len(toClient) :
        /\ toClient' = SubSeq(toClient, k + 1, Len(toClient))
        /\ IF k = 1
           THEN io' = [phase |-> "pushing", answer |-> Head(toClient)]
           ELSE UNCHANGED io
    /\ UNCHANGED <<main, running, ping, queue, returned, requests, pings, slipped, toServer, server>>

\* A plausible bug: an answer is queued in front of older ones.
Push_Front ==
    /\ io.phase = "pushing"
    /\ queue' = <<io.answer>> \o queue
    /\ io' = [phase |-> "reading", answer |-> NoAnswer]
    /\ UNCHANGED <<main, running, ping, returned, requests, pings, slipped, toServer, toClient, server>>

Push ==
    /\ io.phase = "pushing"
    /\ queue' = Append(queue, io.answer)
    /\ io' = [phase |-> "reading", answer |-> NoAnswer]
    /\ UNCHANGED <<main, running, ping, returned, requests, pings, slipped, toServer, toClient, server>>

\* A plausible bug: it reads again whether the client runs or not.
ReadFails_ReadsAgain ==
    /\ io.phase = "reading" /\ toClient = <<>> /\ link = "closed"
    /\ UNCHANGED vars

\* A read error; while the client runs it reads again, and fails again.
ReadFails ==
    /\ io.phase = "reading" /\ toClient = <<>> /\ link = "closed"
    /\ ~running
    /\ io' = [io EXCEPT !.phase = "ended"]
    /\ UNCHANGED <<main, running, ping, queue, returned, requests, pings, slipped, toServer, toClient, server>>

----------------------------------------------------------------------------
(* ping_thread_ *)

\* After ten seconds of sleep.  Between the look at running_ and the write the menu
\* may call stop.
Wake ==
    /\ ping = "sleeping"
    /\ IF running THEN pings < MaxPings /\ ping' = "sending" ELSE ping' = "ended"
    /\ UNCHANGED <<main, running, io, queue, returned, requests, pings, slipped, toServer, toClient, server>>

\* Nobody waits for the answer of a ping.
Ping ==
    /\ ping = "sending"
    /\ pings' = pings + 1
    /\ slipped' = TRUE
    /\ ping' = "sleeping"
    /\ Write(NoRequest)
    /\ UNCHANGED <<main, running, io, queue, returned, requests, toClient, server>>

----------------------------------------------------------------------------
(* The servers *)

Say(to) ==
    /\ answers' = answers + 1
    /\ toClient' = Append(toClient, [n |-> answers', to |-> to])

\* A server reads the first k messages; more than one is no JSON text.
Reads(k) ==
    /\ k \in 1..Len(toServer)
    /\ toServer' = SubSeq(toServer, k + 1, Len(toServer))

\* Session::read_message and process_request of the GameSocketServer: one answer,
\* whatever it reads.  It closes a session only when reading or writing fails.
ServerAnswers ==
    /\ peer = "GameSocketServer" /\ link = "open"
    /\ \E k \in 1..Len(toServer) :
        /\ Reads(k)
        /\ Say(IF k = 1 THEN Head(toServer) ELSE NoRequest)
    /\ UNCHANGED <<client, peer, link>>

\* Session::read_handshake of the MatchingServer: a client without a version is
\* refused without an answer; another one of its address has made the server say so.
ServerRefuses ==
    /\ peer = "MatchingServer" /\ link = "open" /\ toServer # <<>>
    /\ link' = "closed"
    /\ toServer' = <<>>
    /\ Say(Head(toServer)) \/ UNCHANGED <<toClient, answers>>
    /\ UNCHANGED <<client, peer>>

----------------------------------------------------------------------------

IoStep == ReadAnswers \/ Push \/ ReadFails
PingStep == Wake \/ Ping
MainStep == Receive \/ TimeOut \/ Join

Next ==
    \/ Connect \/ Send \/ Stop \/ MainStep
    \/ IoStep \/ PingStep
    \/ ServerAnswers \/ ServerRefuses

\* The client's threads go on, and so does the thread of the server's io_context.
Fairness ==
    /\ WF_vars(MainStep) /\ WF_vars(IoStep) /\ WF_vars(PingStep)
    /\ WF_vars(ServerAnswers \/ ServerRefuses)

Spec == Init /\ [][Next]_vars /\ Fairness

----------------------------------------------------------------------------
(* Properties *)

Upcoming == queue \o (IF io.phase = "pushing" THEN <<io.answer>> ELSE <<>>) \o toClient

\* The answers the menu gets are in the order the server gave them, and none comes
\* twice, whatever the threads do and whichever answers get lost.
AnswersKeepTheirOrder ==
    LET seen == <<returned>> \o Upcoming
    IN \A i, j \in DOMAIN seen : i < j => seen[i].n < seen[j].n

\* As long as no ping and no time-out came between, an answer is the answer to the
\* request.  Nothing in sendRequest looks.
AnswersMatchUntilOneSlips ==
    [][main = "waiting" /\ main' = "menu" /\ ~slipped' => returned'.to = requests]_vars

\* stop joins the thread that reads before it closes the socket, so that only the server
\* can end the read.  It does end when the server has closed the connection, which the
\* MatchingServer does: a reader that reads again after every error sees that the
\* client stopped.
StopEndsOnceClosed == main = "join io" /\ link = "closed" ~> main = "stopped"
=============================================================================
