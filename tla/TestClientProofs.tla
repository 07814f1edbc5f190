-------------------------- MODULE TestClientProofs --------------------------
(***************************************************************************)
(* Proofs about TestClient for any number of requests and pings: the three *)
(* threads hand the answers on in the order in which the server gave them, *)
(* and as long as nothing slipped in between there is one request or       *)
(* answer under way at most.                                               *)
(***************************************************************************)
EXTENDS TestClient, SequenceTheorems, TLAPS

Message == 0..MaxRequests
Reader == [phase : {"none", "reading", "pushing", "ended"}, answer : Answer]

\* The threads: who runs while the menu is where.
ThreadsInv ==
    /\ main \in {"start", "menu", "waiting", "join io", "join ping", "stopped"}
    /\ running \in BOOLEAN
    /\ io \in Reader
    /\ ping \in {"none", "sleeping", "sending", "ended"}
    /\ main = "start" => io.phase = "none" /\ ping = "none"
    /\ running => main \in {"menu", "waiting"}
    /\ main = "join ping" => io.phase = "ended"
    /\ main = "stopped" => io.phase \in {"none", "ended"} /\ ping \in {"none", "ended"}

\* What is sent, what is counted, and what is on the way.
TrafficInv ==
    /\ requests \in 0..MaxRequests /\ pings \in 0..MaxPings
    /\ ping = "sending" => pings < MaxPings
    /\ slipped \in BOOLEAN
    /\ toServer \in Seq(Message)
    /\ queue \in Seq(Answer) /\ toClient \in Seq(Answer) /\ returned \in Answer
    /\ peer \in Servers /\ link \in {"open", "closed"} /\ answers \in Nat

----------------------------------------------------------------------------
(* Sequences of answers and messages *)

\* What is left when the first k elements are read.
LEMMA RestFacts ==
    ASSUME NEW S, NEW s \in Seq(S), NEW k \in 1..Len(s)
    PROVE  LET rest == SubSeq(s, k + 1, Len(s))
           IN  /\ rest \in Seq(S) /\ Len(s) \in Nat /\ Len(rest) = Len(s) - k
               /\ \A i \in 1..Len(rest) : rest[i] = s[k + i]
               /\ Head(s) = s[1] /\ Head(s) \in S
<1>1. Len(s) \in Nat /\ k \in Nat /\ s # <<>>
  BY LenProperties
<1>2. \A i \in k + 1..Len(s) : s[i] \in S
  BY <1>1, ElementOfSeq
<1>3. /\ SubSeq(s, k + 1, Len(s)) \in Seq(S)
      /\ Len(SubSeq(s, k + 1, Len(s))) = IF k + 1 <= Len(s) THEN Len(s) - (k + 1) + 1 ELSE 0
      /\ \A i \in 1..Len(s) - (k + 1) + 1 : SubSeq(s, k + 1, Len(s))[i] = s[k + 1 + i - 1]
  BY <1>1, <1>2, SubSeqProperties
<1>4. Head(s) \in S /\ Head(s) = s[1]
  BY <1>1, HeadTailProperties
<1> QED
  BY <1>1, <1>3, <1>4

LEMMA NoAnswerIsOne == NoAnswer \in Answer /\ NoAnswer.n = 0
BY TestClientAssumption DEF NoAnswer, Answer, NoRequest

LEMMA Bounds == MaxRequests \in Nat /\ MaxPings \in Nat
BY TestClientAssumption

LEMMA InitInv == Init => ThreadsInv /\ TrafficInv
<1> SUFFICES ASSUME Init PROVE ThreadsInv /\ TrafficInv
  OBVIOUS
<1>1. ThreadsInv
  BY NoAnswerIsOne DEF Init, ThreadsInv, Reader
<1>2. queue \in Seq(Answer) /\ toClient \in Seq(Answer) /\ toServer \in Seq(Message)
  BY EmptySeq DEF Init
<1>3. returned \in Answer
  BY NoAnswerIsOne DEF Init
<1>4. requests \in 0..MaxRequests /\ pings \in 0..MaxPings
  BY Bounds DEF Init
<1>5. TrafficInv
  BY <1>2, <1>3, <1>4 DEF Init, TrafficInv
<1> QED
  BY <1>1, <1>5

LEMMA SameThreads ==
    ASSUME ThreadsInv, UNCHANGED <<main, running, io, ping>>
    PROVE  ThreadsInv'
BY DEF ThreadsInv

LEMMA NextKeepsThreads ==
    ASSUME ThreadsInv, TrafficInv, [Next]_vars
    PROVE  ThreadsInv'
<1>1. CASE UNCHANGED <<main, running, io, ping>>
  BY <1>1, SameThreads
<1> USE DEF ThreadsInv, Reader
<1>2. CASE Connect
  <2>1. main = "start" /\ io.phase = "none" /\ ping = "none"
    BY <1>2 DEF Connect
  <2>2. CASE main' = "stopped" /\ UNCHANGED <<running, io, ping>>
    <3>1. running = FALSE
      BY <2>1
    <3> QED
      BY <2>1, <2>2, <3>1
  <2>3. CASE /\ main' = "menu" /\ running' = TRUE /\ ping' = "sleeping"
             /\ io' = [io EXCEPT !.phase = "reading"]
    <3>1. io' \in Reader /\ io'.phase = "reading"
      BY <2>3
    <3> QED
      BY <2>3, <3>1
  <2> QED
    BY <1>2, <2>2, <2>3 DEF Connect
<1>3. CASE Send
  BY <1>3 DEF Send
<1>4. CASE Stop
  BY <1>4 DEF Stop
<1>5. CASE Receive \/ TimeOut
  BY <1>5 DEF Receive, TimeOut
<1>6. CASE Join
  BY <1>6 DEF Join
<1>7. CASE ReadAnswers
  <2>1. ASSUME NEW k \in 1..Len(toClient), io' = [phase |-> "pushing", answer |-> Head(toClient)],
               io.phase = "reading", UNCHANGED <<main, running, ping>>
        PROVE  ThreadsInv'
    <3>1. Head(toClient) \in Answer
      BY RestFacts DEF TrafficInv
    <3> QED
      BY <2>1, <3>1
  <2> QED
    BY <1>1, <1>7, <2>1 DEF ReadAnswers
<1>8. CASE Push
  <2>1. io' \in Reader /\ io'.phase = "reading"
    BY <1>8, NoAnswerIsOne DEF Push
  <2> QED
    BY <1>8, <2>1 DEF Push
<1>9. CASE ReadFails
  BY <1>9 DEF ReadFails
<1>10. CASE PingStep
  <2>1. /\ ping \in {"sleeping", "sending"} /\ ping' \in {"sleeping", "sending", "ended"}
        /\ UNCHANGED <<main, running, io>>
    BY <1>10 DEF PingStep, Wake, Ping
  <2> QED
    BY <2>1
<1>11. CASE ServerAnswers \/ ServerRefuses \/ UNCHANGED vars
  <2>1. UNCHANGED client
    BY <1>11 DEF ServerAnswers, ServerRefuses, vars
  <2> QED
    BY <1>1, <2>1 DEF client
<1> HIDE DEF ThreadsInv, Reader
<1>12. \/ Connect \/ Send \/ Stop \/ Receive \/ TimeOut \/ Join
       \/ ReadAnswers \/ Push \/ ReadFails \/ PingStep
       \/ ServerAnswers \/ ServerRefuses \/ UNCHANGED vars
  BY DEF Next, MainStep, IoStep
<1> QED
  BY <1>2, <1>3, <1>4, <1>5, <1>6, <1>7, <1>8, <1>9, <1>10, <1>11, <1>12

----------------------------------------------------------------------------
(* What the steps do to the sequences *)

LEMMA AppendFacts ==
    ASSUME NEW S, NEW s \in Seq(S), NEW e \in S, NEW t, t = Append(s, e)
    PROVE  /\ t \in Seq(S) /\ Len(s) \in Nat /\ Len(t) = Len(s) + 1
           /\ \A i \in 1..Len(s) : t[i] = s[i]
           /\ t[Len(t)] = e
BY AppendProperties, LenProperties

LEMMA SayFacts ==
    ASSUME TrafficInv, NEW to \in 0..MaxRequests, Say(to)
    PROVE  /\ answers' = answers + 1 /\ answers' \in Nat
           /\ toClient' \in Seq(Answer) /\ Len(toClient') = Len(toClient) + 1
           /\ \A i \in 1..Len(toClient) : toClient'[i] = toClient[i]
           /\ toClient'[Len(toClient')] = [n |-> answers + 1, to |-> to]
<1>1. answers' = answers + 1 /\ answers' \in Nat
  BY DEF Say, TrafficInv
<1>2. [n |-> answers + 1, to |-> to] \in Answer
  BY <1>1 DEF Answer
<1>3. toClient' = Append(toClient, [n |-> answers + 1, to |-> to])
  BY <1>1 DEF Say
<1> QED
  BY <1>1, <1>2, <1>3, AppendFacts DEF TrafficInv

LEMMA WriteFacts ==
    ASSUME TrafficInv, NEW id \in 0..MaxRequests, Write(id)
    PROVE  /\ toServer' \in Seq(Message) /\ Len(toServer) \in Nat
           /\ \/ toServer' = toServer
              \/ /\ Len(toServer') = Len(toServer) + 1
                 /\ \A i \in 1..Len(toServer) : toServer'[i] = toServer[i]
                 /\ toServer'[Len(toServer')] = id
<1>1. id \in Message
  BY DEF Message
<1>2. toServer \in Seq(Message) /\ Len(toServer) \in Nat
  BY LenProperties DEF TrafficInv
<1>3. CASE toServer' = Append(toServer, id)
  BY <1>1, <1>2, <1>3, AppendFacts
<1> QED
  BY <1>2, <1>3 DEF Write

\* handleRead takes k answers, and hands the first on if it is the only one.
LEMMA ReadFacts ==
    ASSUME TrafficInv, ThreadsInv, ReadAnswers
    PROVE  \E k \in 1..Len(toClient) :
              /\ toClient' \in Seq(Answer) /\ Len(toClient') = Len(toClient) - k
              /\ Len(toClient) \in Nat
              /\ \A i \in 1..Len(toClient') : toClient'[i] = toClient[k + i]
              /\ toClient[1] \in Answer
              /\ io.phase = "reading"
              /\ \/ k = 1 /\ io' = [phase |-> "pushing", answer |-> toClient[1]]
                 \/ k # 1 /\ io' = io
              /\ UNCHANGED <<main, running, ping, queue, returned, requests, pings, slipped,
                             toServer, peer, link, answers>>
<1>1. PICK k \in 1..Len(toClient) :
         /\ toClient' = SubSeq(toClient, k + 1, Len(toClient))
         /\ IF k = 1
            THEN io' = [phase |-> "pushing", answer |-> Head(toClient)]
            ELSE UNCHANGED io
  BY DEF ReadAnswers
<1>2. toClient \in Seq(Answer)
  BY DEF TrafficInv
<1>3. /\ toClient' \in Seq(Answer) /\ Len(toClient) \in Nat
      /\ Len(toClient') = Len(toClient) - k
      /\ \A i \in 1..Len(toClient') : toClient'[i] = toClient[k + i]
      /\ Head(toClient) = toClient[1] /\ Head(toClient) \in Answer
  BY <1>1, <1>2, RestFacts
<1>4. io.phase = "reading" /\ UNCHANGED <<main, running, ping, queue, returned, requests,
                                  pings, slipped, toServer, peer, link, answers>>
  BY DEF ReadAnswers, server
<1> QED
  BY <1>1, <1>3, <1>4

\* The menu takes the oldest answer of the queue.
LEMMA ReceiveFacts ==
    ASSUME TrafficInv, Receive
    PROVE  /\ queue' \in Seq(Answer) /\ Len(queue) \in Nat \ {0} /\ Len(queue') = Len(queue) - 1
           /\ \A i \in 1..Len(queue') : queue'[i] = queue[i + 1]
           /\ returned' = queue[1] /\ returned' \in Answer
           /\ main = "waiting" /\ main' = "menu"
           /\ UNCHANGED <<running, io, ping, requests, pings, slipped,
                          toServer, toClient, peer, link, answers>>
<1>1. queue \in Seq(Answer) /\ queue # <<>>
  BY DEF TrafficInv, Receive
<1>2. Len(queue) \in Nat \ {0}
  BY <1>1, EmptySeq
<1>3. /\ Head(queue) \in Answer /\ Head(queue) = queue[1]
      /\ Tail(queue) \in Seq(Answer) /\ Len(Tail(queue)) = Len(queue) - 1
      /\ \A i \in 1..Len(Tail(queue)) : Tail(queue)[i] = queue[i + 1]
  BY <1>1, HeadTailProperties
<1> QED
  BY <1>2, <1>3 DEF Receive, server

LEMMA PushFacts ==
    ASSUME TrafficInv, ThreadsInv, Push
    PROVE  /\ queue' \in Seq(Answer) /\ Len(queue) \in Nat /\ Len(queue') = Len(queue) + 1
           /\ \A i \in 1..Len(queue) : queue'[i] = queue[i]
           /\ queue'[Len(queue')] = io.answer /\ io.answer \in Answer
           /\ io.phase = "pushing" /\ io'.phase = "reading"
           /\ UNCHANGED <<main, running, ping, returned, requests, pings, slipped,
                          toServer, toClient, peer, link, answers>>
<1>1. io.answer \in Answer
  BY DEF ThreadsInv, Reader
<1> QED
  BY <1>1, AppendFacts DEF TrafficInv, Push, server

\* The server answers k requests with one answer, to the first if it is the only one.
LEMMA ServerAnswersFacts ==
    ASSUME TrafficInv, ServerAnswers
    PROVE  \E k \in 1..Len(toServer), to \in 0..MaxRequests :
              /\ Say(to) /\ (k = 1 => to = toServer[1])
              /\ toServer' \in Seq(Message) /\ Len(toServer') = Len(toServer) - k
              /\ Len(toServer) \in Nat
              /\ \A i \in 1..Len(toServer') : toServer'[i] = toServer[k + i]
              /\ UNCHANGED <<client, peer, link>>
<1>1. PICK k \in 1..Len(toServer) :
         /\ toServer' = SubSeq(toServer, k + 1, Len(toServer))
         /\ Say(IF k = 1 THEN Head(toServer) ELSE NoRequest)
  BY DEF ServerAnswers, Reads
<1>2. toServer \in Seq(Message)
  BY DEF TrafficInv
<1>3. /\ toServer' \in Seq(Message) /\ Len(toServer) \in Nat
      /\ Len(toServer') = Len(toServer) - k
      /\ \A i \in 1..Len(toServer') : toServer'[i] = toServer[k + i]
      /\ Head(toServer) = toServer[1] /\ Head(toServer) \in Message
  BY <1>1, <1>2, RestFacts
<1>4. PICK to : to = IF k = 1 THEN Head(toServer) ELSE NoRequest
  OBVIOUS
<1>5. to \in 0..MaxRequests /\ (k = 1 => to = toServer[1])
  BY <1>3, <1>4, Bounds DEF Message, NoRequest
<1>6. Say(to)
  BY <1>1, <1>4
<1>7. UNCHANGED <<client, peer, link>>
  BY DEF ServerAnswers
<1> QED
  BY <1>3, <1>5, <1>6, <1>7

\* Before it closes, the server may answer the first message.
LEMMA ServerRefusesFacts ==
    ASSUME TrafficInv, ServerRefuses
    PROVE  /\ link' = "closed" /\ toServer' = <<>> /\ toServer' \in Seq(Message)
           /\ toServer[1] \in 0..MaxRequests /\ Len(toServer) \in Nat \ {0}
           /\ Say(toServer[1]) \/ UNCHANGED <<toClient, answers>>
           /\ UNCHANGED <<client, peer>>
<1>1. toServer \in Seq(Message) /\ toServer # <<>>
  BY DEF TrafficInv, ServerRefuses
<1>2. Head(toServer) = toServer[1] /\ toServer[1] \in Message /\ Len(toServer) \in Nat \ {0}
  BY <1>1, EmptySeq, HeadTailProperties
<1>3. toServer' = <<>> /\ toServer' \in Seq(Message)
  BY EmptySeq DEF ServerRefuses
<1> QED
  BY <1>2, <1>3 DEF ServerRefuses, Message

----------------------------------------------------------------------------
(* The order of the answers *)

Rising(s) == \A i, j \in 1..Len(s) : i < j => s[i].n < s[j].n
Above(s, x) == \A i \in 1..Len(s) : x < s[i].n
Below(s, x) == \A i \in 1..Len(s) : s[i].n < x
Precedes(s, u) == \A i \in 1..Len(s), j \in 1..Len(u) : s[i].n < u[j].n

\* Every answer on its way is younger than those before it, and the server's next
\* one is younger than all of them.
OrderInv ==
    /\ returned.n < answers + 1
    /\ Rising(queue) /\ Above(queue, returned.n) /\ Below(queue, answers + 1)
    /\ Rising(toClient) /\ Above(toClient, returned.n) /\ Below(toClient, answers + 1)
    /\ Precedes(queue, toClient)
    /\ io.phase = "pushing" =>
          /\ returned.n < io.answer.n /\ io.answer.n < answers + 1
          /\ Below(queue, io.answer.n) /\ Above(toClient, io.answer.n)

\* What is left when the first k are taken.
LEMMA RestIsOrdered ==
    ASSUME NEW s \in Seq(Answer), NEW t \in Seq(Answer), NEW k \in 1..Len(s),
           Len(t) = Len(s) - k, \A i \in 1..Len(t) : t[i] = s[k + i]
    PROVE  /\ Rising(s) => Rising(t) /\ Above(t, s[1].n)
           /\ \A x : Above(s, x) => Above(t, x) /\ x < s[1].n
           /\ \A x : Below(s, x) => Below(t, x) /\ s[1].n < x
           /\ \A u : Precedes(s, u) => Precedes(t, u) /\ Above(u, s[1].n)
           /\ \A u : Precedes(u, s) => Precedes(u, t) /\ Below(u, s[1].n)
<1>1. Len(s) \in Nat /\ Len(t) \in Nat /\ k \in Nat
  BY LenProperties
<1>2. \A i \in 1..Len(t) : k + i \in 1..Len(s) /\ 1 < k + i /\ t[i] = s[k + i]
  BY <1>1
<1>3. 1 \in 1..Len(s)
  BY <1>1
<1>4. \A i, j \in 1..Len(t) : i < j => k + i < k + j
  BY <1>1
<1>5. Rising(s) => Rising(t) /\ Above(t, s[1].n)
  BY <1>2, <1>3, <1>4 DEF Rising, Above
<1>6. \A x : (Above(s, x) => Above(t, x) /\ x < s[1].n) /\ (Below(s, x) => Below(t, x) /\ s[1].n < x)
  BY <1>2, <1>3 DEF Above, Below
<1>7. \A u : Precedes(s, u) => Precedes(t, u) /\ Above(u, s[1].n)
  BY <1>2, <1>3 DEF Precedes, Above
<1>8. \A u : Precedes(u, s) => Precedes(u, t) /\ Below(u, s[1].n)
  BY <1>2, <1>3 DEF Precedes, Below
<1> QED
  BY <1>5, <1>6, <1>7, <1>8

\* What there is when e is put behind them.
LEMMA AdditionIsOrdered ==
    ASSUME NEW s \in Seq(Answer), NEW t \in Seq(Answer),
           Len(t) = Len(s) + 1, \A i \in 1..Len(s) : t[i] = s[i], NEW e, t[Len(t)] = e
    PROVE  /\ Rising(s) /\ Below(s, e.n) => Rising(t)
           /\ \A x : Above(s, x) /\ x < e.n => Above(t, x)
           /\ \A x : Below(s, x) /\ e.n < x => Below(t, x)
           /\ \A u : Precedes(s, u) /\ Above(u, e.n) => Precedes(t, u)
           /\ \A u : Precedes(u, s) /\ Below(u, e.n) => Precedes(u, t)
<1>1. Len(s) \in Nat /\ Len(t) \in Nat
  BY LenProperties
<1>2. \A i \in 1..Len(t) : (i \in 1..Len(s) /\ t[i] = s[i]) \/ (i = Len(t) /\ t[i] = e)
  BY <1>1
<1>3. ASSUME Rising(s), Below(s, e.n) PROVE Rising(t)
  <2> SUFFICES ASSUME NEW i \in 1..Len(t), NEW j \in 1..Len(t), i < j PROVE t[i].n < t[j].n
    BY DEF Rising
  <2>1. i \in 1..Len(s) /\ t[i] = s[i]
    BY <1>1, <1>2
  <2> QED
    BY <1>2, <1>3, <2>1 DEF Rising, Below
<1>4. \A x : (Above(s, x) /\ x < e.n => Above(t, x)) /\ (Below(s, x) /\ e.n < x => Below(t, x))
  BY <1>2 DEF Above, Below
<1>5. \A u : Precedes(s, u) /\ Above(u, e.n) => Precedes(t, u)
  BY <1>2 DEF Precedes, Above
<1>6. \A u : Precedes(u, s) /\ Below(u, e.n) => Precedes(u, t)
  BY <1>2 DEF Precedes, Below
<1> QED
  BY <1>3, <1>4, <1>5, <1>6

\* As long as nothing slipped in, there is one request or answer under way while the
\* menu waits, that of this request, and none while it does not.
OneUnderWay ==
    ~slipped =>
        /\ Len(toServer) + Len(toClient) + Len(queue) + (IF io.phase = "pushing" THEN 1 ELSE 0)
              <= IF main = "waiting" THEN 1 ELSE 0
        /\ \A i \in 1..Len(toServer) : toServer[i] = requests
        /\ \A i \in 1..Len(toClient) : toClient[i].to = requests
        /\ \A i \in 1..Len(queue) : queue[i].to = requests
        /\ io.phase = "pushing" => io.answer.to = requests
DataInv == TrafficInv /\ OrderInv /\ OneUnderWay

\* Answers and their numbers, to be compared.
LEMMA AnswerTypes ==
    ASSUME TrafficInv, ThreadsInv
    PROVE  /\ Len(queue) \in Nat /\ Len(toClient) \in Nat /\ Len(toServer) \in Nat
           /\ answers \in Nat /\ returned.n \in Nat /\ io.answer.n \in Nat
           /\ \A i \in 1..Len(queue) : queue[i] \in Answer /\ queue[i].n \in Nat
           /\ \A i \in 1..Len(toClient) : toClient[i] \in Answer /\ toClient[i].n \in Nat
<1>1. queue \in Seq(Answer) /\ toClient \in Seq(Answer) /\ toServer \in Seq(Message)
  BY DEF TrafficInv
<1>2. /\ Len(queue) \in Nat /\ Len(toClient) \in Nat /\ Len(toServer) \in Nat
      /\ \A i \in 1..Len(queue) : queue[i] \in Answer
      /\ \A i \in 1..Len(toClient) : toClient[i] \in Answer
  BY <1>1, LenProperties, ElementOfSeq
<1>3. \A a \in Answer : a.n \in Nat
  BY DEF Answer
<1>4. returned \in Answer /\ io.answer \in Answer /\ answers \in Nat
  BY DEF TrafficInv, ThreadsInv, Reader
<1> QED
  BY <1>2, <1>3, <1>4

LEMMA InitData == Init => DataInv
<1> SUFFICES ASSUME Init PROVE DataInv
  OBVIOUS
<1>1. TrafficInv
  BY InitInv
<1>2. Len(queue) = 0 /\ Len(toClient) = 0 /\ Len(toServer) = 0 /\ io.phase = "none"
  BY DEF Init
<1>3. OrderInv
  BY <1>2, NoAnswerIsOne DEF Init, OrderInv, Rising, Above, Below, Precedes
<1>4. OneUnderWay
  BY <1>2 DEF Init, OneUnderWay
<1> QED
  BY <1>1, <1>3, <1>4 DEF DataInv

LEMMA ReceiveKeepsData == ASSUME DataInv, ThreadsInv, Receive PROVE DataInv'
<1> USE DEF DataInv
<1>1. TrafficInv'
  BY ReceiveFacts DEF TrafficInv
<1>0. queue \in Seq(Answer) /\ queue' \in Seq(Answer)
  BY ReceiveFacts DEF TrafficInv
<1>2. /\ Len(queue) \in Nat \ {0} /\ Len(queue') = Len(queue) - 1
      /\ \A i \in 1..Len(queue') : queue'[i] = queue[i + 1]
      /\ returned' = queue[1]
      /\ main = "waiting" /\ main' = "menu"
      /\ UNCHANGED <<io, requests, slipped, toServer, toClient, answers>>
  BY ReceiveFacts
<1>3. OrderInv'
  <2>1. PICK k \in 1..Len(queue) : k = 1
    BY <1>2
  <2>3. Len(queue') = Len(queue) - k /\ \A i \in 1..Len(queue') : queue'[i] = queue[k + i]
    <3>1. \A i \in 1..Len(queue') : i + 1 = k + i
      BY <1>2, <2>1
    <3> QED
      BY <1>2, <2>1, <3>1
  <2>4. PICK q \in Seq(Answer) : q = queue'
    BY <1>0
  <2>5. Len(q) = Len(queue) - k /\ \A i \in 1..Len(q) : q[i] = queue[k + i]
    BY <2>3, <2>4
  <2>6. Rising(queue) => Rising(q) /\ Above(q, queue[1].n)
    BY <1>0, <2>5, RestIsOrdered
  <2>7. \A x : Below(queue, x) => Below(q, x) /\ queue[1].n < x
    BY <1>0, <2>5, RestIsOrdered
  <2>8. Precedes(queue, toClient) => Precedes(q, toClient) /\ Above(toClient, queue[1].n)
    <3>1. \A i \in 1..Len(q) : k + i \in 1..Len(queue)
      BY <1>2, <2>1, <2>5
    <3>2. 1 \in 1..Len(queue)
      BY <1>2
    <3> QED
      BY <2>5, <3>1, <3>2 DEF Precedes, Above
  <2> QED
    BY <1>2, <2>4, <2>6, <2>7, <2>8 DEF OrderInv
<1>4. OneUnderWay'
  BY <1>2, AnswerTypes DEF OneUnderWay
<1> QED
  BY <1>1, <1>3, <1>4

LEMMA PushKeepsData == ASSUME DataInv, ThreadsInv, Push PROVE DataInv'
<1> USE DEF DataInv
<1>1. TrafficInv'
  BY PushFacts DEF TrafficInv
<1>2. /\ Len(queue) \in Nat /\ Len(queue') = Len(queue) + 1
      /\ \A i \in 1..Len(queue) : queue'[i] = queue[i]
      /\ queue'[Len(queue')] = io.answer
      /\ io.phase = "pushing" /\ io'.phase = "reading"
      /\ UNCHANGED <<main, returned, requests, slipped, toServer, toClient, answers>>
  BY PushFacts
<1>3. \A i \in 1..Len(queue') : i \in 1..Len(queue) \/ i = Len(queue')
  BY <1>2
<1>4. OrderInv'
  <2>1. queue \in Seq(Answer) /\ queue' \in Seq(Answer)
    BY PushFacts DEF TrafficInv
  <2>2. /\ Rising(queue) /\ Below(queue, io.answer.n) => Rising(queue')
        /\ \A x : Above(queue, x) /\ x < io.answer.n => Above(queue', x)
        /\ \A x : Below(queue, x) /\ io.answer.n < x => Below(queue', x)
        /\ \A u : Precedes(queue, u) /\ Above(u, io.answer.n) => Precedes(queue', u)
    BY <1>2, <2>1, AdditionIsOrdered
  <2> QED
    BY <1>2, <2>2 DEF OrderInv
<1>5. OneUnderWay'
  BY <1>2, <1>3, AnswerTypes DEF OneUnderWay
<1> QED
  BY <1>1, <1>4, <1>5

LEMMA ReadKeepsData == ASSUME DataInv, ThreadsInv, ReadAnswers PROVE DataInv'
<1> USE DEF DataInv
<1>1. TrafficInv'
  BY ReadFacts DEF TrafficInv
<1>2. PICK k \in 1..Len(toClient) :
         /\ Len(toClient') = Len(toClient) - k /\ Len(toClient) \in Nat
         /\ \A i \in 1..Len(toClient') : toClient'[i] = toClient[k + i]
         /\ io.phase = "reading"
         /\ \/ k = 1 /\ io' = [phase |-> "pushing", answer |-> toClient[1]]
            \/ k # 1 /\ io' = io
         /\ UNCHANGED <<main, queue, returned, requests, slipped, toServer, answers>>
  BY ReadFacts
<1>0. toClient \in Seq(Answer) /\ toClient' \in Seq(Answer)
  BY ReadFacts DEF TrafficInv
<1>5. /\ Rising(toClient) => Rising(toClient') /\ Above(toClient', toClient[1].n)
      /\ \A x : Above(toClient, x) => Above(toClient', x) /\ x < toClient[1].n
      /\ \A x : Below(toClient, x) => Below(toClient', x) /\ toClient[1].n < x
      /\ \A u : Precedes(u, toClient) => Precedes(u, toClient') /\ Below(u, toClient[1].n)
  BY <1>0, <1>2, RestIsOrdered
<1>3. CASE k = 1 /\ io' = [phase |-> "pushing", answer |-> toClient[1]]
  <2>1. io'.phase = "pushing" /\ io'.answer = toClient[1]
    BY <1>3
  <2>2. OrderInv'
    BY <1>2, <1>5, <2>1 DEF OrderInv
  <2>3. OneUnderWay'
    BY <1>2, <1>3, <2>1, AnswerTypes DEF OneUnderWay
  <2> QED
    BY <1>1, <2>2, <2>3
<1>4. CASE io' = io
  <2>1. OrderInv'
    BY <1>2, <1>4, <1>5 DEF OrderInv
  <2>2. OneUnderWay'
    BY <1>2, <1>4, AnswerTypes DEF OneUnderWay
  <2> QED
    BY <1>1, <2>1, <2>2
<1> QED
  BY <1>2, <1>3, <1>4

\* The server's next answer, after requests were read or on its own.
LEMMA SayKeepsOrder ==
    ASSUME TrafficInv, OrderInv, ThreadsInv,
           NEW to \in 0..MaxRequests, Say(to),
           UNCHANGED <<io, queue, returned>>
    PROVE  OrderInv'
<1> DEFINE e == [n |-> answers + 1, to |-> to]
<1>1. /\ answers' = answers + 1
      /\ toClient \in Seq(Answer) /\ toClient' \in Seq(Answer)
      /\ Len(toClient') = Len(toClient) + 1
      /\ \A i \in 1..Len(toClient) : toClient'[i] = toClient[i]
      /\ toClient'[Len(toClient')] = e
  BY SayFacts DEF TrafficInv
<1>2. e.n = answers + 1 /\ answers + 1 < answers + 2
  BY AnswerTypes
<1> HIDE DEF e
<1>3. /\ Rising(toClient) /\ Below(toClient, answers + 1) => Rising(toClient')
      /\ \A x : Above(toClient, x) /\ x < answers + 1 => Above(toClient', x)
      /\ \A x : Below(toClient, x) /\ answers + 1 < x => Below(toClient', x)
      /\ \A u : Precedes(u, toClient) /\ Below(u, answers + 1) => Precedes(u, toClient')
  BY <1>1, <1>2, AdditionIsOrdered
<1>4. Below(queue, answers + 2) /\ Below(toClient, answers + 2)
  BY AnswerTypes DEF OrderInv, Below
<1> QED
  BY <1>1, <1>2, <1>3, <1>4, AnswerTypes DEF OrderInv

\* The server's answer to the one request there is, all of them read.
LEMMA SayKeepsOneUnderWay ==
    ASSUME DataInv, ThreadsInv, NEW k \in 1..Len(toServer), NEW to \in 0..MaxRequests,
           Say(to), k = 1 => to = toServer[1], Len(toServer') = Len(toServer) - k,
           UNCHANGED client
    PROVE  OneUnderWay'
<1> USE DEF DataInv
<1>1. UNCHANGED <<main, io, queue, requests, slipped>>
  BY DEF client
<1> SUFFICES ASSUME ~slipped PROVE OneUnderWay'
  BY <1>1 DEF OneUnderWay
<1>2. /\ Len(toServer) = 1 /\ Len(toClient) = 0 /\ Len(queue) = 0 /\ io.phase # "pushing"
      /\ main = "waiting"
  BY AnswerTypes DEF OneUnderWay
<1>3. k = 1 /\ to = requests
  BY <1>2 DEF OneUnderWay
<1>4. /\ Len(toClient') = Len(toClient) + 1
      /\ toClient'[Len(toClient')] = [n |-> answers + 1, to |-> to]
  BY SayFacts
<1>5. Len(toServer') = 0 /\ Len(toClient') = 1 /\ toClient'[1].to = requests
  BY <1>2, <1>3, <1>4
<1> QED
  BY <1>1, <1>2, <1>5 DEF OneUnderWay

LEMMA ServerAnswersKeepsData == ASSUME DataInv, ThreadsInv, ServerAnswers PROVE DataInv'
<1> USE DEF DataInv
<1>1. PICK k \in 1..Len(toServer), to \in 0..MaxRequests :
         /\ Say(to) /\ (k = 1 => to = toServer[1])
         /\ toServer' \in Seq(Message) /\ Len(toServer') = Len(toServer) - k
         /\ UNCHANGED <<client, peer, link>>
  BY ServerAnswersFacts
<1>2. answers' \in Nat /\ toClient' \in Seq(Answer)
  BY <1>1, SayFacts
<1>3. UNCHANGED <<main, io, ping, queue, returned, requests, pings, slipped, peer, link>>
  BY <1>1 DEF client
<1>4. TrafficInv'
  BY <1>1, <1>2, <1>3 DEF TrafficInv
<1>5. OrderInv'
  BY <1>1, <1>3, SayKeepsOrder
<1>6. OneUnderWay'
  BY <1>1, SayKeepsOneUnderWay
<1> QED
  BY <1>4, <1>5, <1>6

LEMMA ServerRefusesKeepsData == ASSUME DataInv, ThreadsInv, ServerRefuses PROVE DataInv'
<1> USE DEF DataInv
<1>1. /\ link' = "closed" /\ Len(toServer') = 0 /\ toServer' \in Seq(Message)
      /\ toServer[1] \in 0..MaxRequests /\ Len(toServer) \in Nat \ {0}
      /\ Say(toServer[1]) \/ UNCHANGED <<toClient, answers>>
      /\ UNCHANGED <<main, io, ping, queue, returned, requests, pings, slipped, peer>>
      /\ UNCHANGED client
  BY ServerRefusesFacts DEF client
<1>2. CASE UNCHANGED <<toClient, answers>>
  <2>1. TrafficInv'
    BY <1>1, <1>2 DEF TrafficInv
  <2>2. OrderInv'
    BY <1>1, <1>2 DEF OrderInv
  <2>3. OneUnderWay'
    BY <1>1, <1>2, AnswerTypes DEF OneUnderWay
  <2> QED
    BY <2>1, <2>2, <2>3
<1>3. CASE Say(toServer[1])
  <2>1. PICK to \in 0..MaxRequests : to = toServer[1]
    BY <1>1
  <2>2. Say(to)
    BY <1>3, <2>1
  <2>3. answers' \in Nat /\ toClient' \in Seq(Answer)
    BY <2>2, SayFacts
  <2>4. TrafficInv'
    BY <1>1, <2>3 DEF TrafficInv
  <2>5. OrderInv'
    BY <1>1, <2>2, SayKeepsOrder
  <2>6. OneUnderWay'
    <3>1. PICK k \in 1..Len(toServer) : k = Len(toServer)
      BY <1>1
    <3>2. Len(toServer') = Len(toServer) - k
      BY <1>1, <3>1
    <3> QED
      BY <1>1, <2>1, <2>2, <3>2, SayKeepsOneUnderWay
  <2> QED
    BY <2>4, <2>5, <2>6
<1> QED
  BY <1>1, <1>2, <1>3

LEMMA SendKeepsData ==
    ASSUME DataInv, ThreadsInv, Send
    PROVE  DataInv'
<1> USE DEF DataInv
<1>1. /\ main = "menu" /\ requests' = requests + 1 /\ requests < MaxRequests
      /\ (main' = "waiting" /\ Write(requests')) \/ UNCHANGED <<main, toServer>>
      /\ UNCHANGED <<io, ping, queue, returned, pings, slipped, toClient,
                     peer, link, answers>>
  BY DEF Send, server
<1>2. PICK r \in 0..MaxRequests : r = requests'
  BY <1>1, Bounds DEF TrafficInv
<1>3. /\ toServer' \in Seq(Message) /\ Len(toServer) \in Nat
      /\ \/ toServer' = toServer
         \/ /\ Len(toServer') = Len(toServer) + 1 /\ main' = "waiting"
            /\ \A i \in 1..Len(toServer) : toServer'[i] = toServer[i]
            /\ toServer'[Len(toServer')] = requests'
  <2>1. CASE UNCHANGED <<main, toServer>>
    BY <2>1, AnswerTypes DEF TrafficInv
  <2>2. CASE main' = "waiting" /\ Write(r)
    BY <1>2, <2>2, WriteFacts
  <2> QED
    BY <1>1, <1>2, <2>1, <2>2
<1>4. TrafficInv'
  BY <1>1, <1>2, <1>3 DEF TrafficInv
<1>5. OrderInv'
  BY <1>1 DEF OrderInv
<1>6. OneUnderWay'
  <2> SUFFICES ASSUME ~slipped PROVE OneUnderWay'
    BY <1>1 DEF OneUnderWay
  <2>1. Len(toServer) = 0 /\ Len(toClient) = 0 /\ Len(queue) = 0 /\ io.phase # "pushing"
    BY <1>1, AnswerTypes DEF OneUnderWay
  <2>2. \/ Len(toServer') = 0
        \/ main' = "waiting" /\ Len(toServer') = 1 /\ toServer'[1] = requests'
    BY <1>3, <2>1
  <2>3. /\ Len(toClient') = 0 /\ Len(queue') = 0 /\ io'.phase # "pushing"
        /\ Len(toServer') = 0 \/ (main' = "waiting" /\ Len(toServer') = 1)
    BY <1>1, <2>1, <2>2
  <2>4. \A i \in 1..Len(toServer') : toServer'[i] = requests'
    BY <2>2
  <2> QED
    BY <2>3, <2>4 DEF OneUnderWay
<1> QED
  BY <1>4, <1>5, <1>6

LEMMA PingKeepsData == ASSUME DataInv, ThreadsInv, Ping PROVE DataInv'
<1> USE DEF DataInv
<1>1. /\ ping = "sending" /\ pings' = pings + 1 /\ slipped' = TRUE /\ ping' = "sleeping"
      /\ Write(NoRequest)
      /\ UNCHANGED <<main, io, queue, returned, requests, toClient,
                     peer, link, answers>>
  BY DEF Ping, server
<1>2. NoRequest \in 0..MaxRequests
  BY Bounds DEF NoRequest
<1>3. toServer' \in Seq(Message)
  BY <1>1, <1>2, WriteFacts
<1>4. pings' \in 0..MaxPings
  BY <1>1, Bounds DEF TrafficInv
<1>5. TrafficInv'
  BY <1>1, <1>3, <1>4 DEF TrafficInv
<1>6. OrderInv'
  BY <1>1 DEF OrderInv
<1>7. OneUnderWay'
  BY <1>1 DEF OneUnderWay
<1> QED
  BY <1>5, <1>6, <1>7

\* The steps that leave the answers where they are.
LEMMA QuietStepsKeepData ==
    ASSUME DataInv, ThreadsInv,
           Connect \/ TimeOut \/ Stop \/ Join \/ ReadFails \/ Wake \/ UNCHANGED vars
    PROVE  DataInv'
<1> USE DEF DataInv
<1>1. /\ UNCHANGED <<queue, returned, requests, pings, toServer, toClient,
                     peer, answers>>
      /\ link' \in {link, "closed"}
      /\ io'.phase = "pushing" <=> io.phase = "pushing"
      /\ io.phase = "pushing" => io' = io
      /\ slipped' \in BOOLEAN /\ (slipped => slipped')
      /\ ping' = "sending" => pings < MaxPings
  <2>1. CASE Connect
    <3>1. io.phase = "none"
      BY <2>1 DEF Connect, ThreadsInv
    <3>2. io' = io \/ io' = [io EXCEPT !.phase = "reading"]
      BY <2>1 DEF Connect
    <3>3. io'.phase # "pushing"
      BY <3>1, <3>2 DEF ThreadsInv, Reader
    <3> QED
      BY <2>1, <3>1, <3>3 DEF Connect, TrafficInv, server
  <2>2. CASE TimeOut
    BY <2>2 DEF TimeOut, TrafficInv, server
  <2>3. CASE Stop \/ Join
    BY <2>3 DEF Stop, Join, TrafficInv, server
  <2>4. CASE ReadFails
    <3>1. io'.phase = "ended" /\ io.phase = "reading"
      BY <2>4 DEF ReadFails, ThreadsInv, Reader
    <3> QED
      BY <2>4, <3>1 DEF ReadFails, TrafficInv, server
  <2>5. CASE Wake
    BY <2>5 DEF Wake, TrafficInv, server
  <2>6. CASE UNCHANGED vars
    BY <2>6 DEF vars, client, server, TrafficInv
  <2> QED
    BY <2>1, <2>2, <2>3, <2>4, <2>5, <2>6
<1>2. TrafficInv'
  BY <1>1 DEF TrafficInv
<1>3. OrderInv'
  BY <1>1 DEF OrderInv
<1>4. slipped' \/ main' = main \/ main # "waiting"
  BY DEF Connect, TimeOut, Stop, Join, ReadFails, Wake, vars, client
<1>5. OneUnderWay'
  <2> SUFFICES ASSUME ~slipped' PROVE OneUnderWay'
    BY <1>1 DEF OneUnderWay
  <2>1. CASE main' = main
    BY <1>1, <2>1 DEF OneUnderWay
  <2>2. CASE main # "waiting"
    <3>1. Len(toServer) = 0 /\ Len(toClient) = 0 /\ Len(queue) = 0 /\ io.phase # "pushing"
      BY <1>1, <2>2, AnswerTypes DEF OneUnderWay
    <3> QED
      BY <1>1, <3>1 DEF OneUnderWay
  <2> QED
    BY <1>4, <2>1, <2>2
<1> QED
  BY <1>2, <1>3, <1>5

LEMMA NextKeepsData == ASSUME DataInv, ThreadsInv, [Next]_vars PROVE DataInv'
<1>1. \/ Send \/ Receive \/ ReadAnswers \/ Push \/ Ping \/ ServerAnswers \/ ServerRefuses
      \/ Connect \/ TimeOut \/ Stop \/ Join \/ ReadFails \/ Wake \/ UNCHANGED vars
  BY DEF Next, MainStep, IoStep, PingStep
<1> QED
  BY <1>1, SendKeepsData, ReceiveKeepsData, ReadKeepsData, PushKeepsData, PingKeepsData,
     ServerAnswersKeepsData, ServerRefusesKeepsData, QuietStepsKeepData

----------------------------------------------------------------------------
(* What holds of the client *)

\* The inductive invariant, of threads and of what is on its way, holds throughout:
\* TestClient's menu, io_context and ping threads never disturb it.
THEOREM ClientInvariance == Spec => [](ThreadsInv /\ DataInv)
<1>1. Init => ThreadsInv /\ DataInv
  BY InitInv, InitData
<1>2. ThreadsInv /\ DataInv /\ [Next]_vars => (ThreadsInv /\ DataInv)'
  BY NextKeepsThreads, NextKeepsData DEF DataInv
<1> QED
  BY <1>1, <1>2, PTL DEF Spec

\* The types of the client's state, and that both threads have ended, or never
\* started, once stop is over.
THEOREM ClientTypes == Spec => []TypeOK
<1>1. ThreadsInv /\ DataInv => TypeOK
  <2> SUFFICES ASSUME ThreadsInv, DataInv PROVE TypeOK
    OBVIOUS
  <2>1. main = "stopped" => ~running
    BY DEF ThreadsInv
  <2>2. io.phase \in {"none", "reading", "pushing", "ended"} /\ io.answer \in Answer
    BY DEF ThreadsInv, Reader
  <2> QED
    BY <2>1, <2>2 DEF DataInv, ThreadsInv, TrafficInv, TypeOK, Message
<1> QED
  BY <1>1, ClientInvariance, PTL

\* Two sequences in order, one before the other, are in order together.
LEMMA ConcatRises ==
    ASSUME NEW s \in Seq(Answer), NEW t \in Seq(Answer),
           Rising(s), Rising(t), Precedes(s, t)
    PROVE  /\ s \o t \in Seq(Answer) /\ Rising(s \o t)
           /\ \A u : Precedes(s, u) /\ Precedes(t, u) => Precedes(s \o t, u)
<1>1. /\ s \o t \in Seq(Answer) /\ Len(s \o t) = Len(s) + Len(t)
      /\ Len(s) \in Nat /\ Len(t) \in Nat
      /\ \A i \in 1..Len(s) + Len(t) : (s \o t)[i] = IF i <= Len(s) THEN s[i] ELSE t[i - Len(s)]
  BY ConcatProperties, LenProperties
<1> DEFINE c == s \o t
<1>2. \A i \in 1..Len(c) :
         \/ i \in 1..Len(s) /\ c[i] = s[i]
         \/ i > Len(s) /\ i - Len(s) \in 1..Len(t) /\ c[i] = t[i - Len(s)]
  BY <1>1
<1> HIDE DEF c
<1>3. ASSUME NEW i \in 1..Len(c), NEW j \in 1..Len(c), i < j PROVE c[i].n < c[j].n
  <2>1. CASE i \in 1..Len(s) /\ c[i] = s[i] /\ j \in 1..Len(s) /\ c[j] = s[j]
    BY <1>3, <2>1 DEF Rising
  <2>2. CASE /\ i \in 1..Len(s) /\ c[i] = s[i]
             /\ j - Len(s) \in 1..Len(t) /\ c[j] = t[j - Len(s)]
    BY <2>2 DEF Precedes
  <2>3. CASE /\ i > Len(s) /\ i - Len(s) \in 1..Len(t) /\ c[i] = t[i - Len(s)]
             /\ j - Len(s) \in 1..Len(t) /\ c[j] = t[j - Len(s)]
    <3>1. i - Len(s) < j - Len(s)
      BY <1>1, <1>3
    <3> QED
      BY <2>3, <3>1 DEF Rising
  <2>4. ~(i > Len(s) /\ j \in 1..Len(s))
    BY <1>1, <1>3
  <2> QED
    BY <1>2, <2>1, <2>2, <2>3, <2>4
<1>4. Rising(c)
  BY <1>3 DEF Rising
<1>5. \A u : Precedes(s, u) /\ Precedes(t, u) => Precedes(c, u)
  BY <1>2 DEF Precedes
<1> QED
  BY <1>1, <1>4, <1>5 DEF c

LEMMA PrecedesConcat ==
    ASSUME NEW s \in Seq(Answer), NEW t \in Seq(Answer), NEW u \in Seq(Answer),
           Precedes(u, s), Precedes(u, t)
    PROVE  Precedes(u, s \o t)
<1>1. /\ Len(s) \in Nat /\ Len(t) \in Nat
      /\ \A i \in 1..Len(s \o t) :
            \/ i \in 1..Len(s) /\ (s \o t)[i] = s[i]
            \/ i - Len(s) \in 1..Len(t) /\ (s \o t)[i] = t[i - Len(s)]
  BY ConcatProperties, LenProperties
<1> QED
  BY <1>1 DEF Precedes

\* The answer the menu got last, those in the queue, the one in the reader's hand and
\* those in the socket are in the order of the server: sendRequest never returns an
\* answer twice, or an older one after a younger.
THEOREM AnswersComeInOrder == Spec => []AnswersKeepTheirOrder
<1>1. ThreadsInv /\ DataInv => AnswersKeepTheirOrder
  <2> SUFFICES ASSUME ThreadsInv, DataInv PROVE AnswersKeepTheirOrder
    OBVIOUS
  <2>1. PICK h : h = IF io.phase = "pushing" THEN <<io.answer>> ELSE <<>>
    OBVIOUS
  <2>2. PICK r : r = <<returned>>
    OBVIOUS
  <2>3. /\ queue \in Seq(Answer) /\ toClient \in Seq(Answer)
        /\ returned \in Answer /\ io.answer \in Answer
    BY DEF DataInv, TrafficInv, ThreadsInv, Reader
  <2>4. /\ r \in Seq(Answer) /\ Len(r) = 1 /\ r[1] = returned
        /\ h \in Seq(Answer)
        /\ Len(h) = 0 \/ (Len(h) = 1 /\ h[1] = io.answer /\ io.phase = "pushing")
    BY <2>1, <2>2, <2>3
  <2>5. /\ Rising(r) /\ Rising(h) /\ Rising(queue) /\ Rising(toClient)
        /\ Precedes(r, queue) /\ Precedes(r, h) /\ Precedes(r, toClient)
        /\ Precedes(queue, h) /\ Precedes(queue, toClient) /\ Precedes(h, toClient)
    BY <2>4 DEF DataInv, OrderInv, Rising, Precedes, Above, Below
  <2>6. PICK a : a = queue \o h
    OBVIOUS
  <2>7. a \in Seq(Answer) /\ Rising(a) /\ Precedes(a, toClient) /\ Precedes(r, a)
    <3>1. a \in Seq(Answer) /\ Rising(a) /\ Precedes(a, toClient)
      BY <2>3, <2>4, <2>5, <2>6, ConcatRises
    <3> QED
      BY <2>3, <2>4, <2>5, <2>6, <3>1, PrecedesConcat
  <2>8. PICK b : b = a \o toClient
    OBVIOUS
  <2>9. b \in Seq(Answer) /\ Rising(b) /\ Precedes(r, b)
    BY <2>3, <2>4, <2>5, <2>7, <2>8, ConcatRises, PrecedesConcat
  <2>10. r \o b \in Seq(Answer) /\ Rising(r \o b)
    BY <2>4, <2>5, <2>9, ConcatRises
  <2>11. Upcoming = b
    BY <2>1, <2>6, <2>8 DEF Upcoming
  <2>12. \A i, j \in DOMAIN (r \o b) : i < j => (r \o b)[i].n < (r \o b)[j].n
    BY <2>10, LenProperties DEF Rising
  <2> QED
    BY <2>2, <2>11, <2>12 DEF AnswersKeepTheirOrder
<1> QED
  BY <1>1, ClientInvariance, PTL

\* Until a ping or a time-out comes between, what sendRequest returns is
\* the answer to its own request: there is never another one under way.
THEOREM AnswersMatch == Spec => AnswersMatchUntilOneSlips
<1>1. ThreadsInv /\ DataInv /\ [Next]_vars =>
         [main = "waiting" /\ main' = "menu" /\ ~slipped' =>
             returned'.to = requests]_vars
  <2> SUFFICES ASSUME ThreadsInv, DataInv, Next,
                      main = "waiting", main' = "menu", ~slipped'
               PROVE  returned'.to = requests
    BY DEF vars
  <2>1. Receive
    <3>1. main' # main
      OBVIOUS
    <3>2. ~Connect /\ ~Send /\ ~Stop /\ ~Join /\ ~TimeOut
      BY DEF Connect, Send, Stop, Join, TimeOut
    <3>3. ~IoStep /\ ~PingStep
      BY <3>1 DEF IoStep, PingStep, ReadAnswers, Push, ReadFails, Wake, Ping
    <3>4. ~ServerAnswers /\ ~ServerRefuses
      BY <3>1 DEF ServerAnswers, ServerRefuses, client
    <3> QED
      BY <3>2, <3>3, <3>4 DEF Next, MainStep
  <2>2. /\ Len(queue) \in Nat \ {0} /\ returned' = queue[1]
        /\ slipped' = slipped
    BY <2>1, ReceiveFacts DEF DataInv
  <2> QED
    BY <2>2 DEF DataInv, OneUnderWay
<1>2. Spec => [][ThreadsInv /\ DataInv /\ [Next]_vars]_vars
  BY ClientInvariance, PTL DEF Spec
<1> QED
  BY <1>1, <1>2, PTL DEF AnswersMatchUntilOneSlips
=============================================================================
