----------------------- MODULE SessionRegistryProofs -----------------------
(***************************************************************************)
(* Type correctness, the agreement between the sessions and the maps, and  *)
(* what keeps a session going, for any number of sessions, users, tokens,  *)
(* ports and addresses.                                                    *)
(*                                                                         *)
(* The properties of SessionRegistry are not inductive: what a destructor  *)
(* erases is its own only if no two sessions ever hold one token, and what *)
(* is known of a session that is gone only follows from its fields being   *)
(* blank.  TokensDiffer says the first, GoneIsBlank the second; and that a *)
(* handshake is the first thing that happens on a socket is what makes the *)
(* fields blank when the handshake ends the session.                       *)
(***************************************************************************)
EXTENDS SessionRegistry, TLAPS

\* The session has neither logged in, nor a token, nor a mirror server's port.
Blank(s) == userId[s] = Nobody /\ token[s] = NoToken /\ mirrorPort[s] = NoPort

\* A session that is gone left nothing in its fields; one that lives has an address.
GoneIsBlank ==
    \A s \in Sessions : /\ ~Live(s) => Blank(s)
                        /\ Live(s) <=> ip[s] # NoIp

\* Nothing else happens on a socket before its handshake is read.
HandshakeIsFirst ==
    \A s \in Sessions : ops[s]["handshake"] > 0 =>
        /\ ops[s] = [NoOps EXCEPT !["handshake"] = 1]
        /\ request # s
        /\ Blank(s)

LifeInv == GoneIsBlank /\ HandshakeIsFirst

TokensDiffer ==
    \A s1, s2 \in Sessions : token[s1] = token[s2] /\ token[s1] # NoToken => s1 = s2

EntriesAreOwn ==
    /\ \A t \in Tokens : sessions[t] # NoSession => token[sessions[t]] = t
    /\ \A p \in Ports : mirrors[p] # NoSession => mirrorPort[mirrors[p]] = p

AddressesAreHeld == \A a \in connectedIps : \E s \in Sessions : ip[s] = a

MapsInv == TokensDiffer /\ EntriesAreOwn /\ LoginIsRegistered /\ AddressesAreHeld

IInv == TypeOK /\ LifeInv /\ MapsInv

\* What the maps and MapsInv depend on.
registry == <<userId, token, mirrorPort, ip, maps>>

----------------------------------------------------------------------------
(* Operations in flight *)

\* Starting an operation gives a session that lives, and no new handshake.
LEMMA StartedFacts ==
    ASSUME NEW o \in [OpKinds -> Nat], NEW k \in OpKinds, NEW b \in BOOLEAN
    PROVE  /\ Started(o, k, b) \in [OpKinds -> Nat]
           /\ Started(o, k, b) # NoOps
           /\ k # "handshake" => Started(o, k, b)["handshake"] = o["handshake"]
<1> DEFINE i == IF b THEN k ELSE "dead"
<1>1. i \in OpKinds
  BY DEF OpKinds
<1>2. Started(o, k, b) = [o EXCEPT ![i] = o[i] + 1]
  BY DEF Started
<1>3. Started(o, k, b)[i] = o[i] + 1 /\ o[i] + 1 # 0
  BY <1>1, <1>2
<1>4. NoOps[i] = 0
  BY <1>1 DEF NoOps
<1> QED
  BY <1>1, <1>2, <1>3, <1>4 DEF OpKinds

\* Taking away an operation in flight.
LEMMA WithoutFacts ==
    ASSUME TypeOK, NEW s \in Sessions, NEW k \in OpKinds, ops[s][k] > 0
    PROVE  /\ Without(s, k) \in [OpKinds -> Nat]
           /\ k # "handshake" => Without(s, k)["handshake"] = ops[s]["handshake"]
           /\ ops[s]["handshake"] > 0 /\ HandshakeIsFirst =>
                  k = "handshake" /\ Without(s, k) = NoOps
<1>1. ops[s] \in [OpKinds -> Nat]
  BY DEF TypeOK
<1>2. Without(s, k) = [ops[s] EXCEPT ![k] = ops[s][k] - 1]
  BY DEF Without
<1>3. Without(s, k) \in [OpKinds -> Nat]
  BY <1>1, <1>2
<1>4. ASSUME ops[s]["handshake"] > 0, HandshakeIsFirst
      PROVE  k = "handshake" /\ Without(s, k) = NoOps
  <2>1. ops[s] = [NoOps EXCEPT !["handshake"] = 1]
    BY <1>4 DEF HandshakeIsFirst
  <2>2. k = "handshake"
    BY <2>1 DEF NoOps
  <2> QED
    BY <1>2, <2>1, <2>2 DEF NoOps, OpKinds
<1> QED
  BY <1>1, <1>2, <1>3, <1>4 DEF OpKinds

LEMMA NoOpsType == NoOps \in [OpKinds -> Nat] /\ NoOps["handshake"] = 0
  BY DEF NoOps, OpKinds

\* A session whose request is being processed, or that waits for anything but a
\* handshake, waits for no handshake.
LEMMA NoHandshake ==
    ASSUME TypeOK, HandshakeIsFirst, NEW s \in Sessions,
           request = s \/ \E k \in OpKinds \ {"handshake"} : ops[s][k] > 0
    PROVE  ops[s]["handshake"] = 0
<1>1. ops[s]["handshake"] \in Nat
  BY DEF TypeOK, OpKinds
<1>2. ASSUME ops[s]["handshake"] > 0 PROVE FALSE
  BY <1>2 DEF HandshakeIsFirst, NoOps
<1> QED
  BY <1>1, <1>2

----------------------------------------------------------------------------
(* Steps that leave the maps alone *)

\* A session with an operation in flight lives.
LEMMA CompletesLive ==
    ASSUME TypeOK, NEW s \in Sessions, NEW k \in OpKinds, Completes(s, k)
    PROVE  Live(s) /\ request = NoSession /\ sweep = {} /\ ops[s][k] > 0
BY DEF Completes, Idle, Live, NoOps

\* A step of s after which s waits for no handshake.
LEMMA HandshakeStep ==
    ASSUME HandshakeIsFirst, NEW s \in Sessions,
           ops'[s]["handshake"] = 0,
           \A x \in Sessions \ {s} :
               ops'[x] = ops[x] /\ request' # x /\ (Blank(x) => Blank(x)')
    PROVE  HandshakeIsFirst'
<1> SUFFICES ASSUME NEW x \in Sessions, ops'[x]["handshake"] > 0
             PROVE  /\ ops'[x] = [NoOps EXCEPT !["handshake"] = 1]
                    /\ request' # x
                    /\ Blank(x)'
  BY DEF HandshakeIsFirst, NoOps
<1>1. x # s
  OBVIOUS
<1> QED
  BY <1>1 DEF HandshakeIsFirst

\* The agreement with the maps depends on registry only.
LEMMA MapsStutter ==
    ASSUME MapsInv, UNCHANGED registry
    PROVE  MapsInv'
BY DEF MapsInv, TokensDiffer, EntriesAreOwn, LoginIsRegistered, AddressesAreHeld,
       registry, maps

\* A handler of s leaves it alive, with the operations o in flight.
LEMMA LifeStep ==
    ASSUME TypeOK, LifeInv, NEW s \in Sessions, NEW o \in [OpKinds -> Nat],
           ops' = [ops EXCEPT ![s] = o],
           UNCHANGED <<userId, token, mirrorPort, ip>>,
           o["handshake"] = 0,
           o # NoOps \/ request' = s, Live(s),
           request \in {NoSession, s}, request' \in {NoSession, s}
    PROVE  LifeInv'
<1>1. ASSUME NEW x \in Sessions, x # s
      PROVE  ops'[x] = ops[x] /\ Live(x)' = Live(x)
  BY <1>1, IdsAssumption DEF TypeOK, Live
<1>2. ops'[s] = o /\ Live(s)'
  BY IdsAssumption DEF TypeOK, Live
<1>3. GoneIsBlank'
  BY <1>1, <1>2 DEF LifeInv, GoneIsBlank, Blank
<1>4. HandshakeIsFirst'
  BY <1>1, <1>2, HandshakeStep, IdsAssumption DEF LifeInv, Blank, Live
<1> QED
  BY <1>3, <1>4 DEF LifeInv

----------------------------------------------------------------------------
(* The end of a session *)

\* The destructor erases what is the session's own, and only that: no other
\* session has its token or is logged in as its user.
LEMMA DestroyKeepsInv ==
    ASSUME IInv, NEW s \in Sessions, Destroy(s),
           request \in {NoSession, s}, request' = NoSession, sweep' = sweep
    PROVE  IInv' /\ ~Live(s)'
<1> USE DEF Destroy, RemoveMirrorSession, RemoveSession, RemoveConnection
<1>1. TypeOK'
  BY IdsAssumption, NoOpsType DEF IInv, TypeOK, Status
<1>2. /\ userId'[s] = Nobody /\ token'[s] = NoToken /\ mirrorPort'[s] = NoPort
      /\ ip'[s] = NoIp /\ ops'[s] = NoOps /\ ~Live(s)'
  BY IdsAssumption DEF IInv, TypeOK, Live
<1>3. ASSUME NEW x \in Sessions, x # s
      PROVE  /\ userId'[x] = userId[x] /\ token'[x] = token[x]
             /\ mirrorPort'[x] = mirrorPort[x] /\ ip'[x] = ip[x]
             /\ ops'[x] = ops[x] /\ Live(x)' = Live(x)
  BY <1>3, IdsAssumption DEF IInv, TypeOK, Live
<1>4. LifeInv'
  <2>1. GoneIsBlank'
    BY <1>2, <1>3 DEF IInv, LifeInv, GoneIsBlank, Blank
  <2>2. HandshakeIsFirst'
    BY <1>2, <1>3, NoOpsType, HandshakeStep, IdsAssumption DEF IInv, LifeInv, Blank
  <2> QED
    BY <2>1, <2>2 DEF LifeInv
<1>5. TokensDiffer'
  BY <1>2, <1>3 DEF IInv, MapsInv, TokensDiffer
<1>6. EntriesAreOwn'
  <2>1. ASSUME NEW t \in Tokens, sessions'[t] # NoSession
        PROVE  token'[sessions'[t]] = t
    <3>1. sessions'[t] = sessions[t] /\ token[sessions[t]] = t /\ t # token[s]
      BY <2>1 DEF IInv, MapsInv, EntriesAreOwn
    <3>2. sessions[t] \in Sessions /\ sessions[t] # s
      BY <2>1, <3>1 DEF IInv, TypeOK
    <3> QED
      BY <3>1, <3>2, <1>3
  <2>2. ASSUME NEW p \in Ports, mirrors'[p] # NoSession
        PROVE  mirrorPort'[mirrors'[p]] = p
    <3>1. mirrors'[p] = mirrors[p] /\ mirrorPort[mirrors[p]] = p /\ p # mirrorPort[s]
      BY <2>2 DEF IInv, MapsInv, EntriesAreOwn
    <3>2. mirrors[p] \in Sessions /\ mirrors[p] # s
      BY <2>2, <3>1 DEF IInv, TypeOK
    <3> QED
      BY <3>1, <3>2, <1>3
  <2> QED
    BY <2>1, <2>2 DEF EntriesAreOwn
<1>7. LoginIsRegistered'
  <2> SUFFICES ASSUME NEW x \in Sessions, userId'[x] \in Users
               PROVE  token'[x] # NoToken /\ tokens'[userId'[x]] = token'[x]
    BY DEF LoginIsRegistered
  <2>1. x # s /\ userId'[x] = userId[x] /\ token'[x] = token[x]
    BY <1>2, <1>3, IdsAssumption
  <2>2. token[x] # NoToken /\ tokens[userId[x]] = token[x]
    BY <2>1 DEF IInv, MapsInv, LoginIsRegistered
  <2>3. ~(userId[x] = userId[s] /\ token[s] # NoToken)
    BY <2>1, <2>2 DEF IInv, MapsInv, LoginIsRegistered, TokensDiffer
  <2>4. tokens'[userId[x]] = tokens[userId[x]]
    BY <2>1, <2>3
  <2> QED
    BY <2>1, <2>2, <2>4
<1>8. AddressesAreHeld'
  <2> SUFFICES ASSUME NEW a \in connectedIps' PROVE \E x \in Sessions : ip'[x] = a
    BY DEF AddressesAreHeld
  <2>1. a \in connectedIps /\ a # ip[s]
    OBVIOUS
  <2>2. PICK x \in Sessions : ip[x] = a
    BY <2>1 DEF IInv, MapsInv, AddressesAreHeld
  <2> QED
    BY <2>1, <2>2, <1>3
<1> QED
  BY <1>1, <1>2, <1>4, <1>5, <1>6, <1>7, <1>8 DEF IInv, MapsInv

\* A handler that closes the socket of s, or just returns, with left in flight.
LEMMA ReturnKeepsInv ==
    ASSUME IInv, NEW s \in Sessions, NEW left \in [OpKinds -> Nat],
           Return(s, left) \/ CloseAndReturn(s, left),
           left # NoOps => left["handshake"] = 0, Live(s),
           request \in {NoSession, s}, request' = NoSession, sweep' = sweep
    PROVE  IInv'
<1>1. CASE left = NoOps
  BY <1>1, DestroyKeepsInv DEF Return, CloseAndReturn
<1>2. CASE left # NoOps
  <2>1. /\ ops' = [ops EXCEPT ![s] = left]
        /\ open' \in [Sessions -> BOOLEAN]
        /\ UNCHANGED <<fields, maps>>
    BY <1>2 DEF Return, CloseAndReturn, IInv, TypeOK
  <2>2. TypeOK'
    BY <2>1, IdsAssumption DEF IInv, TypeOK, fields, maps
  <2>3. LifeInv'
    BY <2>1, <1>2, LifeStep DEF IInv, fields
  <2>4. MapsInv'
    BY <2>1, MapsStutter DEF IInv, fields, registry
  <2> QED
    BY <2>2, <2>3, <2>4 DEF IInv
<1> QED
  BY <1>1, <1>2

----------------------------------------------------------------------------
(* The handshake *)

\* A session that is accepted was gone, so its fields are blank.
LEMMA AcceptKeepsInv ==
    ASSUME IInv, NEW s \in Sessions, NEW a \in Ips, Accept(s, a)
    PROVE  IInv'
<1> DEFINE o == Started(NoOps, "handshake", TRUE)
<1>1. o = [NoOps EXCEPT !["handshake"] = 1] /\ o \in [OpKinds -> Nat] /\ o # NoOps
  BY NoOpsType, StartedFacts DEF Started, OpKinds, NoOps
<1> HIDE DEF o
<1>2. /\ ops' = [ops EXCEPT ![s] = o] /\ ip' = [ip EXCEPT ![s] = a]
      /\ open' = [open EXCEPT ![s] = TRUE]
      /\ request = NoSession /\ ~Live(s)
      /\ UNCHANGED <<userId, token, mirrorPort, status, idle, maps, thread>>
  BY DEF Accept, Idle, o
<1>3. Blank(s) /\ ip[s] = NoIp
  BY <1>2 DEF IInv, LifeInv, GoneIsBlank
<1>4. TypeOK'
  BY <1>1, <1>2 DEF IInv, TypeOK, maps, thread
<1>5. ASSUME NEW x \in Sessions, x # s
      PROVE  ops'[x] = ops[x] /\ Live(x)' = Live(x) /\ ip'[x] = ip[x]
  BY <1>2, <1>5 DEF IInv, TypeOK, Live, thread
<1>6. ops'[s] = o /\ Live(s)'
  BY <1>1, <1>2 DEF IInv, TypeOK, Live
<1>7. GoneIsBlank'
  <2>1. ip'[s] = a /\ a # NoIp
    BY <1>2, IdsAssumption DEF IInv, TypeOK
  <2> QED
    BY <1>2, <1>5, <1>6, <2>1 DEF IInv, LifeInv, GoneIsBlank, Blank
<1>8. HandshakeIsFirst'
  BY <1>1, <1>2, <1>3, <1>5, <1>6, IdsAssumption
     DEF IInv, LifeInv, HandshakeIsFirst, Blank, thread
<1>9. AddressesAreHeld'
  <2> SUFFICES ASSUME NEW b \in connectedIps PROVE \E x \in Sessions : ip'[x] = b
    BY <1>2 DEF AddressesAreHeld, maps
  <2>1. PICK x \in Sessions : ip[x] = b
    BY DEF IInv, MapsInv, AddressesAreHeld
  <2>2. x # s
    BY <2>1, <1>3, IdsAssumption DEF IInv, TypeOK
  <2> QED
    BY <2>1, <2>2, <1>5
<1>10. TokensDiffer' /\ EntriesAreOwn' /\ LoginIsRegistered'
  BY <1>2 DEF IInv, MapsInv, TokensDiffer, EntriesAreOwn, LoginIsRegistered, maps
<1> QED
  BY <1>4, <1>7, <1>8, <1>9, <1>10 DEF IInv, MapsInv, LifeInv

\* Before its handshake is read a session is blank and waits for nothing else.
LEMMA BeforeHandshake ==
    ASSUME IInv, NEW s \in Sessions, Completes(s, "handshake")
    PROVE  /\ Blank(s)
           /\ Without(s, "handshake") = NoOps
           /\ request = NoSession
           /\ Live(s) /\ ip[s] \in Ips
<1>1. "handshake" \in OpKinds
  BY DEF OpKinds
<1>2. Live(s) /\ request = NoSession /\ ops[s]["handshake"] > 0
  BY <1>1, CompletesLive DEF IInv
<1>3. Blank(s) /\ Without(s, "handshake") = NoOps
  BY <1>1, <1>2, WithoutFacts DEF IInv, LifeInv, HandshakeIsFirst
<1>4. ip[s] \in Ips
  BY <1>2 DEF IInv, LifeInv, GoneIsBlank, TypeOK
<1> QED
  BY <1>2, <1>3, <1>4

LEMMA MirrorHandshakeKeepsInv ==
    ASSUME IInv, NEW s \in Sessions, NEW p \in Ports, MirrorHandshake(s, p)
    PROVE  IInv'
<1> DEFINE o == Started(NoOps, "write", open[s])
<1>1. /\ Blank(s) /\ request = NoSession /\ Without(s, "handshake") = NoOps
      /\ Live(s) /\ ip[s] \in Ips
  BY BeforeHandshake DEF MirrorHandshake
<1>2. o \in [OpKinds -> Nat] /\ o # NoOps /\ o["handshake"] = 0
  BY NoOpsType, StartedFacts DEF OpKinds, IInv, TypeOK
<1>3. /\ ops' = [ops EXCEPT ![s] = o]
      /\ mirrorPort' = [mirrorPort EXCEPT ![s] = p]
      /\ userId' = [userId EXCEPT ![s] = p]
      /\ RegisterMirror(s, p)
      /\ UNCHANGED <<open, token, status, idle, ip, sessions, tokens, connectedIps, thread>>
  BY <1>1 DEF MirrorHandshake
<1> HIDE DEF o
<1>4. TypeOK'
  BY <1>2, <1>3 DEF IInv, TypeOK, RegisterMirror, thread
<1>5. ASSUME NEW x \in Sessions, x # s
      PROVE  /\ ops'[x] = ops[x] /\ Live(x)' = Live(x)
             /\ userId'[x] = userId[x] /\ mirrorPort'[x] = mirrorPort[x]
  BY <1>3, <1>5 DEF IInv, TypeOK, Live, thread
<1>6. ops'[s] = o /\ Live(s)' /\ mirrorPort'[s] = p /\ userId'[s] = p
  BY <1>2, <1>3 DEF IInv, TypeOK, Live
<1>7. GoneIsBlank'
  BY <1>1, <1>3, <1>5, <1>6 DEF IInv, LifeInv, GoneIsBlank, Blank
<1>8. HandshakeIsFirst'
  BY <1>1, <1>2, <1>3, <1>5, <1>6, HandshakeStep, IdsAssumption
     DEF IInv, LifeInv, Blank, thread
<1>9. EntriesAreOwn'
  <2>1. ASSUME NEW q \in Ports, mirrors'[q] # NoSession
        PROVE  mirrorPort'[mirrors'[q]] = q
    <3>1. CASE q = p
      BY <3>1, <1>3, <1>6 DEF RegisterMirror
    <3>2. CASE q # p
      <4>1. mirrors'[q] = mirrors[q] /\ mirrors[q] # s
        BY <3>2, <2>1, <1>3 DEF RegisterMirror
      <4>2. mirrors[q] \in Sessions /\ mirrorPort[mirrors[q]] = q
        BY <4>1, <2>1 DEF IInv, MapsInv, EntriesAreOwn, TypeOK
      <4> QED
        BY <4>1, <4>2, <1>5
    <3> QED
      BY <3>1, <3>2
  <2> QED
    BY <2>1, <1>3 DEF IInv, MapsInv, EntriesAreOwn
<1>10. LoginIsRegistered'
  BY <1>3, <1>5, <1>6, IdsAssumption DEF IInv, MapsInv, LoginIsRegistered
<1>11. TokensDiffer' /\ AddressesAreHeld'
  BY <1>3 DEF IInv, MapsInv, TokensDiffer, AddressesAreHeld
<1> QED
  BY <1>4, <1>7, <1>8, <1>9, <1>10, <1>11 DEF IInv, MapsInv, LifeInv

\* The malformed handshake ends the session: the fields it does not reset are
\* blank already.
LEMMA MalformedMirrorHandshakeKeepsInv ==
    ASSUME IInv, NEW s \in Sessions, NEW p \in Ports, MalformedMirrorHandshake(s, p)
    PROVE  IInv'
<1> USE DEF MalformedMirrorHandshake
<1>1. Blank(s) /\ request = NoSession
  BY BeforeHandshake
<1>2. TypeOK'
  BY NoOpsType DEF IInv, TypeOK, thread
<1>3. ASSUME NEW x \in Sessions, x # s
      PROVE  ops'[x] = ops[x] /\ Live(x)' = Live(x) /\ ip'[x] = ip[x]
  BY <1>3 DEF IInv, TypeOK, Live, thread
<1>4. ops'[s] = NoOps /\ ip'[s] = NoIp /\ ~Live(s)'
  BY <1>1, IdsAssumption DEF IInv, TypeOK, Live, thread
<1>5. GoneIsBlank'
  BY <1>1, <1>3, <1>4 DEF IInv, LifeInv, GoneIsBlank, Blank
<1>6. HandshakeIsFirst'
  BY <1>1, <1>3, <1>4, NoOpsType, HandshakeStep, IdsAssumption
     DEF IInv, LifeInv, Blank, thread
<1>7. EntriesAreOwn'
  BY DEF IInv, MapsInv, EntriesAreOwn, TypeOK
<1>8. AddressesAreHeld'
  <2> SUFFICES ASSUME NEW a \in connectedIps' PROVE \E x \in Sessions : ip'[x] = a
    BY DEF AddressesAreHeld
  <2>1. a \in connectedIps /\ a # ip[s]
    OBVIOUS
  <2>2. PICK x \in Sessions : ip[x] = a
    BY <2>1 DEF IInv, MapsInv, AddressesAreHeld
  <2> QED
    BY <2>1, <2>2, <1>3
<1>9. TokensDiffer' /\ LoginIsRegistered'
  BY DEF IInv, MapsInv, TokensDiffer, LoginIsRegistered
<1> QED
  BY <1>2, <1>5, <1>6, <1>7, <1>8, <1>9 DEF IInv, MapsInv, LifeInv

LEMMA AfterAllowFacts ==
    ASSUME TypeOK, NEW s \in Sessions
    PROVE  AfterAllow(s) \in [OpKinds -> Nat] /\ AfterAllow(s)["handshake"] = 0
BY NoOpsType, StartedFacts DEF AfterAllow, OpKinds, TypeOK

LEMMA OutdatedHandshakeKeepsInv ==
    ASSUME IInv, NEW s \in Sessions, OutdatedHandshake(s)
    PROVE  IInv'
BY BeforeHandshake, AfterAllowFacts, ReturnKeepsInv
   DEF OutdatedHandshake, IInv, thread

\* The maps after registerSession: nobody had the new token, and the session's
\* old entry is gone.
LEMMA RegisterKeepsEntries ==
    ASSUME IInv, NEW s \in Sessions, NEW t \in Tokens, NEW u,
           RegisterSession(s, t, u), UNCHANGED <<mirrorPort, mirrors>>
    PROVE  TokensDiffer' /\ EntriesAreOwn'
<1>1. token'[s] = t /\ \A x \in Sessions : x # s => token'[x] = token[x] /\ token[x] # t
  BY DEF RegisterSession, Fresh, IInv, TypeOK
<1>2. TokensDiffer'
  BY <1>1 DEF IInv, MapsInv, TokensDiffer
<1>3. ASSUME NEW x \in Tokens, sessions'[x] # NoSession
      PROVE  token'[sessions'[x]] = x
  <2>1. CASE x = t
    BY <2>1, <1>1 DEF RegisterSession
  <2>2. CASE x # t
    <3>1. sessions'[x] = sessions[x] /\ sessions[x] # s
      BY <2>2, <1>3 DEF RegisterSession
    <3>2. sessions[x] \in Sessions /\ token[sessions[x]] = x
      BY <3>1, <1>3 DEF IInv, MapsInv, EntriesAreOwn, TypeOK
    <3> QED
      BY <3>1, <3>2, <1>1
  <2> QED
    BY <2>1, <2>2
<1> QED
  BY <1>2, <1>3 DEF IInv, MapsInv, EntriesAreOwn

LEMMA ClientHandshakeKeepsInv ==
    ASSUME IInv, NEW s \in Sessions, NEW t \in Tokens, NEW isRequest \in BOOLEAN,
           ClientHandshake(s, t, isRequest)
    PROVE  IInv'
<1> DEFINE stillOpen == open[s] /\ AllowConnection(s)
           o == IF isRequest THEN AfterAllow(s)
                ELSE Started(AfterAllow(s), "write", stillOpen)
<1>1. Blank(s) /\ request = NoSession /\ Live(s) /\ ip[s] \in Ips
  BY BeforeHandshake DEF ClientHandshake
<1>2. /\ o \in [OpKinds -> Nat] /\ o["handshake"] = 0
      /\ ~isRequest => o # NoOps
  <2>1. AfterAllow(s) \in [OpKinds -> Nat] /\ AfterAllow(s)["handshake"] = 0
    BY AfterAllowFacts DEF IInv
  <2>2. stillOpen \in BOOLEAN
    BY DEF IInv, TypeOK
  <2> HIDE DEF stillOpen
  <2> QED
    BY <2>1, <2>2, StartedFacts DEF OpKinds
<1>3. /\ ops' = [ops EXCEPT ![s] = o]
      /\ request' = IF isRequest THEN s ELSE NoSession
      /\ open' = [open EXCEPT ![s] = stillOpen]
  BY DEF ClientHandshake
<1> HIDE DEF o, stillOpen
<1>4. /\ connectedIps' = connectedIps \cup {ip[s]}
      /\ RegisterSession(s, t, Nobody)
      /\ UNCHANGED <<userId, mirrorPort, status, idle, ip, mirrors, sweep>>
      /\ stillOpen \in BOOLEAN
  BY DEF ClientHandshake, stillOpen, IInv, TypeOK
<1>5. ASSUME NEW x \in Sessions, x # s
      PROVE  /\ ops'[x] = ops[x] /\ Live(x)' = Live(x) /\ token'[x] = token[x]
  BY <1>1, <1>3, <1>4, <1>5, IdsAssumption DEF IInv, TypeOK, Live, RegisterSession
<1>6. ops'[s] = o /\ Live(s)' /\ ops[s]["handshake"] > 0
  BY <1>2, <1>3 DEF IInv, TypeOK, Live, ClientHandshake, Completes
<1>7. TypeOK'
  BY <1>1, <1>2, <1>3, <1>4 DEF IInv, TypeOK, RegisterSession
<1>8. GoneIsBlank'
  BY <1>1, <1>4, <1>5, <1>6 DEF IInv, LifeInv, GoneIsBlank, Blank
<1>9. HandshakeIsFirst'
  <2>1. \A x \in Sessions \ {s} : request' # x
    BY <1>3, IdsAssumption
  <2> QED
    BY <1>2, <1>4, <1>5, <1>6, <2>1, HandshakeStep DEF IInv, LifeInv, Blank
<1>10. TokensDiffer' /\ EntriesAreOwn'
  BY <1>4, RegisterKeepsEntries
<1>11. LoginIsRegistered'
  <2>1. tokens' = tokens
    BY <1>4, IdsAssumption DEF RegisterSession, IInv, TypeOK
  <2> QED
    BY <1>1, <1>4, <1>5, <2>1, IdsAssumption DEF IInv, MapsInv, LoginIsRegistered, Blank
<1>12. AddressesAreHeld'
  BY <1>4 DEF IInv, MapsInv, AddressesAreHeld
<1> QED
  BY <1>7, <1>8, <1>9, <1>10, <1>11, <1>12 DEF IInv, MapsInv, LifeInv

----------------------------------------------------------------------------
(* Completions *)

\* A completion that goes on: the session lives, with o in flight.
LEMMA GoesOnKeepsInv ==
    ASSUME IInv, NEW s \in Sessions, Live(s), NEW o \in [OpKinds -> Nat],
           o["handshake"] = 0, o # NoOps \/ request' = s,
           ops' = [ops EXCEPT ![s] = o],
           request \in {NoSession, s}, request' \in {NoSession, s},
           UNCHANGED <<userId, token, mirrorPort, ip, maps, sweep, open>>,
           status' \in [Sessions -> Status], idle' \in [Sessions -> BOOLEAN]
    PROVE  IInv'
<1>1. TypeOK'
  BY DEF IInv, TypeOK, maps
<1>2. LifeInv'
  BY LifeStep DEF IInv
<1>3. MapsInv'
  BY MapsStutter DEF IInv, registry
<1> QED
  BY <1>1, <1>2, <1>3 DEF IInv

LEMMA ReadDoneKeepsInv ==
    ASSUME IInv, NEW s \in Sessions, ReadDone(s)
    PROVE  IInv'
<1>1. "read" \in OpKinds /\ "read" # "handshake" /\ Completes(s, "read")
  BY DEF OpKinds, ReadDone
<1>2. Live(s) /\ request = NoSession /\ ops[s]["read"] > 0
  BY <1>1, CompletesLive DEF IInv
<1>3. Without(s, "read") \in [OpKinds -> Nat] /\ Without(s, "read")["handshake"] = 0
  BY <1>1, <1>2, WithoutFacts, NoHandshake DEF IInv, LifeInv
<1> QED
  BY <1>2, <1>3, GoesOnKeepsInv DEF ReadDone, fields, IInv, TypeOK

LEMMA WriteDoneKeepsInv ==
    ASSUME IInv, NEW s \in Sessions, WriteDone(s)
    PROVE  IInv'
<1> DEFINE o == Started(Without(s, "write"), "read", open[s])
<1>1. "write" \in OpKinds /\ "write" # "handshake" /\ Completes(s, "write")
  BY DEF OpKinds, WriteDone
<1>2. Live(s) /\ request = NoSession /\ ops[s]["write"] > 0
  BY <1>1, CompletesLive DEF IInv
<1>3. Without(s, "write") \in [OpKinds -> Nat] /\ Without(s, "write")["handshake"] = 0
  BY <1>1, <1>2, WithoutFacts, NoHandshake DEF IInv, LifeInv
<1>4. o \in [OpKinds -> Nat] /\ o["handshake"] = 0 /\ o # NoOps
  BY <1>3, StartedFacts DEF OpKinds, IInv, TypeOK
<1> HIDE DEF o
<1>5. /\ ops' = [ops EXCEPT ![s] = o]
      /\ UNCHANGED <<open, fields, maps, thread>>
  BY DEF WriteDone, o
<1> QED
  BY <1>2, <1>4, <1>5, GoesOnKeepsInv DEF fields, thread, IInv, TypeOK

\* A handler that takes its operation away and closes the socket or returns.
LEMMA EndsKeepsInv ==
    ASSUME IInv, NEW s \in Sessions, NEW k \in OpKinds, Completes(s, k),
           Return(s, Without(s, k)) \/ CloseAndReturn(s, Without(s, k)),
           UNCHANGED thread
    PROVE  IInv'
<1>1. Live(s) /\ request = NoSession /\ ops[s][k] > 0
  BY CompletesLive DEF IInv
<1>2. Without(s, k) \in [OpKinds -> Nat]
  BY <1>1, WithoutFacts DEF IInv
<1>3. Without(s, k) # NoOps => Without(s, k)["handshake"] = 0
  BY <1>1, WithoutFacts, NoHandshake DEF IInv, LifeInv
<1> QED
  BY <1>1, <1>2, <1>3, ReturnKeepsInv DEF thread

LEMMA CastDoneKeepsInv ==
    ASSUME IInv, NEW s \in Sessions, CastDone(s)
    PROVE  IInv'
BY EndsKeepsInv DEF CastDone, OpKinds

LEMMA OpFailsKeepsInv ==
    ASSUME IInv, NEW s \in Sessions, NEW k \in OpKinds, OpFails(s, k)
    PROVE  IInv'
BY EndsKeepsInv DEF OpFails

----------------------------------------------------------------------------
(* Requests *)

\* The session whose request is processed lives, and goes on to write an answer.
LEMMA RespondFacts ==
    ASSUME IInv, NEW s \in Sessions, request = s
    PROVE  /\ Live(s) /\ request # NoSession
           /\ Started(ops[s], "write", open[s]) \in [OpKinds -> Nat]
           /\ Started(ops[s], "write", open[s])["handshake"] = 0
           /\ Started(ops[s], "write", open[s]) # NoOps
<1>1. ops[s]["handshake"] = 0
  BY NoHandshake DEF IInv, LifeInv
<1> QED
  BY <1>1, StartedFacts, IdsAssumption DEF Live, OpKinds, IInv, TypeOK

LEMMA RespondKeepsInv ==
    ASSUME IInv, NEW s \in Sessions, Respond(s),
           UNCHANGED <<userId, token, sessions, tokens, mirrors>>,
           status' \in [Sessions -> Status], idle' \in [Sessions -> BOOLEAN]
    PROVE  IInv'
<1>1. request = s /\ request' = NoSession
  BY DEF Respond
<1>2. ops' = [ops EXCEPT ![s] = Started(ops[s], "write", open[s])]
  BY DEF Respond
<1> QED
  BY <1>1, <1>2, RespondFacts, GoesOnKeepsInv DEF Respond, maps

LEMMA AnswersKeepInv ==
    ASSUME IInv, NEW s \in Sessions,
           AnswerOnly(s) \/ AlivePing(s) \/ JoinRoom(s) \/ ExitRoom(s)
    PROVE  IInv'
<1>1. status \in [Sessions -> Status] /\ idle \in [Sessions -> BOOLEAN]
  BY DEF IInv, TypeOK
<1>2. CASE AnswerOnly(s)
  BY <1>1, <1>2, RespondKeepsInv DEF AnswerOnly
<1>3. CASE AlivePing(s)
  BY <1>1, <1>3, RespondKeepsInv DEF AlivePing
<1>4. CASE JoinRoom(s)
  BY <1>1, <1>4, RespondKeepsInv DEF JoinRoom, Status
<1>5. CASE ExitRoom(s)
  BY <1>1, <1>5, RespondKeepsInv DEF ExitRoom, Status
<1> QED
  BY <1>2, <1>3, <1>4, <1>5

LEMMA LogoutKeepsInv ==
    ASSUME IInv, NEW s \in Sessions, Logout(s)
    PROVE  IInv'
<1>1. ops[s] \in [OpKinds -> Nat] /\ ops[s]["handshake"] = 0 /\ Live(s)
  BY NoHandshake, RespondFacts DEF Logout, IInv, LifeInv, TypeOK
<1> QED
  BY <1>1, ReturnKeepsInv DEF Logout

\* A login takes no user away from another session: nobody is logged in as u.
LEMMA LoginKeepsInv ==
    ASSUME IInv, NEW s \in Sessions, NEW u \in Users, NEW t \in Tokens, Login(s, u, t)
    PROVE  IInv'
<1> DEFINE o == Started(ops[s], "write", open[s])
<1>1. /\ Live(s) /\ o \in [OpKinds -> Nat] /\ o["handshake"] = 0 /\ o # NoOps
      /\ ip[s] \in Ips
  BY RespondFacts DEF Login, Respond, IInv, LifeInv, GoneIsBlank, TypeOK
<1>2. /\ request = s /\ request' = NoSession /\ ops' = [ops EXCEPT ![s] = o]
      /\ userId' = [userId EXCEPT ![s] = u] /\ tokens[u] = NoToken
      /\ status' = [status EXCEPT ![s] = "waiting"]
      /\ RegisterSession(s, t, u)
      /\ UNCHANGED <<open, mirrorPort, ip, connectedIps, sweep, idle, mirrors>>
  BY DEF Login, Respond, CheckAlreadyLogin
<1> HIDE DEF o
<1>3. TypeOK'
  BY <1>1, <1>2 DEF IInv, TypeOK, RegisterSession, Status
<1>4. ASSUME NEW x \in Sessions, x # s
      PROVE  /\ ops'[x] = ops[x] /\ Live(x)' = Live(x)
             /\ token'[x] = token[x] /\ userId'[x] = userId[x]
  BY <1>2, <1>4, IdsAssumption DEF IInv, TypeOK, Live, RegisterSession
<1>5. ops'[s] = o /\ Live(s)' /\ token'[s] = t /\ userId'[s] = u
  BY <1>1, <1>2 DEF IInv, TypeOK, Live, RegisterSession
<1>6. GoneIsBlank'
  BY <1>1, <1>2, <1>4, <1>5 DEF IInv, LifeInv, GoneIsBlank, Blank
<1>7. HandshakeIsFirst'
  BY <1>1, <1>2, <1>4, <1>5, HandshakeStep, IdsAssumption DEF IInv, LifeInv, Blank
<1>8. TokensDiffer' /\ EntriesAreOwn'
  BY <1>2, RegisterKeepsEntries
<1>9. LoginIsRegistered'
  <2> SUFFICES ASSUME NEW x \in Sessions, userId'[x] \in Users
               PROVE  token'[x] # NoToken /\ tokens'[userId'[x]] = token'[x]
    BY DEF LoginIsRegistered
  <2>1. CASE x = s
    BY <2>1, <1>2, <1>5, IdsAssumption DEF RegisterSession
  <2>2. CASE x # s
    <3>1. token[x] # NoToken /\ tokens[userId[x]] = token[x]
      BY <2>2, <1>4 DEF IInv, MapsInv, LoginIsRegistered
    <3>2. userId[x] # u
      BY <3>1, <1>2
    <3> QED
      BY <2>2, <3>1, <3>2, <1>2, <1>4 DEF RegisterSession
  <2> QED
    BY <2>1, <2>2
<1>10. AddressesAreHeld'
  BY <1>2 DEF IInv, MapsInv, AddressesAreHeld
<1> QED
  BY <1>3, <1>6, <1>7, <1>8, <1>9, <1>10 DEF IInv, MapsInv, LifeInv

LEMMA LoginLosesUserKeepsInv ==
    ASSUME IInv, NEW s \in Sessions, LoginLosesUser(s)
    PROVE  IInv'
<1> DEFINE o == Started(ops[s], "write", open[s])
<1>1. /\ Live(s) /\ o \in [OpKinds -> Nat] /\ o["handshake"] = 0 /\ o # NoOps
  BY RespondFacts DEF LoginLosesUser, Respond
<1>2. /\ request = s /\ request' = NoSession /\ ops' = [ops EXCEPT ![s] = o]
      /\ userId' = [userId EXCEPT ![s] = Unknown]
      /\ UNCHANGED <<open, mirrorPort, ip, connectedIps, sweep>>
      /\ UNCHANGED <<token, status, idle, sessions, tokens, mirrors>>
  BY DEF LoginLosesUser, Respond
<1> HIDE DEF o
<1>3. TypeOK'
  BY <1>1, <1>2 DEF IInv, TypeOK
<1>4. ASSUME NEW x \in Sessions, x # s
      PROVE  ops'[x] = ops[x] /\ Live(x)' = Live(x) /\ userId'[x] = userId[x]
  BY <1>2, <1>4, IdsAssumption DEF IInv, TypeOK, Live
<1>5. ops'[s] = o /\ Live(s)' /\ userId'[s] = Unknown
  BY <1>1, <1>2 DEF IInv, TypeOK, Live
<1>6. GoneIsBlank'
  BY <1>1, <1>2, <1>4, <1>5 DEF IInv, LifeInv, GoneIsBlank, Blank
<1>7. HandshakeIsFirst'
  BY <1>1, <1>2, <1>4, <1>5, HandshakeStep, IdsAssumption DEF IInv, LifeInv, Blank
<1>8. LoginIsRegistered'
  BY <1>2, <1>4, <1>5, IdsAssumption DEF IInv, MapsInv, LoginIsRegistered
<1>9. TokensDiffer' /\ EntriesAreOwn' /\ AddressesAreHeld'
  BY <1>2 DEF IInv, MapsInv, TokensDiffer, EntriesAreOwn, AddressesAreHeld
<1> QED
  BY <1>3, <1>6, <1>7, <1>8, <1>9 DEF IInv, MapsInv, LifeInv

\* Telling the mirror server starts an operation on a session that has been
\* through its handshake.
LEMMA CreateRoomKeepsInv ==
    ASSUME IInv, NEW s \in Sessions, NEW p \in Ports, CreateRoom(s, p)
    PROVE  IInv'
<1> DEFINE m == GetMirrorSession(p)
           told == [ops EXCEPT ![m] = Started(ops[m], "write", open[m])]
           o == Started(told[s], "write", open[s])
<1>1. m \in Sessions /\ Live(m) /\ mirrorPort[m] = p
  BY DEF CreateRoom, GetMirrorSession, IInv, TypeOK, MapsInv, EntriesAreOwn
<1>2. ops[m] \in [OpKinds -> Nat] /\ ops[m]["handshake"] = 0
  <2>1. ~(ops[m]["handshake"] > 0)
    BY <1>1, IdsAssumption DEF IInv, LifeInv, HandshakeIsFirst, Blank
  <2> QED
    BY <1>1, <2>1 DEF IInv, TypeOK, OpKinds
<1>3. /\ Live(s) /\ request = s /\ request' = NoSession
      /\ ops[s] \in [OpKinds -> Nat] /\ ops[s]["handshake"] = 0
  BY RespondFacts, NoHandshake DEF CreateRoom, IInv, LifeInv, TypeOK
<1>4. /\ ops' = [told EXCEPT ![s] = o]
      /\ status' = [status EXCEPT ![s] = "inRoom"]
      /\ UNCHANGED <<open, userId, token, mirrorPort, idle, ip, maps, sweep>>
  BY DEF CreateRoom
<1> HIDE DEF m
<1>5. /\ Started(ops[m], "write", open[m]) \in [OpKinds -> Nat]
      /\ Started(ops[m], "write", open[m])["handshake"] = 0
      /\ Started(ops[m], "write", open[m]) # NoOps
  BY <1>1, <1>2, StartedFacts DEF OpKinds, IInv, TypeOK
<1>6. told \in [Sessions -> [OpKinds -> Nat]] /\ told[s]["handshake"] = 0
  BY <1>1, <1>3, <1>5 DEF IInv, TypeOK
<1>7. o \in [OpKinds -> Nat] /\ o["handshake"] = 0 /\ o # NoOps
  <2>1. told[s] \in [OpKinds -> Nat] /\ told[s]["handshake"] = 0
    BY <1>6
  <2>2. open[s] \in BOOLEAN /\ "write" \in OpKinds /\ "write" # "handshake"
    BY DEF IInv, TypeOK, OpKinds
  <2> HIDE DEF told
  <2> QED
    BY <2>1, <2>2, StartedFacts
<1>8. ops'[m]["handshake"] = 0 /\ ops'[m] # NoOps
  BY <1>1, <1>4, <1>5, <1>6, <1>7 DEF IInv, TypeOK
<1>9. ops'[s]["handshake"] = 0 /\ ops'[s] # NoOps
  BY <1>4, <1>6, <1>7
<1>10. ASSUME NEW x \in Sessions, x # s, x # m PROVE ops'[x] = ops[x]
  BY <1>4, <1>6, <1>10, <1>1 DEF IInv, TypeOK
<1>11. TypeOK'
  BY <1>3, <1>4, <1>6, <1>7 DEF IInv, TypeOK, Status, maps
<1> HIDE DEF told, o
<1>12. \A x \in Sessions : Live(x)' <=> Live(x)
  BY <1>1, <1>3, <1>8, <1>9, <1>10, IdsAssumption DEF Live
<1>13. GoneIsBlank'
  BY <1>4, <1>12 DEF IInv, LifeInv, GoneIsBlank, Blank
<1>14. HandshakeIsFirst'
  <2> SUFFICES ASSUME NEW x \in Sessions, ops'[x]["handshake"] > 0
               PROVE  /\ ops'[x] = [NoOps EXCEPT !["handshake"] = 1]
                      /\ request' # x
                      /\ Blank(x)'
    BY DEF HandshakeIsFirst, NoOps
  <2>1. ops'[x] = ops[x]
    BY <1>8, <1>9, <1>10
  <2> QED
    BY <2>1, <1>3, <1>4, IdsAssumption DEF IInv, LifeInv, HandshakeIsFirst, Blank
<1>15. MapsInv'
  BY <1>4, MapsStutter DEF IInv, registry
<1> QED
  BY <1>11, <1>13, <1>14, <1>15 DEF IInv, LifeInv

LEMMA CreateRoomNoMirrorKeepsInv ==
    ASSUME IInv, NEW s \in Sessions, NEW p \in Ports, CreateRoomNoMirror(s, p)
    PROVE  IInv'
<1> DEFINE o == Started(ops[s], "write", open[s])
<1>1. /\ Live(s) /\ o \in [OpKinds -> Nat] /\ o["handshake"] = 0 /\ o # NoOps
  BY RespondFacts DEF CreateRoomNoMirror, Respond
<1>2. /\ request = s /\ request' = NoSession /\ ops' = [ops EXCEPT ![s] = o]
      /\ mirrors' = [mirrors EXCEPT ![p] = NoSession]
      /\ UNCHANGED <<open, mirrorPort, ip, connectedIps, sweep>>
      /\ UNCHANGED <<userId, token, status, idle, sessions, tokens>>
  BY DEF CreateRoomNoMirror, Respond
<1> HIDE DEF o
<1>3. TypeOK'
  BY <1>1, <1>2 DEF IInv, TypeOK
<1>4. LifeInv'
  BY <1>1, <1>2, LifeStep DEF IInv
<1>5. EntriesAreOwn'
  BY <1>2 DEF IInv, MapsInv, EntriesAreOwn, TypeOK
<1>6. TokensDiffer' /\ LoginIsRegistered' /\ AddressesAreHeld'
  BY <1>2 DEF IInv, MapsInv, TokensDiffer, LoginIsRegistered, AddressesAreHeld
<1> QED
  BY <1>3, <1>4, <1>5, <1>6 DEF IInv, MapsInv

----------------------------------------------------------------------------
(* Timers *)

LEMMA ElapseKeepsInv ==
    ASSUME IInv, NEW s \in Sessions, Elapse(s)
    PROVE  IInv'
<1>1. /\ UNCHANGED <<ops, open, userId, token, mirrorPort, status, ip, maps, thread>>
      /\ idle' \in [Sessions -> BOOLEAN]
  BY DEF Elapse, IInv, TypeOK
<1>2. TypeOK'
  BY <1>1 DEF IInv, TypeOK, maps, thread
<1>3. LifeInv'
  BY <1>1 DEF IInv, LifeInv, GoneIsBlank, HandshakeIsFirst, Blank, Live, thread
<1>4. MapsInv'
  BY <1>1, MapsStutter DEF IInv, registry
<1> QED
  BY <1>2, <1>3, <1>4 DEF IInv

LEMMA CheckInactiveSessionsKeepsInv ==
    ASSUME IInv, CheckInactiveSessions
    PROVE  IInv'
<1>1. /\ UNCHANGED <<ops, open, fields, maps, request>>
      /\ sweep' \subseteq Tokens
  BY DEF CheckInactiveSessions
<1>2. TypeOK'
  BY <1>1 DEF IInv, TypeOK, fields, maps
<1>3. LifeInv'
  BY <1>1 DEF IInv, LifeInv, GoneIsBlank, HandshakeIsFirst, Blank, Live, fields
<1>4. MapsInv'
  BY <1>1, MapsStutter DEF IInv, registry, fields
<1> QED
  BY <1>2, <1>3, <1>4 DEF IInv

LEMMA RemoveInactiveKeepsInv ==
    ASSUME IInv, NEW t \in Tokens, RemoveInactive(t)
    PROVE  IInv'
<1>1. /\ UNCHANGED <<ops, userId, token, mirrorPort, status, idle, ip>>
      /\ UNCHANGED <<tokens, mirrors, connectedIps, request>>
      /\ sessions' = [sessions EXCEPT ![t] = NoSession]
      /\ sweep' \subseteq Tokens /\ open' \in [Sessions -> BOOLEAN]
  BY DEF RemoveInactive, fields, IInv, TypeOK
<1>2. TypeOK'
  BY <1>1 DEF IInv, TypeOK
<1>3. LifeInv'
  BY <1>1 DEF IInv, LifeInv, GoneIsBlank, HandshakeIsFirst, Blank, Live
<1>4. MapsInv'
  BY <1>1 DEF IInv, TypeOK, MapsInv, TokensDiffer, EntriesAreOwn, LoginIsRegistered,
              AddressesAreHeld
<1> QED
  BY <1>2, <1>3, <1>4 DEF IInv

\* The broadcast starts writes on sessions that are logged in, so not on one that
\* waits for its handshake, and brings no session to life.
LEMMA BroadcastCCUKeepsInv ==
    ASSUME IInv, BroadcastCCU
    PROVE  IInv'
<1>1. /\ request = NoSession
      /\ UNCHANGED <<open, fields, maps, thread>>
      /\ ops' = [s \in Sessions |->
                    IF s \in Listeners THEN Started(ops[s], "cast", open[s]) ELSE ops[s]]
  BY DEF BroadcastCCU, Idle
<1>2. ASSUME NEW s \in Sessions
      PROVE  /\ ops'[s] \in [OpKinds -> Nat]
             /\ s \in Listeners => ops'[s] # NoOps /\ Live(s)
             /\ s \notin Listeners => ops'[s] = ops[s]
             /\ ops'[s]["handshake"] = ops[s]["handshake"]
  <2>1. /\ ops[s] \in [OpKinds -> Nat] /\ open[s] \in BOOLEAN
        /\ "cast" \in OpKinds /\ "cast" # "handshake"
    BY DEF IInv, TypeOK, OpKinds
  <2>2. CASE s \in Listeners
    <3>1. ops'[s] = Started(ops[s], "cast", open[s]) /\ Live(s)
      BY <1>1, <2>2 DEF Listeners
    <3> QED
      BY <2>1, <2>2, <3>1, StartedFacts
  <2>3. CASE s \notin Listeners
    BY <1>1, <2>1, <2>3
  <2> QED
    BY <2>2, <2>3
<1>3. TypeOK'
  BY <1>1, <1>2 DEF IInv, TypeOK, fields, maps, thread
<1>4. \A s \in Sessions : Live(s)' <=> Live(s)
  BY <1>1, <1>2, IdsAssumption DEF Live, thread
<1>5. GoneIsBlank'
  BY <1>1, <1>4 DEF IInv, LifeInv, GoneIsBlank, Blank, fields
<1>6. HandshakeIsFirst'
  <2> SUFFICES ASSUME NEW s \in Sessions, ops'[s]["handshake"] > 0
               PROVE  /\ ops'[s] = [NoOps EXCEPT !["handshake"] = 1]
                      /\ request' # s
                      /\ Blank(s)'
    BY DEF HandshakeIsFirst, NoOps
  <2>1. /\ ops[s] = [NoOps EXCEPT !["handshake"] = 1]
        /\ request # s
        /\ Blank(s)
    BY <1>2 DEF IInv, LifeInv, HandshakeIsFirst
  <2>2. s \notin Listeners
    BY <2>1 DEF Listeners, Blank
  <2> QED
    BY <1>1, <1>2, <2>1, <2>2 DEF Blank, fields, thread
<1>7. MapsInv'
  BY <1>1, MapsStutter DEF IInv, registry, fields
<1> QED
  BY <1>3, <1>5, <1>6, <1>7 DEF IInv, LifeInv

----------------------------------------------------------------------------
(* The theorems *)

LEMMA InitInv == Init => IInv
<1> SUFFICES ASSUME Init PROVE IInv
  OBVIOUS
<1> USE DEF Init
<1>1. TypeOK
  BY NoOpsType DEF TypeOK, Status
<1>2. \A s \in Sessions : ~Live(s)
  BY IdsAssumption DEF Live
<1>3. LifeInv
  BY <1>2, NoOpsType DEF LifeInv, GoneIsBlank, HandshakeIsFirst, Blank
<1>4. MapsInv
  BY IdsAssumption
     DEF MapsInv, TokensDiffer, EntriesAreOwn, LoginIsRegistered, AddressesAreHeld
<1> QED
  BY <1>1, <1>3, <1>4 DEF IInv

LEMMA NextKeepsInv == IInv /\ [Next]_vars => IInv'
<1> SUFFICES ASSUME IInv, [Next]_vars PROVE IInv'
  OBVIOUS
<1>1. CASE UNCHANGED vars
  <2>1. UNCHANGED <<ops, open, fields, maps, thread>>
    BY <1>1 DEF vars
  <2>2. TypeOK'
    BY <2>1 DEF IInv, TypeOK, fields, maps, thread
  <2>3. LifeInv'
    BY <2>1 DEF IInv, LifeInv, GoneIsBlank, HandshakeIsFirst, Blank, Live, fields, thread
  <2>4. MapsInv'
    BY <2>1, MapsStutter DEF IInv, registry, fields
  <2> QED
    BY <2>2, <2>3, <2>4 DEF IInv
<1>2. ASSUME NEW s \in Sessions, NEW a \in Ips, Accept(s, a) PROVE IInv'
  BY <1>2, AcceptKeepsInv
<1>3. ASSUME NEW s \in Sessions, Handshake(s) PROVE IInv'
  BY <1>3, MirrorHandshakeKeepsInv, MalformedMirrorHandshakeKeepsInv,
     OutdatedHandshakeKeepsInv, ClientHandshakeKeepsInv DEF Handshake
<1>4. ASSUME NEW s \in Sessions, Completion(s) PROVE IInv'
  BY <1>4, ReadDoneKeepsInv, WriteDoneKeepsInv, CastDoneKeepsInv, OpFailsKeepsInv
     DEF Completion
<1>5. ASSUME NEW s \in Sessions, Request(s) PROVE IInv'
  BY <1>5, AnswersKeepInv, LoginKeepsInv, LoginLosesUserKeepsInv, CreateRoomKeepsInv,
     CreateRoomNoMirrorKeepsInv, LogoutKeepsInv DEF Request
<1>6. ASSUME NEW s \in Sessions, Elapse(s) PROVE IInv'
  BY <1>6, ElapseKeepsInv
<1>7. ASSUME NEW t \in Tokens, RemoveInactive(t) PROVE IInv'
  BY <1>7, RemoveInactiveKeepsInv
<1> QED
  BY <1>1, <1>2, <1>3, <1>4, <1>5, <1>6, <1>7, CheckInactiveSessionsKeepsInv,
     BroadcastCCUKeepsInv DEF Next

LEMMA SpecKeepsInv == Spec => []IInv
BY InitInv, NextKeepsInv, PTL DEF Spec

\* The session registry's variables always have their types.
THEOREM SessionTypeCorrect == Spec => []TypeOK
<1>1. IInv => TypeOK
  BY DEF IInv
<1> QED
  BY <1>1, SpecKeepsInv, PTL

\* The keys that sessions remember and the life of a session agree with the maps.
LEMMA InvNamesLiveSessions ==
    ASSUME IInv
    PROVE  NoDanglingEntry
<1>1. ASSUME NEW t \in Tokens, sessions[t] # NoSession
      PROVE  Live(sessions[t]) /\ token[sessions[t]] = t
  <2>1. sessions[t] \in Sessions /\ token[sessions[t]] = t
    BY <1>1 DEF IInv, TypeOK, MapsInv, EntriesAreOwn
  <2> QED
    BY <2>1, IdsAssumption DEF IInv, LifeInv, GoneIsBlank, Blank
<1>2. ASSUME NEW p \in Ports, mirrors[p] # NoSession
      PROVE  Live(mirrors[p]) /\ mirrorPort[mirrors[p]] = p
  <2>1. mirrors[p] \in Sessions /\ mirrorPort[mirrors[p]] = p
    BY <1>2 DEF IInv, TypeOK, MapsInv, EntriesAreOwn
  <2> QED
    BY <2>1, IdsAssumption DEF IInv, LifeInv, GoneIsBlank, Blank
<1> QED
  BY <1>1, <1>2 DEF NoDanglingEntry

LEMMA InvHasOneSessionPerUser ==
    ASSUME IInv
    PROVE  OneSessionPerUser
BY DEF IInv, MapsInv, LoginIsRegistered, TokensDiffer, OneSessionPerUser

\* However many sessions connect, log in, time out and end in whatever order: the
\* maps name live sessions under the keys these remember, a logged-in session is
\* the one tokens_ names, no user is logged in twice, no address stays locked out.
THEOREM RegistryAgrees ==
    Spec => []( /\ NoDanglingEntry /\ OneSessionPerUser
                /\ LoginIsRegistered /\ NoStaleAddress )
<1>1. ASSUME IInv PROVE LoginIsRegistered
  BY <1>1 DEF IInv, MapsInv
<1>2. ASSUME IInv PROVE NoStaleAddress
  <2> SUFFICES ASSUME NEW a \in connectedIps
               PROVE  \E s \in Sessions : Live(s) /\ ip[s] = a
    BY DEF NoStaleAddress
  <2>1. PICK s \in Sessions : ip[s] = a
    BY <1>2 DEF IInv, MapsInv, AddressesAreHeld
  <2>2. a # NoIp
    BY <1>2, IdsAssumption DEF IInv, TypeOK
  <2> QED
    BY <1>2, <2>1, <2>2 DEF IInv, LifeInv, GoneIsBlank
<1> QED
  BY <1>1, <1>2, InvNamesLiveSessions, InvHasOneSessionPerUser, SpecKeepsInv, PTL

\* The entry of a logged-in user is the session's own, so that the destructor, which
\* erases tokens_ by user id, never erases a login somebody else relies on.
THEOREM LoginsAreRegistered == Spec => []LoginIsRegistered
BY RegistryAgrees, PTL

\* No address is locked out for good: whoever holds it in connected_ips_ still runs
\* its destructor.
THEOREM NoAddressStaysLocked == Spec => []NoStaleAddress
BY RegistryAgrees, PTL

\* sessions_ and mirrors_ never name a session that is gone, or one under a key it
\* would not erase: locked weak pointers may be used without a test.
THEOREM EntriesNameLiveSessions == Spec => []NoDanglingEntry
BY RegistryAgrees, PTL

----------------------------------------------------------------------------
(* Who ends a login *)

\* Entries of tokens_ that change were free, or belong to a session that ends.
TokensStep ==
    \A u \in Users : tokens[u] # NoToken /\ tokens'[u] # tokens[u] =>
        \E s \in Sessions : token[s] = tokens[u] /\ userId[s] = u /\ ~Live(s)'

LEMMA DestroyEndsOwnLogin ==
    ASSUME IInv, NEW s \in Sessions, Destroy(s),
           request \in {NoSession, s}, request' = NoSession, sweep' = sweep
    PROVE  TokensStep
<1> SUFFICES ASSUME NEW u \in Users, tokens[u] # NoToken, tokens'[u] # tokens[u]
             PROVE  \E x \in Sessions : token[x] = tokens[u] /\ userId[x] = u /\ ~Live(x)'
  BY DEF TokensStep
<1>1. ~Live(s)'
  BY DestroyKeepsInv
<1>2. u = userId[s]
  BY DEF Destroy, RemoveSession
<1>3. token[s] = tokens[u]
  BY <1>2 DEF IInv, MapsInv, LoginIsRegistered
<1> QED
  BY <1>1, <1>2, <1>3

LEMMA ReturnEndsOwnLogin ==
    ASSUME IInv, NEW s \in Sessions, NEW left,
           Return(s, left) \/ CloseAndReturn(s, left),
           request \in {NoSession, s}, request' = NoSession, sweep' = sweep
    PROVE  TokensStep
<1>1. CASE left = NoOps
  BY <1>1, DestroyEndsOwnLogin DEF Return, CloseAndReturn
<1>2. CASE left # NoOps
  BY <1>2 DEF Return, CloseAndReturn, TokensStep, maps
<1> QED
  BY <1>1, <1>2

LEMMA NextSparesLogins ==
    ASSUME IInv, [Next]_vars
    PROVE  TokensStep
<1>1. ASSUME tokens' = tokens PROVE TokensStep
  BY <1>1 DEF TokensStep
<1>2. ASSUME NEW s \in Sessions, Handshake(s) PROVE TokensStep
  <2>1. ASSUME NEW p \in Ports, MirrorHandshake(s, p) \/ MalformedMirrorHandshake(s, p)
        PROVE  TokensStep
    BY <2>1, <1>1 DEF MirrorHandshake, MalformedMirrorHandshake
  <2>2. ASSUME OutdatedHandshake(s) PROVE TokensStep
    BY <2>2, ReturnEndsOwnLogin
       DEF OutdatedHandshake, Completes, Idle, thread
  <2>3. ASSUME NEW t \in Tokens, NEW isRequest \in BOOLEAN, ClientHandshake(s, t, isRequest)
        PROVE  TokensStep
    BY <2>3, IdsAssumption DEF ClientHandshake, RegisterSession, TokensStep, IInv, TypeOK
  <2> QED
    BY <1>2, <2>1, <2>2, <2>3 DEF Handshake
<1>3. ASSUME NEW s \in Sessions, Completion(s) PROVE TokensStep
  <2>1. ASSUME ReadDone(s) \/ WriteDone(s) PROVE TokensStep
    BY <2>1, <1>1 DEF ReadDone, WriteDone, maps
  <2>2. ASSUME NEW k \in OpKinds, CastDone(s) \/ OpFails(s, k) PROVE TokensStep
    BY <2>2, ReturnEndsOwnLogin DEF CastDone, OpFails, Completes, Idle, thread
  <2> QED
    BY <1>3, <2>1, <2>2 DEF Completion, OpKinds
<1>4. ASSUME NEW s \in Sessions, Request(s) PROVE TokensStep
  <2>1. ASSUME \/ AnswerOnly(s) \/ AlivePing(s) \/ JoinRoom(s) \/ ExitRoom(s)
               \/ LoginLosesUser(s)
        PROVE  TokensStep
    BY <2>1, <1>1 DEF AnswerOnly, AlivePing, JoinRoom, ExitRoom, LoginLosesUser
  <2>2. ASSUME NEW p \in Ports, CreateRoom(s, p) \/ CreateRoomNoMirror(s, p)
        PROVE  TokensStep
    BY <2>2, <1>1 DEF CreateRoom, CreateRoomNoMirror, maps
  <2>3. ASSUME NEW u \in Users, NEW t \in Tokens, Login(s, u, t) PROVE TokensStep
    BY <2>3 DEF Login, CheckAlreadyLogin, RegisterSession, TokensStep
  <2>4. ASSUME Logout(s) PROVE TokensStep
    BY <2>4, ReturnEndsOwnLogin DEF Logout
  <2> QED
    BY <1>4, <2>1, <2>2, <2>3, <2>4 DEF Request
<1>5. ASSUME \/ \E s \in Sessions, a \in Ips : Accept(s, a)
             \/ \E s \in Sessions : Elapse(s)
             \/ CheckInactiveSessions \/ BroadcastCCU
             \/ \E t \in Tokens : RemoveInactive(t)
             \/ UNCHANGED vars
      PROVE  TokensStep
  BY <1>5, <1>1
     DEF Accept, Elapse, CheckInactiveSessions, BroadcastCCU, RemoveInactive, vars, maps
<1> QED
  BY <1>2, <1>3, <1>4, <1>5 DEF Next

\* A user stays logged in until the session that logged in ends, whatever other
\* sessions of the same client, late handlers and time-outs do in between.
THEOREM LoginsEndWithTheirSession == Spec => LoginEndsWithItsSession
<1>1. IInv /\ [Next]_vars =>
          [\A u \in Users : tokens[u] # NoToken /\ tokens'[u] # tokens[u] =>
              \E s \in Sessions : token[s] = tokens[u] /\ userId[s] = u /\ ~Live(s)']_vars
  BY NextSparesLogins DEF TokensStep
<1> QED
  BY <1>1, SpecKeepsInv, PTL DEF Spec, LoginEndsWithItsSession

----------------------------------------------------------------------------
(* Who ends a registration *)

\* Entries of sessions_ that change have a session that got another token, was
\* closed or ends.
EntriesStep ==
    \A t \in Tokens, s \in Sessions :
        sessions[t] = s /\ sessions'[t] # s =>
            token'[s] # t \/ ~open'[s] \/ ~Live(s)'

LEMMA ReturnEndsOwnEntry ==
    ASSUME IInv, NEW s \in Sessions, NEW left,
           Return(s, left) \/ CloseAndReturn(s, left),
           request \in {NoSession, s}, request' = NoSession, sweep' = sweep
    PROVE  EntriesStep
<1>1. CASE left = NoOps
  <2>1. Destroy(s)
    BY <1>1 DEF Return, CloseAndReturn
  <2>2. ~Live(s)'
    BY <2>1, DestroyKeepsInv
  <2>3. ASSUME NEW t \in Tokens, NEW x \in Sessions, sessions[t] = x, sessions'[t] # x
        PROVE  x = s
    <3>1. token[s] = t
      BY <2>1, <2>3 DEF Destroy, RemoveSession
    <3>2. token[x] = t /\ t # NoToken
      BY <2>3, IdsAssumption DEF IInv, MapsInv, EntriesAreOwn
    <3> QED
      BY <3>1, <3>2 DEF IInv, MapsInv, TokensDiffer
  <2> QED
    BY <2>2, <2>3 DEF EntriesStep
<1>2. CASE left # NoOps
  BY <1>2 DEF Return, CloseAndReturn, EntriesStep, maps
<1> QED
  BY <1>1, <1>2

\* registerSession replaces only the entry of the session that gets a new token.
LEMMA RegisterEndsOwnEntry ==
    ASSUME IInv, NEW s \in Sessions, NEW t \in Tokens, NEW u, RegisterSession(s, t, u)
    PROVE  EntriesStep
<1> SUFFICES ASSUME NEW y \in Tokens, NEW x \in Sessions, sessions[y] = x, sessions'[y] # x
             PROVE  token'[x] # y
  BY DEF EntriesStep
<1>1. sessions[t] = NoSession /\ x # NoSession
  BY IdsAssumption DEF RegisterSession, Fresh
<1>2. y # t /\ x = s
  BY <1>1 DEF RegisterSession
<1>3. token'[s] = t
  BY DEF RegisterSession, IInv, TypeOK
<1> QED
  BY <1>2, <1>3

LEMMA NextSparesEntries ==
    ASSUME IInv, [Next]_vars
    PROVE  EntriesStep
<1>1. ASSUME sessions' = sessions PROVE EntriesStep
  BY <1>1 DEF EntriesStep
<1>2. ASSUME NEW s \in Sessions, Handshake(s) PROVE EntriesStep
  <2>1. ASSUME NEW p \in Ports, MirrorHandshake(s, p) \/ MalformedMirrorHandshake(s, p)
        PROVE  EntriesStep
    BY <2>1, <1>1 DEF MirrorHandshake, MalformedMirrorHandshake
  <2>2. ASSUME OutdatedHandshake(s) PROVE EntriesStep
    BY <2>2, ReturnEndsOwnEntry DEF OutdatedHandshake, Completes, Idle, thread
  <2>3. ASSUME NEW t \in Tokens, NEW isRequest \in BOOLEAN, ClientHandshake(s, t, isRequest)
        PROVE  EntriesStep
    BY <2>3, RegisterEndsOwnEntry DEF ClientHandshake
  <2> QED
    BY <1>2, <2>1, <2>2, <2>3 DEF Handshake
<1>3. ASSUME NEW s \in Sessions, Completion(s) PROVE EntriesStep
  <2>1. ASSUME ReadDone(s) \/ WriteDone(s) PROVE EntriesStep
    BY <2>1, <1>1 DEF ReadDone, WriteDone, maps
  <2>2. ASSUME NEW k \in OpKinds, CastDone(s) \/ OpFails(s, k) PROVE EntriesStep
    BY <2>2, ReturnEndsOwnEntry DEF CastDone, OpFails, Completes, Idle, thread
  <2> QED
    BY <1>3, <2>1, <2>2 DEF Completion, OpKinds
<1>4. ASSUME NEW s \in Sessions, Request(s) PROVE EntriesStep
  <2>1. ASSUME \/ AnswerOnly(s) \/ AlivePing(s) \/ JoinRoom(s) \/ ExitRoom(s)
               \/ LoginLosesUser(s)
        PROVE  EntriesStep
    BY <2>1, <1>1 DEF AnswerOnly, AlivePing, JoinRoom, ExitRoom, LoginLosesUser
  <2>2. ASSUME NEW p \in Ports, CreateRoom(s, p) \/ CreateRoomNoMirror(s, p)
        PROVE  EntriesStep
    BY <2>2, <1>1 DEF CreateRoom, CreateRoomNoMirror, maps
  <2>3. ASSUME NEW u \in Users, NEW t \in Tokens, Login(s, u, t) PROVE EntriesStep
    BY <2>3, RegisterEndsOwnEntry DEF Login
  <2>4. ASSUME Logout(s) PROVE EntriesStep
    BY <2>4, ReturnEndsOwnEntry DEF Logout
  <2> QED
    BY <1>4, <2>1, <2>2, <2>3, <2>4 DEF Request
<1>5. ASSUME NEW t \in Tokens, RemoveInactive(t) PROVE EntriesStep
  <2> SUFFICES ASSUME NEW y \in Tokens, NEW x \in Sessions, sessions[y] = x, sessions'[y] # x
               PROVE  ~open'[x]
    BY DEF EntriesStep
  <2>1. y = t
    BY <1>5 DEF RemoveInactive, IInv, TypeOK
  <2> QED
    BY <1>5, <2>1 DEF RemoveInactive
<1>6. ASSUME \/ \E s \in Sessions, a \in Ips : Accept(s, a)
             \/ \E s \in Sessions : Elapse(s)
             \/ CheckInactiveSessions \/ BroadcastCCU
             \/ UNCHANGED vars
      PROVE  EntriesStep
  BY <1>6, <1>1 DEF Accept, Elapse, CheckInactiveSessions, BroadcastCCU, vars, maps
<1> QED
  BY <1>2, <1>3, <1>4, <1>5, <1>6 DEF Next

\* A session leaves sessions_ because of what happens to itself: the destructor of
\* another session, which erases by the token that one remembers, never takes it out.
THEOREM EntriesEndWithTheirSession == Spec => UnregisteredByOwnEnd
<1>1. IInv /\ [Next]_vars =>
          [\A t \in Tokens, s \in Sessions :
              sessions[t] = s /\ sessions'[t] # s =>
                  token'[s] # t \/ ~open'[s] \/ ~Live(s)']_vars
  BY NextSparesEntries DEF EntriesStep
<1> QED
  BY <1>1, SpecKeepsInv, PTL DEF Spec, UnregisteredByOwnEnd

----------------------------------------------------------------------------
(* What keeps a session going: which steps may end the exchange with a client, *)
(* and which may leave a session with no handler that will call handle_error   *)

\* The exchange with s goes on, with one read at a time when s is a client's.
Continues(s) ==
    open[s] => /\ Conversation(s) >= 1
               /\ mirrorPort[s] = NoPort => Conversation(s) = 1

\* A handler of s is running or in flight that answers, reads again or calls
\* handle_error: all but that of a broadcast, which does nothing.
Attended(s) == Conversation(s) + ops[s]["dead"] >= 1

\* A step that ends neither.
Steady(s) ==
    /\ open'[s] =>
          /\ open[s]
          /\ Conversation(s)' >= Conversation(s)
          /\ mirrorPort'[s] = NoPort =>
                mirrorPort[s] = NoPort /\ Conversation(s)' = Conversation(s)
    /\ Attended(s) => Attended(s)'

\* The steps of s in which handle_error is called for it.
Closing(s) == Logout(s) \/ \E k \in OpKinds : OpFails(s, k)

----------------------------------------------------------------------------
(* Counting operations in flight *)

\* Starting an operation adds one of its kind, or a dead one on a closed socket.
LEMMA StartedCounts ==
    ASSUME NEW o \in [OpKinds -> Nat], NEW k \in OpKinds, NEW b \in BOOLEAN
    PROVE  /\ b => /\ Started(o, k, b)[k] = o[k] + 1
                   /\ \A j \in OpKinds \ {k} : Started(o, k, b)[j] = o[j]
           /\ ~b => /\ Started(o, k, b)["dead"] = o["dead"] + 1
                    /\ \A j \in OpKinds \ {"dead"} : Started(o, k, b)[j] = o[j]
<1>1. "dead" \in OpKinds
  BY DEF OpKinds
<1> QED
  BY <1>1 DEF Started

LEMMA WithoutCounts ==
    ASSUME TypeOK, NEW s \in Sessions, NEW k \in OpKinds
    PROVE  /\ Without(s, k)[k] = ops[s][k] - 1
           /\ \A j \in OpKinds \ {k} : Without(s, k)[j] = ops[s][j]
BY DEF Without, TypeOK

\* Counts are natural numbers, and a session that is attended lives.
LEMMA CountTypes ==
    ASSUME TypeOK, NEW s \in Sessions
    PROVE  /\ ops[s] \in [OpKinds -> Nat]
           /\ {ops[s]["handshake"], ops[s]["read"], ops[s]["write"], ops[s]["dead"]} \subseteq Nat
           /\ Conversation(s) \in Nat
           /\ Attended(s) => Live(s)
<1>1. /\ ops[s] \in [OpKinds -> Nat]
      /\ {ops[s]["handshake"], ops[s]["read"], ops[s]["write"], ops[s]["dead"]} \subseteq Nat
  BY DEF TypeOK, OpKinds
<1>2. Conversation(s) \in Nat
  BY <1>1 DEF Conversation
<1>3. ASSUME Attended(s), ~Live(s) PROVE FALSE
  BY <1>3 DEF Attended, Live, Conversation, NoOps, OpKinds
<1> QED
  BY <1>1, <1>2, <1>3

\* What a read that is started adds.
LEMMA ReadCounts ==
    ASSUME NEW o \in [OpKinds -> Nat], NEW b \in BOOLEAN
    PROVE  /\ b => /\ Started(o, "read", b)["read"] = o["read"] + 1
                   /\ \A j \in {"handshake", "write", "dead"} : Started(o, "read", b)[j] = o[j]
           /\ ~b => /\ Started(o, "read", b)["dead"] = o["dead"] + 1
                    /\ \A j \in {"handshake", "read", "write"} : Started(o, "read", b)[j] = o[j]
BY StartedCounts DEF OpKinds

\* A session that a step only closes, if that, goes on as before.
LEMMA SameCountsAreSteady ==
    ASSUME TypeOK, NEW x \in Sessions, Conversation(x)' = Conversation(x),
           ops'[x]["dead"] = ops[x]["dead"], open'[x] => open[x],
           mirrorPort'[x] = mirrorPort[x]
    PROVE  Steady(x)
<1>1. Conversation(x)' >= Conversation(x)
  BY CountTypes
<1>2. Attended(x) => Attended(x)'
  BY DEF Attended
<1> QED
  BY <1>1, <1>2 DEF Steady

LEMMA UntouchedIsSteady ==
    ASSUME TypeOK, NEW x \in Sessions, ops'[x] = ops[x],
           (request' = x) <=> (request = x), open'[x] => open[x],
           mirrorPort'[x] = mirrorPort[x]
    PROVE  Steady(x)
<1>1. Conversation(x)' = Conversation(x)
  BY DEF Conversation
<1> QED
  BY <1>1, SameCountsAreSteady

----------------------------------------------------------------------------
(* Steps that go on *)

LEMMA ReadDoneIsSteady ==
    ASSUME IInv, NEW s \in Sessions, ReadDone(s), NEW x \in Sessions
    PROVE  Steady(x)
<1>1. TypeOK /\ "read" \in OpKinds
  BY DEF IInv, OpKinds
<1>2. /\ ops' = [ops EXCEPT ![s] = Without(s, "read")]
      /\ request' = s /\ request = NoSession
      /\ open' = open /\ mirrorPort' = mirrorPort
  BY DEF ReadDone, Completes, Idle, fields
<1>3. CASE x # s
  BY <1>1, <1>2, <1>3, IdsAssumption, UntouchedIsSteady DEF TypeOK
<1>4. CASE x = s
  <2>1. ops'[s] = Without(s, "read")
    BY <1>1, <1>2 DEF TypeOK
  <2>2. /\ ops'[s]["read"] = ops[s]["read"] - 1
        /\ \A j \in {"handshake", "write", "dead"} : ops'[s][j] = ops[s][j]
    BY <1>1, <2>1, WithoutCounts DEF OpKinds
  <2>3. {ops[s]["handshake"], ops[s]["read"], ops[s]["write"], ops[s]["dead"]} \subseteq Nat
    BY <1>1, CountTypes
  <2>4. request # s
    BY <1>2, IdsAssumption
  <2>5. Conversation(s)' = Conversation(s)
    BY <1>2, <2>2, <2>3, <2>4 DEF Conversation
  <2> QED
    BY <1>1, <1>2, <1>4, <2>2, <2>5, SameCountsAreSteady
<1> QED
  BY <1>3, <1>4

LEMMA WriteDoneIsSteady ==
    ASSUME IInv, NEW s \in Sessions, WriteDone(s), NEW x \in Sessions
    PROVE  Steady(x)
<1> DEFINE o == Without(s, "write")
<1>1. TypeOK /\ "write" \in OpKinds /\ "read" \in OpKinds /\ open[s] \in BOOLEAN
  BY DEF IInv, OpKinds, TypeOK
<1>2. /\ ops' = [ops EXCEPT ![s] = Started(o, "read", open[s])]
      /\ request' = request /\ open' = open /\ mirrorPort' = mirrorPort
      /\ ops[s]["write"] > 0
  BY DEF WriteDone, Completes, fields, thread
<1>3. CASE x # s
  BY <1>1, <1>2, <1>3, UntouchedIsSteady DEF TypeOK
<1>4. CASE x = s
  <2>1. ops'[s] = Started(o, "read", open[s])
    BY <1>1, <1>2 DEF TypeOK
  <2>2. /\ o \in [OpKinds -> Nat]
        /\ o["write"] = ops[s]["write"] - 1
        /\ \A j \in {"handshake", "read", "dead"} : o[j] = ops[s][j]
    BY <1>1, <1>2, WithoutCounts, WithoutFacts DEF OpKinds
  <2> HIDE DEF o
  <2>3. {ops[s]["handshake"], ops[s]["read"], ops[s]["write"], ops[s]["dead"]} \subseteq Nat
    BY <1>1, CountTypes
  <2>4. CASE open[s]
    <3>1. /\ ops'[s]["read"] = o["read"] + 1
          /\ \A j \in {"handshake", "write", "dead"} : ops'[s][j] = o[j]
      <4>1. ops'[s] = Started(o, "read", TRUE)
        BY <1>1, <2>1, <2>4
      <4>2. /\ Started(o, "read", TRUE)["read"] = o["read"] + 1
            /\ \A j \in {"handshake", "write", "dead"} : Started(o, "read", TRUE)[j] = o[j]
        BY <2>2, ReadCounts
      <4> QED
        BY <4>1, <4>2
    <3>2. Conversation(s)' = Conversation(s) /\ ops'[s]["dead"] = ops[s]["dead"]
      BY <1>2, <2>2, <2>3, <3>1 DEF Conversation
    <3> QED
      BY <1>1, <1>2, <1>4, <3>2, SameCountsAreSteady
  <2>5. CASE ~open[s]
    <3>1. /\ ops'[s]["dead"] = o["dead"] + 1
          /\ \A j \in {"handshake", "read", "write"} : ops'[s][j] = o[j]
      BY <1>1, <2>1, <2>2, <2>5, ReadCounts
    <3>2. Attended(s)'
      BY <1>2, <2>2, <2>3, <3>1 DEF Attended, Conversation
    <3> QED
      BY <1>2, <1>4, <2>5, <3>2 DEF Steady
  <2> QED
    BY <2>4, <2>5
<1> QED
  BY <1>3, <1>4

\* A broadcast that is written ends a session only when nothing attends it.
LEMMA CastDoneIsSteady ==
    ASSUME IInv, NEW s \in Sessions, CastDone(s), NEW x \in Sessions
    PROVE  Steady(x)
<1> DEFINE o == Without(s, "cast")
<1>1. TypeOK /\ "cast" \in OpKinds
  BY DEF IInv, OpKinds
<1>2. /\ ops[s]["cast"] > 0 /\ request = NoSession /\ request' = request
      /\ Return(s, o)
  BY DEF CastDone, Completes, Idle, thread
<1>3. \A j \in {"handshake", "read", "write", "dead"} : o[j] = ops[s][j]
  BY <1>1, WithoutCounts DEF OpKinds
<1> HIDE DEF o
<1>4. CASE o = NoOps
  <2>1. /\ ops' = [ops EXCEPT ![s] = NoOps] /\ open' = [open EXCEPT ![s] = FALSE]
        /\ mirrorPort' = [mirrorPort EXCEPT ![s] = NoPort]
    BY <1>2, <1>4 DEF Return, Destroy
  <2>2. CASE x # s
    BY <1>1, <1>2, <2>1, <2>2, UntouchedIsSteady DEF TypeOK
  <2>3. CASE x = s
    <3>1. ~open'[s]
      BY <1>1, <2>1 DEF TypeOK
    <3>2. ~Attended(s)
      BY <1>2, <1>3, <1>4, IdsAssumption DEF Attended, Conversation, NoOps, OpKinds
    <3> QED
      BY <2>3, <3>1, <3>2 DEF Steady
  <2> QED
    BY <2>2, <2>3
<1>5. CASE o # NoOps
  <2>1. /\ ops' = [ops EXCEPT ![s] = o] /\ open' = open /\ mirrorPort' = mirrorPort
    BY <1>2, <1>5 DEF Return, fields
  <2>2. CASE x # s
    BY <1>1, <1>2, <2>1, <2>2, UntouchedIsSteady DEF TypeOK
  <2>3. CASE x = s
    <3>1. \A j \in {"handshake", "read", "write", "dead"} : ops'[s][j] = ops[s][j]
      BY <1>1, <1>3, <2>1 DEF TypeOK
    <3>2. Conversation(s)' = Conversation(s)
      BY <1>2, <3>1 DEF Conversation
    <3> QED
      BY <1>1, <2>1, <2>3, <3>1, <3>2, SameCountsAreSteady
  <2> QED
    BY <2>2, <2>3
<1> QED
  BY <1>4, <1>5

\* The operations after an answer keep the exchange going: a write takes the place
\* of the request that is answered.
LEMMA AnswerCounts ==
    ASSUME NEW o \in [OpKinds -> Nat], NEW b \in BOOLEAN
    PROVE  /\ b => /\ Started(o, "write", b)["write"] = o["write"] + 1
                   /\ \A j \in {"handshake", "read", "dead"} : Started(o, "write", b)[j] = o[j]
           /\ ~b => /\ Started(o, "write", b)["dead"] = o["dead"] + 1
                    /\ \A j \in {"handshake", "read", "write"} : Started(o, "write", b)[j] = o[j]
BY StartedCounts DEF OpKinds

LEMMA RespondIsSteady ==
    ASSUME IInv, NEW s \in Sessions, Respond(s), NEW x \in Sessions
    PROVE  Steady(x)
<1>1. TypeOK /\ open[s] \in BOOLEAN
  BY DEF IInv, TypeOK
<1>2. /\ ops' = [ops EXCEPT ![s] = Started(ops[s], "write", open[s])]
      /\ request = s /\ request' = NoSession
      /\ open' = open /\ mirrorPort' = mirrorPort
  BY DEF Respond
<1>3. CASE x # s
  BY <1>1, <1>2, <1>3, IdsAssumption, UntouchedIsSteady DEF TypeOK
<1>4. CASE x = s
  <2>1. /\ ops[s] \in [OpKinds -> Nat]
        /\ {ops[s]["handshake"], ops[s]["read"], ops[s]["write"], ops[s]["dead"]} \subseteq Nat
    BY <1>1, CountTypes
  <2>2. ops'[s] = Started(ops[s], "write", open[s])
    BY <1>1, <1>2 DEF TypeOK
  <2>3. request' # s
    BY <1>2, IdsAssumption
  <2>4. CASE open[s]
    <3>1. /\ ops'[s]["write"] = ops[s]["write"] + 1
          /\ \A j \in {"handshake", "read", "dead"} : ops'[s][j] = ops[s][j]
      <4>1. /\ Started(ops[s], "write", open[s])["write"] = ops[s]["write"] + 1
            /\ \A j \in {"handshake", "read", "dead"} : Started(ops[s], "write", open[s])[j] = ops[s][j]
        BY <1>1, <2>1, <2>4, AnswerCounts
      <4> QED
        BY <2>2, <4>1
    <3>2. Conversation(s)' = Conversation(s)
      BY <1>1, <1>2, <2>1, <2>3, <3>1 DEF Conversation
    <3> QED
      BY <1>1, <1>2, <1>4, <3>1, <3>2, SameCountsAreSteady
  <2>5. CASE ~open[s]
    <3>1. /\ ops'[s]["dead"] = ops[s]["dead"] + 1
          /\ \A j \in {"handshake", "read", "write"} : ops'[s][j] = ops[s][j]
      <4>1. /\ Started(ops[s], "write", open[s])["dead"] = ops[s]["dead"] + 1
            /\ \A j \in {"handshake", "read", "write"} : Started(ops[s], "write", open[s])[j] = ops[s][j]
        BY <1>1, <2>1, <2>5, AnswerCounts
      <4> QED
        BY <2>2, <4>1
    <3>2. Attended(s)'
      BY <2>1, <2>3, <3>1 DEF Attended, Conversation
    <3> QED
      BY <1>2, <1>4, <2>5, <3>2 DEF Steady
  <2> QED
    BY <2>4, <2>5
<1> QED
  BY <1>3, <1>4

\* The mirror server of a new room is told by one more write, which may make its
\* session read twice at a time, but never leaves it without a read.
LEMMA CreateRoomIsSteady ==
    ASSUME IInv, NEW s \in Sessions, NEW p \in Ports, CreateRoom(s, p), NEW x \in Sessions
    PROVE  Steady(x)
<1> DEFINE m == GetMirrorSession(p)
           told == [ops EXCEPT ![m] = Started(ops[m], "write", open[m])]
           o == Started(told[s], "write", open[s])
<1>1. TypeOK /\ open[x] \in BOOLEAN /\ p # NoPort
  BY IdsAssumption DEF IInv, TypeOK
<1>2. m \in Sessions /\ mirrorPort[m] = p
  BY DEF CreateRoom, GetMirrorSession, IInv, TypeOK, MapsInv, EntriesAreOwn
<1>3. /\ ops' = [told EXCEPT ![s] = o]
      /\ request = s /\ request' = NoSession
      /\ open' = open /\ mirrorPort' = mirrorPort
  BY DEF CreateRoom
<1> HIDE DEF m
<1>4. /\ x # m => told[x] = ops[x]
      /\ told[m] = Started(ops[m], "write", open[m])
      /\ told[x] \in [OpKinds -> Nat]
  <2>1. ops[m] \in [OpKinds -> Nat] /\ open[m] \in BOOLEAN /\ "write" \in OpKinds
    BY <1>1, <1>2 DEF TypeOK, OpKinds
  <2>2. Started(ops[m], "write", open[m]) \in [OpKinds -> Nat]
    BY <2>1, StartedFacts
  <2> QED
    BY <1>1, <1>2, <2>1, <2>2 DEF TypeOK
<1>5. DOMAIN told = Sessions
  BY <1>1 DEF TypeOK
<1>6. /\ x # s => ops'[x] = told[x]
      /\ x = s => ops'[x] = Started(told[x], "write", open[x])
  BY <1>3, <1>5
<1> HIDE DEF told, o
<1>7. /\ ops[x] \in [OpKinds -> Nat]
      /\ {ops[x]["handshake"], ops[x]["read"], ops[x]["write"], ops[x]["dead"]} \subseteq Nat
      /\ {told[x]["handshake"], told[x]["read"], told[x]["write"], told[x]["dead"]} \subseteq Nat
      /\ Conversation(x) \in Nat
  BY <1>1, <1>4, CountTypes DEF OpKinds
<1>8. request' # x /\ open'[x] = open[x] /\ mirrorPort'[x] = mirrorPort[x]
  BY <1>3, IdsAssumption
<1>9. /\ open[x] => /\ x # s => /\ ops'[x]["write"] = told[x]["write"]
                                /\ ops'[x]["dead"] = told[x]["dead"]
                    /\ x = s => /\ ops'[x]["write"] = told[x]["write"] + 1
                                /\ ops'[x]["dead"] = told[x]["dead"]
                    /\ ops'[x]["handshake"] = told[x]["handshake"]
                    /\ ops'[x]["read"] = told[x]["read"]
      /\ ~open[x] => /\ x # s => ops'[x] = told[x]
                     /\ x = s => ops'[x]["dead"] = told[x]["dead"] + 1
                     /\ ops'[x]["handshake"] = told[x]["handshake"]
                     /\ ops'[x]["read"] = told[x]["read"]
                     /\ ops'[x]["write"] = told[x]["write"]
  <2>1. CASE x # s
    BY <1>6, <2>1
  <2>2. CASE x = s
    BY <1>1, <1>4, <1>6, <2>2, AnswerCounts
  <2> QED
    BY <2>1, <2>2
<1>10. CASE x # m
  <2>1. told[x] = ops[x]
    BY <1>4, <1>10
  <2>2. CASE x # s
    <3>1. ops'[x] = ops[x]
      BY <1>6, <2>1, <2>2
    <3> QED
      BY <1>1, <1>3, <1>8, <2>2, <3>1, UntouchedIsSteady
  <2>3. CASE x = s /\ open[x]
    <3>1. Conversation(x)' = Conversation(x) /\ ops'[x]["dead"] = ops[x]["dead"]
      BY <1>3, <1>7, <1>8, <1>9, <2>1, <2>3 DEF Conversation
    <3> QED
      BY <1>1, <1>8, <3>1, SameCountsAreSteady
  <2>4. CASE x = s /\ ~open[x]
    <3>1. Attended(x)'
      BY <1>7, <1>8, <1>9, <2>1, <2>4 DEF Attended, Conversation
    <3> QED
      BY <1>8, <2>4, <3>1 DEF Steady
  <2> QED
    BY <2>2, <2>3, <2>4
<1>11. CASE x = m
  <2>1. mirrorPort'[x] # NoPort
    BY <1>1, <1>2, <1>8, <1>11
  <2>2. CASE open[x]
    <3>1. /\ told[x]["write"] = ops[x]["write"] + 1
          /\ \A j \in {"handshake", "read", "dead"} : told[x][j] = ops[x][j]
      <4>1. told[x] = Started(ops[x], "write", TRUE)
        BY <1>1, <1>4, <1>11, <2>2
      <4> QED
        BY <1>7, <4>1, AnswerCounts
    <3>2. /\ ops'[x]["handshake"] = ops[x]["handshake"]
          /\ ops'[x]["read"] = ops[x]["read"]
          /\ ops'[x]["dead"] = ops[x]["dead"]
          /\ x # s => ops'[x]["write"] = ops[x]["write"] + 1
          /\ x = s => ops'[x]["write"] = ops[x]["write"] + 1 + 1
      BY <1>9, <2>2, <3>1
    <3>3. Conversation(x)' >= Conversation(x) /\ Conversation(x)' >= 1
      BY <1>3, <1>7, <1>8, <3>2 DEF Conversation
    <3>4. Attended(x)'
      <4>1. ops'[x]["dead"] \in Nat /\ Conversation(x)' \in Nat
        BY <1>7, <1>8, <3>2 DEF Conversation
      <4> QED
        BY <3>3, <4>1 DEF Attended
    <3> QED
      BY <1>8, <2>1, <2>2, <3>3, <3>4 DEF Steady
  <2>3. CASE ~open[x]
    <3>1. /\ told[x]["dead"] = ops[x]["dead"] + 1
          /\ \A j \in {"handshake", "read", "write"} : told[x][j] = ops[x][j]
      BY <1>1, <1>4, <1>7, <1>11, <2>3, AnswerCounts
    <3>2. ops'[x]["dead"] \in Nat /\ ops'[x]["dead"] >= 1
      BY <1>7, <1>9, <2>3, <3>1
    <3>3. Attended(x)'
      BY <1>7, <1>8, <1>9, <2>3, <3>2 DEF Attended, Conversation
    <3> QED
      BY <1>8, <2>3, <3>3 DEF Steady
  <2> QED
    BY <2>2, <2>3
<1> QED
  BY <1>10, <1>11

\* A broadcast adds writes whose handlers do not read.
LEMMA BroadcastCCUIsSteady ==
    ASSUME IInv, BroadcastCCU, NEW x \in Sessions
    PROVE  Steady(x)
<1>1. /\ TypeOK /\ "cast" \in OpKinds /\ open[x] \in BOOLEAN
      /\ ops[x] \in [OpKinds -> Nat]
  BY DEF IInv, TypeOK, OpKinds
<1>2. /\ ops'[x] = IF x \in Listeners THEN Started(ops[x], "cast", open[x]) ELSE ops[x]
      /\ request' = request /\ open' = open /\ mirrorPort' = mirrorPort
  BY DEF BroadcastCCU, fields, thread
<1>3. CASE x \notin Listeners
  BY <1>1, <1>2, <1>3, UntouchedIsSteady
<1>4. CASE x \in Listeners
  <2>1. /\ \A j \in {"handshake", "read", "write"} : ops'[x][j] = ops[x][j]
        /\ open[x] => ops'[x]["dead"] = ops[x]["dead"]
        /\ ~open[x] => ops'[x]["dead"] = ops[x]["dead"] + 1
    BY <1>1, <1>2, <1>4, StartedCounts DEF OpKinds
  <2>2. Conversation(x)' = Conversation(x)
    BY <1>2, <2>1 DEF Conversation
  <2>3. CASE open[x]
    BY <1>1, <1>2, <2>1, <2>2, <2>3, SameCountsAreSteady
  <2>4. CASE ~open[x]
    <3>1. ops[x]["dead"] \in Nat /\ Conversation(x) \in Nat
      BY <1>1, CountTypes
    <3>2. Attended(x)'
      BY <2>1, <2>2, <2>4, <3>1 DEF Attended
    <3> QED
      BY <1>2, <2>4, <3>2 DEF Steady
  <2> QED
    BY <2>3, <2>4
<1> QED
  BY <1>3, <1>4

\* The clock and the time-out start and end no operation; the time-out closes.
LEMMA TimersAreSteady ==
    ASSUME IInv, NEW x \in Sessions,
           \/ CheckInactiveSessions
           \/ \E t \in Tokens : RemoveInactive(t)
           \/ \E s \in Sessions : Elapse(s)
    PROVE  Steady(x)
<1>1. TypeOK
  BY DEF IInv
<1>2. ops' = ops /\ request' = request /\ mirrorPort' = mirrorPort
  BY DEF CheckInactiveSessions, RemoveInactive, Elapse, fields, thread
<1>3. open'[x] => open[x]
  BY DEF CheckInactiveSessions, RemoveInactive, Elapse
<1> QED
  BY <1>1, <1>2, <1>3, UntouchedIsSteady

----------------------------------------------------------------------------
(* Steps that start or end a session *)

\* handle_error closes the socket, and touches no other session.
LEMMA ClosingTouchesItself ==
    ASSUME IInv, NEW s \in Sessions, NEW left \in [OpKinds -> Nat],
           CloseAndReturn(s, left), request \in {NoSession, s}, request' = NoSession,
           NEW x \in Sessions
    PROVE  (x # s => Steady(x)) /\ ~open'[s]
<1>1. TypeOK
  BY DEF IInv
<1>2. /\ open' = [open EXCEPT ![s] = FALSE]
      /\ \E o : ops' = [ops EXCEPT ![s] = o]
      /\ \E p : mirrorPort' = [mirrorPort EXCEPT ![s] = p]
  <2>1. CASE left = NoOps
    BY <2>1 DEF CloseAndReturn, Destroy
  <2>2. CASE left # NoOps
    BY <2>2, <1>1 DEF CloseAndReturn, fields, TypeOK
  <2> QED
    BY <2>1, <2>2
<1>3. ~open'[s]
  BY <1>1, <1>2 DEF TypeOK
<1>4. CASE x # s
  <2>1. ops'[x] = ops[x] /\ mirrorPort'[x] = mirrorPort[x] /\ open'[x] = open[x]
    BY <1>1, <1>2, <1>4 DEF TypeOK
  <2>2. request # x /\ request' # x
    BY <1>4, IdsAssumption
  <2> QED
    BY <1>1, <1>3, <1>4, <2>1, <2>2, UntouchedIsSteady
<1> QED
  BY <1>3, <1>4

LEMMA ClosingIsSteadyForOthers ==
    ASSUME IInv, NEW s \in Sessions, Closing(s), NEW x \in Sessions
    PROVE  (x # s => Steady(x)) /\ ~open'[s]
<1>1. CASE Logout(s)
  <2>1. ops[s] \in [OpKinds -> Nat]
    BY CountTypes DEF IInv
  <2> QED
    BY <1>1, <2>1, ClosingTouchesItself DEF Logout
<1>2. ASSUME NEW k \in OpKinds, OpFails(s, k)
      PROVE  (x # s => Steady(x)) /\ ~open'[s]
  <2>1. Without(s, k) \in [OpKinds -> Nat]
    BY <1>2, WithoutFacts DEF OpFails, Completes, IInv
  <2> QED
    BY <1>2, <2>1, ClosingTouchesItself DEF OpFails, Completes, Idle, thread
<1> QED
  BY <1>1, <1>2 DEF Closing

\* With nothing else in flight, an operation is all the exchange there is.
LEMMA FirstOperation ==
    ASSUME NEW k \in {"handshake", "write"}
    PROVE  Started(NoOps, k, TRUE)["handshake"] + Started(NoOps, k, TRUE)["read"]
              + Started(NoOps, k, TRUE)["write"] = 1
<1> DEFINE o == Started(NoOps, k, TRUE)
<1>1. NoOps \in [OpKinds -> Nat] /\ k \in OpKinds /\ \A j \in OpKinds : NoOps[j] = 0
  BY NoOpsType DEF OpKinds, NoOps
<1>2. /\ o[k] = NoOps[k] + 1
      /\ \A j \in OpKinds \ {k} : o[j] = NoOps[j]
  <2>1. TRUE \in BOOLEAN
    OBVIOUS
  <2> QED
    BY <1>1, <2>1, StartedCounts
<1> HIDE DEF o
<1>3. o[k] = 1 /\ \A j \in OpKinds \ {k} : o[j] = 0
  BY <1>1, <1>2
<1>4. k \in {"handshake", "write"} /\ {"handshake", "write", "read"} \subseteq OpKinds
  BY DEF OpKinds
<1>5. o["handshake"] + o["read"] + o["write"] = 1
  BY <1>3, <1>4
<1> QED
  BY <1>5 DEF o

\* A new connection waits for its handshake.
LEMMA AcceptContinues ==
    ASSUME IInv, NEW s \in Sessions, NEW a \in Ips, Accept(s, a), NEW x \in Sessions
    PROVE  (x # s => Steady(x)) /\ Conversation(s)' = 1
<1>1. TypeOK /\ "handshake" \in OpKinds /\ NoOps \in [OpKinds -> Nat]
  BY NoOpsType DEF IInv, OpKinds
<1>2. /\ ops' = [ops EXCEPT ![s] = Started(NoOps, "handshake", TRUE)]
      /\ open' = [open EXCEPT ![s] = TRUE]
      /\ request' = request /\ mirrorPort' = mirrorPort /\ request = NoSession
  BY DEF Accept, thread, Idle
<1>3. ASSUME x # s PROVE Steady(x)
  <2>1. ops'[x] = ops[x] /\ open'[x] = open[x]
    BY <1>1, <1>2, <1>3 DEF TypeOK
  <2> QED
    BY <1>1, <1>2, <2>1, UntouchedIsSteady
<1>4. Conversation(s)' = 1
  <2>1. ops'[s] = Started(NoOps, "handshake", TRUE)
    BY <1>1, <1>2 DEF TypeOK
  <2>2. ops'[s]["handshake"] + ops'[s]["read"] + ops'[s]["write"] = 1
    BY <2>1, FirstOperation
  <2>3. request' # s
    BY <1>2, IdsAssumption
  <2> QED
    BY <2>2, <2>3 DEF Conversation
<1> QED
  BY <1>3, <1>4

\* After a handshake the session is closed, or has one operation in flight, or its
\* handshake is the request.  It is nobody's in both cases; a mirror server's is
\* nobody's before.
LEMMA HandshakeContinues ==
    ASSUME IInv, NEW s \in Sessions, Handshake(s), NEW x \in Sessions
    PROVE  /\ x # s => Steady(x)
           /\ open'[s] => Conversation(s)' = 1
           /\ userId[s] \notin Users /\ userId'[s] \notin Users
<1> DEFINE Goal == /\ x # s => Steady(x)
                   /\ open'[s] => Conversation(s)' = 1
                   /\ userId[s] \notin Users /\ userId'[s] \notin Users
<1>1. /\ TypeOK /\ NoOps \in [OpKinds -> Nat] /\ open[s] \in BOOLEAN
      /\ \A j \in OpKinds : NoOps[j] = 0
  BY NoOpsType DEF IInv, NoOps, TypeOK
<1>2. ASSUME Completes(s, "handshake")
      PROVE  /\ Without(s, "handshake") = NoOps
             /\ request = NoSession /\ userId[s] = Nobody
  BY <1>2, BeforeHandshake DEF Blank
<1>a. ASSUME request = NoSession, request' \in {NoSession, s}, x # s,
             ops'[x] = ops[x], open'[x] = open[x], mirrorPort'[x] = mirrorPort[x]
      PROVE  Steady(x)
  BY <1>1, <1>a, IdsAssumption, UntouchedIsSteady
<1>3. ASSUME NEW p \in Ports, MirrorHandshake(s, p) PROVE Goal
  <2>1. /\ ops' = [ops EXCEPT ![s] = Started(NoOps, "write", open[s])]
        /\ open' = open /\ request' = request /\ request = NoSession
        /\ mirrorPort' = [mirrorPort EXCEPT ![s] = p]
        /\ userId' = [userId EXCEPT ![s] = p] /\ userId[s] = Nobody
    BY <1>2, <1>3 DEF MirrorHandshake, thread
  <2>2. x # s => Steady(x)
    BY <1>1, <1>a, <2>1 DEF TypeOK
  <2>3. ASSUME open'[s] PROVE Conversation(s)' = 1
    <3>1. ops'[s] = Started(NoOps, "write", TRUE)
      BY <1>1, <2>1, <2>3 DEF TypeOK
    <3>2. ops'[s]["handshake"] + ops'[s]["read"] + ops'[s]["write"] = 1
      BY <3>1, FirstOperation
    <3>3. request' # s
      BY <2>1, IdsAssumption
    <3> QED
      BY <3>2, <3>3 DEF Conversation
  <2>4. userId[s] \notin Users /\ userId'[s] \notin Users
    BY <1>1, <2>1, IdsAssumption DEF TypeOK
  <2> QED
    BY <2>2, <2>3, <2>4
<1>4. ASSUME NEW p \in Ports, MalformedMirrorHandshake(s, p) PROVE Goal
  <2>1. /\ ops' = [ops EXCEPT ![s] = NoOps] /\ open' = [open EXCEPT ![s] = FALSE]
        /\ request' = request /\ request = NoSession
        /\ mirrorPort' = mirrorPort /\ userId' = userId /\ userId[s] = Nobody
    BY <1>2, <1>4 DEF MalformedMirrorHandshake, thread
  <2>2. x # s => Steady(x)
    BY <1>1, <1>a, <2>1 DEF TypeOK
  <2>3. ~open'[s]
    BY <1>1, <2>1 DEF TypeOK
  <2> QED
    BY <2>1, <2>2, <2>3, IdsAssumption
<1>5. ASSUME OutdatedHandshake(s) PROVE Goal
  <2>1. /\ CloseAndReturn(s, AfterAllow(s))
        /\ request' = request /\ request = NoSession /\ userId[s] = Nobody
    BY <1>2, <1>5 DEF OutdatedHandshake, thread
  <2>2. (x # s => Steady(x)) /\ ~open'[s]
    BY <1>1, <2>1, AfterAllowFacts, ClosingTouchesItself
  <2>3. userId'[s] = Nobody
    BY <1>1, <2>1 DEF CloseAndReturn, Destroy, fields, TypeOK
  <2> QED
    BY <2>1, <2>2, <2>3, IdsAssumption
<1>6. ASSUME NEW t \in Tokens, NEW isRequest \in BOOLEAN, ClientHandshake(s, t, isRequest)
      PROVE  Goal
  <2>1. /\ \E o : ops' = [ops EXCEPT ![s] = o]
        /\ open' = [open EXCEPT ![s] = open[s] /\ AllowConnection(s)]
        /\ request = NoSession /\ request' = IF isRequest THEN s ELSE NoSession
        /\ mirrorPort' = mirrorPort /\ userId' = userId /\ userId[s] = Nobody
    BY <1>2, <1>6 DEF ClientHandshake
  <2>2. x # s => Steady(x)
    BY <1>1, <1>a, <2>1 DEF TypeOK
  <2>3. ASSUME open'[s] PROVE Conversation(s)' = 1
    <3>1. open[s] = TRUE /\ AllowConnection(s)
      BY <1>1, <2>1, <2>3 DEF TypeOK
    <3>2. AfterAllow(s) = NoOps
      BY <3>1 DEF AfterAllow
    <3>3. CASE isRequest
      <4>1. ops'[s] = NoOps
        BY <1>1, <1>6, <3>2, <3>3 DEF ClientHandshake, TypeOK
      <4> QED
        BY <1>1, <2>1, <3>3, <4>1 DEF Conversation, OpKinds
    <3>4. CASE ~isRequest
      <4>1. ops'[s] = Started(NoOps, "write", open[s] /\ AllowConnection(s))
        BY <1>1, <1>6, <3>2, <3>4 DEF ClientHandshake, TypeOK
      <4>2. ops'[s] = Started(NoOps, "write", TRUE)
        BY <3>1, <4>1
      <4>3. ops'[s]["handshake"] + ops'[s]["read"] + ops'[s]["write"] = 1
        BY <4>2, FirstOperation
      <4> QED
        BY <2>1, <3>4, <4>3, IdsAssumption DEF Conversation
    <3> QED
      BY <3>3, <3>4
  <2> QED
    BY <2>1, <2>2, <2>3, IdsAssumption
<1> QED
  BY <1>3, <1>4, <1>5, <1>6 DEF Handshake

----------------------------------------------------------------------------
(* Every step *)

\* The steps of s that do not call handle_error for it, requests first.
Answered(s) ==
    \/ AnswerOnly(s) \/ AlivePing(s) \/ LoginLosesUser(s) \/ JoinRoom(s) \/ ExitRoom(s)
    \/ \E u \in Users, t \in Tokens : Login(s, u, t)
    \/ \E p \in Ports : CreateRoom(s, p) \/ CreateRoomNoMirror(s, p)

Completed(s) == ReadDone(s) \/ WriteDone(s) \/ CastDone(s)

Begun(s) == Handshake(s) \/ \E a \in Ips : Accept(s, a)

Ticked ==
    \/ CheckInactiveSessions \/ BroadcastCCU
    \/ \E t \in Tokens : RemoveInactive(t)
    \/ \E s \in Sessions : Elapse(s)

LEMMA GoingOnIsSteady ==
    ASSUME IInv, NEW x \in Sessions,
           Ticked \/ \E s \in Sessions : Answered(s) \/ Completed(s)
    PROVE  Steady(x)
<1>1. ASSUME NEW s \in Sessions, Answered(s) PROVE Steady(x)
  <2>1. ASSUME NEW p \in Ports, CreateRoom(s, p) PROVE Steady(x)
    BY <2>1, CreateRoomIsSteady
  <2>2. ASSUME Respond(s) PROVE Steady(x)
    BY <2>2, RespondIsSteady
  <2> QED
    BY <1>1, <2>1, <2>2
       DEF Answered, AnswerOnly, AlivePing, LoginLosesUser, JoinRoom, ExitRoom, Login,
           CreateRoomNoMirror
<1>2. ASSUME NEW s \in Sessions, Completed(s) PROVE Steady(x)
  BY <1>2, ReadDoneIsSteady, WriteDoneIsSteady, CastDoneIsSteady DEF Completed
<1>3. ASSUME Ticked PROVE Steady(x)
  BY <1>3, BroadcastCCUIsSteady, TimersAreSteady DEF Ticked
<1> QED
  BY <1>1, <1>2, <1>3

\* Whatever a step is, it is one of these.
LEMMA StepsByEffect ==
    ASSUME Next
    PROVE  \/ Ticked
           \/ \E s \in Sessions : Answered(s) \/ Completed(s) \/ Begun(s) \/ Closing(s)
BY DEF Next, Ticked, Answered, Completed, Begun, Closing, Completion, Request

LEMMA EffectsAreSteps ==
    /\ Ticked => Next
    /\ \A s \in Sessions : Answered(s) \/ Completed(s) \/ Begun(s) \/ Closing(s) => Next
BY DEF Next, Ticked, Answered, Completed, Begun, Closing, Completion, Request

LEMMA NextKeepsConversations ==
    IInv /\ ConversationContinues /\ [Next]_vars => ConversationContinues'
<1> SUFFICES ASSUME IInv, ConversationContinues, [Next]_vars, NEW x \in Sessions
             PROVE  Continues(x)'
  BY DEF ConversationContinues, Continues
<1>1. Continues(x) /\ TypeOK /\ TypeOK'
  BY NextKeepsInv DEF ConversationContinues, Continues, IInv
<1>2. Conversation(x) \in Nat
  BY <1>1, CountTypes
<1>3. ASSUME Steady(x) PROVE Continues(x)'
  <2> SUFFICES ASSUME open'[x]
               PROVE  /\ Conversation(x)' >= 1
                      /\ mirrorPort'[x] = NoPort => Conversation(x)' = 1
    BY DEF Continues
  <2>1. /\ open[x] /\ Conversation(x)' >= Conversation(x)
        /\ mirrorPort'[x] = NoPort =>
              mirrorPort[x] = NoPort /\ Conversation(x)' = Conversation(x)
    BY <1>3 DEF Steady
  <2>2. Conversation(x) >= 1 /\ (mirrorPort[x] = NoPort => Conversation(x) = 1)
    BY <1>1, <2>1 DEF Continues
  <2>3. Conversation(x)' \in Nat
    <3>1. ops'[x] \in [OpKinds -> Nat]
      BY <1>1 DEF TypeOK
    <3> QED
      BY <3>1 DEF Conversation, OpKinds
  <2> HIDE DEF Conversation
  <2> QED
    BY <1>2, <2>1, <2>2, <2>3
<1>4. ASSUME open'[x] => Conversation(x)' = 1 PROVE Continues(x)'
  BY <1>4 DEF Continues
<1>5. CASE UNCHANGED vars
  <2>1. ops' = ops /\ request' = request /\ open' = open /\ mirrorPort' = mirrorPort
    BY <1>5 DEF vars, fields, thread
  <2> QED
    BY <1>1, <1>3, <2>1, UntouchedIsSteady
<1>6. ASSUME Ticked \/ \E s \in Sessions : Answered(s) \/ Completed(s)
      PROVE  Continues(x)'
  BY <1>3, <1>6, GoingOnIsSteady
<1>7. ASSUME NEW s \in Sessions, Begun(s) PROVE Continues(x)'
  <2>1. (x # s => Steady(x)) /\ (open'[s] => Conversation(s)' = 1)
    BY <1>7, HandshakeContinues, AcceptContinues DEF Begun
  <2> QED
    BY <1>3, <1>4, <2>1
<1>8. ASSUME NEW s \in Sessions, Closing(s) PROVE Continues(x)'
  <2>1. (x # s => Steady(x)) /\ ~open'[s]
    BY <1>8, ClosingIsSteadyForOthers
  <2> QED
    BY <1>3, <1>4, <2>1
<1> QED
  BY <1>5, <1>6, <1>7, <1>8, StepsByEffect

\* Every path through the handlers of a session whose socket is open starts the
\* next operation, and for a client's session never a second read.
THEOREM ConversationsContinue == Spec => []ConversationContinues
<1>1. Init => ConversationContinues
  BY DEF Init, ConversationContinues
<1> QED
  BY <1>1, SpecKeepsInv, NextKeepsConversations, PTL DEF Spec

----------------------------------------------------------------------------
(* Facts for the modules that compose the sessions with the services *)

\* Every fact that the invariant states of the registry's safety properties.
LEMMA InvAgrees == IInv => NoDanglingEntry /\ OneSessionPerUser /\ LoginIsRegistered
BY InvNamesLiveSessions, InvHasOneSessionPerUser DEF IInv, MapsInv

\* A request is attended until it is answered, and who is attended lives.
LEMMA AttendedFacts ==
    IInv => \A s \in Sessions :
                /\ request = s => Attended(s)
                /\ Attended(s) => Live(s)
                /\ ~Live(s) => userId[s] = Nobody
<1> SUFFICES ASSUME IInv, NEW s \in Sessions
             PROVE  /\ request = s => Attended(s)
                    /\ Attended(s) => Live(s)
                    /\ ~Live(s) => userId[s] = Nobody
  OBVIOUS
<1>1. {ops[s]["handshake"], ops[s]["read"], ops[s]["write"], ops[s]["dead"]} \subseteq Nat
  BY CountTypes DEF IInv
<1>2. request = s => Attended(s)
  BY <1>1 DEF Attended, Conversation
<1> QED
  BY <1>2, CountTypes DEF IInv, LifeInv, GoneIsBlank, Blank

\* Only handle_error leaves a user's session with nobody to call it once more.
LEMMA AttentionIsKept ==
    IInv =>
      /\ Ticked => \A x \in Sessions : Attended(x) => Attended(x)'
      /\ \A s, x \in Sessions :
            /\ Answered(s) \/ Completed(s) => (Attended(x) => Attended(x)')
            /\ Closing(s) /\ x # s => (Attended(x) => Attended(x)')
            /\ Begun(s) =>
                  \/ Attended(x) => Attended(x)'
                  \/ userId[x] \notin Users /\ userId'[x] \notin Users
<1> SUFFICES ASSUME IInv, NEW s \in Sessions, NEW x \in Sessions
             PROVE  /\ Ticked => (Attended(x) => Attended(x)')
                    /\ Answered(s) \/ Completed(s) => (Attended(x) => Attended(x)')
                    /\ Closing(s) /\ x # s => (Attended(x) => Attended(x)')
                    /\ Begun(s) =>
                          \/ Attended(x) => Attended(x)'
                          \/ userId[x] \notin Users /\ userId'[x] \notin Users
  OBVIOUS
<1>1. Steady(x) => (Attended(x) => Attended(x)')
  BY DEF Steady
<1>2. Ticked \/ Answered(s) \/ Completed(s) => Steady(x)
  BY GoingOnIsSteady
<1>3. Closing(s) /\ x # s => Steady(x)
  BY ClosingIsSteadyForOthers
<1>4. ASSUME Handshake(s)
      PROVE  \/ Steady(x)
             \/ userId[x] \notin Users /\ userId'[x] \notin Users
  BY <1>4, HandshakeContinues
<1>5. ASSUME NEW a \in Ips, Accept(s, a) PROVE Attended(x) => Attended(x)'
  <2>1. CASE x # s
    BY <1>1, <1>5, <2>1, AcceptContinues
  <2>2. CASE x = s
    BY <1>5, <2>2, CountTypes DEF Accept, IInv
  <2> QED
    BY <2>1, <2>2
<1> QED
  BY <1>1, <1>2, <1>3, <1>4, <1>5 DEF Begun

\* A session gets a user only when it is asked to log in.
LEMMA UsersComeByRequest ==
    IInv =>
      \A x \in Sessions :
         /\ Ticked => userId'[x] = userId[x]
         /\ \A s \in Sessions :
               /\ Answered(s) => userId'[x] = userId[x] \/ request = x
               /\ Completed(s) \/ Begun(s) \/ Closing(s) =>
                     (userId'[x] \in Users => userId'[x] = userId[x])
<1> SUFFICES ASSUME IInv, NEW x \in Sessions, NEW s \in Sessions
             PROVE  /\ Ticked => userId'[x] = userId[x]
                    /\ Answered(s) => userId'[x] = userId[x] \/ request = x
                    /\ Completed(s) \/ Begun(s) \/ Closing(s) =>
                          (userId'[x] \in Users => userId'[x] = userId[x])
  OBVIOUS
<1> DEFINE Goal == userId'[x] \in Users => userId'[x] = userId[x]
<1>0. userId \in [Sessions -> Users \cup Ports \cup {Nobody, Unknown}]
  BY DEF IInv, TypeOK
<1>1. Ticked => userId'[x] = userId[x]
  BY DEF Ticked, CheckInactiveSessions, BroadcastCCU, RemoveInactive, Elapse, fields
<1>2. ASSUME Answered(s) PROVE userId'[x] = userId[x] \/ request = x
  <2>1. request = s /\ (userId' = userId \/ \E u : userId' = [userId EXCEPT ![s] = u])
    BY <1>2 DEF Answered, AnswerOnly, AlivePing, LoginLosesUser, JoinRoom, ExitRoom, Login,
                CreateRoom, CreateRoomNoMirror, Respond
  <2> QED
    BY <1>0, <2>1
<1>3. ASSUME userId' = userId \/ userId' = [userId EXCEPT ![s] = Nobody] PROVE Goal
  BY <1>0, <1>3, IdsAssumption
<1>4. ASSUME NEW left, Return(s, left) \/ CloseAndReturn(s, left) PROVE Goal
  BY <1>3, <1>4 DEF Return, CloseAndReturn, Destroy, fields
<1>5. ASSUME Completed(s) PROVE Goal
  BY <1>3, <1>4, <1>5 DEF Completed, ReadDone, WriteDone, CastDone, fields
<1>6. ASSUME Closing(s) PROVE Goal
  BY <1>4, <1>6 DEF Closing, Logout, OpFails
<1>7. ASSUME Handshake(s) PROVE Goal
  <2>1. CASE OutdatedHandshake(s)
    BY <1>4, <2>1 DEF OutdatedHandshake
  <2>2. ASSUME NEW p \in Ports, MirrorHandshake(s, p) PROVE Goal
    BY <1>0, <2>2, IdsAssumption DEF MirrorHandshake
  <2> QED
    BY <1>3, <1>7, <2>1, <2>2 DEF Handshake, MalformedMirrorHandshake, ClientHandshake
<1>8. ASSUME NEW a \in Ips, Accept(s, a) PROVE Goal
  BY <1>3, <1>8 DEF Accept
<1> QED
  BY <1>1, <1>2, <1>5, <1>6, <1>7, <1>8 DEF Begun

\* Entries of tokens_ are erased by the end of their own session only.
LEMMA StepsSpareLogins == IInv /\ [Next]_vars => TokensStep
BY NextSparesLogins
=============================================================================
