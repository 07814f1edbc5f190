------------------------------ MODULE Accounts ------------------------------
(***************************************************************************)
(* Accounts of the MatchingServer and the connections they are reached by: *)
(* the requests of AuthService as the calls of UserRepository they make,   *)
(* each with a connection of DbPool.  The server has one thread, so that a *)
(* request is handled to its end before the next one; PostgreSQL may stop  *)
(* and start at any time, and the server may die between two calls.        *)
(***************************************************************************)
EXTENDS Integers, Sequences, FiniteSetsExt

CONSTANTS
    Names,           \* user names
    Lower,           \* LOWER(user_name)
    ValidNames,      \* names that isValidUserName accepts
    Passwords,       \* passwords of six bytes and more
    Nicks, LongNicks,\* nick names that isValidNickName accepts; the ones too long for the column
    DefaultNick,     \* the nick name a row is created with
    MaxUsers,        \* bound on the accounts
    PoolSize,        \* connections the pool starts with: 20
    MaxLost          \* bound on the connections that are leaked

ASSUME NamesAssumption ==
    /\ DOMAIN Lower = Names
    /\ ValidNames \subseteq Names
    /\ LongNicks \subseteq Nicks
ASSUME PoolAssumption == {MaxUsers, MaxLost} \subseteq Nat /\ PoolSize \in Nat \ {0}

VARIABLES
    users,    \* the rows of the table users; user_id is the index
    db,       \* whether PostgreSQL runs
    pool,     \* DbPool: connections_ and in_use_
    call,     \* the request that is handled
    answer    \* the answer to the last one

vars == <<users, db, pool, call, answer>>

Unknown == -1      \* the user id of no user
\* What an answer says instead of a user id.
NoAnswer == -2
Refused == -3
UserIds == 1..Len(users)
Actions == {"register", "login", "SSAFYlogin"}

\* "lost": broken, and is_open does not know it yet; "closed": it does.
Links == {"up", "lost", "closed"}
Idle == [phase |-> "idle"]
Leased == {i \in DOMAIN pool : pool[i].in_use}
FreshPool == [i \in 1..PoolSize |-> [link |-> "up", in_use |-> FALSE]]

TypeOK ==
    /\ users \in Seq([name : Names, password : Passwords, nick : Nicks \cup {DefaultNick},
                      last_login : {"created", "login"}])
    /\ Len(users) <= MaxUsers
    /\ db \in BOOLEAN
    /\ pool \in Seq([link : Links, in_use : BOOLEAN])
    /\ \A i \in DOMAIN pool : pool[i].link = "up" => db
    /\ \/ call = Idle
       \/ /\ call.phase \in {"find", "create", "again", "stamp"}
          /\ call.action \in Actions
          /\ call.name \in Names /\ call.password \in Passwords
          /\ {call.id, call.stamp} \subseteq UserIds \cup {Unknown}
          /\ call.failed \in BOOLEAN
    /\ answer \in UserIds \cup {Unknown, NoAnswer, Refused}

Init ==
    /\ users = <<>>
    /\ db = TRUE
    /\ pool = FreshPool
    /\ call = Idle
    /\ answer = NoAnswer

----------------------------------------------------------------------------
(* DbPool, and how every repository uses it *)

\* The connection get_connection takes: the first that is not in use, or a new one.
Taken ==
    LET free == DOMAIN pool \ Leased
    IN IF free = {} THEN Len(pool) + 1 ELSE Min(free)
Link == IF Taken \in DOMAIN pool THEN pool[Taken].link ELSE "closed"

Put(link, in_use) ==
    pool' = [i \in DOMAIN pool \cup {Taken} |->
               IF i = Taken THEN [link |-> link, in_use |-> in_use] ELSE pool[i]]

\* A closed connection is opened again, which takes a database; a plausible bug
\* takes it as it is.
Usable_Unchecked == Link \in {"up", "closed"}
Usable == Link = "up" \/ (Link = "closed" /\ db)

\* A plausible bug: a path without return_connection.
Works_Keeps == Usable /\ Put("up", TRUE)

\* The statement and the commit work, and the connection is given back.
Works == Usable /\ Put("up", FALSE)

\* One of them throws: abort, and the connection is given back all the same.
Breaks == Usable /\ Put("closed", FALSE)

\* get_connection throws; or the constructor of the transaction does, before the
\* try block, and nobody gives the connection back.
Throws ==
    \/ Link = "closed" /\ ~db /\ UNCHANGED pool
    \/ Link = "lost" /\ Put("closed", TRUE)

----------------------------------------------------------------------------
(* AuthService *)

Answer(a) == call' = Idle /\ answer' = a

\* An exception leaves the service; the session answers with an error.
CallThrows ==
    /\ call # Idle
    /\ Throws
    /\ Answer(Refused)
    /\ UNCHANGED <<users, db>>

\* registerUser, loginUser or registerCheckAndLogin up to its first query.  Only
\* register looks at the form of the name and the length of the password.
Request(action, name, password) ==
    /\ call = Idle
    /\ Len(users) < MaxUsers \/ action = "login"
    /\ call' = [phase |-> "find", action |-> action, name |-> name, password |-> password,
                id |-> Unknown, stamp |-> Unknown, failed |-> FALSE]
    /\ UNCHANGED <<users, db, pool, answer>>

BadRequest ==
    /\ call = Idle
    /\ Answer(Refused)
    /\ UNCHANGED <<users, db, pool>>

\* The query of findByUsername, which takes the first row of several; and a
\* plausible bug: letters are told apart like in the UNIQUE constraint.
Matching_Exactly(name) == {u \in UserIds : users[u].name = name}
Matching(name) == {u \in UserIds : Lower[users[u].name] = Lower[name]}

\* What findByUsername returns: a row, or "no such user", which is also what it
\* returns when the query fails.
FindByUsername(id, failed) ==
    \/ /\ Works
       /\ failed = FALSE
       /\ IF Matching(call.name) = {} THEN id = Unknown ELSE id \in Matching(call.name)
    \/ Breaks /\ failed = TRUE /\ id = Unknown

\* verifyPassword, and a plausible bug: a name in other letters is another user.
Verified_SameName(id) == users[id].name = call.name => users[id].password = call.password
Verified(id) == users[id].password = call.password

\* After the first query.  SSAFYlogin does not check the password of a user it knows.
Found(id, failed) ==
    LET go(phase, stamp) ==
          /\ call' = [call EXCEPT !.phase = phase, !.id = id, !.stamp = stamp, !.failed = @ \/ failed]
          /\ UNCHANGED answer
    IN \/ call.action # "login" /\ id = Unknown /\ go("create", Unknown)
       \/ call.action = "register" /\ id # Unknown /\ Answer(Refused)
       \/ call.action = "SSAFYlogin" /\ id # Unknown /\ go("again", Unknown)
       \/ /\ call.action = "login"
          /\ IF id # Unknown /\ Verified(id)
             THEN go("stamp", id) ELSE Answer(Refused)

Find ==
    /\ call.phase = "find"
    /\ \E id \in UserIds \cup {Unknown}, failed \in BOOLEAN :
         FindByUsername(id, failed) /\ Found(id, failed)
    /\ UNCHANGED <<users, db>>

\* create: the INSERT, whose UNIQUE constraint tells capital letters apart.  When
\* the commit throws, the row may be there all the same.
Row == [name |-> call.name, password |-> call.password, nick |-> DefaultNick, last_login |-> "created"]
Exists == \E u \in UserIds : users[u].name = call.name

Create ==
    /\ call.phase = "create"
    /\ \/ /\ Works /\ ~Exists
          /\ users' = Append(users, Row)
          /\ IF call.action = "register" THEN Answer(Len(users'))
             ELSE call' = [call EXCEPT !.phase = "again", !.stamp = Len(users')] /\ UNCHANGED answer
       \/ /\ Works /\ Exists
          /\ Answer(Refused)
          /\ UNCHANGED users
       \/ /\ Breaks
          /\ Answer(Refused)
          /\ users' = users \/ (~Exists /\ users' = Append(users, Row))
    /\ UNCHANGED db

\* The second query of SSAFYlogin, whose row is the answer.
FindAgain ==
    /\ call.phase = "again"
    /\ \E id \in UserIds \cup {Unknown}, failed \in BOOLEAN :
        /\ FindByUsername(id, failed)
        /\ call' = [call EXCEPT !.phase = "stamp", !.id = id, !.failed = @ \/ failed]
    /\ UNCHANGED <<users, db, answer>>

\* updateLastLogin, whose result nobody looks at.  SSAFYlogin stamps the user it
\* created, and nobody when it found one.
LogIn ==
    /\ call.phase = "stamp"
    /\ LET stamped == IF call.stamp = Unknown THEN users ELSE [users EXCEPT ![call.stamp].last_login = "login"]
       IN \/ Works /\ users' = stamped
          \/ Breaks /\ users' \in {users, stamped}
    /\ Answer(call.id)
    /\ UNCHANGED db

\* updateNickName, of the user who logged in, or of any one before.
UpdateNickName(u, nick) ==
    /\ call = Idle
    /\ LET renamed == [users EXCEPT ![u].nick = nick]
           fits == u \in UserIds /\ nick \notin LongNicks
       IN \/ Works /\ fits /\ users' = renamed /\ Answer(u)
          \/ Works /\ ~fits /\ UNCHANGED users /\ Answer(Refused)
          \/ Breaks /\ (UNCHANGED users \/ (fits /\ users' = renamed)) /\ Answer(Refused)
          \/ Throws /\ UNCHANGED users /\ Answer(Refused)
    /\ UNCHANGED db

----------------------------------------------------------------------------

\* PostgreSQL, outside.
DbStops ==
    /\ db
    /\ Cardinality({i \in DOMAIN pool : pool[i].link = "up" \/ pool[i].in_use}) <= MaxLost
    /\ db' = FALSE
    /\ pool' = [i \in DOMAIN pool |-> [pool[i] EXCEPT !.link = IF @ = "up" THEN "lost" ELSE @]]
    /\ UNCHANGED <<users, call, answer>>

DbStarts ==
    /\ ~db
    /\ db' = TRUE
    /\ UNCHANGED <<users, pool, call, answer>>

\* The server dies, and is started when its pool can be filled.
Restart ==
    /\ db
    /\ pool' = FreshPool
    /\ call' = Idle
    /\ answer' = NoAnswer
    /\ UNCHANGED <<users, db>>

Next ==
    \/ \E action \in Actions, name \in Names, password \in Passwords :
          (action = "register" => name \in ValidNames) /\ Request(action, name, password)
    \/ BadRequest
    \/ Find \/ Create \/ FindAgain \/ LogIn \/ CallThrows
    \/ \E u \in 1..MaxUsers, nick \in Nicks : UpdateNickName(u, nick)
    \/ DbStops \/ DbStarts \/ Restart

Spec == Init /\ [][Next]_vars

----------------------------------------------------------------------------
(* Properties *)

\* Two accounts never differ in capital letters only, unless the query for the
\* name failed: the constraint of the table does not help, and a failed query
\* looks like a free name.
TakenNamesAreRefused ==
    [][Len(users') > Len(users) =>
          \/ call.failed
          \/ \A u \in UserIds : Lower[users[u].name] # Lower[users'[Len(users')].name]]_vars

\* A login that is answered with success is of an account by that name, and of its
\* password when one was asked for, whatever was renamed or lost on the way; only
\* a failed second query of SSAFYlogin lets the user -1 in.
SuccessNamesAnAccount ==
    [][call.phase = "stamp" /\ call' = Idle /\ answer' \notin {NoAnswer, Refused} /\ ~call.failed =>
          \E u \in UserIds :
             /\ answer' = u
             /\ Lower[users[u].name] = Lower[call.name]
             /\ call.action = "login" => users[u].password = call.password]_vars

\* Between requests a connection is out of the pool only if it was lost under a
\* transaction that had not begun, and the pool grew only for such ones.
OnlyLostConnectionsLeak ==
    call = Idle =>
        /\ \A i \in Leased : pool[i].link = "closed"
        /\ Len(pool) <= PoolSize + Cardinality(Leased)
=============================================================================
