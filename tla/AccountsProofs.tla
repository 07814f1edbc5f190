--------------------------- MODULE AccountsProofs ---------------------------
(***************************************************************************)
(* Proofs about Accounts for every set of names, every size of the pool    *)
(* and every number of accounts: the pool grows for lost connections only, *)
(* and what a request knows of the table stays true until it answers.      *)
(***************************************************************************)
EXTENDS Accounts, FiniteSetTheorems, SequenceTheorems, WellFoundedInduction, TLAPS

----------------------------------------------------------------------------
(* The connection a request gets *)

Slot == [link : Links, in_use : BOOLEAN]

\* CHOOSE of the smallest index finds one.
LEMMA MinIsMember ==
    ASSUME NEW S \in SUBSET Nat, S # {}
    PROVE  Min(S) \in S /\ \A y \in S : Min(S) <= y
<1> DEFINE Less == {ss \in Nat \X Nat : ss[1] < ss[2]}
<1>1. IsWellFoundedOn(Less, Nat)
  BY NatLessThanWellFounded, Zenon DEF OpToRel
<1>2. PICK x \in S : \A y \in S : <<y, x>> \notin Less
  <2> HIDE DEF Less
  <2> QED
    BY <1>1, WFMin
<1>3. ASSUME NEW y \in S PROVE x <= y
  <2>1. <<y, x>> \notin Less /\ <<y, x>> \in Nat \X Nat
    BY <1>2
  <2>2. ~ (y < x)
    BY <2>1
  <2> QED
    BY <2>2
<1> QED
  BY <1>3 DEF Min

LEMMA TakenFacts ==
    ASSUME pool \in Seq(Slot)
    PROVE  /\ DOMAIN pool = 1..Len(pool) /\ Len(pool) \in Nat
           /\ \/ Taken \in DOMAIN pool \ Leased
              \/ Taken = Len(pool) + 1 /\ Leased = DOMAIN pool
           /\ Taken \in 1..Len(pool) + 1
<1>1. DOMAIN pool = 1..Len(pool) /\ Len(pool) \in Nat
  BY LenProperties
<1> DEFINE free == DOMAIN pool \ Leased
<1>2. CASE free = {}
  <2>1. Taken = Len(pool) + 1
    BY <1>2 DEF Taken
  <2>2. Leased = DOMAIN pool
    BY <1>2 DEF Leased
  <2> QED
    BY <1>1, <2>1, <2>2
<1>3. CASE free # {}
  <2>1. Taken = Min(free)
    BY <1>3 DEF Taken
  <2>2. free \in SUBSET Nat
    BY <1>1
  <2>3. Min(free) \in free
    BY <1>3, <2>2, MinIsMember
  <2> QED
    BY <1>1, <2>1, <2>3
<1> QED
  BY <1>2, <1>3

\* Every connection out of the pool is closed, and the pool grew for such ones only.
PoolInv ==
    /\ pool \in Seq(Slot)
    /\ \A i \in DOMAIN pool : pool[i].link = "up" => db
    /\ \A i \in Leased : pool[i].link = "closed"
    /\ Len(pool) <= PoolSize + Cardinality(Leased)

LEMMA LeasedIsFinite ==
    ASSUME pool \in Seq(Slot)
    PROVE  /\ IsFiniteSet(Leased) /\ Cardinality(Leased) \in Nat
           /\ Cardinality(DOMAIN pool) = Len(pool)
<1>1. DOMAIN pool = 1..Len(pool) /\ Len(pool) \in Nat
  BY LenProperties
<1>2. IsFiniteSet(DOMAIN pool) /\ Cardinality(DOMAIN pool) = Len(pool)
  BY <1>1, FS_Interval
<1>3. Leased \in SUBSET (DOMAIN pool)
  BY DEF Leased
<1> QED
  BY <1>2, <1>3, FS_Subset, FS_CardinalityType

LEMMA PutFacts ==
    ASSUME pool \in Seq(Slot), NEW link \in Links, NEW in_use \in BOOLEAN, Put(link, in_use)
    PROVE  /\ pool' \in Seq(Slot)
           /\ DOMAIN pool' = DOMAIN pool \cup {Taken}
           /\ Len(pool') = IF Taken \in DOMAIN pool THEN Len(pool) ELSE Len(pool) + 1
           /\ \A i \in DOMAIN pool' :
                 pool'[i] = IF i = Taken THEN [link |-> link, in_use |-> in_use] ELSE pool[i]
<1> DEFINE n == IF Taken \in DOMAIN pool THEN Len(pool) ELSE Len(pool) + 1
<1>1. n \in Nat /\ DOMAIN pool \cup {Taken} = 1..n
  BY TakenFacts
<1>2. pool \in [1..Len(pool) -> Slot]
  BY LenProperties
<1>3. [link |-> link, in_use |-> in_use] \in Slot
  BY DEF Slot
<1> HIDE DEF n
<1>4. pool' \in [1..n -> Slot]
  BY <1>1, <1>2, <1>3, TakenFacts DEF Put
<1>5. pool' \in Seq(Slot)
  BY <1>1, <1>4, SeqDef
<1>6. Len(pool') = n
  BY <1>1, <1>4, <1>5, LenProperties
<1> QED
  BY <1>1, <1>4, <1>5, <1>6 DEF Put, n

LEMMA PutKeepsPool ==
    ASSUME PoolInv, db' = db, NEW link \in Links, NEW in_use \in BOOLEAN, Put(link, in_use),
           link = "up" => db,
           in_use => link = "closed" /\ Taken \in DOMAIN pool
    PROVE  PoolInv'
<1>1. /\ pool' \in Seq(Slot)
      /\ DOMAIN pool' = DOMAIN pool \cup {Taken}
      /\ Len(pool') = IF Taken \in DOMAIN pool THEN Len(pool) ELSE Len(pool) + 1
      /\ \A i \in DOMAIN pool' :
            pool'[i] = IF i = Taken THEN [link |-> link, in_use |-> in_use] ELSE pool[i]
  BY PutFacts DEF PoolInv
<1>2. /\ DOMAIN pool = 1..Len(pool) /\ Len(pool) \in Nat
      /\ Taken \notin Leased
      /\ Taken \in DOMAIN pool \/ Leased = DOMAIN pool
  BY TakenFacts DEF PoolInv, Leased
<1>3. IsFiniteSet(Leased) /\ Cardinality(Leased) \in Nat /\ Cardinality(DOMAIN pool) = Len(pool)
  BY LeasedIsFinite DEF PoolInv
<1>4. \A i \in DOMAIN pool' : pool'[i].link = "up" => db'
  BY <1>1 DEF PoolInv
<1>5. CASE in_use = TRUE
  <2>1. DOMAIN pool' = DOMAIN pool /\ Len(pool') = Len(pool)
    BY <1>1, <1>5
  <2>2. Leased' = Leased \cup {Taken}
    BY <1>1, <1>5, <2>1 DEF Leased
  <2>3. Cardinality(Leased') = Cardinality(Leased) + 1
    BY <1>2, <1>3, <2>2, FS_AddElement
  <2>4. Len(pool') <= PoolSize + Cardinality(Leased')
    BY <1>2, <1>3, <2>1, <2>3, PoolAssumption DEF PoolInv
  <2>5. \A i \in Leased' : pool'[i].link = "closed"
    BY <1>1, <1>5, <2>1 DEF PoolInv, Leased
  <2> QED
    BY <1>1, <1>4, <2>4, <2>5 DEF PoolInv
<1>6. CASE in_use = FALSE
  <2>1. Leased' = Leased
    BY <1>1, <1>2, <1>6 DEF Leased
  <2>2. \A i \in Leased' : pool'[i].link = "closed"
    BY <1>1, <1>2, <2>1 DEF PoolInv, Leased
  <2>3. Len(pool') <= PoolSize + Cardinality(Leased)
    BY <1>1, <1>2, <1>3, PoolAssumption DEF PoolInv
  <2> QED
    BY <1>1, <1>4, <2>1, <2>2, <2>3 DEF PoolInv
<1> QED
  BY <1>5, <1>6

\* However a statement ends.
LEMMA CallsKeepPool ==
    ASSUME PoolInv, db \in BOOLEAN, db' = db, Works \/ Breaks \/ Throws
    PROVE  PoolInv'
<1>1. CASE Works
  <2>1. Usable => db
    BY TakenFacts DEF Usable, Link, PoolInv
  <2> QED
    BY <1>1, <2>1, PutKeepsPool DEF Works, Links
<1>2. CASE Breaks
  BY <1>2, PutKeepsPool DEF Breaks, Links
<1>3. CASE Throws
  <2>1. Link = "lost" => Taken \in DOMAIN pool
    BY DEF Link
  <2>2. UNCHANGED pool => PoolInv'
    BY DEF PoolInv, Leased
  <2> QED
    BY <1>3, <2>1, <2>2, PutKeepsPool DEF Throws, Links
<1> QED
  BY <1>1, <1>2, <1>3

LEMMA StopKeepsPool == ASSUME PoolInv, DbStops PROVE PoolInv'
<1> USE DEF PoolInv, DbStops
<1>1. pool \in [1..Len(pool) -> Slot] /\ Len(pool) \in Nat
  BY LenProperties
<1>2. pool' \in [1..Len(pool) -> Slot]
  BY <1>1 DEF Slot, Links
<1>3. pool' \in Seq(Slot) /\ Len(pool') = Len(pool)
  BY <1>1, <1>2, SeqDef, LenProperties
<1>4. \A i \in 1..Len(pool) :
         /\ pool'[i].in_use = pool[i].in_use
         /\ pool'[i].link # "up"
         /\ pool[i].link = "closed" => pool'[i].link = "closed"
  BY <1>1 DEF Slot, Links
<1>5. Leased' = Leased
  BY <1>1, <1>2, <1>4 DEF Leased
<1> QED
  BY <1>1, <1>2, <1>3, <1>4, <1>5 DEF Leased

LEMMA FreshPoolIsFull == ASSUME pool' = FreshPool, db' = TRUE PROVE PoolInv'
<1>1. PoolSize \in Nat
  BY PoolAssumption
<1>2. pool' \in [1..PoolSize -> Slot]
  BY DEF FreshPool, Slot, Links
<1>3. pool' \in Seq(Slot) /\ Len(pool') = PoolSize
  BY <1>1, <1>2, SeqDef, LenProperties
<1>4. Leased' = {}
  BY DEF Leased, FreshPool
<1> QED
  BY <1>1, <1>2, <1>3, <1>4, FS_EmptySet DEF PoolInv

----------------------------------------------------------------------------
(* What a request knows of the table until it answers *)

Account == [name : Names, password : Passwords, nick : Nicks \cup {DefaultNick},
            last_login : {"created", "login"}]

Call == [phase : {"find", "create", "again", "stamp"}, action : Actions,
         name : Names, password : Passwords,
         id : Nat \cup {Unknown}, stamp : Nat \cup {Unknown}, failed : BOOLEAN]

\* The account id is one that the request c may log in.
Fits(c, id) ==
    /\ id \in UserIds
    /\ Lower[users[id].name] = Lower[c.name]
    /\ c.action = "login" => users[id].password = c.password

\* The server has one thread, so that what c has read of the table is still there: the
\* name is free before the INSERT, and the account is there before it is answered.
Knows(c) ==
    /\ {c.id, c.stamp} \subseteq UserIds \cup {Unknown}
    /\ c.phase \in {"find", "create"} /\ c.action # "login" => Len(users) < MaxUsers
    /\ c.phase \in {"create", "again"} => c.action # "login"
    /\ c.phase = "create" /\ ~c.failed => Matching(c.name) = {}
    /\ c.phase = "again" => Matching(c.name) # {}
    /\ c.phase = "stamp" /\ ~c.failed => Fits(c, c.id)

TableInv ==
    /\ users \in Seq(Account) /\ Len(users) <= MaxUsers
    /\ call = Idle \/ (call \in Call /\ Knows(call))
    /\ answer \in UserIds \cup {Unknown, NoAnswer, Refused}

IInv == TableInv /\ PoolInv /\ db \in BOOLEAN

LEMMA InitInv == Init => IInv
<1> SUFFICES ASSUME Init PROVE IInv
  OBVIOUS
<1>1. TableInv
  <2>1. users \in Seq(Account) /\ Len(users) = 0
    BY EmptySeq DEF Init
  <2> QED
    BY <2>1, PoolAssumption DEF Init, TableInv
<1>2. PoolInv
  <2>1. pool = FreshPool /\ db = TRUE
    BY DEF Init
  <2>2. PoolSize \in Nat
    BY PoolAssumption
  <2>3. pool \in [1..PoolSize -> Slot]
    BY <2>1 DEF FreshPool, Slot, Links
  <2>4. pool \in Seq(Slot) /\ Len(pool) = PoolSize
    BY <2>2, <2>3, SeqDef, LenProperties
  <2>5. Leased = {}
    BY <2>1 DEF Leased, FreshPool
  <2> QED
    BY <2>1, <2>2, <2>3, <2>4, <2>5, FS_EmptySet DEF PoolInv
<1> QED
  BY <1>1, <1>2 DEF IInv, Init

LEMMA UserIdsAreNumbers ==
    ASSUME TableInv
    PROVE  /\ UserIds \subseteq Nat \ {0} /\ Unknown \notin UserIds
           /\ Len(users) \in Nat /\ DOMAIN users = UserIds
           /\ \A u \in UserIds : users[u] \in Account
BY LenProperties, ElementOfSeq DEF TableInv, UserIds, Unknown

\* What is known of a table that did not change.
LEMMA SameRows ==
    ASSUME users' = users
    PROVE  /\ UserIds' = UserIds
           /\ \A n : Matching(n)' = Matching(n)
           /\ \A c : Knows(c)' <=> Knows(c)
BY DEF UserIds, Matching, Knows, Fits

LEMMA SameTable ==
    ASSUME TableInv, UNCHANGED <<users, call, answer>>
    PROVE  TableInv'
BY SameRows DEF TableInv

\* The end of a request.
LEMMA AnswerKeepsTable ==
    ASSUME users' \in Seq(Account), Len(users') <= MaxUsers,
           NEW a, a \in UserIds' \cup {Unknown, NoAnswer, Refused}, Answer(a)
    PROVE  TableInv'
BY DEF TableInv, Answer

LEMMA RefusalKeepsTable ==
    ASSUME TableInv, UNCHANGED users, Answer(Refused)
    PROVE  TableInv'
BY AnswerKeepsTable DEF TableInv

\* A call goes on with c.
LEMMA GoingOnKeepsTable ==
    ASSUME TableInv, UNCHANGED <<users, answer>>, call' \in Call, Knows(call')
    PROVE  TableInv'
<1>1. PICK c : c = call'
  OBVIOUS
<1>2. Knows(c)'
  BY <1>1, SameRows
<1>3. Knows(call)'
  BY <1>1, <1>2 DEF Knows, Fits
<1> QED
  BY <1>3, SameRows DEF TableInv

LEMMA CallInProgress ==
    ASSUME TableInv, call # Idle
    PROVE  /\ call \in Call /\ Knows(call)
           /\ call.name \in Names /\ call.password \in Passwords /\ call.failed \in BOOLEAN
           /\ call.action \in Actions
BY DEF TableInv, Call

LEMMA RequestKeepsTable ==
    ASSUME TableInv, NEW action \in Actions, NEW name \in Names, NEW password \in Passwords,
           Request(action, name, password)
    PROVE  TableInv'
<1>1. call' \in Call
  BY DEF Request, Call
<1>2. Knows(call')
  BY DEF Request, Knows
<1> QED
  BY <1>1, <1>2, GoingOnKeepsTable DEF Request

\* A row or "no such user"; what a query that did not fail says is true.
LEMMA FindFacts ==
    ASSUME TableInv, call # Idle, NEW id \in UserIds \cup {Unknown}, NEW failed \in BOOLEAN,
           FindByUsername(id, failed)
    PROVE  /\ id # Unknown => /\ id \in Matching(call.name)
                              /\ ~failed
           /\ ~failed => (id = Unknown <=> Matching(call.name) = {})
BY UserIdsAreNumbers DEF FindByUsername, Matching

LEMMA FindKeepsTable == ASSUME TableInv, Find PROVE TableInv'
<1>1. call # Idle /\ call.phase = "find" /\ users' = users
  BY DEF Find, Idle
<1>2. PICK id \in UserIds \cup {Unknown}, failed \in BOOLEAN :
         FindByUsername(id, failed) /\ Found(id, failed)
  BY DEF Find
<1>3. /\ call \in Call /\ Knows(call)
      /\ id # Unknown => id \in Matching(call.name) /\ ~failed
      /\ ~failed => (id = Unknown <=> Matching(call.name) = {})
  BY <1>1, <1>2, CallInProgress, FindFacts
<1>4. id \in Nat \cup {Unknown}
  BY UserIdsAreNumbers
<1>5. CASE Answer(Refused)
  BY <1>1, <1>5, RefusalKeepsTable
<1>6. ASSUME NEW phase \in {"create", "again", "stamp"}, NEW stamp \in {Unknown, id},
             call' = [call EXCEPT !.phase = phase, !.id = id, !.stamp = stamp,
                                  !.failed = @ \/ failed],
             UNCHANGED answer
      PROVE  call' \in Call
  BY <1>3, <1>4, <1>6 DEF Call
<1>7. ASSUME call' \in Call, Knows(call'), UNCHANGED answer PROVE TableInv'
  BY <1>1, <1>7, GoingOnKeepsTable
<1>8. CASE /\ call.action # "login" /\ id = Unknown
           /\ call' = [call EXCEPT !.phase = "create", !.id = id, !.stamp = Unknown,
                                   !.failed = @ \/ failed]
           /\ UNCHANGED answer
  <2>1. call' \in Call
    BY <1>6, <1>8
  <2>2. /\ call'.phase = "create" /\ call'.action = call.action /\ call'.name = call.name
        /\ call'.id = id /\ call'.stamp = Unknown /\ (~call'.failed => ~failed)
    BY <1>3, <1>8 DEF Call
  <2>3. Knows(call')
    BY <1>1, <1>3, <1>8, <2>2 DEF Knows
  <2> QED
    BY <1>7, <1>8, <2>1, <2>3
<1>9. CASE /\ call.action = "SSAFYlogin" /\ id # Unknown
           /\ call' = [call EXCEPT !.phase = "again", !.id = id, !.stamp = Unknown,
                                   !.failed = @ \/ failed]
           /\ UNCHANGED answer
  <2>1. call' \in Call
    BY <1>6, <1>9
  <2>2. /\ call'.phase = "again" /\ call'.action = call.action /\ call'.name = call.name
        /\ call'.id = id /\ call'.stamp = Unknown
    BY <1>3, <1>9 DEF Call
  <2>3. Knows(call')
    BY <1>1, <1>3, <1>9, <2>2 DEF Knows
  <2> QED
    BY <1>7, <1>9, <2>1, <2>3
<1>10. CASE /\ call.action = "login" /\ id # Unknown /\ Verified(id)
            /\ call' = [call EXCEPT !.phase = "stamp", !.id = id, !.stamp = id,
                                    !.failed = @ \/ failed]
            /\ UNCHANGED answer
  <2>1. call' \in Call
    BY <1>6, <1>10
  <2>2. /\ call'.phase = "stamp" /\ call'.action = call.action /\ call'.name = call.name
        /\ call'.password = call.password /\ call'.id = id /\ call'.stamp = id
    BY <1>3, <1>10 DEF Call
  <2>3. Fits(call', id)
    BY <1>3, <1>10, <2>2 DEF Fits, Matching, Verified
  <2>4. Knows(call')
    BY <2>2, <2>3 DEF Knows
  <2> QED
    BY <1>7, <1>10, <2>1, <2>4
<1> QED
  BY <1>2, <1>5, <1>8, <1>9, <1>10 DEF Found

\* The INSERT adds one row and leaves the others alone.
LEMMA InsertFacts ==
    ASSUME TableInv, call # Idle, users' = Append(users, Row)
    PROVE  /\ users' \in Seq(Account) /\ Len(users') = Len(users) + 1
           /\ \A u \in UserIds : users'[u] = users[u]
           /\ users'[Len(users')] = Row /\ Row.name = call.name
           /\ UserIds' = UserIds \cup {Len(users')}
<1>1. Row \in Account /\ Row.name = call.name
  BY CallInProgress DEF Row, Account
<1>2. users \in Seq(Account) /\ Len(users) \in Nat
  BY UserIdsAreNumbers DEF TableInv
<1>3. /\ users' \in Seq(Account) /\ Len(users') = Len(users) + 1
      /\ \A u \in 1..Len(users) : users'[u] = users[u]
      /\ users'[Len(users) + 1] = Row
  BY <1>1, <1>2, AppendProperties
<1> QED
  BY <1>1, <1>2, <1>3 DEF UserIds

LEMMA CreateKeepsTable == ASSUME TableInv, Create PROVE TableInv'
<1>1. call # Idle /\ call.phase = "create"
  BY DEF Create, Idle
<1>2. call \in Call /\ Knows(call) /\ Len(users) < MaxUsers /\ Len(users) \in Nat
  BY <1>1, CallInProgress, UserIdsAreNumbers DEF Knows
<1>3. CASE UNCHANGED users /\ Answer(Refused)
  BY <1>3, RefusalKeepsTable
<1>4. CASE users' = Append(users, Row)
  <2>1. /\ users' \in Seq(Account) /\ Len(users') = Len(users) + 1
        /\ users'[Len(users')] = Row /\ Row.name = call.name
        /\ UserIds' = UserIds \cup {Len(users')}
    BY <1>1, <1>4, InsertFacts
  <2>2. Len(users') <= MaxUsers
    BY <1>2, <2>1, PoolAssumption
  <2>3. CASE Answer(Refused)
    BY <2>1, <2>2, <2>3, AnswerKeepsTable
  <2>4. CASE Answer(Len(users'))
    <3>1. PICK n : n = Len(users')
      OBVIOUS
    <3> QED
      BY <2>1, <2>2, <2>4, <3>1, AnswerKeepsTable
  <2>5. CASE /\ call' = [call EXCEPT !.phase = "again", !.stamp = Len(users')]
             /\ UNCHANGED answer
    <3>0. PICK n \in Nat : n = Len(users')
      BY <1>2, <2>1
    <3>1. call' \in Call
      BY <1>2, <2>5, <3>0 DEF Call
    <3>2. /\ call'.phase = "again" /\ call'.action = call.action /\ call'.name = call.name
          /\ call'.id = call.id /\ call'.stamp = Len(users')
      BY <1>2, <2>5 DEF Call
    <3>3. Len(users') \in Matching(call.name)'
      BY <2>1, <3>2 DEF Matching
    <3>4. Knows(call)'
      BY <1>1, <1>2, <2>1, <3>2, <3>3 DEF Knows, Matching
    <3> QED
      BY <2>1, <2>2, <2>5, <3>1, <3>4 DEF TableInv
  <2> QED
    BY <1>4, <1>1, <2>3, <2>4, <2>5 DEF Create
<1> QED
  BY <1>3, <1>4 DEF Create

LEMMA FindAgainKeepsTable == ASSUME TableInv, FindAgain PROVE TableInv'
<1>1. call # Idle /\ call.phase = "again" /\ UNCHANGED <<users, answer>>
  BY DEF FindAgain, Idle
<1>2. PICK id \in UserIds \cup {Unknown}, failed \in BOOLEAN :
         /\ FindByUsername(id, failed)
         /\ call' = [call EXCEPT !.phase = "stamp", !.id = id, !.failed = @ \/ failed]
  BY DEF FindAgain
<1>3. /\ call \in Call /\ Knows(call)
      /\ ~failed => id \in Matching(call.name)
  BY <1>1, <1>2, CallInProgress, FindFacts DEF Knows
<1>4. call' \in Call
  BY <1>2, <1>3, UserIdsAreNumbers DEF Call
<1>5. /\ call'.phase = "stamp" /\ call'.action = call.action /\ call'.name = call.name
      /\ call'.id = id /\ call'.stamp = call.stamp /\ (~call'.failed => ~failed)
  BY <1>2, <1>3 DEF Call
<1>6. Knows(call')
  BY <1>1, <1>3, <1>5 DEF Knows, Fits, Matching
<1> QED
  BY <1>1, <1>4, <1>6, GoingOnKeepsTable

\* A change of one row leaves its name and its password.
LEMMA UpdateFacts ==
    ASSUME TableInv, NEW u \in UserIds,
           \/ users' = [users EXCEPT ![u].last_login = "login"]
           \/ \E nick \in Nicks : users' = [users EXCEPT ![u].nick = nick]
    PROVE  users' \in Seq(Account) /\ Len(users') = Len(users)
<1>1. users \in Seq(Account) /\ users[u] \in Account /\ u \in 1..Len(users)
  BY UserIdsAreNumbers DEF TableInv, UserIds
<1>2. PICK row \in Account : users' = [users EXCEPT ![u] = row]
  BY <1>1 DEF Account
<1> QED
  BY <1>1, <1>2, ExceptSeq

LEMMA LogInKeepsTable == ASSUME TableInv, LogIn PROVE TableInv'
<1>1. call # Idle
  BY DEF LogIn, Idle
<1>2. call.id \in UserIds \cup {Unknown} /\ call.stamp \in UserIds \cup {Unknown}
  BY <1>1, CallInProgress DEF Knows
<1>3. users' \in Seq(Account) /\ Len(users') = Len(users)
  <2>1. CASE users' = users
    BY <2>1 DEF TableInv
  <2>2. CASE call.stamp \in UserIds /\ users' = [users EXCEPT ![call.stamp].last_login = "login"]
    <3>1. PICK u \in UserIds : u = call.stamp
      BY <2>2
    <3> QED
      BY <2>2, <3>1, UpdateFacts
  <2> QED
    BY <1>2, <2>1, <2>2 DEF LogIn
<1>4. PICK a : a = call.id
  OBVIOUS
<1>5. a \in UserIds' \cup {Unknown} /\ Answer(a)
  BY <1>2, <1>3, <1>4 DEF LogIn, UserIds
<1> QED
  BY <1>3, <1>5, AnswerKeepsTable DEF TableInv

LEMMA RenamingKeepsTable ==
    ASSUME TableInv, NEW u, NEW nick \in Nicks, UpdateNickName(u, nick)
    PROVE  TableInv'
<1>1. CASE UNCHANGED users /\ Answer(Refused)
  BY <1>1, RefusalKeepsTable
<1>2. CASE /\ u \in UserIds /\ users' = [users EXCEPT ![u].nick = nick]
           /\ Answer(u) \/ Answer(Refused)
  <2>1. users' \in Seq(Account) /\ Len(users') = Len(users)
    BY <1>2, UpdateFacts
  <2>2. u \in UserIds'
    BY <1>2, <2>1 DEF UserIds
  <2> QED
    BY <1>2, <2>1, <2>2, AnswerKeepsTable DEF TableInv
<1> QED
  BY <1>1, <1>2 DEF UpdateNickName

LEMMA NextKeepsTable == TableInv /\ [Next]_vars => TableInv'
<1> SUFFICES ASSUME TableInv, [Next]_vars PROVE TableInv'
  OBVIOUS
<1>1. ASSUME NEW action \in Actions, NEW name \in Names, NEW password \in Passwords,
             Request(action, name, password)
      PROVE  TableInv'
  BY <1>1, RequestKeepsTable
<1>2. CASE BadRequest \/ CallThrows
  BY <1>2, RefusalKeepsTable DEF BadRequest, CallThrows
<1>3. CASE Find \/ Create \/ FindAgain \/ LogIn
  BY <1>3, FindKeepsTable, CreateKeepsTable, FindAgainKeepsTable, LogInKeepsTable
<1>4. ASSUME NEW u \in 1..MaxUsers, NEW nick \in Nicks, UpdateNickName(u, nick)
      PROVE  TableInv'
  BY <1>4, RenamingKeepsTable
<1>5. CASE DbStops \/ DbStarts \/ UNCHANGED vars
  BY <1>5, SameTable DEF DbStops, DbStarts, vars
<1>6. CASE Restart
  <2>1. UNCHANGED users /\ Answer(NoAnswer)
    BY <1>6 DEF Restart, Answer
  <2> QED
    BY <2>1, AnswerKeepsTable DEF TableInv
<1> QED
  BY <1>1, <1>2, <1>3, <1>4, <1>5, <1>6 DEF Next

LEMMA NextKeepsPool == PoolInv /\ db \in BOOLEAN /\ [Next]_vars => PoolInv' /\ db' \in BOOLEAN
<1> SUFFICES ASSUME PoolInv, db \in BOOLEAN, [Next]_vars PROVE PoolInv' /\ db' \in BOOLEAN
  OBVIOUS
<1>1. ASSUME pool' = pool, db => db' PROVE PoolInv'
  BY <1>1 DEF PoolInv, Leased
<1>2. CASE \/ BadRequest \/ DbStarts \/ UNCHANGED vars
           \/ \E action \in Actions, name \in Names, password \in Passwords :
                 Request(action, name, password)
  BY <1>1, <1>2 DEF BadRequest, DbStarts, vars, Request
<1>3. CASE \/ Find \/ Create \/ FindAgain \/ LogIn \/ CallThrows
           \/ \E u \in 1..MaxUsers, nick \in Nicks : UpdateNickName(u, nick)
  <2>1. db' = db /\ (Works \/ Breaks \/ Throws)
    BY <1>3
       DEF Find, Create, FindAgain, FindByUsername, LogIn, CallThrows, UpdateNickName
  <2> QED
    BY <2>1, CallsKeepPool
<1>4. CASE DbStops
  BY <1>4, StopKeepsPool DEF DbStops
<1>5. CASE Restart
  BY <1>5, FreshPoolIsFull DEF Restart
<1> QED
  BY <1>2, <1>3, <1>4, <1>5 DEF Next

\* What the accounts, the pool and the request in progress always are.
THEOREM AccountsInvariance == Spec => []IInv
<1>1. IInv /\ [Next]_vars => IInv'
  BY NextKeepsTable, NextKeepsPool DEF IInv
<1> QED
  BY <1>1, InitInv, PTL DEF Spec

\* Rows, connections and requests keep their types, and the table its bound.
THEOREM AccountsTypes == Spec => []TypeOK
<1>1. IInv => TypeOK
  <2> SUFFICES ASSUME IInv PROVE TypeOK
    OBVIOUS
  <2>1. call = Idle \/ (call \in Call /\ Knows(call))
    BY DEF IInv, TableInv
  <2>2. \/ call = Idle
        \/ /\ call.phase \in {"find", "create", "again", "stamp"}
           /\ call.action \in Actions
           /\ call.name \in Names /\ call.password \in Passwords
           /\ {call.id, call.stamp} \subseteq UserIds \cup {Unknown}
           /\ call.failed \in BOOLEAN
    BY <2>1 DEF Call, Knows
  <2> QED
    BY <2>2 DEF IInv, TableInv, PoolInv, TypeOK, Account, Slot
<1> QED
  BY <1>1, AccountsInvariance, PTL

\* A connection is given back on every path but one: the constructor of a transaction
\* on a connection that was lost.  The pool opens another one only when all are out.
THEOREM LostConnectionsLeak == Spec => []OnlyLostConnectionsLeak
<1>1. IInv => OnlyLostConnectionsLeak
  BY DEF IInv, PoolInv, OnlyLostConnectionsLeak
<1> QED
  BY <1>1, AccountsInvariance, PTL

\* Only the INSERT adds a row, and what the query before it said still holds.
THEOREM NamesAreTakenOnce == Spec => TakenNamesAreRefused
<1> DEFINE A == Len(users') > Len(users) =>
                  \/ call.failed
                  \/ \A u \in UserIds : Lower[users[u].name] # Lower[users'[Len(users')].name]
<1>1. IInv /\ [Next]_vars => [A]_vars
  <2> SUFFICES ASSUME TableInv, [Next]_vars, Len(users') > Len(users), ~call.failed
               PROVE  \A u \in UserIds : Lower[users[u].name] # Lower[users'[Len(users')].name]
    BY DEF IInv
  <2>1. Len(users) \in Nat
    BY UserIdsAreNumbers
  <2>2. users' # users
    BY <2>1
  <2>3. ASSUME users' = [users EXCEPT ![call.stamp].last_login = "login"], call.stamp \in UserIds
        PROVE  FALSE
    <3>1. PICK u \in UserIds : u = call.stamp
      BY <2>3
    <3> QED
      BY <2>1, <2>3, <3>1, UpdateFacts
  <2>4. ASSUME NEW u \in UserIds, NEW nick \in Nicks, users' = [users EXCEPT ![u].nick = nick]
        PROVE  FALSE
    BY <2>1, <2>4, UpdateFacts
  <2>5. LogIn => FALSE
    <3>1. LogIn => call # Idle
      BY DEF LogIn, Idle
    <3>2. LogIn => call.stamp \in UserIds \cup {Unknown}
      BY <3>1, CallInProgress DEF Knows
    <3> QED
      BY <2>2, <2>3, <3>2 DEF LogIn
  <2>6. Create
    BY <2>2, <2>4, <2>5
       DEF Next, Request, BadRequest, Find, FindAgain, CallThrows, UpdateNickName, DbStops,
           DbStarts, Restart, vars
  <2>7. call # Idle /\ call.phase = "create" /\ users' = Append(users, Row)
    BY <2>2, <2>6 DEF Create, Idle
  <2>8. Matching(call.name) = {} /\ users'[Len(users')].name = call.name
    BY <2>7, CallInProgress, InsertFacts DEF Knows
  <2> QED
    BY <2>8 DEF Matching
<1> QED
  BY <1>1, AccountsInvariance, PTL DEF Spec, TakenNamesAreRefused

\* The account that answers a login was found by its name, and by its password when
\* there was one to check, and nothing changed these since.
THEOREM SuccessIsOfAnAccount == Spec => SuccessNamesAnAccount
<1> DEFINE A == call.phase = "stamp" /\ call' = Idle /\ answer' \notin {NoAnswer, Refused}
                  /\ ~call.failed =>
                  \E u \in UserIds :
                     /\ answer' = u
                     /\ Lower[users[u].name] = Lower[call.name]
                     /\ call.action = "login" => users[u].password = call.password
<1>1. IInv /\ [Next]_vars => [A]_vars
  <2> SUFFICES ASSUME TableInv, [Next]_vars, ~UNCHANGED vars, call.phase = "stamp",
                      call' = Idle, answer' \notin {NoAnswer, Refused}, ~call.failed
               PROVE  \E u \in UserIds :
                         /\ answer' = u
                         /\ Lower[users[u].name] = Lower[call.name]
                         /\ call.action = "login" => users[u].password = call.password
    BY DEF IInv
  <2>1. call # Idle
    BY DEF Idle
  <2>2. LogIn
    BY <2>1
       DEF Next, Request, BadRequest, Find, Create, FindAgain, CallThrows, UpdateNickName,
           DbStops, DbStarts, Restart, Answer, vars
  <2>3. answer' = call.id
    BY <2>2 DEF LogIn, Answer
  <2>4. Fits(call, call.id)
    BY <2>1, CallInProgress DEF Knows
  <2> QED
    BY <2>3, <2>4 DEF Fits
<1> QED
  BY <1>1, AccountsInvariance, PTL DEF Spec, SuccessNamesAnAccount
=============================================================================
