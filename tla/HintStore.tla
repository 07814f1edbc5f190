----------------------------- MODULE HintStore -----------------------------
(***************************************************************************)
(* The indicator: threads that meet in the documents of MongoDB and in the *)
(* fields of VersionService.  Requests insert games into the documents of  *)
(* the present batch under optimistic locking and are retried; an hourly   *)
(* tick carries the documents over to the next batch; a patch starts a     *)
(* version.                                                                *)
(*                                                                         *)
(* A query or a save is a step.  A document is the games counted in it, in *)
(* whatever cells of its matrices, and its revision.  The list of hints    *)
(* that a tick publishes is a copy of documents that no step reads back;   *)
(* it is left out.                                                         *)
(***************************************************************************)
EXTENDS Integers

CONSTANTS
    Games,
    Versions,        \* balance patch versions
    VersionOf,       \* the version a game was played in
    Requests,        \* calls of insertData
    Operators,       \* who may call updatePatchVersion
    PickDocs,        \* the documents of a batch in matrixRepository, by their rank in the loops
    WinDocs,         \* and those in winMatrixRepository
    MaxBatch,        \* bound on the ticks
    Ambiguous,       \* the games whose cards have indexes that are ids of cards, too
    DbFaults,        \* whether MongoDB may fail in a call
    NoVersion        \* "not yet set"

Docs == PickDocs \cup WinDocs
Batches == 1..MaxBatch
MaxAttempts == 3

ASSUME DocsAssumption ==
    /\ Docs \subseteq Nat
    /\ PickDocs # {} /\ WinDocs # {}
    /\ \A p \in PickDocs, w \in WinDocs : p < w
ASSUME VersionsAssumption == NoVersion \notin Versions /\ VersionOf \in [Games -> Versions]
ASSUME BoundsAssumption == MaxBatch \in Nat \ {0} /\ DbFaults \in BOOLEAN /\ Ambiguous \subseteq Games

\* The version and batch in the _id of a document; its _id; its contents.
Keys == Versions \X Batches
Slots == Keys \X Docs
Doc == [count : [Games -> Nat], rev : Nat]

VARIABLES
    docs,        \* the stored documents, by _id
    version, batch,      \* VersionService: currentPatchVersion, batchCount
    insert,      \* the calls of insertData
    tick,        \* the thread of BatchCountScheduler
    patch        \* the calls of updatePatchVersion

vars == <<docs, version, batch, insert, tick, patch>>

\* resetBatchCount, and a plausible bug.
FirstBatch_Zero == 0
FirstBatch == 1

Nothing == [s \in {} |-> {}]

Active == {"picks", "wins", "count", "save"}

\* Calls that wait or have ended; what an ended call read is forgotten.
Asleep(phase) == [phase |-> phase, games |-> {}, attempt |-> 1, converted |-> {},
                  mine |-> Nothing, left |-> {}]
NoTick == [phase |-> "idle", copies |-> Nothing, left |-> {}]
NoPatch == [phase |-> "idle", to |-> NoVersion, left |-> {}]

\* Snapshots of documents, as find returns them.
Snapshot(f) == DOMAIN f \subseteq Slots /\ \A s \in DOMAIN f : f[s] \in Doc

TypeOK ==
    /\ Snapshot(docs)
    /\ version \in Versions \cup {NoVersion}
    /\ batch \in Batches
    /\ \A r \in Requests :
        /\ insert[r].phase \in Active \cup {"idle", "done", "error"}
        /\ insert[r].converted \subseteq insert[r].games
        /\ insert[r].attempt \in 1..MaxAttempts
        /\ Snapshot(insert[r].mine)
        /\ insert[r].left \subseteq DOMAIN insert[r].mine \cap DOMAIN docs
    /\ tick.phase \in {"idle", "picks", "wins", "save"}
    /\ Snapshot(tick.copies)
    /\ tick.left \subseteq DOMAIN tick.copies
    /\ \A o \in Operators :
        /\ patch[o].phase \in {"idle", "set", "look", "picks", "wins", "save"}
        /\ patch[o].to \in Versions \cup {NoVersion}
        /\ patch[o].left \subseteq Slots

Init ==
    /\ docs = Nothing
    /\ version = NoVersion
    /\ batch = FirstBatch
    /\ insert = [r \in Requests |-> Asleep("idle")]
    /\ tick = NoTick
    /\ patch = [o \in Operators |-> NoPatch]

----------------------------------------------------------------------------
(* MongoDB *)

\* The batch that collects games now, and the one before it.  The two fields are
\* read one after the other with the query; the query is what takes time.
Now == <<version, batch>>
Before == <<version, batch - 1>>

\* find by the prefix of the _id: what there is of the documents ds of a batch.
Find(at, ds) == [s \in DOMAIN docs \cap ({at} \X ds) |-> docs[s]]

Merge(f, g) == [s \in DOMAIN f \cup DOMAIN g |-> IF s \in DOMAIN f THEN f[s] ELSE g[s]]

\* save of a document without a revision: an insert, for an _id that is free.
Add(s, count) == docs' = Merge(docs, [t \in {s} |-> [count |-> count, rev |-> 0]])

\* The loops over a list of documents, picks before wins.
First(left) == CHOOSE s \in left : \A t \in left : s[2] <= t[2]

----------------------------------------------------------------------------
(* GamerHintMatrixService.insertData *)

Insert(r, gs) ==
    /\ insert[r].phase = "idle"
    /\ insert' = [insert EXCEPT ![r] = [Asleep("picks") EXCEPT !.games = gs]]
    /\ UNCHANGED <<docs, version, batch, tick, patch>>

ReadPicks(r) ==
    /\ insert[r].phase = "picks"
    /\ insert' = [insert EXCEPT ![r].phase = "wins", ![r].mine = Find(Now, PickDocs)]
    /\ UNCHANGED <<docs, version, batch, tick, patch>>

ReadWins(r) ==
    /\ insert[r].phase = "wins"
    /\ insert' = [insert EXCEPT ![r].phase = "count", ![r].mine = Merge(@, Find(Now, WinDocs))]
    /\ UNCHANGED <<docs, version, batch, tick, patch>>

\* A plausible repair of generateTransitionXY: the request is not changed, so that
\* a retry counts its games like the first attempt did.
Countable_Again(r) == {{g \in insert[r].games : VersionOf[g] = version}}

\* The games a loop over the request counts.  generateTransitionXY replaces the
\* card ids in the request by indexes; a retry of the request looks the indexes
\* up as ids, finds none and skips the game, or finds others and counts those.
Countable(r) ==
    LET current == {g \in insert[r].games : VersionOf[g] = version}
        met == current \cap insert[r].converted
    IN {(current \ met) \cup again : again \in SUBSET (met \cap Ambiguous)}

CountGames(r) ==
    /\ insert[r].phase = "count"
    /\ \E gs \in Countable(r) :
        LET mine == insert[r].mine
            tallied == [s \in DOMAIN mine |->
                          [mine[s] EXCEPT !.count = [g \in Games |-> @[g] + (IF g \in gs THEN 1 ELSE 0)]]]
        IN insert' = [insert EXCEPT ![r] =
              IF mine = Nothing THEN Asleep("done")
              ELSE [@ EXCEPT !.phase = "save", !.mine = tallied, !.left = DOMAIN mine,
                             !.converted = insert[r].converted \cup gs]]
    /\ UNCHANGED <<docs, version, batch, tick, patch>>

\* A plausible bug: no revision is compared (MatrixDocument without @Version).
Save_Blindly(r) ==
    /\ insert[r].phase = "save"
    /\ LET s == First(insert[r].left)
           left == insert[r].left \ {s}
       IN /\ docs' = [docs EXCEPT ![s] = [count |-> insert[r].mine[s].count, rev |-> @.rev + 1]]
          /\ insert' = [insert EXCEPT ![r] = IF left = {} THEN Asleep("done") ELSE [@ EXCEPT !.left = left]]
    /\ UNCHANGED <<version, batch, tick, patch>>

\* A document is saved if nobody saved it since it was read; otherwise everything
\* starts again, three times in all, and what was saved stays.
Save(r) ==
    /\ insert[r].phase = "save"
    /\ LET s == First(insert[r].left)
           left == insert[r].left \ {s}
           mine == insert[r].mine[s]
       IN IF docs[s].rev = mine.rev
          THEN /\ docs' = [docs EXCEPT ![s] = [count |-> mine.count, rev |-> @.rev + 1]]
               /\ insert' = [insert EXCEPT ![r] =
                    IF left = {} THEN Asleep("done") ELSE [@ EXCEPT !.left = left]]
          ELSE /\ insert' = [insert EXCEPT ![r] =
                    IF @.attempt = MaxAttempts THEN Asleep("error")
                    ELSE [@ EXCEPT !.phase = "picks", !.attempt = insert[r].attempt + 1,
                                   !.mine = Nothing, !.left = {}]]
               /\ UNCHANGED docs
    /\ UNCHANGED <<version, batch, tick, patch>>

\* Any other exception of a query is answered with an error.
InsertFails(r) ==
    /\ DbFaults
    /\ insert[r].phase \in Active \ {"count"}
    /\ insert' = [insert EXCEPT ![r] = Asleep("error")]
    /\ UNCHANGED <<docs, version, batch, tick, patch>>

----------------------------------------------------------------------------
(* BatchCountScheduler.incrementBatchCount, hourly and when the server starts *)

Tick ==
    /\ tick.phase = "idle"
    /\ batch < MaxBatch
    /\ batch' = batch + 1
    /\ tick' = [tick EXCEPT !.phase = "picks"]
    /\ UNCHANGED <<docs, version, insert, patch>>

\* A plausible bug: the second loop is left out.
TickRead_SavesPicks ==
    /\ \/ /\ tick.phase = "picks"
          /\ tick' = [tick EXCEPT !.phase = "wins", !.copies = Find(Before, PickDocs)]
       \/ /\ tick.phase = "wins"
          /\ LET copies == Merge(tick.copies, Find(Before, WinDocs))
                 left == DOMAIN tick.copies
             IN tick' = IF left = {} THEN NoTick
                        ELSE [phase |-> "save", copies |-> copies, left |-> left]
    /\ UNCHANGED <<docs, version, batch, insert, patch>>

TickRead ==
    /\ \/ /\ tick.phase = "picks"
          /\ tick' = [tick EXCEPT !.phase = "wins", !.copies = Find(Before, PickDocs)]
       \/ /\ tick.phase = "wins"
          /\ LET copies == Merge(tick.copies, Find(Before, WinDocs))
             IN tick' = IF copies = Nothing THEN NoTick
                        ELSE [phase |-> "save", copies |-> copies, left |-> DOMAIN copies]
    /\ UNCHANGED <<docs, version, batch, insert, patch>>

\* The copies get the present version and batch.  An _id that exists ends the
\* tick, by a DuplicateKeyException.
TickSave ==
    /\ tick.phase = "save"
    /\ LET s == First(tick.left)
           t == <<Now, s[2]>>
       IN IF t \in DOMAIN docs
          THEN tick' = NoTick /\ UNCHANGED docs
          ELSE /\ Add(t, tick.copies[s].count)
               /\ tick' = IF tick.left = {s} THEN NoTick ELSE [tick EXCEPT !.left = @ \ {s}]
    /\ UNCHANGED <<version, batch, insert, patch>>

TickFails ==
    /\ DbFaults
    /\ tick.phase \in {"picks", "wins", "save"}
    /\ tick' = NoTick
    /\ UNCHANGED <<docs, version, batch, insert, patch>>

TickStep == TickRead \/ TickSave \/ TickFails

----------------------------------------------------------------------------
(* VersionService.updatePatchVersion, which takes no lock: calls may overlap *)

\* The version is compared, and set after the pools have been updated.
UpdatePatchVersion(o, v) ==
    /\ patch[o].phase = "idle"
    /\ v # version
    /\ patch' = [patch EXCEPT ![o].phase = "set", ![o].to = v]
    /\ UNCHANGED <<docs, version, batch, insert, tick>>

SetPatchVersion(o) ==
    /\ patch[o].phase = "set"
    /\ version' = patch[o].to
    /\ patch' = [patch EXCEPT ![o] = [NoPatch EXCEPT !.phase = "look"]]
    /\ UNCHANGED <<docs, batch, insert, tick>>

\* haveDocument and getLatestBatchCount, which look at matrixRepository only; a
\* failure of theirs counts as a version without documents.
LookForVersion(o) ==
    /\ patch[o].phase = "look"
    /\ LET saved == {b \in Batches : \E d \in PickDocs : <<<<version, b>>, d>> \in DOMAIN docs}
       IN \/ /\ saved # {}
             /\ batch' = CHOOSE b \in saved : \A c \in saved : c <= b
             /\ patch' = [patch EXCEPT ![o] = NoPatch]
          \/ /\ saved = {} \/ DbFaults
             /\ batch' = FirstBatch
             /\ patch' = [patch EXCEPT ![o].phase = "picks"]
    /\ UNCHANGED <<docs, version, insert, tick>>

\* generateDocument and generateWinDocument: blank documents of the present batch.
Generate(o) ==
    /\ patch[o].phase \in {"picks", "wins"}
    /\ patch' = [patch EXCEPT ![o].phase = "save",
                  ![o].left = {Now} \X (IF patch[o].phase = "picks" THEN PickDocs ELSE WinDocs)]
    /\ UNCHANGED <<docs, version, batch, insert, tick>>

SaveBlank(o) ==
    /\ patch[o].phase = "save"
    /\ LET s == First(patch[o].left)
           left == patch[o].left \ {s}
       IN IF s \in DOMAIN docs
          THEN patch' = [patch EXCEPT ![o] = NoPatch] /\ UNCHANGED docs
          ELSE /\ Add(s, [g \in Games |-> 0])
               /\ patch' = [patch EXCEPT ![o] =
                     IF left # {} THEN [@ EXCEPT !.left = left]
                     ELSE IF s[2] \in PickDocs THEN [NoPatch EXCEPT !.phase = "wins"]
                     ELSE NoPatch]
    /\ UNCHANGED <<version, batch, insert, tick>>

PatchFails(o) ==
    /\ DbFaults
    /\ patch[o].phase = "save"
    /\ patch' = [patch EXCEPT ![o] = NoPatch]
    /\ UNCHANGED <<docs, version, batch, insert, tick>>

PatchStep(o) ==
    \/ SetPatchVersion(o) \/ LookForVersion(o) \/ Generate(o)
    \/ SaveBlank(o) \/ PatchFails(o)

----------------------------------------------------------------------------

InsertStep(r) == ReadPicks(r) \/ ReadWins(r) \/ CountGames(r) \/ Save(r) \/ InsertFails(r)

\* The server dies and is started again; callers get an error.
Restart ==
    /\ version' = NoVersion
    /\ batch' = FirstBatch
    /\ insert' = [r \in Requests |-> IF insert[r].phase \in Active THEN Asleep("error") ELSE insert[r]]
    /\ tick' = NoTick
    /\ patch' = [o \in Operators |-> NoPatch]
    /\ UNCHANGED docs

\* Everything the indicator does by itself or on behalf of players and operators.
ServerStep ==
    \/ \E r \in Requests : InsertStep(r)
    \/ Tick \/ TickStep
    \/ \E o \in Operators : PatchStep(o) \/ \E v \in Versions : UpdatePatchVersion(o, v)
    \/ Restart

Next == ServerStep \/ \E r \in Requests, gs \in SUBSET Games : Insert(r, gs)

Spec == Init /\ [][Next]_vars

----------------------------------------------------------------------------
(* Properties *)

\* A request for games of the current version is counted in all the documents it
\* read or in none: what a call of insertData answered with success it has done.
AnsweredGamesAreCounted ==
    [][\A r \in Requests :
          insert[r].phase = "save" /\ insert'[r].phase = "done" =>
              \A s, t \in DOMAIN insert[r].mine, g \in insert[r].games :
                  docs'[s].count[g] > 0 <=> docs'[t].count[g] > 0]_vars

\* s was copied if there is another document of its rank with at least count.
CopiedWith(s, count) ==
    \E t \in DOMAIN docs' \ DOMAIN tick.copies :
        t[2] = s[2] /\ \A g \in Games : docs'[t].count[g] >= count[g]

\* The tick's last save: its loops are over.
LastCopyMade == tick.phase = "save" /\ tick'.phase = "idle" /\ docs' # docs

\* A tick that ends its loops has carried over every document it read, of picks and
\* of wins, whatever requests, patches and failures did in between.  What a request
\* saves in a document after it was read stays behind in the batch before.
CarryOverIsComplete ==
    [][LastCopyMade => \A s \in DOMAIN tick.copies : CopiedWith(s, tick.copies[s].count)]_vars
=============================================================================
