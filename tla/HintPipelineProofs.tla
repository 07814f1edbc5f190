------------------------- MODULE HintPipelineProofs -------------------------
(***************************************************************************)
(* Proofs about HintStore and HintPipeline for every set of games,         *)
(* versions, documents and batches, with or without failures of MongoDB:   *)
(* what documents and the copies of them in requests and ticks have to do  *)
(* with each other, and that the store implements HintLedger.              *)
(***************************************************************************)
EXTENDS HintPipeline, FiniteSetTheorems, NaturalsInduction, WellFoundedInduction, TLAPS

----------------------------------------------------------------------------
(* The invariant of the store *)

Snapshots == UNION {[D -> Doc] : D \in SUBSET Slots}

\* The shapes of calls, ticks and patches, more exactly than TypeOK has them.
Calls == [phase : Active \cup {"idle", "done", "error"}, games : SUBSET Games,
          attempt : 1..MaxAttempts, converted : SUBSET Games,
          mine : Snapshots, left : SUBSET Slots]
Ticks == [phase : {"idle", "picks", "wins", "save"}, copies : Snapshots, left : SUBSET Slots]
Patches == [phase : {"idle", "set", "look", "picks", "wins", "save"},
            to : Versions \cup {NoVersion}, left : SUBSET Slots]

\* What a document has counted, another has.
Within(d, e) == \A g \in Games : d.count[g] <= e.count[g]

\* A request's copy of a document is not newer than the document; unless somebody
\* saved the document since, saving the copy takes nothing away.
Old(m, d) ==
    \A s \in DOMAIN m :
        /\ s \in DOMAIN d
        /\ m[s].rev <= d[s].rev
        /\ m[s].rev = d[s].rev => Within(d[s], m[s])

\* The documents a tick copies are still there, with everything that was copied.
Copied(c, d) == \A s \in DOMAIN c : s \in DOMAIN d /\ Within(c[s], d[s])

\* Loops that save have something to save, and it is known under which version.
CallOK(c, d) ==
    /\ c \in Calls
    /\ c.converted \subseteq c.games
    /\ c.left \subseteq DOMAIN c.mine
    /\ c.phase = "save" <=> c.left # {}
    /\ Old(c.mine, d)

TickOK(t, d, v) ==
    /\ t \in Ticks
    /\ t.left \subseteq DOMAIN t.copies
    /\ t.phase = "save" <=> t.left # {}
    /\ DOMAIN t.copies # {} => v \in Versions
    /\ Copied(t.copies, d)

PatchOK(p, v) ==
    /\ p \in Patches
    /\ p.phase = "save" => p.left # {}
    /\ p.phase = "set" => p.to \in Versions
    /\ p.phase \notin {"idle", "set"} => v \in Versions

StoreInv ==
    /\ docs \in Snapshots
    /\ version \in Versions \cup {NoVersion}
    /\ batch \in Batches
    /\ insert \in [Requests -> Calls]
    /\ \A r \in Requests : CallOK(insert[r], docs)
    /\ TickOK(tick, docs, version)
    /\ patch \in [Operators -> Patches]
    /\ \A o \in Operators : PatchOK(patch[o], version)

----------------------------------------------------------------------------
(* Choices *)

LEMMA SmallestNumber ==
    ASSUME NEW T \in SUBSET Nat, T # {}
    PROVE  \E x \in T : \A y \in T : x <= y
<1>1. PICK x \in T : \A y \in T : ~ (<<y, x>> \in OpToRel(<, Nat))
  BY NatLessThanWellFounded, WFMin
<1>2. ASSUME NEW y \in T
      PROVE  x <= y
  <2>1. x \in Nat /\ y \in Nat
    OBVIOUS
  <2>2. ~ (y < x)
    BY <1>1, <2>1 DEF OpToRel
  <2> QED
    BY <2>1, <2>2
<1> QED
  BY <1>2

\* The loops come to every document they have left.
LEMMA FirstIsLeft ==
    ASSUME NEW left \in SUBSET Slots, left # {}
    PROVE  First(left) \in left
<1> DEFINE ranks == {s[2] : s \in left}
<1>1. \A s \in left : s[2] \in Nat
  BY DocsAssumption DEF Slots
<1>2. ranks \in SUBSET Nat /\ ranks # {}
  BY <1>1
<1>3. PICK x \in ranks : \A y \in ranks : x <= y
  BY <1>2, SmallestNumber
<1>4. \E s \in left : \A t \in left : s[2] <= t[2]
  BY <1>3
<1> QED
  BY <1>4 DEF First

\* getLatestBatchCount finds a batch.
LEMMA LatestIsSaved ==
    ASSUME NEW saved \in SUBSET Batches, saved # {}
    PROVE  (CHOOSE b \in saved : \A c \in saved : c <= b) \in saved
<1> DEFINE back == {MaxBatch - b : b \in saved}
<1>1. MaxBatch \in Nat /\ \A b \in saved : b \in Nat /\ b <= MaxBatch
  BY BoundsAssumption DEF Batches
<1>2. back \in SUBSET Nat /\ back # {}
  BY <1>1
<1>3. PICK x \in back : \A y \in back : x <= y
  BY <1>2, SmallestNumber
<1>4. PICK b \in saved : x = MaxBatch - b
  BY <1>3
<1>5. ASSUME NEW c \in saved
      PROVE  c <= b
  <2>1. x <= MaxBatch - c
    BY <1>3
  <2> QED
    BY <1>1, <1>4, <2>1
<1> QED
  BY <1>5

----------------------------------------------------------------------------
(* Snapshots *)

\* Documents are only added, and saved with more games and a higher revision.
Grows(d, e) ==
    \A s \in DOMAIN d :
        /\ s \in DOMAIN e
        /\ \/ e[s] = d[s]
           \/ e[s].rev > d[s].rev /\ Within(d[s], e[s])

LEMMA SnapshotShape ==
    ASSUME NEW f \in Snapshots
    PROVE  /\ DOMAIN f \subseteq Slots
           /\ f = [s \in DOMAIN f |-> f[s]]
           /\ \A s \in DOMAIN f : f[s] \in Doc
<1>1. PICK D \in SUBSET Slots : f \in [D -> Doc]
  BY DEF Snapshots
<1> QED
  BY <1>1

LEMMA ShapeOfSnapshot ==
    ASSUME NEW D \in SUBSET Slots, NEW f \in [D -> Doc]
    PROVE  f \in Snapshots
BY DEF Snapshots

LEMMA NothingIsSnapshot == Nothing \in Snapshots /\ DOMAIN Nothing = {}
<1>1. Nothing \in [{} -> Doc]
  BY DEF Nothing
<1> QED
  BY <1>1, ShapeOfSnapshot

LEMMA SnapshotWithoutSlots ==
    ASSUME NEW f \in Snapshots, f # Nothing
    PROVE  DOMAIN f # {}
<1> SUFFICES ASSUME DOMAIN f = {} PROVE FALSE
  OBVIOUS
<1>1. f = [s \in {} |-> f[s]]
  BY SnapshotShape
<1>2. [s \in {} |-> f[s]] = [s \in {} |-> {}]
  OBVIOUS
<1> QED
  BY <1>1, <1>2 DEF Nothing

LEMMA DocShape ==
    ASSUME NEW d \in Doc
    PROVE  /\ d.rev \in Nat
           /\ d.count \in [Games -> Nat]
           /\ \A g \in Games : d.count[g] \in Nat
BY DEF Doc

\* What find returns.
LEMMA FindIsSnapshot ==
    ASSUME docs \in Snapshots, NEW at, NEW ds
    PROVE  /\ Find(at, ds) \in Snapshots
           /\ DOMAIN Find(at, ds) \subseteq DOMAIN docs
           /\ \A s \in DOMAIN Find(at, ds) : s[1] = at /\ Find(at, ds)[s] = docs[s]
<1>1. Find(at, ds) \in [DOMAIN docs \cap ({at} \X ds) -> Doc]
  BY SnapshotShape DEF Find
<1>2. DOMAIN docs \cap ({at} \X ds) \in SUBSET Slots
  BY SnapshotShape
<1> QED
  BY <1>1, <1>2, ShapeOfSnapshot DEF Find

LEMMA MergeIsSnapshot ==
    ASSUME NEW f \in Snapshots, NEW g \in Snapshots
    PROVE  /\ Merge(f, g) \in Snapshots
           /\ DOMAIN Merge(f, g) = DOMAIN f \cup DOMAIN g
           /\ \A s \in DOMAIN Merge(f, g) :
                Merge(f, g)[s] = IF s \in DOMAIN f THEN f[s] ELSE g[s]
<1>1. Merge(f, g) \in [DOMAIN f \cup DOMAIN g -> Doc]
  BY SnapshotShape DEF Merge
<1>2. DOMAIN f \cup DOMAIN g \in SUBSET Slots
  BY SnapshotShape
<1> QED
  BY <1>1, <1>2, ShapeOfSnapshot DEF Merge

LEMMA FoundIsOld ==
    ASSUME docs \in Snapshots, NEW at, NEW ds
    PROVE  Old(Find(at, ds), docs) /\ Copied(Find(at, ds), docs)
<1>1. \A d \in Doc : d.rev <= d.rev /\ Within(d, d)
  BY DocShape DEF Within
<1> QED
  BY <1>1, FindIsSnapshot, SnapshotShape DEF Old, Copied

LEMMA MergedAreOld ==
    ASSUME NEW f \in Snapshots, NEW g \in Snapshots, NEW d
    PROVE  /\ Old(f, d) /\ Old(g, d) => Old(Merge(f, g), d)
           /\ Copied(f, d) /\ Copied(g, d) => Copied(Merge(f, g), d)
<1>1. \A s \in DOMAIN Merge(f, g) :
        \/ s \in DOMAIN f /\ Merge(f, g)[s] = f[s]
        \/ s \in DOMAIN g /\ Merge(f, g)[s] = g[s]
  <2>1. DOMAIN Merge(f, g) = DOMAIN f \cup DOMAIN g
    BY MergeIsSnapshot
  <2>2. \A s \in DOMAIN Merge(f, g) :
          Merge(f, g)[s] = IF s \in DOMAIN f THEN f[s] ELSE g[s]
    BY MergeIsSnapshot
  <2> QED
    BY <2>1, <2>2
<1>2. Old(f, d) /\ Old(g, d) => Old(Merge(f, g), d)
  BY <1>1 DEF Old
<1>3. Copied(f, d) /\ Copied(g, d) => Copied(Merge(f, g), d)
  BY <1>1 DEF Copied
<1> QED
  BY <1>2, <1>3

\* Copies stay old, and copied documents stay, while documents grow.
LEMMA GrowthKeepsCopies ==
    ASSUME NEW d \in Snapshots, NEW e \in Snapshots, Grows(d, e), NEW m \in Snapshots
    PROVE  /\ Old(m, d) => Old(m, e)
           /\ Copied(m, d) => Copied(m, e)
<1> USE SnapshotShape, DocShape
<1>1. ASSUME Old(m, d), NEW s \in DOMAIN m
      PROVE  /\ s \in DOMAIN e
             /\ m[s].rev <= e[s].rev
             /\ m[s].rev = e[s].rev => Within(e[s], m[s])
  <2>1. s \in DOMAIN d /\ s \in DOMAIN e /\ m[s].rev <= d[s].rev
    BY <1>1 DEF Old, Grows
  <2>2. m[s].rev \in Nat /\ d[s].rev \in Nat /\ e[s].rev \in Nat
    BY <2>1
  <2>3. CASE e[s] = d[s]
    BY <1>1, <2>1, <2>3 DEF Old
  <2>4. CASE e[s].rev > d[s].rev
    BY <2>1, <2>2, <2>4
  <2> QED
    BY <2>1, <2>3, <2>4 DEF Grows
<1>2. ASSUME Copied(m, d), NEW s \in DOMAIN m
      PROVE  s \in DOMAIN e /\ Within(m[s], e[s])
  <2>1. s \in DOMAIN d /\ s \in DOMAIN e /\ Within(m[s], d[s])
    BY <1>2 DEF Copied, Grows
  <2>2. e[s] = d[s] \/ Within(d[s], e[s])
    BY <2>1 DEF Grows
  <2>3. \A g \in Games : m[s].count[g] \in Nat /\ d[s].count[g] \in Nat /\ e[s].count[g] \in Nat
    BY <2>1
  <2> QED
    BY <2>1, <2>2, <2>3 DEF Within
<1> QED
  BY <1>1, <1>2 DEF Old, Copied

\* Documents have ids of versions.
LEMMA KnownVersion ==
    ASSUME docs \in Snapshots, NEW b, NEW ds, DOMAIN Find(<<version, b>>, ds) # {}
    PROVE  version \in Versions
<1>1. PICK s \in DOMAIN Find(<<version, b>>, ds) : TRUE
  OBVIOUS
<1>2. s[1] = <<version, b>> /\ s \in Slots
  BY FindIsSnapshot, SnapshotShape
<1>3. <<version, b>> \in Versions \X Batches
  BY <1>2 DEF Slots, Keys
<1> QED
  BY <1>3

LEMMA NothingGrows ==
    ASSUME NEW d
    PROVE  Grows(d, d)
BY DEF Grows

\* What a save of a copy that is not older than the document does.
LEMMA SaveGrows ==
    ASSUME NEW d \in Snapshots, NEW s \in DOMAIN d, NEW m \in Doc, Within(d[s], m), NEW e,
           e = [d EXCEPT ![s] = [count |-> m.count, rev |-> @.rev + 1]]
    PROVE  e \in Snapshots /\ DOMAIN e = DOMAIN d /\ Grows(d, e)
<1>1. DOMAIN e = DOMAIN d /\ \A t \in DOMAIN d : t # s => e[t] = d[t]
  BY SnapshotShape
<1>2. e[s] = [count |-> m.count, rev |-> d[s].rev + 1]
  BY SnapshotShape
<1>3. d[s].rev \in Nat /\ m.count \in [Games -> Nat]
  BY SnapshotShape, DocShape
<1>4. e[s] \in Doc
  BY <1>2, <1>3 DEF Doc
<1>5. e \in [DOMAIN d -> Doc]
  BY <1>1, <1>4, SnapshotShape
<1>6. e \in Snapshots
  BY <1>5, SnapshotShape, ShapeOfSnapshot
<1>7. e[s].rev > d[s].rev /\ Within(d[s], e[s])
  BY <1>2, <1>3 DEF Within
<1> QED
  BY <1>1, <1>6, <1>7 DEF Grows

\* What an insert of a document does.
LEMMA AddGrows ==
    ASSUME docs \in Snapshots, NEW s \in Slots, s \notin DOMAIN docs,
           NEW count \in [Games -> Nat], Add(s, count)
    PROVE  /\ docs' \in Snapshots
           /\ DOMAIN docs' = DOMAIN docs \cup {s}
           /\ docs'[s] = [count |-> count, rev |-> 0]
           /\ \A t \in DOMAIN docs : docs'[t] = docs[t]
           /\ Grows(docs, docs')
<1> DEFINE new == [t \in {s} |-> [count |-> count, rev |-> 0]]
<1>1. new \in [{s} -> Doc]
  BY DEF Doc
<1>2. new \in Snapshots /\ DOMAIN new = {s} /\ new[s] = [count |-> count, rev |-> 0]
  BY <1>1, ShapeOfSnapshot
<1>3. docs' = Merge(docs, new)
  BY DEF Add
<1> HIDE DEF new
<1>4. docs' \in Snapshots /\ DOMAIN docs' = DOMAIN docs \cup {s}
  BY <1>2, <1>3, MergeIsSnapshot
<1>5. \A t \in DOMAIN docs' : docs'[t] = IF t \in DOMAIN docs THEN docs[t] ELSE new[t]
  <2>1. \A t \in DOMAIN Merge(docs, new) :
          Merge(docs, new)[t] = IF t \in DOMAIN docs THEN docs[t] ELSE new[t]
    BY DEF Merge
  <2> QED
    BY <1>3, <2>1
<1>6. \A t \in DOMAIN docs : docs'[t] = docs[t]
  BY <1>4, <1>5
<1>7. docs'[s] = [count |-> count, rev |-> 0]
  BY <1>2, <1>4, <1>5
<1> QED
  BY <1>4, <1>6, <1>7 DEF Grows

----------------------------------------------------------------------------
(* What one step leaves of the invariant to show *)

LEMMA AsleepIsOK ==
    ASSUME NEW p \in {"idle", "picks", "done", "error"}, NEW d
    PROVE  CallOK(Asleep(p), d)
<1>1. Asleep(p) \in Calls
  BY NothingIsSnapshot DEF Asleep, Calls, Active, MaxAttempts
<1> QED
  BY <1>1, NothingIsSnapshot DEF Asleep, CallOK, Old

LEMMA NoTickIsOK ==
    ASSUME NEW d, NEW v
    PROVE  TickOK(NoTick, d, v)
BY NothingIsSnapshot DEF NoTick, TickOK, Ticks, Copied

LEMMA NoPatchIsOK ==
    ASSUME NEW v
    PROVE  PatchOK(NoPatch, v)
BY DEF NoPatch, PatchOK, Patches

LEMMA GrowthKeepsOthers ==
    ASSUME NEW d \in Snapshots, NEW e \in Snapshots, Grows(d, e)
    PROVE  /\ \A c : CallOK(c, d) => CallOK(c, e)
           /\ \A t, v : TickOK(t, d, v) => TickOK(t, e, v)
<1>1. ASSUME NEW c, CallOK(c, d)
      PROVE  CallOK(c, e)
  <2>1. c.mine \in Snapshots
    BY <1>1 DEF CallOK, Calls
  <2> QED
    BY <1>1, <2>1, GrowthKeepsCopies DEF CallOK
<1>2. ASSUME NEW t, NEW v, TickOK(t, d, v)
      PROVE  TickOK(t, e, v)
  <2>1. t.copies \in Snapshots
    BY <1>2 DEF TickOK, Ticks
  <2> QED
    BY <1>2, <2>1, GrowthKeepsCopies DEF TickOK
<1> QED
  BY <1>1, <1>2

\* A step of request r.
LEMMA CallStep ==
    ASSUME StoreInv, NEW r \in Requests, NEW c,
           docs' \in Snapshots, Grows(docs, docs'),
           insert' = [insert EXCEPT ![r] = c], CallOK(c, docs'),
           UNCHANGED <<version, batch, tick, patch>>
    PROVE  StoreInv'
<1>1. c \in Calls
  BY DEF CallOK
<1>2. insert' \in [Requests -> Calls]
  BY <1>1 DEF StoreInv
<1>3. \A q \in Requests : CallOK(insert'[q], docs')
  BY GrowthKeepsOthers DEF StoreInv
<1>4. TickOK(tick', docs', version')
  BY GrowthKeepsOthers DEF StoreInv
<1> QED
  BY <1>2, <1>3, <1>4 DEF StoreInv

\* A step of the tick.
LEMMA TickStepOK ==
    ASSUME StoreInv,
           docs' \in Snapshots, Grows(docs, docs'), batch' \in Batches,
           TickOK(tick', docs', version),
           UNCHANGED <<version, insert, patch>>
    PROVE  StoreInv'
BY GrowthKeepsOthers DEF StoreInv

\* A step of the patch of operator o.
LEMMA PatchStepOK ==
    ASSUME StoreInv, NEW o \in Operators, NEW p,
           docs' \in Snapshots, Grows(docs, docs'), batch' \in Batches,
           patch' = [patch EXCEPT ![o] = p], PatchOK(p, version),
           UNCHANGED <<version, insert, tick>>
    PROVE  StoreInv'
<1>1. p \in Patches
  BY DEF PatchOK
<1>2. patch' \in [Operators -> Patches] /\ \A q \in Operators : PatchOK(patch'[q], version)
  BY <1>1 DEF StoreInv
<1> QED
  BY <1>2, GrowthKeepsOthers DEF StoreInv

----------------------------------------------------------------------------
(* The invariant of the store is inductive *)

LEMMA StoreInit == Init => StoreInv
<1> SUFFICES ASSUME Init PROVE StoreInv
  OBVIOUS
<1>1. docs \in Snapshots /\ batch \in Batches
  BY NothingIsSnapshot, BoundsAssumption DEF Init, Batches, FirstBatch
<1>2. CallOK(Asleep("idle"), docs)
  BY AsleepIsOK
<1>3. Asleep("idle") \in Calls
  BY <1>2 DEF CallOK
<1> QED
  BY <1>1, <1>2, <1>3, NoTickIsOK, NoPatchIsOK DEF Init, StoreInv, PatchOK

LEMMA InsertKeeps ==
    ASSUME StoreInv, NEW r \in Requests, NEW gs \in SUBSET Games, Insert(r, gs)
    PROVE  StoreInv' /\ docs' = docs
<1> DEFINE c == [Asleep("picks") EXCEPT !.games = gs]
<1>1. Asleep("picks") \in Calls /\ CallOK(Asleep("picks"), docs)
  BY AsleepIsOK DEF CallOK
<1>2. /\ c \in Calls /\ c.mine = Asleep("picks").mine /\ c.left = {} /\ c.converted = {}
      /\ c.phase = "picks"
  BY <1>1 DEF Calls, Asleep
<1>3. CallOK(c, docs)
  BY <1>1, <1>2 DEF CallOK
<1> HIDE DEF c
<1>4. insert' = [insert EXCEPT ![r] = c] /\ UNCHANGED <<docs, version, batch, tick, patch>>
  BY DEF Insert, c
<1> QED
  BY <1>3, <1>4, CallStep, NothingGrows DEF StoreInv

LEMMA ReadPicksKeeps ==
    ASSUME StoreInv, NEW r \in Requests, ReadPicks(r)
    PROVE  StoreInv' /\ docs' = docs
<1> DEFINE c == [insert[r] EXCEPT !.phase = "wins", !.mine = Find(Now, PickDocs)]
<1>1. insert[r] \in Calls /\ CallOK(insert[r], docs) /\ docs \in Snapshots
  BY DEF StoreInv
<1>2. Find(Now, PickDocs) \in Snapshots /\ Old(Find(Now, PickDocs), docs)
  BY <1>1, FindIsSnapshot, FoundIsOld
<1>3. insert[r].left = {}
  BY <1>1 DEF ReadPicks, CallOK
<1>4. CallOK(c, docs)
  <2>1. c \in Calls /\ c.mine = Find(Now, PickDocs) /\ c.phase = "wins"
    BY <1>1, <1>2 DEF Calls, Active
  <2>2. c.left = {} /\ c.converted = insert[r].converted /\ c.games = insert[r].games
    BY <1>1, <1>3 DEF Calls
  <2> QED
    BY <1>1, <1>2, <2>1, <2>2 DEF CallOK
<1> HIDE DEF c
<1>5. insert' = [insert EXCEPT ![r] = c] /\ UNCHANGED <<docs, version, batch, tick, patch>>
  BY <1>1 DEF ReadPicks, c, StoreInv
<1> QED
  BY <1>1, <1>4, <1>5, CallStep, NothingGrows

LEMMA ReadWinsKeeps ==
    ASSUME StoreInv, NEW r \in Requests, ReadWins(r)
    PROVE  StoreInv' /\ docs' = docs
<1> DEFINE both == Merge(insert[r].mine, Find(Now, WinDocs))
           c == [insert[r] EXCEPT !.phase = "count", !.mine = both]
<1>1. insert[r] \in Calls /\ CallOK(insert[r], docs) /\ docs \in Snapshots
  BY DEF StoreInv
<1>2. /\ insert[r].mine \in Snapshots /\ Old(insert[r].mine, docs)
      /\ Find(Now, WinDocs) \in Snapshots /\ Old(Find(Now, WinDocs), docs)
  BY <1>1, FindIsSnapshot, FoundIsOld DEF CallOK, Calls
<1>3. both \in Snapshots /\ Old(both, docs)
  BY <1>2, MergeIsSnapshot, MergedAreOld
<1>4. insert[r].left = {}
  BY <1>1 DEF ReadWins, CallOK
<1> HIDE DEF both
<1>5. CallOK(c, docs)
  <2>1. c \in Calls /\ c.mine = both /\ c.phase = "count"
    BY <1>1, <1>3 DEF Calls, Active
  <2>2. c.left = {} /\ c.converted = insert[r].converted /\ c.games = insert[r].games
    BY <1>1, <1>4 DEF Calls
  <2> QED
    BY <1>1, <1>3, <2>1, <2>2 DEF CallOK
<1> HIDE DEF c
<1>6. insert' = [insert EXCEPT ![r] = c] /\ UNCHANGED <<docs, version, batch, tick, patch>>
  BY <1>1 DEF ReadWins, c, both, StoreInv
<1> QED
  BY <1>1, <1>5, <1>6, CallStep, NothingGrows

\* The copies of a request after a loop that counts gs in them.
Tallied(m, gs) ==
    [s \in DOMAIN m |->
        [m[s] EXCEPT !.count = [g \in Games |-> @[g] + (IF g \in gs THEN 1 ELSE 0)]]]

\* A loop over a request adds to every copy, and leaves its revision.
LEMMA TalliedIsSnapshot ==
    ASSUME NEW m \in Snapshots, NEW gs
    PROVE  /\ Tallied(m, gs) \in Snapshots
           /\ DOMAIN Tallied(m, gs) = DOMAIN m
           /\ \A s \in DOMAIN m :
                /\ Tallied(m, gs)[s].rev = m[s].rev
                /\ \A g \in Games :
                     Tallied(m, gs)[s].count[g] = m[s].count[g] + (IF g \in gs THEN 1 ELSE 0)
                /\ Within(m[s], Tallied(m, gs)[s])
<1>1. ASSUME NEW s \in DOMAIN m
      PROVE  /\ Tallied(m, gs)[s] \in Doc
             /\ Tallied(m, gs)[s].rev = m[s].rev
             /\ \A g \in Games :
                  Tallied(m, gs)[s].count[g] = m[s].count[g] + (IF g \in gs THEN 1 ELSE 0)
  <2> DEFINE n == [g \in Games |-> m[s].count[g] + (IF g \in gs THEN 1 ELSE 0)]
  <2>1. m[s] \in Doc /\ \A g \in Games : m[s].count[g] \in Nat
    BY SnapshotShape, DocShape
  <2>2. n \in [Games -> Nat]
    BY <2>1
  <2>3. Tallied(m, gs)[s] = [m[s] EXCEPT !.count = n]
    BY DEF Tallied
  <2>4. \A g \in Games : n[g] = m[s].count[g] + (IF g \in gs THEN 1 ELSE 0)
    OBVIOUS
  <2> HIDE DEF n
  <2>5. [m[s] EXCEPT !.count = n] = [count |-> n, rev |-> m[s].rev] /\ m[s].rev \in Nat
    BY <2>1 DEF Doc
  <2>6. Tallied(m, gs)[s] = [count |-> n, rev |-> m[s].rev]
    BY <2>3, <2>5
  <2>7. Tallied(m, gs)[s].rev = m[s].rev /\ Tallied(m, gs)[s].count = n
    BY <2>6
  <2>8. Tallied(m, gs)[s] \in Doc
    BY <2>2, <2>5, <2>6 DEF Doc
  <2> QED
    BY <2>4, <2>7, <2>8
<1>2. DOMAIN Tallied(m, gs) = DOMAIN m /\ Tallied(m, gs) \in [DOMAIN m -> Doc]
  BY <1>1 DEF Tallied
<1>3. Tallied(m, gs) \in Snapshots
  BY <1>2, SnapshotShape, ShapeOfSnapshot
<1>4. ASSUME NEW s \in DOMAIN m
      PROVE  Within(m[s], Tallied(m, gs)[s])
  <2>1. ASSUME NEW g \in Games
        PROVE  m[s].count[g] <= Tallied(m, gs)[s].count[g]
    <3>1. m[s].count[g] \in Nat
      BY SnapshotShape, DocShape
    <3>2. Tallied(m, gs)[s].count[g] = m[s].count[g] + (IF g \in gs THEN 1 ELSE 0)
      BY <1>1
    <3> QED
      BY <3>1, <3>2
  <2> QED
    BY <2>1 DEF Within
<1> QED
  BY <1>1, <1>2, <1>3, <1>4

LEMMA TalliedAreOld ==
    ASSUME NEW m \in Snapshots, NEW gs, NEW d \in Snapshots, Old(m, d)
    PROVE  Old(Tallied(m, gs), d)
<1> SUFFICES ASSUME NEW s \in DOMAIN m
             PROVE  /\ s \in DOMAIN d
                    /\ Tallied(m, gs)[s].rev <= d[s].rev
                    /\ Tallied(m, gs)[s].rev = d[s].rev => Within(d[s], Tallied(m, gs)[s])
  BY TalliedIsSnapshot DEF Old
<1>1. Tallied(m, gs)[s].rev = m[s].rev /\ Within(m[s], Tallied(m, gs)[s])
  BY TalliedIsSnapshot
<1>2. s \in DOMAIN d /\ m[s].rev <= d[s].rev /\ (m[s].rev = d[s].rev => Within(d[s], m[s]))
  BY DEF Old
<1>3. \A g \in Games : /\ d[s].count[g] \in Nat /\ m[s].count[g] \in Nat
                       /\ Tallied(m, gs)[s].count[g] \in Nat
  BY <1>2, TalliedIsSnapshot, SnapshotShape, DocShape
<1> QED
  BY <1>1, <1>2, <1>3 DEF Within

LEMMA CountGamesKeeps ==
    ASSUME StoreInv, NEW r \in Requests, CountGames(r)
    PROVE  StoreInv' /\ docs' = docs
<1> DEFINE m == insert[r].mine
<1>1. insert[r] \in Calls /\ CallOK(insert[r], docs) /\ docs \in Snapshots
  BY DEF StoreInv
<1>2. m \in Snapshots /\ Old(m, docs)
  BY <1>1 DEF CallOK, Calls
<1>3. PICK gs \in Countable(r) :
        insert' = [insert EXCEPT ![r] =
              IF m = Nothing THEN Asleep("done")
              ELSE [insert[r] EXCEPT !.phase = "save", !.mine = Tallied(m, gs), !.left = DOMAIN m,
                                     !.converted = insert[r].converted \cup gs]]
  BY DEF CountGames, Tallied
<1>4. gs \subseteq insert[r].games
  BY DEF Countable
<1>5. UNCHANGED <<docs, version, batch, tick, patch>>
  BY DEF CountGames
<1>6. CASE m = Nothing
  <2>1. CallOK(Asleep("done"), docs')
    BY AsleepIsOK
  <2>2. insert' = [insert EXCEPT ![r] = Asleep("done")]
    BY <1>3, <1>6
  <2> QED
    BY <1>1, <1>5, <2>1, <2>2, CallStep, NothingGrows
<1>7. CASE m # Nothing
  <2> DEFINE c == [insert[r] EXCEPT !.phase = "save", !.mine = Tallied(m, gs), !.left = DOMAIN m,
                                    !.converted = insert[r].converted \cup gs]
  <2>1. /\ Tallied(m, gs) \in Snapshots /\ DOMAIN Tallied(m, gs) = DOMAIN m
        /\ Old(Tallied(m, gs), docs)
    BY <1>1, <1>2, TalliedIsSnapshot, TalliedAreOld
  <2>2. DOMAIN m # {} /\ DOMAIN m \subseteq Slots
    BY <1>2, <1>7, SnapshotWithoutSlots, SnapshotShape
  <2>3. c \in Calls
    BY <1>1, <1>4, <2>1, <2>2 DEF Calls, Active
  <2>4. /\ c.phase = "save" /\ c.mine = Tallied(m, gs) /\ c.left = DOMAIN m
        /\ c.converted = insert[r].converted \cup gs /\ c.games = insert[r].games
    BY <1>1 DEF Calls
  <2> HIDE DEF c
  <2>5. CallOK(c, docs)
    BY <1>1, <1>4, <2>1, <2>2, <2>3, <2>4 DEF CallOK
  <2>6. insert' = [insert EXCEPT ![r] = c]
    BY <1>3, <1>7 DEF c
  <2> QED
    BY <1>1, <1>5, <2>5, <2>6, CallStep, NothingGrows
<1> QED
  BY <1>6, <1>7

\* Where a request is that saves.
LEMMA SaveFinds ==
    ASSUME StoreInv, NEW r \in Requests, insert[r].phase = "save"
    PROVE  /\ First(insert[r].left) \in insert[r].left
           /\ First(insert[r].left) \in DOMAIN insert[r].mine
           /\ First(insert[r].left) \in DOMAIN docs
           /\ insert[r].mine[First(insert[r].left)] \in Doc
<1>1. insert[r] \in Calls /\ CallOK(insert[r], docs)
  BY DEF StoreInv
<1>2. First(insert[r].left) \in insert[r].left
  BY <1>1, FirstIsLeft DEF CallOK, Calls
<1>3. insert[r].mine \in Snapshots
  BY <1>1 DEF Calls
<1>4. First(insert[r].left) \in DOMAIN insert[r].mine
  BY <1>1, <1>2 DEF CallOK
<1> QED
  BY <1>1, <1>2, <1>3, <1>4, SnapshotShape DEF CallOK, Old

LEMMA SaveKeeps ==
    ASSUME StoreInv, NEW r \in Requests, Save(r)
    PROVE  StoreInv' /\ Grows(docs, docs')
<1> DEFINE s == First(insert[r].left)
           left == insert[r].left \ {s}
           m == insert[r].mine[s]
<1>1. insert[r] \in Calls /\ CallOK(insert[r], docs) /\ docs \in Snapshots
  BY DEF StoreInv
<1>2. s \in insert[r].left /\ s \in DOMAIN insert[r].mine /\ s \in DOMAIN docs /\ m \in Doc
  BY SaveFinds DEF Save
<1>3. insert[r].phase = "save" /\ UNCHANGED <<version, batch, tick, patch>>
  BY DEF Save
<1>4. CASE docs[s].rev = m.rev
  <2>1. Within(docs[s], m)
    BY <1>1, <1>2, <1>4 DEF CallOK, Old
  <2>2. docs' = [docs EXCEPT ![s] = [count |-> m.count, rev |-> @.rev + 1]]
    BY <1>4 DEF Save
  <2>3. docs' \in Snapshots /\ Grows(docs, docs')
    BY <1>1, <1>2, <2>1, <2>2, SaveGrows
  <2>4. CASE left = {}
    <3>1. insert' = [insert EXCEPT ![r] = Asleep("done")]
      BY <1>4, <2>4 DEF Save
    <3>2. CallOK(Asleep("done"), docs')
      BY AsleepIsOK
    <3> QED
      BY <1>3, <2>3, <3>1, <3>2, CallStep
  <2>5. CASE left # {}
    <3> DEFINE c == [insert[r] EXCEPT !.left = left]
    <3>1. insert' = [insert EXCEPT ![r] = c]
      BY <1>4, <2>5 DEF Save
    <3>2. /\ c \in Calls /\ c.left = left /\ c.mine = insert[r].mine /\ c.phase = "save"
          /\ c.games = insert[r].games /\ c.converted = insert[r].converted
      BY <1>1, <1>3 DEF Calls
    <3> HIDE DEF c
    <3>3. CallOK(c, docs)
      BY <1>1, <1>3, <2>5, <3>2 DEF CallOK
    <3>4. CallOK(c, docs')
      BY <1>1, <2>3, <3>3, GrowthKeepsOthers
    <3> QED
      BY <1>3, <2>3, <3>1, <3>4, CallStep
  <2> QED
    BY <2>3, <2>4, <2>5
<1>5. CASE docs[s].rev # m.rev
  <2> DEFINE again == [insert[r] EXCEPT !.phase = "picks", !.attempt = insert[r].attempt + 1,
                                        !.mine = Nothing, !.left = {}]
             c == IF insert[r].attempt = MaxAttempts THEN Asleep("error") ELSE again
  <2>1. docs' = docs /\ insert' = [insert EXCEPT ![r] = c]
    BY <1>5 DEF Save
  <2>2. ASSUME insert[r].attempt # MaxAttempts
        PROVE  CallOK(again, docs)
    <3>1. insert[r].attempt + 1 \in 1..MaxAttempts
      BY <1>1, <2>2 DEF Calls, MaxAttempts
    <3>2. again \in Calls
      BY <1>1, <3>1, NothingIsSnapshot DEF Calls, Active
    <3>3. /\ again.left = {} /\ again.mine = Nothing /\ again.phase = "picks"
          /\ again.games = insert[r].games /\ again.converted = insert[r].converted
      BY <1>1 DEF Calls
    <3> HIDE DEF again
    <3> QED
      BY <1>1, <3>2, <3>3, NothingIsSnapshot DEF CallOK, Old
  <2>3. CallOK(c, docs')
    <3> HIDE DEF again
    <3> QED
      BY <2>1, <2>2, AsleepIsOK
  <2> HIDE DEF c
  <2> QED
    BY <1>1, <1>3, <2>1, <2>3, CallStep, NothingGrows
<1> QED
  BY <1>4, <1>5

LEMMA InsertFailsKeeps ==
    ASSUME StoreInv, NEW r \in Requests, InsertFails(r)
    PROVE  StoreInv' /\ docs' = docs
<1>1. CallOK(Asleep("error"), docs')
  BY AsleepIsOK
<1>2. /\ insert' = [insert EXCEPT ![r] = Asleep("error")]
      /\ UNCHANGED <<docs, version, batch, tick, patch>>
  BY DEF InsertFails
<1>3. docs' \in Snapshots /\ Grows(docs, docs')
  BY <1>2, NothingGrows DEF StoreInv
<1> QED
  BY <1>1, <1>2, <1>3, CallStep

LEMMA TickKeeps ==
    ASSUME StoreInv, Tick
    PROVE  StoreInv' /\ docs' = docs
<1>1. tick \in Ticks /\ tick.phase = "idle" /\ TickOK(tick, docs, version)
  BY DEF StoreInv, TickOK, Tick
<1>2. tick' = [tick EXCEPT !.phase = "picks"] /\ batch' = batch + 1 /\ batch < MaxBatch
      /\ UNCHANGED <<docs, version, insert, patch>>
  BY DEF Tick
<1>3. tick' \in Ticks /\ tick'.phase = "picks" /\ tick'.copies = tick.copies /\ tick'.left = tick.left
  BY <1>1, <1>2 DEF Ticks
<1>4. TickOK(tick', docs, version)
  BY <1>1, <1>3 DEF TickOK
<1>5. batch' \in Batches
  BY <1>2, BoundsAssumption DEF StoreInv, Batches
<1> QED
  BY <1>2, <1>4, <1>5, NothingGrows, TickStepOK DEF StoreInv

LEMMA TickReadKeeps ==
    ASSUME StoreInv, TickRead
    PROVE  StoreInv' /\ docs' = docs
<1>1. /\ tick \in Ticks /\ TickOK(tick, docs, version) /\ docs \in Snapshots
      /\ tick.copies \in Snapshots /\ Copied(tick.copies, docs)
  BY DEF StoreInv, TickOK, Ticks
<1>2. UNCHANGED <<docs, version, batch, insert, patch>>
  BY DEF TickRead
<1>3. ASSUME /\ tick.phase = "picks"
             /\ tick' = [tick EXCEPT !.phase = "wins", !.copies = Find(Before, PickDocs)]
      PROVE  TickOK(tick', docs, version)
  <2> DEFINE found == Find(Before, PickDocs)
  <2>1. found \in Snapshots /\ Copied(found, docs)
    BY <1>1, FindIsSnapshot, FoundIsOld
  <2>2. DOMAIN found # {} => version \in Versions
    BY <1>1, KnownVersion DEF Before
  <2> HIDE DEF found
  <2>3. /\ tick' \in Ticks /\ tick'.phase = "wins" /\ tick'.copies = found
        /\ tick'.left = {}
    BY <1>1, <1>3, <2>1 DEF Ticks, found, TickOK
  <2> QED
    BY <2>1, <2>2, <2>3 DEF TickOK
<1>4. ASSUME /\ tick.phase = "wins"
             /\ LET copies == Merge(tick.copies, Find(Before, WinDocs))
                IN tick' = IF copies = Nothing THEN NoTick
                           ELSE [phase |-> "save", copies |-> copies, left |-> DOMAIN copies]
      PROVE  TickOK(tick', docs, version)
  <2> DEFINE found == Find(Before, WinDocs)
             both == Merge(tick.copies, found)
  <2>1. found \in Snapshots /\ Copied(found, docs)
    BY <1>1, FindIsSnapshot, FoundIsOld
  <2>2. DOMAIN found # {} => version \in Versions
    BY <1>1, KnownVersion DEF Before
  <2>3. tick' = IF both = Nothing THEN NoTick
                ELSE [phase |-> "save", copies |-> both, left |-> DOMAIN both]
    BY <1>4
  <2> HIDE DEF found
  <2>4. /\ both \in Snapshots /\ Copied(both, docs)
        /\ DOMAIN both = DOMAIN tick.copies \cup DOMAIN found
    BY <1>1, <2>1, MergeIsSnapshot, MergedAreOld
  <2>5. DOMAIN both # {} => version \in Versions
    BY <1>1, <2>2, <2>4 DEF TickOK
  <2> HIDE DEF both
  <2>6. both # Nothing => DOMAIN both # {}
    BY <2>4, SnapshotWithoutSlots
  <2>7. DOMAIN both \subseteq Slots
    BY <2>4, SnapshotShape
  <2> QED
    BY <2>3, <2>4, <2>5, <2>6, <2>7, NoTickIsOK DEF TickOK, Ticks
<1>5. TickOK(tick', docs, version)
  BY <1>3, <1>4 DEF TickRead
<1>6. docs' = docs /\ docs' \in Snapshots /\ Grows(docs, docs')
  BY <1>1, <1>2, NothingGrows
<1>7. TickOK(tick', docs', version) /\ batch' \in Batches
  BY <1>2, <1>5 DEF StoreInv
<1> QED
  BY <1>2, <1>6, <1>7, TickStepOK

\* Where a tick is that saves.
LEMMA TickSaveFinds ==
    ASSUME StoreInv, tick.phase = "save"
    PROVE  /\ First(tick.left) \in tick.left
           /\ First(tick.left) \in DOMAIN tick.copies
           /\ First(tick.left) \in DOMAIN docs
           /\ tick.copies[First(tick.left)] \in Doc
           /\ <<Now, First(tick.left)[2]>> \in Slots
<1> DEFINE s == First(tick.left)
<1>1. tick \in Ticks /\ TickOK(tick, docs, version) /\ docs \in Snapshots
  BY DEF StoreInv, TickOK
<1>2. s \in tick.left
  BY <1>1, FirstIsLeft DEF TickOK, Ticks
<1>3. s \in DOMAIN tick.copies /\ s \in DOMAIN docs /\ tick.copies \in Snapshots
  BY <1>1, <1>2 DEF TickOK, Ticks, Copied
<1>4. version \in Versions
  BY <1>1, <1>3 DEF TickOK
<1>5. Now \in Keys
  BY <1>4 DEF Now, Keys, StoreInv
<1>6. s[2] \in Docs /\ tick.copies[s] \in Doc
  BY <1>3, SnapshotShape DEF Slots
<1> QED
  BY <1>2, <1>3, <1>5, <1>6 DEF Slots

LEMMA TickSaveKeeps ==
    ASSUME StoreInv, TickSave
    PROVE  StoreInv' /\ Grows(docs, docs')
<1> DEFINE s == First(tick.left)
           t == <<Now, s[2]>>
<1>1. /\ tick \in Ticks /\ TickOK(tick, docs, version) /\ docs \in Snapshots
      /\ tick.phase = "save" /\ UNCHANGED <<version, batch, insert, patch>> /\ batch' \in Batches
  BY DEF StoreInv, TickOK, TickSave
<1>2. s \in tick.left /\ t \in Slots /\ tick.copies[s] \in Doc
  BY <1>1, TickSaveFinds
<1>3. CASE t \in DOMAIN docs
  <2>1. tick' = NoTick /\ docs' = docs
    BY <1>3 DEF TickSave
  <2> QED
    BY <1>1, <2>1, NoTickIsOK, NothingGrows, TickStepOK
<1>4. CASE t \notin DOMAIN docs
  <2>1. /\ Add(t, tick.copies[s].count)
        /\ tick' = IF tick.left = {s} THEN NoTick ELSE [tick EXCEPT !.left = @ \ {s}]
    BY <1>4 DEF TickSave
  <2>2. tick.copies[s].count \in [Games -> Nat]
    BY <1>2, DocShape
  <2>3. docs' \in Snapshots /\ Grows(docs, docs')
    BY <1>1, <1>2, <1>4, <2>1, <2>2, AddGrows
  <2>4. CASE tick.left = {s}
    BY <1>1, <2>1, <2>3, <2>4, NoTickIsOK, TickStepOK
  <2>5. CASE tick.left # {s}
    <3>1. tick' = [tick EXCEPT !.left = tick.left \ {s}]
      BY <2>1, <2>5
    <3>2. tick' \in Ticks /\ tick'.phase = "save" /\ tick'.copies = tick.copies
          /\ tick'.left = tick.left \ {s}
      BY <1>1, <3>1 DEF Ticks
    <3>3. tick'.left # {}
      BY <1>2, <2>5, <3>2
    <3>4. TickOK(tick', docs, version)
      BY <1>1, <3>2, <3>3 DEF TickOK
    <3>5. TickOK(tick', docs', version)
      BY <1>1, <2>3, <3>4, GrowthKeepsOthers
    <3> QED
      BY <1>1, <2>3, <3>5, TickStepOK
  <2> QED
    BY <2>4, <2>5, <2>3
<1> QED
  BY <1>3, <1>4

LEMMA TickFailsKeeps ==
    ASSUME StoreInv, TickFails
    PROVE  StoreInv' /\ docs' = docs
BY NoTickIsOK, NothingGrows, TickStepOK DEF TickFails, StoreInv

LEMMA UpdatePatchVersionKeeps ==
    ASSUME StoreInv, NEW o \in Operators, NEW v \in Versions, UpdatePatchVersion(o, v)
    PROVE  StoreInv' /\ docs' = docs
<1> DEFINE p == [patch[o] EXCEPT !.phase = "set", !.to = v]
<1>1. patch[o] \in Patches /\ patch \in [Operators -> Patches] /\ docs \in Snapshots
  BY DEF StoreInv
<1>2. patch' = [patch EXCEPT ![o] = p] /\ UNCHANGED <<docs, version, batch, insert, tick>>
  BY <1>1 DEF UpdatePatchVersion
<1>3. PatchOK(p, version)
  BY <1>1 DEF PatchOK, Patches
<1> HIDE DEF p
<1> QED
  BY <1>1, <1>2, <1>3, NothingGrows, PatchStepOK DEF StoreInv

LEMMA SetPatchVersionKeeps ==
    ASSUME StoreInv, NEW o \in Operators, SetPatchVersion(o)
    PROVE  StoreInv' /\ docs' = docs
<1> DEFINE p == [NoPatch EXCEPT !.phase = "look"]
<1>1. patch \in [Operators -> Patches] /\ \A q \in Operators : PatchOK(patch[q], version)
  BY DEF StoreInv
<1>2. /\ version' = patch[o].to /\ patch' = [patch EXCEPT ![o] = p]
      /\ patch[o].phase = "set" /\ UNCHANGED <<docs, batch, insert, tick>>
  BY DEF SetPatchVersion
<1>3. version' \in Versions
  BY <1>1, <1>2 DEF PatchOK
<1>4. p \in Patches /\ p.phase = "look"
  BY DEF Patches, NoPatch
<1> HIDE DEF p
<1>5. \A q \in Operators : PatchOK(patch'[q], version')
  BY <1>1, <1>2, <1>3, <1>4 DEF PatchOK
<1>6. patch' \in [Operators -> Patches]
  BY <1>1, <1>2, <1>4
<1>7. TickOK(tick', docs', version')
  BY <1>2, <1>3 DEF StoreInv, TickOK
<1> QED
  BY <1>2, <1>3, <1>5, <1>6, <1>7 DEF StoreInv

LEMMA LookForVersionKeeps ==
    ASSUME StoreInv, NEW o \in Operators, LookForVersion(o)
    PROVE  StoreInv' /\ docs' = docs
<1> DEFINE saved == {b \in Batches : \E d \in PickDocs : <<<<version, b>>, d>> \in DOMAIN docs}
           picks == [patch[o] EXCEPT !.phase = "picks"]
<1>1. patch[o] \in Patches /\ patch[o].phase = "look" /\ version \in Versions
      /\ patch \in [Operators -> Patches]
  BY DEF StoreInv, PatchOK, LookForVersion
<1>2. UNCHANGED <<docs, version, insert, tick>>
  BY DEF LookForVersion
<1>3. \/ /\ saved # {}
         /\ batch' = CHOOSE b \in saved : \A c \in saved : c <= b
         /\ patch' = [patch EXCEPT ![o] = NoPatch]
      \/ /\ batch' = FirstBatch
         /\ patch' = [patch EXCEPT ![o] = picks]
  BY <1>1 DEF LookForVersion
<1>4. saved \in SUBSET Batches
  OBVIOUS
<1> HIDE DEF saved
<1>5. batch' \in Batches
  BY <1>3, <1>4, LatestIsSaved, BoundsAssumption DEF FirstBatch, Batches
<1>6. PatchOK(picks, version)
  BY <1>1 DEF PatchOK, Patches
<1> HIDE DEF picks
<1>7. \E p : patch' = [patch EXCEPT ![o] = p] /\ PatchOK(p, version)
  BY <1>3, <1>6, NoPatchIsOK
<1>8. docs' \in Snapshots /\ Grows(docs, docs')
  BY <1>2, NothingGrows DEF StoreInv
<1> QED
  BY <1>2, <1>5, <1>7, <1>8, PatchStepOK

LEMMA GenerateKeeps ==
    ASSUME StoreInv, NEW o \in Operators, Generate(o)
    PROVE  StoreInv' /\ docs' = docs
<1> DEFINE left == {Now} \X (IF patch[o].phase = "picks" THEN PickDocs ELSE WinDocs)
           p == [patch[o] EXCEPT !.phase = "save", !.left = left]
<1>1. /\ version \in Versions /\ batch \in Batches /\ patch[o] \in Patches
      /\ patch' = [patch EXCEPT ![o] = p]
      /\ UNCHANGED <<docs, version, batch, insert, tick>>
  BY DEF StoreInv, PatchOK, Generate
<1>2. left \subseteq Slots
  BY <1>1 DEF Slots, Keys, Now, Docs
<1>3. PICK d : d \in IF patch[o].phase = "picks" THEN PickDocs ELSE WinDocs
  BY DocsAssumption
<1>4. <<Now, d>> \in left
  BY <1>3
<1> HIDE DEF left
<1>5. PatchOK(p, version)
  BY <1>1, <1>2, <1>4 DEF PatchOK, Patches
<1>6. docs' \in Snapshots /\ Grows(docs, docs')
  BY <1>1, NothingGrows DEF StoreInv
<1> HIDE DEF p
<1> QED
  BY <1>1, <1>5, <1>6, PatchStepOK

\* Where a patch is that saves.
LEMMA SaveBlankFinds ==
    ASSUME StoreInv, NEW o \in Operators, patch[o].phase = "save"
    PROVE  First(patch[o].left) \in patch[o].left /\ First(patch[o].left) \in Slots
BY FirstIsLeft DEF StoreInv, PatchOK, Patches

LEMMA SaveBlankKeeps ==
    ASSUME StoreInv, NEW o \in Operators, SaveBlank(o)
    PROVE  StoreInv' /\ Grows(docs, docs')
<1> DEFINE s == First(patch[o].left)
           left == patch[o].left \ {s}
           more == [patch[o] EXCEPT !.left = left]
           wins == [NoPatch EXCEPT !.phase = "wins"]
<1>1. /\ patch[o] \in Patches /\ patch[o].phase = "save" /\ version \in Versions
      /\ docs \in Snapshots /\ batch \in Batches
      /\ UNCHANGED <<version, batch, insert, tick>>
  BY DEF StoreInv, PatchOK, SaveBlank
<1>2. s \in patch[o].left /\ s \in Slots
  BY <1>1, SaveBlankFinds
<1>3. CASE s \in DOMAIN docs
  <2>1. patch' = [patch EXCEPT ![o] = NoPatch] /\ docs' = docs
    BY <1>3 DEF SaveBlank
  <2>2. docs' \in Snapshots /\ Grows(docs, docs')
    BY <1>1, <2>1, NothingGrows
  <2> QED
    BY <1>1, <2>1, <2>2, NoPatchIsOK, PatchStepOK
<1>4. CASE s \notin DOMAIN docs
  <2> DEFINE p == IF left # {} THEN more ELSE IF s[2] \in PickDocs THEN wins ELSE NoPatch
  <2>1. Add(s, [g \in Games |-> 0]) /\ patch' = [patch EXCEPT ![o] = p]
    BY <1>4 DEF SaveBlank
  <2>2. [g \in Games |-> 0] \in [Games -> Nat]
    OBVIOUS
  <2>3. docs' \in Snapshots /\ Grows(docs, docs')
    BY <1>1, <1>2, <1>4, <2>1, <2>2, AddGrows
  <2>4. left # {} => PatchOK(more, version)
    BY <1>1 DEF PatchOK, Patches
  <2>5. PatchOK(wins, version)
    BY <1>1 DEF PatchOK, Patches, NoPatch
  <2> HIDE DEF more, wins, left, s
  <2>6. PatchOK(p, version)
    BY <2>4, <2>5, NoPatchIsOK
  <2> HIDE DEF p
  <2> QED
    BY <1>1, <2>1, <2>3, <2>6, PatchStepOK
<1> QED
  BY <1>3, <1>4

LEMMA PatchFailsKeeps ==
    ASSUME StoreInv, NEW o \in Operators, PatchFails(o)
    PROVE  StoreInv' /\ docs' = docs
<1>1. patch' = [patch EXCEPT ![o] = NoPatch] /\ UNCHANGED <<docs, version, batch, insert, tick>>
  BY DEF PatchFails
<1>2. docs' \in Snapshots /\ Grows(docs, docs') /\ batch' \in Batches
  BY <1>1, NothingGrows DEF StoreInv
<1> QED
  BY <1>1, <1>2, NoPatchIsOK, PatchStepOK

LEMMA RestartKeeps ==
    ASSUME StoreInv, Restart
    PROVE  StoreInv' /\ docs' = docs
<1>1. /\ version' = NoVersion /\ batch' = FirstBatch /\ tick' = NoTick /\ docs' = docs
      /\ patch' = [o \in Operators |-> NoPatch]
      /\ insert' = [r \in Requests |-> IF insert[r].phase \in Active THEN Asleep("error") ELSE insert[r]]
  BY DEF Restart
<1>2. CallOK(Asleep("error"), docs)
  BY AsleepIsOK
<1>3. \A r \in Requests : CallOK(insert'[r], docs) /\ insert'[r] \in Calls
  BY <1>1, <1>2 DEF StoreInv, CallOK
<1>4. insert' \in [Requests -> Calls]
  BY <1>1, <1>3
<1>5. batch' \in Batches
  BY <1>1, BoundsAssumption DEF Batches, FirstBatch
<1>6. version' \in Versions \cup {NoVersion} /\ docs' \in Snapshots
  BY <1>1 DEF StoreInv
<1>7. /\ TickOK(tick', docs', version')
      /\ \A o \in Operators : patch'[o] \in Patches /\ PatchOK(patch'[o], version')
      /\ patch' \in [Operators -> Patches]
  BY <1>1, NoTickIsOK, NoPatchIsOK DEF PatchOK
<1>8. \A r \in Requests : CallOK(insert'[r], docs')
  BY <1>1, <1>3
<1> QED
  BY <1>1, <1>4, <1>5, <1>6, <1>7, <1>8 DEF StoreInv

\* Every step of the store keeps its invariant, and its documents only grow.
LEMMA StoreKeeps ==
    ASSUME StoreInv, Next
    PROVE  StoreInv' /\ Grows(docs, docs')
<1>1. ASSUME NEW r \in Requests, InsertStep(r)
      PROVE  StoreInv' /\ Grows(docs, docs')
  BY <1>1, ReadPicksKeeps, ReadWinsKeeps, CountGamesKeeps, SaveKeeps, InsertFailsKeeps, NothingGrows
     DEF InsertStep
<1>2. ASSUME Tick \/ TickStep
      PROVE  StoreInv' /\ Grows(docs, docs')
  BY <1>2, TickKeeps, TickReadKeeps, TickSaveKeeps, TickFailsKeeps, NothingGrows DEF TickStep
<1>3. ASSUME NEW o \in Operators, NEW v \in Versions, UpdatePatchVersion(o, v)
      PROVE  StoreInv' /\ Grows(docs, docs')
  BY <1>3, UpdatePatchVersionKeeps, NothingGrows
<1>4. ASSUME NEW o \in Operators, PatchStep(o)
      PROVE  StoreInv' /\ Grows(docs, docs')
  BY <1>4, SetPatchVersionKeeps, LookForVersionKeeps, GenerateKeeps, SaveBlankKeeps, PatchFailsKeeps, NothingGrows
     DEF PatchStep
<1>5. ASSUME Restart
      PROVE  StoreInv' /\ Grows(docs, docs')
  BY <1>5, RestartKeeps, NothingGrows
<1>6. ASSUME NEW r \in Requests, NEW gs \in SUBSET Games, Insert(r, gs)
      PROVE  StoreInv' /\ Grows(docs, docs')
  BY <1>6, InsertKeeps, NothingGrows
<1> QED
  BY <1>1, <1>2, <1>3, <1>4, <1>5, <1>6 DEF Next, ServerStep

LEMMA StoreStutters ==
    ASSUME StoreInv, UNCHANGED vars
    PROVE  StoreInv' /\ Grows(docs, docs')
BY NothingGrows DEF StoreInv, vars

----------------------------------------------------------------------------
(* Types *)

LEMMA StoreInvType == StoreInv => TypeOK
<1> SUFFICES ASSUME StoreInv PROVE TypeOK
  OBVIOUS
<1>1. \A f \in Snapshots : Snapshot(f)
  BY SnapshotShape DEF Snapshot
<1>2. ASSUME NEW r \in Requests
      PROVE  /\ insert[r].phase \in Active \cup {"idle", "done", "error"}
             /\ insert[r].converted \subseteq insert[r].games
             /\ insert[r].attempt \in 1..MaxAttempts
             /\ Snapshot(insert[r].mine)
             /\ insert[r].left \subseteq DOMAIN insert[r].mine \cap DOMAIN docs
  <2>1. insert[r] \in Calls /\ CallOK(insert[r], docs)
    BY DEF StoreInv
  <2>2. DOMAIN insert[r].mine \subseteq DOMAIN docs
    BY <2>1 DEF CallOK, Old
  <2> QED
    BY <1>1, <2>1, <2>2 DEF CallOK, Calls
<1>3. /\ tick.phase \in {"idle", "picks", "wins", "save"}
      /\ Snapshot(tick.copies)
      /\ tick.left \subseteq DOMAIN tick.copies
  BY <1>1 DEF StoreInv, TickOK, Ticks
<1>4. ASSUME NEW o \in Operators
      PROVE  /\ patch[o].phase \in {"idle", "set", "look", "picks", "wins", "save"}
             /\ patch[o].to \in Versions \cup {NoVersion}
             /\ patch[o].left \subseteq Slots
  BY DEF StoreInv, PatchOK, Patches
<1> QED
  BY <1>1, <1>2, <1>3, <1>4 DEF StoreInv, TypeOK

LEMMA PipelineStepsStore == PipelineNext => Next \/ UNCHANGED vars
<1>1. \A r \in Requests : Collected(r) \in SUBSET Games
  BY DEF Collected
<1> QED
  BY <1>1 DEF PipelineNext, Forward, Post, Next

LEMMA PipelineKeepsStore ==
    ASSUME StoreInv, [PipelineNext]_pipeline
    PROVE  StoreInv' /\ Grows(docs, docs')
BY StoreKeeps, StoreStutters, PipelineStepsStore DEF pipeline

\* What requests, ticks and patches of the indicator remember of the documents they read
\* stays true of the documents until they save them or give up.
THEOREM StoreInvariance == PipelineSpec => []StoreInv
<1>1. PipelineInit => StoreInv
  BY StoreInit DEF PipelineInit
<1>2. StoreInv /\ [PipelineNext]_pipeline => StoreInv'
  BY PipelineKeepsStore
<1> QED
  BY <1>1, <1>2, PTL DEF PipelineSpec

\* What is stored, and what requests, ticks and patches hold, is always of its type;
\* requests save only documents that they have read and that still exist.
THEOREM StoreTypes == PipelineSpec => []TypeOK
BY StoreInvariance, StoreInvType, PTL

\* The same whatever is posted, from anywhere and in any order.
THEOREM StoreAloneTypes == Spec => []TypeOK
<1>1. StoreInv /\ [Next]_vars => StoreInv'
  BY StoreKeeps, StoreStutters
<1> QED
  BY <1>1, StoreInit, StoreInvType, PTL DEF Spec

\* No document is ever removed, and no save takes a game out of one: optimistic
\* locking is enough, however requests, ticks and patches interleave.
THEOREM DocumentsOnlyGrow == PipelineSpec => [][Grows(docs, docs')]_pipeline
BY StoreInvariance, PipelineKeepsStore, PTL DEF PipelineSpec

----------------------------------------------------------------------------
(* What steps do to documents and calls of insertData, and nothing else of them *)

OnlyOf(r) == \A q \in Requests \ {r} : insert'[q] = insert[q]

Ends(r) == \E p \in {"done", "error"} : insert'[r] = Asleep(p)

\* The loops of r go on with the same request.
GoesOn(r) == insert'[r].games = insert[r].games /\ insert'[r].converted = insert[r].converted

\* r takes copies from the documents, or drops them.
Copies(r) ==
    /\ docs' = docs
    /\ GoesOn(r)
    /\ \A s \in DOMAIN insert'[r].mine :
        \/ s \in DOMAIN docs /\ insert'[r].mine[s] = docs[s]
        \/ s \in DOMAIN insert[r].mine /\ insert'[r].mine[s] = insert[r].mine[s]

\* r counts gs in its copies.
Counts(r, gs) ==
    /\ docs' = docs
    /\ insert'[r].games = insert[r].games
    /\ insert'[r].converted = insert[r].converted \cup gs
    /\ insert'[r].mine = Tallied(insert[r].mine, gs)

\* r saves its copy of s.
Saves(r, s) ==
    /\ docs' = [docs EXCEPT ![s] = [count |-> insert[r].mine[s].count, rev |-> @.rev + 1]]
    /\ Ends(r) \/ (GoesOn(r) /\ insert'[r].mine = insert[r].mine)

RequestEffect(r) ==
    /\ insert[r].phase \in Active
    /\ OnlyOf(r)
    /\ \/ docs' = docs /\ Ends(r)
       \/ Copies(r)
       \/ \E gs \in Countable(r) : Counts(r, gs)
       \/ \E s \in DOMAIN docs \cap DOMAIN insert[r].mine :
            docs[s].rev = insert[r].mine[s].rev /\ Saves(r, s)

\* A tick or a patch adds a document, blank or with what another has counted.
Adds(t, count) ==
    /\ Add(t, count)
    /\ \/ \A g \in Games : count[g] = 0
       \/ \E s \in DOMAIN docs : \A g \in Games : count[g] <= docs[s].count[g]

ServerEffect ==
    /\ insert' = insert
    /\ \/ docs' = docs
       \/ \E t \in Slots \ DOMAIN docs, count \in [Games -> Nat] : Adds(t, count)

RestartEffect ==
    /\ docs' = docs
    /\ \A r \in Requests : insert'[r] = insert[r] \/ (insert[r].phase \in Active /\ Ends(r))

LEMMA ReadEffect ==
    ASSUME StoreInv, NEW r \in Requests, ReadPicks(r) \/ ReadWins(r)
    PROVE  RequestEffect(r)
<1>1. docs \in Snapshots /\ insert \in [Requests -> Calls] /\ insert[r] \in Calls
  BY DEF StoreInv
<1>2. insert[r].phase \in Active /\ docs' = docs
  BY DEF ReadPicks, ReadWins, Active
<1>3. ASSUME ReadPicks(r)
      PROVE  OnlyOf(r) /\ GoesOn(r) /\ insert'[r].mine = Find(Now, PickDocs)
  BY <1>1, <1>3 DEF ReadPicks, OnlyOf, GoesOn, Calls
<1>4. ASSUME ReadWins(r)
      PROVE  /\ OnlyOf(r) /\ GoesOn(r)
             /\ insert'[r].mine = Merge(insert[r].mine, Find(Now, WinDocs))
  BY <1>1, <1>4 DEF ReadWins, OnlyOf, GoesOn, Calls
<1>5. CASE ReadPicks(r)
  <2>1. Copies(r)
    BY <1>1, <1>2, <1>3, <1>5, FindIsSnapshot DEF Copies
  <2> QED
    BY <1>2, <1>3, <1>5, <2>1 DEF RequestEffect
<1>6. CASE ReadWins(r)
  <2> DEFINE found == Find(Now, WinDocs)
             mine == insert[r].mine
  <2>1. found \in Snapshots /\ \A s \in DOMAIN found : s \in DOMAIN docs /\ found[s] = docs[s]
    BY <1>1, FindIsSnapshot
  <2>2. insert'[r].mine = Merge(mine, found)
    BY <1>4, <1>6
  <2> HIDE DEF found
  <2>3. \A s \in DOMAIN Merge(mine, found) :
          \/ s \in DOMAIN mine /\ Merge(mine, found)[s] = mine[s]
          \/ s \in DOMAIN found /\ Merge(mine, found)[s] = found[s]
    BY DEF Merge
  <2>4. Copies(r)
    BY <1>2, <1>4, <1>6, <2>1, <2>2, <2>3 DEF Copies
  <2> QED
    BY <1>2, <1>4, <1>6, <2>4 DEF RequestEffect
<1> QED
  BY <1>5, <1>6

LEMMA CountEffect ==
    ASSUME StoreInv, NEW r \in Requests, CountGames(r)
    PROVE  RequestEffect(r)
<1> DEFINE m == insert[r].mine
<1>1. insert \in [Requests -> Calls] /\ insert[r] \in Calls
  BY DEF StoreInv
<1>2. PICK gs \in Countable(r) :
        insert' = [insert EXCEPT ![r] =
              IF m = Nothing THEN Asleep("done")
              ELSE [insert[r] EXCEPT !.phase = "save", !.mine = Tallied(m, gs), !.left = DOMAIN m,
                                     !.converted = insert[r].converted \cup gs]]
  BY DEF CountGames, Tallied
<1>3. insert[r].phase \in Active /\ docs' = docs
  BY DEF CountGames, Active
<1>4. OnlyOf(r)
  BY <1>1, <1>2 DEF OnlyOf
<1>5. CASE m = Nothing
  <2>1. Ends(r)
    BY <1>1, <1>2, <1>5 DEF Ends
  <2> QED
    BY <1>3, <1>4, <2>1 DEF RequestEffect
<1>6. CASE m # Nothing
  <2>1. insert'[r] = [insert[r] EXCEPT !.phase = "save", !.mine = Tallied(m, gs), !.left = DOMAIN m,
                                       !.converted = insert[r].converted \cup gs]
    BY <1>1, <1>2, <1>6
  <2>2. Counts(r, gs)
    BY <1>1, <1>3, <2>1 DEF Counts, Calls
  <2> QED
    BY <1>3, <1>4, <2>2 DEF RequestEffect
<1> QED
  BY <1>5, <1>6

LEMMA SaveEffect ==
    ASSUME StoreInv, NEW r \in Requests, Save(r)
    PROVE  RequestEffect(r)
<1> DEFINE s == First(insert[r].left)
           left == insert[r].left \ {s}
           m == insert[r].mine[s]
<1>1. insert \in [Requests -> Calls] /\ insert[r] \in Calls
  BY DEF StoreInv
<1>2. s \in DOMAIN insert[r].mine /\ s \in DOMAIN docs
  BY SaveFinds DEF Save
<1>3. insert[r].phase \in Active
  BY DEF Save, Active
<1>4. CASE docs[s].rev = m.rev
  <2>1. /\ docs' = [docs EXCEPT ![s] = [count |-> m.count, rev |-> @.rev + 1]]
        /\ insert' = [insert EXCEPT ![r] =
               IF left = {} THEN Asleep("done") ELSE [insert[r] EXCEPT !.left = left]]
    BY <1>4 DEF Save
  <2>2. OnlyOf(r)
    BY <1>1, <2>1 DEF OnlyOf
  <2>3. Ends(r) \/ (GoesOn(r) /\ insert'[r].mine = insert[r].mine)
    BY <1>1, <2>1 DEF Ends, GoesOn, Calls
  <2>4. Saves(r, s)
    BY <2>1, <2>3 DEF Saves
  <2> HIDE DEF s
  <2> QED
    BY <1>2, <1>3, <1>4, <2>2, <2>4 DEF RequestEffect
<1>5. CASE docs[s].rev # m.rev
  <2>1. /\ docs' = docs
        /\ insert' = [insert EXCEPT ![r] =
               IF insert[r].attempt = MaxAttempts THEN Asleep("error")
               ELSE [insert[r] EXCEPT !.phase = "picks", !.attempt = insert[r].attempt + 1,
                                      !.mine = Nothing, !.left = {}]]
    BY <1>5 DEF Save
  <2>2. OnlyOf(r)
    BY <1>1, <2>1 DEF OnlyOf
  <2>3. Ends(r) \/ (GoesOn(r) /\ insert'[r].mine = Nothing)
    BY <1>1, <2>1 DEF Ends, GoesOn, Calls
  <2>4. Ends(r) \/ Copies(r)
    BY <2>1, <2>3, NothingIsSnapshot DEF Copies
  <2> QED
    BY <1>3, <2>1, <2>2, <2>4 DEF RequestEffect
<1> QED
  BY <1>4, <1>5

LEMMA InsertFailsEffect ==
    ASSUME StoreInv, NEW r \in Requests, InsertFails(r)
    PROVE  RequestEffect(r)
<1>1. /\ insert \in [Requests -> Calls] /\ insert' = [insert EXCEPT ![r] = Asleep("error")]
      /\ docs' = docs /\ insert[r].phase \in Active
  BY DEF StoreInv, InsertFails
<1>2. OnlyOf(r) /\ Ends(r)
  BY <1>1 DEF OnlyOf, Ends
<1> QED
  BY <1>1, <1>2 DEF RequestEffect

LEMMA TickEffect ==
    ASSUME StoreInv, Tick \/ TickStep
    PROVE  ServerEffect
<1>1. CASE Tick \/ TickRead \/ TickFails
  BY <1>1 DEF Tick, TickRead, TickFails, ServerEffect
<1>2. CASE TickSave
  <2> DEFINE s == First(tick.left)
             t == <<Now, s[2]>>
             count == tick.copies[s].count
  <2>1. /\ tick.phase = "save" /\ insert' = insert
        /\ docs' = docs \/ (t \notin DOMAIN docs /\ Add(t, count))
    BY <1>2 DEF TickSave
  <2>2. t \in Slots /\ s \in DOMAIN tick.copies /\ tick.copies[s] \in Doc
    BY <2>1, TickSaveFinds
  <2>3. s \in DOMAIN docs /\ \A g \in Games : count[g] <= docs[s].count[g]
    BY <2>2 DEF StoreInv, TickOK, Copied, Within
  <2>4. count \in [Games -> Nat]
    BY <2>2, DocShape
  <2> HIDE DEF s, t, count
  <2>5. Add(t, count) => Adds(t, count)
    BY <2>3 DEF Adds
  <2> QED
    BY <2>1, <2>2, <2>4, <2>5 DEF ServerEffect, t
<1> QED
  BY <1>1, <1>2 DEF TickStep

LEMMA PatchEffect ==
    ASSUME StoreInv, NEW o \in Operators,
           PatchStep(o) \/ \E v \in Versions : UpdatePatchVersion(o, v)
    PROVE  ServerEffect
<1>1. CASE ~SaveBlank(o)
  BY <1>1 DEF PatchStep, SetPatchVersion, LookForVersion, Generate, PatchFails,
     UpdatePatchVersion, ServerEffect
<1>2. CASE SaveBlank(o)
  <2> DEFINE s == First(patch[o].left)
             zeros == [g \in Games |-> 0]
  <2>1. /\ patch[o].phase = "save" /\ insert' = insert
        /\ docs' = docs \/ (s \notin DOMAIN docs /\ Add(s, zeros))
    BY <1>2 DEF SaveBlank
  <2>2. s \in Slots
    BY <2>1, SaveBlankFinds
  <2>3. zeros \in [Games -> Nat] /\ \A g \in Games : zeros[g] = 0
    OBVIOUS
  <2> HIDE DEF s, zeros
  <2>4. Add(s, zeros) => Adds(s, zeros)
    BY <2>3 DEF Adds
  <2> QED
    BY <2>1, <2>2, <2>3, <2>4 DEF ServerEffect
<1> QED
  BY <1>1, <1>2

LEMMA Effects ==
    ASSUME StoreInv, ServerStep
    PROVE  (\E r \in Requests : RequestEffect(r)) \/ ServerEffect \/ RestartEffect
<1>1. ASSUME NEW r \in Requests, InsertStep(r)
      PROVE  RequestEffect(r)
  BY <1>1, ReadEffect, CountEffect, SaveEffect, InsertFailsEffect DEF InsertStep
<1>2. Restart => RestartEffect
  BY DEF Restart, RestartEffect, Ends
<1> QED
  BY <1>1, <1>2, TickEffect, PatchEffect DEF ServerStep

----------------------------------------------------------------------------
(* What is counted is logged *)

Backed(m, l) == \A s \in DOMAIN m, g \in Games : m[s].count[g] > 0 => g \in l

RequestBacked(c, l) == c.games \subseteq l /\ Backed(c.mine, l)

LoggedInv ==
    /\ Backed(docs, log)
    /\ \A r \in Requests : RequestBacked(insert[r], log)
    /\ sent \in [Requests -> Nat \cup {Ended}]
    /\ \A r \in Requests : \A i \in 1..sent[r] : RecordsOf[r][i] \in log

LEMMA AsleepBacked ==
    ASSUME NEW p, NEW l
    PROVE  RequestBacked(Asleep(p), l)
BY NothingIsSnapshot DEF Asleep, RequestBacked, Backed

LEMMA RequestKeepsLogged ==
    ASSUME StoreInv, LoggedInv, NEW r \in Requests, RequestEffect(r)
    PROVE  Backed(docs', log) /\ \A q \in Requests : RequestBacked(insert'[q], log)
<1> DEFINE m == insert[r].mine
<1>1. /\ insert[r] \in Calls /\ CallOK(insert[r], docs) /\ docs \in Snapshots
      /\ RequestBacked(insert[r], log) /\ Backed(docs, log)
  BY DEF StoreInv, LoggedInv
<1>2. m \in Snapshots
  BY <1>1 DEF Calls
<1>3. \A q \in Requests \ {r} : RequestBacked(insert'[q], log)
  BY DEF RequestEffect, OnlyOf, LoggedInv
<1>4. Ends(r) => RequestBacked(insert'[r], log)
  BY AsleepBacked DEF Ends
<1>5. CASE docs' = docs /\ Ends(r)
  BY <1>1, <1>3, <1>4, <1>5
<1>6. CASE Copies(r)
  <2>1. \A s \in DOMAIN insert'[r].mine, g \in Games :
          insert'[r].mine[s].count[g] > 0 => g \in log
    BY <1>1, <1>6 DEF Copies, RequestBacked, Backed
  <2>2. RequestBacked(insert'[r], log)
    BY <1>1, <1>6, <2>1 DEF Copies, GoesOn, RequestBacked, Backed
  <2> QED
    BY <1>1, <1>3, <1>6, <2>2 DEF Copies
<1>7. ASSUME NEW gs \in Countable(r), Counts(r, gs)
      PROVE  Backed(docs', log) /\ \A q \in Requests : RequestBacked(insert'[q], log)
  <2>1. gs \subseteq log
    BY <1>1 DEF Countable, RequestBacked
  <2>2. ASSUME NEW s \in DOMAIN m, NEW g \in Games, Tallied(m, gs)[s].count[g] > 0
        PROVE  g \in log
    <3>1. Tallied(m, gs)[s].count[g] = m[s].count[g] + (IF g \in gs THEN 1 ELSE 0)
      BY <1>2, TalliedIsSnapshot
    <3>2. m[s].count[g] \in Nat
      BY <1>2, SnapshotShape, DocShape
    <3>3. g \in gs \/ m[s].count[g] > 0
      BY <2>2, <3>1, <3>2
    <3> QED
      BY <1>1, <2>1, <3>3 DEF RequestBacked, Backed
  <2>3. DOMAIN Tallied(m, gs) = DOMAIN m
    BY <1>2, TalliedIsSnapshot
  <2>4. RequestBacked(insert'[r], log)
    BY <1>1, <1>7, <2>2, <2>3 DEF Counts, RequestBacked, Backed
  <2> QED
    BY <1>1, <1>3, <1>7, <2>4 DEF Counts
<1>8. ASSUME NEW s \in DOMAIN docs \cap DOMAIN m, Saves(r, s)
      PROVE  Backed(docs', log) /\ \A q \in Requests : RequestBacked(insert'[q], log)
  <2>1. docs' = [docs EXCEPT ![s] = [count |-> m[s].count, rev |-> docs[s].rev + 1]]
    BY <1>8 DEF Saves
  <2>2. DOMAIN docs' = DOMAIN docs /\ docs'[s].count = m[s].count
        /\ \A t \in DOMAIN docs : t # s => docs'[t] = docs[t]
    BY <1>1, <2>1, SnapshotShape
  <2>3. Backed(docs', log)
    BY <1>1, <2>2 DEF RequestBacked, Backed
  <2>4. RequestBacked(insert'[r], log)
    BY <1>1, <1>4, <1>8 DEF Saves, GoesOn, RequestBacked
  <2> QED
    BY <1>3, <2>3, <2>4
<1> QED
  BY <1>5, <1>6, <1>7, <1>8 DEF RequestEffect

LEMMA AddKeepsLogged ==
    ASSUME StoreInv, LoggedInv,
           NEW t \in Slots \ DOMAIN docs, NEW count \in [Games -> Nat], Adds(t, count)
    PROVE  Backed(docs', log)
<1>1. /\ DOMAIN docs' = DOMAIN docs \cup {t} /\ docs'[t] = [count |-> count, rev |-> 0]
      /\ \A s \in DOMAIN docs : docs'[s] = docs[s]
  BY AddGrows DEF Adds, StoreInv
<1>2. \A s \in DOMAIN docs, g \in Games : docs[s].count[g] > 0 => g \in log
  BY DEF LoggedInv, Backed
<1>3. ASSUME NEW g \in Games, count[g] > 0
      PROVE  g \in log
  <2>1. PICK s \in DOMAIN docs : count[g] <= docs[s].count[g]
    BY <1>3 DEF Adds
  <2>2. count[g] \in Nat /\ docs[s].count[g] \in Nat
    BY SnapshotShape, DocShape DEF StoreInv
  <2> QED
    BY <1>2, <1>3, <2>1, <2>2
<1> QED
  BY <1>1, <1>2, <1>3 DEF Backed

LEMMA ServerKeepsLogged ==
    ASSUME StoreInv, LoggedInv, ServerStep, UNCHANGED <<log, sent>>
    PROVE  LoggedInv'
<1>1. ASSUME ServerEffect
      PROVE  Backed(docs', log) /\ \A q \in Requests : RequestBacked(insert'[q], log)
  BY <1>1, AddKeepsLogged DEF ServerEffect, LoggedInv
<1>2. ASSUME RestartEffect
      PROVE  Backed(docs', log) /\ \A q \in Requests : RequestBacked(insert'[q], log)
  BY <1>2, AsleepBacked DEF RestartEffect, Ends, LoggedInv
<1>3. Backed(docs', log) /\ \A q \in Requests : RequestBacked(insert'[q], log)
  BY <1>1, <1>2, Effects, RequestKeepsLogged
<1> QED
  BY <1>3 DEF LoggedInv

LEMMA MoreIsLogged ==
    ASSUME NEW l, NEW k, l \subseteq k
    PROVE  /\ \A m : Backed(m, l) => Backed(m, k)
           /\ \A c : RequestBacked(c, l) => RequestBacked(c, k)
BY DEF Backed, RequestBacked

LEMMA ForwardKeepsLogged ==
    ASSUME LoggedInv, NEW r \in Requests, Forward(r)
    PROVE  LoggedInv'
<1> DEFINE record == RecordsOf[r][sent[r] + 1]
<1>1. sent[r] \in 0..(Len(RecordsOf[r]) - 1) /\ Len(RecordsOf[r]) \in Nat
  BY RecordsAssumption DEF Forward
<1>2. docs' = docs /\ insert' = insert /\ log \subseteq log'
  BY DEF Forward, vars
<1>3. \/ sent' = [sent EXCEPT ![r] = Ended]
      \/ record \in log' /\ sent' = [sent EXCEPT ![r] = sent[r] + 1]
  BY DEF Forward
<1>4. sent' \in [Requests -> Nat \cup {Ended}]
  BY <1>1, <1>3 DEF LoggedInv
<1>5. ASSUME NEW q \in Requests, NEW i \in 1..sent'[q]
      PROVE  RecordsOf[q][i] \in log'
  <2>1. i \in 1..sent[q] => RecordsOf[q][i] \in log'
    BY <1>2 DEF LoggedInv
  <2>2. CASE q # r
    BY <1>3, <1>5, <2>1, <2>2 DEF LoggedInv
  <2>3. CASE q = r
    <3>1. CASE sent' = [sent EXCEPT ![r] = Ended]
      <4>1. sent'[r] = Ended
        BY <3>1 DEF LoggedInv
      <4> QED
        BY <1>5, <2>3, <4>1 DEF Ended
    <3>2. CASE record \in log' /\ sent' = [sent EXCEPT ![r] = sent[r] + 1]
      <4>1. sent'[r] = sent[r] + 1
        BY <3>2 DEF LoggedInv
      <4>2. i \in 1..sent[q] \/ i = sent[r] + 1
        BY <1>1, <1>5, <2>3, <4>1
      <4> QED
        BY <2>1, <2>3, <3>2, <4>2
    <3> QED
      BY <1>3, <3>1, <3>2
  <2> QED
    BY <2>2, <2>3
<1> QED
  BY <1>2, <1>4, <1>5, MoreIsLogged DEF LoggedInv

LEMMA PostKeepsLogged ==
    ASSUME StoreInv, LoggedInv, NEW r \in Requests, Post(r)
    PROVE  LoggedInv'
<1>1. sent[r] = Len(RecordsOf[r]) /\ sent' = [sent EXCEPT ![r] = Ended] /\ log' = log
  BY DEF Post
<1>2. Collected(r) \subseteq log
  BY <1>1 DEF Collected, LoggedInv
<1>3. sent' \in [Requests -> Nat \cup {Ended}]
  BY <1>1 DEF LoggedInv
<1>4. ASSUME NEW q \in Requests, NEW i \in 1..sent'[q]
      PROVE  RecordsOf[q][i] \in log'
  BY <1>1, <1>4 DEF LoggedInv, Ended
<1>5. Backed(docs', log') /\ \A q \in Requests : RequestBacked(insert'[q], log')
  <2>1. CASE UNCHANGED vars
    BY <1>1, <2>1 DEF vars, LoggedInv
  <2>2. CASE Insert(r, Collected(r))
    <3>1. docs' = docs /\ \A q \in Requests \ {r} : insert'[q] = insert[q]
      BY <2>2 DEF Insert, StoreInv
    <3>2. insert'[r] = [Asleep("picks") EXCEPT !.games = Collected(r)]
      BY <2>2 DEF Insert, StoreInv
    <3>3. insert'[r].games = Collected(r) /\ insert'[r].mine = Nothing
      BY <3>2 DEF Asleep
    <3>4. RequestBacked(insert'[r], log)
      BY <1>2, <3>3, NothingIsSnapshot DEF RequestBacked, Backed
    <3> QED
      BY <1>1, <3>1, <3>4 DEF LoggedInv
  <2> QED
    BY <2>1, <2>2 DEF Post
<1> QED
  BY <1>3, <1>4, <1>5 DEF LoggedInv

LEMMA LoggedInit == PipelineInit => LoggedInv
<1> SUFFICES ASSUME PipelineInit PROVE LoggedInv
  OBVIOUS
<1>1. docs = Nothing /\ insert = [r \in Requests |-> Asleep("idle")]
      /\ sent = [r \in Requests |-> 0]
  BY DEF PipelineInit, Init
<1>2. Backed(docs, log)
  BY <1>1, NothingIsSnapshot DEF Backed
<1>3. \A r \in Requests : \A i \in 1..sent[r] : RecordsOf[r][i] \in log
  BY <1>1
<1> QED
  BY <1>1, <1>2, <1>3, AsleepBacked DEF LoggedInv

LEMMA PipelineKeepsLogged ==
    ASSUME StoreInv, LoggedInv, [PipelineNext]_pipeline
    PROVE  LoggedInv'
<1>1. ASSUME UNCHANGED pipeline
      PROVE  LoggedInv'
  BY <1>1 DEF pipeline, vars, LoggedInv
<1> QED
  BY <1>1, ForwardKeepsLogged, PostKeepsLogged, ServerKeepsLogged DEF PipelineNext

\* No game is in the statistics that the log has not been given, whatever fails,
\* is repeated or dies: LogService posts a batch after it has logged all of it.
THEOREM CountedGamesAreInTheLog == PipelineSpec => []CountedGamesAreLogged
<1>1. PipelineSpec => []LoggedInv
  BY StoreInvariance, LoggedInit, PipelineKeepsLogged, PTL DEF PipelineSpec
<1>2. LoggedInv => CountedGamesAreLogged
  BY DEF LoggedInv, Backed, CountedGamesAreLogged
<1> QED
  BY <1>1, <1>2, PTL

----------------------------------------------------------------------------
(* How often a game is counted *)

\* A copy of a document that nobody has saved since is the document and the games
\* that this attempt has counted, each once.
Exact(c, d) ==
    \A s \in DOMAIN c.mine : c.mine[s].rev = d[s].rev =>
        \A g \in Games :
            \/ c.mine[s].count[g] = d[s].count[g]
            \/ /\ c.phase = "save" /\ g \in c.converted
               /\ c.mine[s].count[g] = d[s].count[g] + 1

\* An attempt reads at most one document of each rank.
OneOfARank(c) ==
    /\ \A s, t \in DOMAIN c.mine : s[2] = t[2] => s = t
    /\ c.phase = "wins" => \A s \in DOMAIN c.mine : s[2] \in PickDocs

\* c may still add a game to a document of rank k.
Pending(c, d, g, k) ==
    \E s \in DOMAIN c.mine :
        s[2] = k /\ c.mine[s].rev = d[s].rev /\ c.mine[s].count[g] > d[s].count[g]

\* The n-th count of a game by call c, in documents of rank k, has been made or will
\* never be.
Over(c, d, g, k, n) ==
    \/ c.phase \in {"done", "error"}
    \/ c.phase \in Active /\ g \in Ambiguous /\ n < c.attempt
    \/ /\ c.phase \in Active /\ ~Pending(c, d, g, k)
       /\ IF g \in Ambiguous THEN n = c.attempt /\ c.phase = "save" ELSE g \in c.converted

Spent(calls, d, g, k) ==
    {p \in BatchesWith(g) \X Attempts(g) : Over(calls[p[1]], d, g, k, p[2])}

Bounded ==
    \A s \in DOMAIN docs, g \in Games :
        docs[s].count[g] <= Cardinality(Spent(insert, docs, g, s[2]))

CountInv ==
    /\ \A r \in Requests : /\ insert[r].games \subseteq Collected(r)
                           /\ Exact(insert[r], docs) /\ OneOfARank(insert[r])
    /\ tick.phase \in {"idle", "picks"} => tick.copies = Nothing
    /\ Bounded

LEMMA SpentIsFinite ==
    ASSUME NEW calls, NEW d, NEW g \in Games, NEW k
    PROVE  /\ IsFiniteSet(Spent(calls, d, g, k))
           /\ Cardinality(Spent(calls, d, g, k)) \in Nat
           /\ Cardinality(Spent(calls, d, g, k)) <= LimitOf(g)
           /\ LimitOf(g) \in Nat
<1> DEFINE all == BatchesWith(g) \X Attempts(g)
<1>1. IsFiniteSet(BatchesWith(g))
  BY BatchesAssumption
<1>2. IsFiniteSet(Attempts(g))
  <2>1. IsFiniteSet({1}) /\ IsFiniteSet(1..3)
    BY FS_Singleton, FS_Interval, 1 \in Int, 3 \in Int
  <2> QED
    BY <2>1 DEF Attempts, MaxAttempts
<1>3. IsFiniteSet(all)
  BY <1>1, <1>2, FS_Product
<1>4. Spent(calls, d, g, k) \in SUBSET all
  BY DEF Spent
<1> HIDE DEF all
<1>5. IsFiniteSet(Spent(calls, d, g, k)) /\ Cardinality(Spent(calls, d, g, k)) <= Cardinality(all)
  BY <1>3, <1>4, FS_Subset
<1> QED
  BY <1>3, <1>5, FS_CardinalityType DEF all, LimitOf

\* What is over stays over, and copies stay exact, while documents grow.
LEMMA GrowthKeepsExact ==
    ASSUME NEW d \in Snapshots, NEW e \in Snapshots, Grows(d, e), NEW c, CallOK(c, d)
    PROVE  /\ Exact(c, d) => Exact(c, e)
           /\ \A g, k : Pending(c, e, g, k) => Pending(c, d, g, k)
           /\ \A g, k, n : Over(c, d, g, k, n) => Over(c, e, g, k, n)
<1>1. ASSUME NEW s \in DOMAIN c.mine, c.mine[s].rev = e[s].rev
      PROVE  e[s] = d[s]
  <2>1. s \in DOMAIN d /\ s \in DOMAIN e /\ c.mine[s].rev <= d[s].rev
    BY DEF CallOK, Old, Grows
  <2>2. d[s].rev \in Nat /\ e[s].rev \in Nat
    BY <2>1, SnapshotShape, DocShape
  <2>3. ~(e[s].rev > d[s].rev)
    BY <1>1, <2>1, <2>2
  <2> QED
    BY <2>1, <2>3 DEF Grows
<1>2. Exact(c, d) => Exact(c, e)
  BY <1>1 DEF Exact
<1>3. \A g, k : Pending(c, e, g, k) => Pending(c, d, g, k)
  BY <1>1 DEF Pending
<1> QED
  BY <1>2, <1>3 DEF Over

\* The bound holds after a step that only spends, if each tally is blank, not more
\* than another of its rank was, or one more for something spent.
LEMMA BoundKeeps ==
    ASSUME StoreInv, StoreInv', Bounded,
           \A g \in Games : \A k :
               Spent(insert, docs, g, k) \subseteq Spent(insert', docs', g, k),
           \A s \in DOMAIN docs', g \in Games :
               \/ docs'[s].count[g] = 0
               \/ \E t \in DOMAIN docs : t[2] = s[2] /\ docs'[s].count[g] <= docs[t].count[g]
               \/ /\ s \in DOMAIN docs /\ docs'[s].count[g] = docs[s].count[g] + 1
                  /\ Spent(insert, docs, g, s[2]) # Spent(insert', docs', g, s[2])
    PROVE  Bounded'
<1> SUFFICES ASSUME NEW s \in DOMAIN docs', NEW g \in Games
             PROVE  docs'[s].count[g] <= Cardinality(Spent(insert', docs', g, s[2]))
  BY DEF Bounded
<1> DEFINE old == Spent(insert, docs, g, s[2])
           new == Spent(insert', docs', g, s[2])
<1>1. old \in SUBSET new
  OBVIOUS
<1>2. IsFiniteSet(new) /\ Cardinality(old) \in Nat /\ Cardinality(new) \in Nat
  BY SpentIsFinite
<1>3. Cardinality(old) <= Cardinality(new) /\ (Cardinality(old) = Cardinality(new) => old = new)
  <2> HIDE DEF old, new
  <2> QED
    BY <1>1, <1>2, FS_Subset
<1>4. docs'[s].count[g] \in Nat /\ \A t \in DOMAIN docs : docs[t].count[g] \in Nat
  BY SnapshotShape, DocShape DEF StoreInv
<1>5. \A t \in DOMAIN docs : t[2] = s[2] => docs[t].count[g] <= Cardinality(old)
  BY DEF Bounded
<1> HIDE DEF new, old
<1>6. CASE docs'[s].count[g] = 0
  BY <1>2, <1>6 DEF new
<1>7. CASE \E t \in DOMAIN docs : t[2] = s[2] /\ docs'[s].count[g] <= docs[t].count[g]
  <2>1. PICK t \in DOMAIN docs : t[2] = s[2] /\ docs'[s].count[g] <= docs[t].count[g]
    BY <1>7
  <2>2. docs[t].count[g] <= Cardinality(old)
    BY <1>5, <2>1
  <2>3. docs'[s].count[g] <= Cardinality(new)
    BY <1>2, <1>3, <1>4, <2>1, <2>2
  <2> QED
    BY <2>3 DEF new
<1>8. CASE /\ s \in DOMAIN docs /\ docs'[s].count[g] = docs[s].count[g] + 1
           /\ old # new
  <2>1. docs[s].count[g] <= Cardinality(old) /\ Cardinality(old) # Cardinality(new)
    BY <1>3, <1>5, <1>8
  <2>2. docs'[s].count[g] <= Cardinality(new)
    BY <1>2, <1>3, <1>4, <1>8, <2>1
  <2> QED
    BY <2>2 DEF new
<1> QED
  BY <1>6, <1>7, <1>8 DEF old, new

\* Spending goes call by call.
LEMMA SpentGrows ==
    ASSUME NEW calls, NEW later, NEW d, NEW e,
           \A r \in Requests, g \in Games : \A k : \A n \in Nat :
               Over(calls[r], d, g, k, n) => Over(later[r], e, g, k, n)
    PROVE  \A g \in Games : \A k : Spent(calls, d, g, k) \subseteq Spent(later, e, g, k)
<1> SUFFICES ASSUME NEW g \in Games, NEW k, NEW p \in BatchesWith(g) \X Attempts(g),
                    Over(calls[p[1]], d, g, k, p[2])
             PROVE  Over(later[p[1]], e, g, k, p[2])
  BY DEF Spent
<1>1. p[1] \in Requests /\ p[2] \in Nat
  BY DEF BatchesWith, Attempts, MaxAttempts
<1> QED
  BY <1>1

\* A step that does not save for a request: documents may be added, and calls go on
\* or end.
LEMMA CountStep ==
    ASSUME StoreInv, StoreInv', CountInv, Grows(docs, docs'),
           \A s \in DOMAIN docs', g \in Games :
               \/ docs'[s].count[g] = 0
               \/ \E t \in DOMAIN docs : t[2] = s[2] /\ docs'[s].count[g] <= docs[t].count[g],
           \A r \in Requests :
               \/ insert'[r] = insert[r]
               \/ /\ insert'[r].games \subseteq Collected(r)
                  /\ Exact(insert'[r], docs') /\ OneOfARank(insert'[r])
                  /\ \A g \in Games : \A k : \A n \in Nat :
                       Over(insert[r], docs, g, k, n) => Over(insert'[r], docs', g, k, n),
           tick'.phase \in {"idle", "picks"} => tick'.copies = Nothing
    PROVE  CountInv'
<1>1. docs \in Snapshots /\ docs' \in Snapshots /\ \A r \in Requests : CallOK(insert[r], docs)
  BY DEF StoreInv
<1>2. ASSUME NEW r \in Requests
      PROVE  /\ insert'[r].games \subseteq Collected(r)
             /\ Exact(insert'[r], docs') /\ OneOfARank(insert'[r])
             /\ \A g \in Games : \A k : \A n \in Nat :
                  Over(insert[r], docs, g, k, n) => Over(insert'[r], docs', g, k, n)
  <2>1. Exact(insert[r], docs') /\
        \A g, k, n : Over(insert[r], docs, g, k, n) => Over(insert[r], docs', g, k, n)
    BY <1>1, GrowthKeepsExact DEF CountInv
  <2> QED
    BY <2>1 DEF CountInv
<1>3. \A g \in Games : \A k : Spent(insert, docs, g, k) \subseteq Spent(insert', docs', g, k)
  BY <1>2, SpentGrows
<1>4. Bounded'
  BY <1>3, BoundKeeps DEF CountInv
<1> QED
  BY <1>2, <1>4 DEF CountInv

\* A step of request r that saves nothing.
LEMMA RequestCounts ==
    ASSUME StoreInv, StoreInv', CountInv, NEW r \in Requests, NEW c,
           insert' = [insert EXCEPT ![r] = c], UNCHANGED <<docs, tick>>,
           c.games \subseteq Collected(r), Exact(c, docs), OneOfARank(c),
           \A g \in Games : \A k : \A n \in Nat : Over(insert[r], docs, g, k, n) => Over(c, docs, g, k, n)
    PROVE  CountInv'
<1>1. \A q \in Requests : q # r => insert'[q] = insert[q]
  BY DEF StoreInv
<1>2. insert'[r] = c
  BY DEF StoreInv
<1>3. \A s \in DOMAIN docs', g \in Games : docs'[s].count[g] <= docs[s].count[g]
  BY SnapshotShape, DocShape DEF StoreInv
<1>4. tick'.phase \in {"idle", "picks"} => tick'.copies = Nothing
  BY DEF CountInv
<1>5. Grows(docs, docs')
  BY NothingGrows
<1>6. \A q \in Requests :
        \/ insert'[q] = insert[q]
        \/ /\ insert'[q].games \subseteq Collected(q)
           /\ Exact(insert'[q], docs') /\ OneOfARank(insert'[q])
           /\ \A g \in Games : \A k : \A n \in Nat :
                Over(insert[q], docs, g, k, n) => Over(insert'[q], docs', g, k, n)
  BY <1>1, <1>2
<1> QED
  BY <1>3, <1>4, <1>5, <1>6, CountStep

LEMMA EndedCounts ==
    ASSUME NEW p \in {"idle", "picks", "done", "error"}, NEW d
    PROVE  /\ Asleep(p).games = {} /\ Exact(Asleep(p), d) /\ OneOfARank(Asleep(p))
           /\ p \in {"done", "error"} => \A g, k, n : Over(Asleep(p), d, g, k, n)
<1>1. DOMAIN Asleep(p).mine = {} /\ Asleep(p).games = {} /\ Asleep(p).phase = p
  BY NothingIsSnapshot DEF Asleep
<1> QED
  BY <1>1 DEF Exact, OneOfARank, Over

LEMMA InsertCounts ==
    ASSUME StoreInv, CountInv, NEW r \in Requests, Insert(r, Collected(r))
    PROVE  CountInv'
<1> DEFINE c == [Asleep("picks") EXCEPT !.games = Collected(r)]
<1>1. StoreInv'
  <2>1. Collected(r) \in SUBSET Games
    BY DEF Collected
  <2> QED
    BY <2>1, InsertKeeps
<1>2. c.games = Collected(r) /\ DOMAIN c.mine = {} /\ c.phase = "picks"
  BY NothingIsSnapshot DEF Asleep
<1>3. /\ insert[r].phase = "idle" /\ insert' = [insert EXCEPT ![r] = c]
      /\ UNCHANGED <<docs, tick>>
  BY DEF Insert
<1> HIDE DEF c
<1>4. Exact(c, docs) /\ OneOfARank(c)
  BY <1>2 DEF Exact, OneOfARank
<1>5. \A g, k, n : ~Over(insert[r], docs, g, k, n)
  BY <1>3 DEF Over, Active
<1> QED
  BY <1>1, <1>2, <1>3, <1>4, <1>5, RequestCounts

\* What find returns, and what a second find adds to it.
LEMMA FoundIsExact ==
    ASSUME docs \in Snapshots, NEW at, NEW ds
    PROVE  \A s, t \in DOMAIN Find(at, ds) :
               /\ s[2] \in ds /\ Find(at, ds)[s] = docs[s]
               /\ s[2] = t[2] => s = t
<1> SUFFICES ASSUME NEW s \in DOMAIN Find(at, ds), NEW t \in DOMAIN Find(at, ds)
             PROVE  /\ s[2] \in ds /\ Find(at, ds)[s] = docs[s]
                    /\ s[2] = t[2] => s = t
  OBVIOUS
<1>1. s \in {at} \X ds /\ t \in {at} \X ds
  BY DEF Find
<1>2. s = <<at, s[2]>> /\ t = <<at, t[2]>>
  BY <1>1
<1> QED
  BY <1>1, <1>2 DEF Find

LEMMA ReadPicksCounts ==
    ASSUME StoreInv, CountInv, NEW r \in Requests, ReadPicks(r)
    PROVE  CountInv'
<1> DEFINE c == [insert[r] EXCEPT !.phase = "wins", !.mine = Find(Now, PickDocs)]
<1>1. insert[r] \in Calls /\ docs \in Snapshots /\ StoreInv'
  BY ReadPicksKeeps DEF StoreInv
<1>2. /\ c.games = insert[r].games /\ c.mine = Find(Now, PickDocs) /\ c.phase = "wins"
      /\ c.attempt = insert[r].attempt /\ c.converted = insert[r].converted
  BY <1>1 DEF Calls
<1>3. /\ insert[r].phase = "picks" /\ insert' = [insert EXCEPT ![r] = c]
      /\ UNCHANGED <<docs, tick>>
  BY <1>1 DEF ReadPicks, StoreInv
<1> HIDE DEF c
<1>4. \A s \in DOMAIN c.mine : c.mine[s] = docs[s]
  BY <1>1, <1>2, FoundIsExact
<1>5. Exact(c, docs)
  BY <1>4 DEF Exact
<1>6. OneOfARank(c)
  BY <1>1, <1>2, FoundIsExact DEF OneOfARank
<1>7. \A g \in Games : \A k : ~Pending(c, docs, g, k)
  <2>1. \A s \in DOMAIN c.mine, g \in Games : docs[s].count[g] \in Nat
    BY <1>1, <1>2, FindIsSnapshot, SnapshotShape, DocShape
  <2> QED
    BY <1>4, <2>1 DEF Pending
<1>8. \A g \in Games : \A k : \A n \in Nat : Over(insert[r], docs, g, k, n) => Over(c, docs, g, k, n)
  BY <1>2, <1>3, <1>7 DEF Over, Active
<1> QED
  BY <1>1, <1>2, <1>3, <1>5, <1>6, <1>8, RequestCounts DEF CountInv

LEMMA ReadWinsCounts ==
    ASSUME StoreInv, CountInv, NEW r \in Requests, ReadWins(r)
    PROVE  CountInv'
<1> DEFINE found == Find(Now, WinDocs)
           mine == insert[r].mine
           c == [insert[r] EXCEPT !.phase = "count", !.mine = Merge(mine, found)]
<1>1. /\ insert[r] \in Calls /\ CallOK(insert[r], docs) /\ docs \in Snapshots /\ StoreInv'
      /\ Exact(insert[r], docs) /\ OneOfARank(insert[r])
  BY ReadWinsKeeps DEF StoreInv, CountInv
<1>2. /\ c.games = insert[r].games /\ c.mine = Merge(mine, found) /\ c.phase = "count"
      /\ c.attempt = insert[r].attempt /\ c.converted = insert[r].converted
  BY <1>1 DEF Calls
<1>3. /\ insert[r].phase = "wins" /\ insert' = [insert EXCEPT ![r] = c]
      /\ UNCHANGED <<docs, tick>>
  BY <1>1 DEF ReadWins, StoreInv
<1>4. /\ mine \in Snapshots /\ found \in Snapshots /\ DOMAIN found \subseteq DOMAIN docs
      /\ \A s, t \in DOMAIN found :
           s[2] \in WinDocs /\ found[s] = docs[s] /\ (s[2] = t[2] => s = t)
  BY <1>1, FoundIsExact, FindIsSnapshot DEF CallOK, Calls
<1>5. /\ DOMAIN c.mine = DOMAIN mine \cup DOMAIN found
      /\ \A s \in DOMAIN c.mine :
           \/ s \in DOMAIN mine /\ c.mine[s] = mine[s]
           \/ s \in DOMAIN found /\ c.mine[s] = found[s]
  <2>1. DOMAIN Merge(mine, found) = DOMAIN mine \cup DOMAIN found
    BY <1>4, MergeIsSnapshot
  <2>2. \A s \in DOMAIN Merge(mine, found) :
          Merge(mine, found)[s] = IF s \in DOMAIN mine THEN mine[s] ELSE found[s]
    BY DEF Merge
  <2> HIDE DEF c, mine, found
  <2> QED
    BY <1>2, <2>1, <2>2
<1> HIDE DEF c, found
<1>6. ASSUME NEW s \in DOMAIN c.mine, c.mine[s].rev = docs[s].rev, NEW g \in Games
      PROVE  c.mine[s].count[g] = docs[s].count[g]
  <2>1. CASE s \in DOMAIN mine /\ c.mine[s] = mine[s]
    BY <1>1, <1>3, <1>6, <2>1 DEF Exact
  <2>2. CASE s \in DOMAIN found /\ c.mine[s] = found[s]
    BY <1>4, <2>2
  <2> QED
    BY <1>5, <2>1, <2>2
<1>7. Exact(c, docs)
  BY <1>6 DEF Exact
<1>8. OneOfARank(c)
  <2>1. \A s \in DOMAIN mine, t \in DOMAIN found : s[2] # t[2]
    <3>1. \A s \in DOMAIN mine, t \in DOMAIN found : s[2] \in PickDocs /\ t[2] \in WinDocs
      BY <1>1, <1>3, <1>4 DEF OneOfARank
    <3>2. \A p \in PickDocs, w \in WinDocs : p # w
      BY DocsAssumption DEF Docs
    <3> QED
      BY <3>1, <3>2
  <2>2. ASSUME NEW s \in DOMAIN c.mine, NEW t \in DOMAIN c.mine, s[2] = t[2]
        PROVE  s = t
    BY <1>1, <1>4, <1>5, <2>1, <2>2 DEF OneOfARank
  <2> QED
    BY <1>2, <2>2 DEF OneOfARank
<1>9. \A g \in Games : \A k : ~Pending(c, docs, g, k)
  <2>1. \A s \in DOMAIN c.mine, g \in Games : docs[s].count[g] \in Nat
    <3>1. DOMAIN c.mine \subseteq DOMAIN docs
      BY <1>1, <1>4, <1>5 DEF CallOK, Old
    <3> QED
      BY <1>1, <3>1, SnapshotShape, DocShape
  <2> QED
    BY <1>6, <2>1 DEF Pending
<1>10. \A g \in Games : \A k : \A n \in Nat : Over(insert[r], docs, g, k, n) => Over(c, docs, g, k, n)
  BY <1>2, <1>3, <1>9 DEF Over, Active
<1> QED
  BY <1>1, <1>2, <1>3, <1>7, <1>8, <1>10, RequestCounts DEF CountInv

LEMMA CountGamesCounts ==
    ASSUME StoreInv, CountInv, NEW r \in Requests, CountGames(r)
    PROVE  CountInv'
<1> DEFINE m == insert[r].mine
<1>1. /\ insert[r] \in Calls /\ CallOK(insert[r], docs) /\ docs \in Snapshots /\ StoreInv'
      /\ Exact(insert[r], docs) /\ OneOfARank(insert[r]) /\ m \in Snapshots
  BY CountGamesKeeps DEF StoreInv, CountInv, Calls
<1>2. PICK gs \in Countable(r) :
        insert' = [insert EXCEPT ![r] =
              IF m = Nothing THEN Asleep("done")
              ELSE [insert[r] EXCEPT !.phase = "save", !.mine = Tallied(m, gs), !.left = DOMAIN m,
                                     !.converted = insert[r].converted \cup gs]]
  BY DEF CountGames, Tallied
<1>3. insert[r].phase = "count" /\ UNCHANGED <<docs, tick>>
  BY DEF CountGames
<1>4. CASE m = Nothing
  <2>1. insert' = [insert EXCEPT ![r] = Asleep("done")]
    BY <1>2, <1>4
  <2> QED
    BY <1>1, <1>3, <2>1, EndedCounts, RequestCounts
<1>5. CASE m # Nothing
  <2> DEFINE c == [insert[r] EXCEPT !.phase = "save", !.mine = Tallied(m, gs), !.left = DOMAIN m,
                                    !.converted = insert[r].converted \cup gs]
  <2>1. insert' = [insert EXCEPT ![r] = c]
    BY <1>2, <1>5
  <2>2. /\ c.games = insert[r].games /\ c.mine = Tallied(m, gs) /\ c.phase = "save"
        /\ c.attempt = insert[r].attempt /\ c.converted = insert[r].converted \cup gs
    BY <1>1 DEF Calls
  <2> HIDE DEF c
  <2>3. /\ DOMAIN c.mine = DOMAIN m
        /\ \A s \in DOMAIN m :
             /\ c.mine[s].rev = m[s].rev
             /\ \A g \in Games :
                  /\ m[s].count[g] \in Nat
                  /\ c.mine[s].count[g] = m[s].count[g] + (IF g \in gs THEN 1 ELSE 0)
    BY <1>1, <2>2, TalliedIsSnapshot, SnapshotShape, DocShape
  <2>4. \A s \in DOMAIN m, g \in Games :
          m[s].rev = docs[s].rev => m[s].count[g] = docs[s].count[g]
    BY <1>1, <1>3 DEF Exact
  <2>5. Exact(c, docs)
    <3> SUFFICES ASSUME NEW s \in DOMAIN m, m[s].rev = docs[s].rev, NEW g \in Games
                 PROVE  \/ c.mine[s].count[g] = docs[s].count[g]
                        \/ g \in c.converted /\ c.mine[s].count[g] = docs[s].count[g] + 1
      BY <2>2, <2>3 DEF Exact
    <3>1. m[s].count[g] = docs[s].count[g] /\ m[s].count[g] \in Nat
      BY <2>3, <2>4
    <3>2. c.mine[s].count[g] = m[s].count[g] + (IF g \in gs THEN 1 ELSE 0)
      BY <2>3
    <3>3. CASE g \in gs
      BY <2>2, <3>1, <3>2, <3>3
    <3>4. CASE g \notin gs
      BY <3>1, <3>2, <3>4
    <3> QED
      BY <3>3, <3>4
  <2>6. OneOfARank(c)
    BY <1>1, <2>2, <2>3 DEF OneOfARank
  <2>7. ASSUME NEW g \in Games, NEW k, g \notin gs
        PROVE  ~Pending(c, docs, g, k)
    <3> SUFFICES ASSUME NEW s \in DOMAIN m, m[s].rev = docs[s].rev
                 PROVE  ~(c.mine[s].count[g] > docs[s].count[g])
      BY <2>3 DEF Pending
    <3>1. m[s].count[g] = docs[s].count[g] /\ m[s].count[g] \in Nat
      BY <2>3, <2>4
    <3>2. c.mine[s].count[g] = m[s].count[g]
      BY <2>3, <2>7, <3>1
    <3> QED
      BY <3>1, <3>2
  <2>8. ASSUME NEW g \in Games, NEW k, NEW n \in Nat, Over(insert[r], docs, g, k, n)
        PROVE  Over(c, docs, g, k, n)
    <3>1. CASE g \in Ambiguous
      BY <1>3, <2>2, <2>8, <3>1 DEF Over, Active
    <3>2. CASE g \notin Ambiguous
      <4>1. g \in insert[r].converted
        BY <1>3, <2>8, <3>2 DEF Over, Active
      <4>2. g \notin gs
        BY <3>2, <4>1 DEF Countable
      <4> QED
        BY <2>2, <2>7, <3>2, <4>1, <4>2 DEF Over, Active
    <3> QED
      BY <3>1, <3>2
  <2> QED
    BY <1>1, <1>3, <2>1, <2>2, <2>5, <2>6, <2>8, RequestCounts DEF CountInv
<1> QED
  BY <1>4, <1>5

LEMMA InsertFailsCounts ==
    ASSUME StoreInv, CountInv, NEW r \in Requests, InsertFails(r)
    PROVE  CountInv'
<1>1. /\ insert' = [insert EXCEPT ![r] = Asleep("error")] /\ UNCHANGED <<docs, tick>>
      /\ StoreInv'
  BY InsertFailsKeeps DEF InsertFails
<1> QED
  BY <1>1, EndedCounts, RequestCounts

\* A save of the copy of s: what it adds has been spent, in documents of its rank.
LEMMA SaveCounts ==
    ASSUME StoreInv, CountInv, NEW r \in Requests, Save(r)
    PROVE  CountInv'
<1> DEFINE s == First(insert[r].left)
           left == insert[r].left \ {s}
           m == insert[r].mine[s]
<1>1. /\ insert[r] \in Calls /\ CallOK(insert[r], docs) /\ docs \in Snapshots
      /\ Exact(insert[r], docs) /\ OneOfARank(insert[r]) /\ insert[r].phase = "save"
      /\ insert \in [Requests -> Calls]
  BY DEF StoreInv, CountInv, Save
<1>2. s \in DOMAIN insert[r].mine /\ s \in DOMAIN docs /\ m \in Doc
  BY SaveFinds DEF Save
<1>3. StoreInv' /\ Grows(docs, docs') /\ tick' = tick
  BY SaveKeeps DEF Save
<1>4. CASE docs[s].rev # m.rev
  <2> DEFINE again == [insert[r] EXCEPT !.phase = "picks", !.attempt = insert[r].attempt + 1,
                                        !.mine = Nothing, !.left = {}]
  <2>1. /\ docs' = docs
        /\ insert' = [insert EXCEPT ![r] =
               IF insert[r].attempt = MaxAttempts THEN Asleep("error") ELSE again]
    BY <1>4 DEF Save
  <2>2. CASE insert[r].attempt = MaxAttempts
    BY <1>3, <2>1, <2>2, EndedCounts, RequestCounts
  <2>3. CASE insert[r].attempt # MaxAttempts
    <3>1. /\ again.games = insert[r].games /\ again.mine = Nothing /\ again.phase = "picks"
          /\ again.attempt = insert[r].attempt + 1 /\ again.converted = insert[r].converted
          /\ insert[r].attempt \in 1..MaxAttempts
      BY <1>1 DEF Calls
    <3>2. insert' = [insert EXCEPT ![r] = again]
      BY <2>1, <2>3
    <3> HIDE DEF again
    <3>3. /\ Exact(again, docs) /\ OneOfARank(again)
          /\ \A g, k : ~Pending(again, docs, g, k)
      BY <3>1, NothingIsSnapshot DEF Exact, OneOfARank, Pending
    <3>4. ASSUME NEW g \in Games, NEW k, NEW n \in Nat, Over(insert[r], docs, g, k, n)
          PROVE  Over(again, docs, g, k, n)
      <4>1. CASE g \in Ambiguous
        <5>1. n < insert[r].attempt \/ n = insert[r].attempt
          BY <1>1, <3>4, <4>1 DEF Over
        <5>2. n < insert[r].attempt + 1
          BY <3>1, <5>1, SMT DEF MaxAttempts
        <5> QED
          BY <3>1, <4>1, <5>2 DEF Over, Active
      <4>2. CASE g \notin Ambiguous
        BY <1>1, <3>1, <3>3, <3>4, <4>2 DEF Over, Active
      <4> QED
        BY <4>1, <4>2
    <3> QED
      BY <1>3, <2>1, <3>1, <3>2, <3>3, <3>4, RequestCounts DEF CountInv
  <2> QED
    BY <2>2, <2>3
<1>5. CASE docs[s].rev = m.rev
  <2> DEFINE c == IF left = {} THEN Asleep("done") ELSE [insert[r] EXCEPT !.left = left]
  <2>1. /\ docs' = [docs EXCEPT ![s] = [count |-> m.count, rev |-> docs[s].rev + 1]]
        /\ insert' = [insert EXCEPT ![r] = c]
    BY <1>5 DEF Save
  <2>2. /\ DOMAIN docs' = DOMAIN docs /\ docs'[s].count = m.count
        /\ docs'[s].rev = docs[s].rev + 1 /\ docs[s].rev \in Nat
        /\ \A t \in DOMAIN docs : t # s => docs'[t] = docs[t]
    BY <1>1, <1>2, <2>1, SnapshotShape, DocShape
  <2>3. \/ c.phase = "done" /\ c = Asleep("done")
        \/ /\ c.games = insert[r].games /\ c.mine = insert[r].mine /\ c.phase = "save"
           /\ c.attempt = insert[r].attempt /\ c.converted = insert[r].converted
    <3>1. CASE left = {}
      BY <3>1 DEF Asleep
    <3>2. CASE left # {}
      BY <1>1, <3>2 DEF Calls
    <3> QED
      BY <3>1, <3>2
  <2>4. insert'[r] = c /\ \A q \in Requests : q # r => insert'[q] = insert[q]
    BY <1>1, <2>1
  <2> HIDE DEF c
  <2>5. docs' \in Snapshots /\ \A q \in Requests : CallOK(insert[q], docs)
    BY <1>3 DEF StoreInv
  <2>6. Exact(c, docs') /\ OneOfARank(c) /\ c.games \subseteq Collected(r)
    <3>1. Exact(insert[r], docs')
      BY <1>1, <1>3, <2>5, GrowthKeepsExact
    <3>2. CASE c = Asleep("done")
      BY <3>2, EndedCounts
    <3>3. CASE /\ c.games = insert[r].games /\ c.mine = insert[r].mine /\ c.phase = "save"
               /\ c.converted = insert[r].converted
      BY <1>1, <3>1, <3>3 DEF Exact, OneOfARank, CountInv
    <3> QED
      BY <2>3, <3>2, <3>3
  <2>7. \A g \in Games : ~Pending(insert[r], docs', g, s[2])
    <3> SUFFICES ASSUME NEW g \in Games, NEW t \in DOMAIN insert[r].mine, t[2] = s[2],
                        insert[r].mine[t].rev = docs'[t].rev
                 PROVE  FALSE
      BY DEF Pending
    <3>1. t = s
      BY <1>1, <1>2 DEF OneOfARank
    <3> QED
      BY <1>5, <2>2, <3>1
  <2>8. \A q \in Requests, g \in Games : \A k : \A n \in Nat :
          Over(insert[q], docs, g, k, n) => Over(insert'[q], docs', g, k, n)
    <3>1. \A q \in Requests : \A g, k, n :
            Over(insert[q], docs, g, k, n) => Over(insert[q], docs', g, k, n)
      BY <1>1, <1>3, <2>5, GrowthKeepsExact
    <3>2. ASSUME NEW g, NEW k, NEW n, Over(insert[r], docs', g, k, n)
          PROVE  Over(c, docs', g, k, n)
      <4>1. CASE c.phase = "done"
        BY <4>1 DEF Over
      <4>2. CASE /\ c.mine = insert[r].mine /\ c.phase = "save"
                 /\ c.attempt = insert[r].attempt /\ c.converted = insert[r].converted
        BY <1>1, <3>2, <4>2 DEF Over, Pending
      <4> QED
        BY <2>3, <4>1, <4>2
    <3> QED
      BY <2>4, <3>1, <3>2
  <2>9. ASSUME NEW g \in Games, m.count[g] # docs[s].count[g]
        PROVE  /\ m.count[g] = docs[s].count[g] + 1
               /\ Spent(insert, docs, g, s[2]) # Spent(insert', docs', g, s[2])
    <3> DEFINE n == IF g \in Ambiguous THEN insert[r].attempt ELSE 1
               p == <<r, n>>
    <3>1. m.count[g] = docs[s].count[g] + 1 /\ g \in insert[r].converted
      BY <1>1, <1>2, <1>5, <2>9 DEF Exact
    <3>2. p \in BatchesWith(g) \X Attempts(g)
      <4>1. g \in Collected(r)
        BY <1>1, <3>1 DEF CountInv, CallOK
      <4>2. insert[r].attempt \in 1..MaxAttempts
        BY <1>1 DEF Calls
      <4> QED
        BY <4>1, <4>2 DEF BatchesWith, Attempts
    <3>3. Pending(insert[r], docs, g, s[2])
      <4>1. docs[s].count[g] \in Nat
        BY <1>1, <1>2, SnapshotShape, DocShape
      <4>2. m.count[g] > docs[s].count[g]
        BY <3>1, <4>1
      <4> QED
        BY <1>2, <1>5, <4>2 DEF Pending
    <3>4. ~Over(insert[r], docs, g, s[2], n)
      <4>1. insert[r].attempt \in Nat
        BY <1>1 DEF Calls, MaxAttempts
      <4>2. ~(insert[r].attempt < insert[r].attempt)
        BY <4>1
      <4> QED
        BY <1>1, <3>3, <4>2 DEF Over
    <3>5. Over(c, docs', g, s[2], n)
      <4>1. CASE c.phase = "done"
        BY <4>1 DEF Over
      <4>2. CASE /\ c.mine = insert[r].mine /\ c.phase = "save"
                 /\ c.attempt = insert[r].attempt /\ c.converted = insert[r].converted
        <5>1. ~Pending(c, docs', g, s[2])
          BY <2>7, <4>2 DEF Pending
        <5> QED
          BY <3>1, <4>2, <5>1 DEF Over, Active
      <4> QED
        BY <2>3, <4>1, <4>2
    <3> HIDE DEF n
    <3>6. p[1] = r /\ p[2] = n
      OBVIOUS
    <3> HIDE DEF p
    <3>7. p \in Spent(insert', docs', g, s[2]) /\ p \notin Spent(insert, docs, g, s[2])
      BY <2>4, <3>2, <3>4, <3>5, <3>6 DEF Spent
    <3> QED
      BY <3>1, <3>7
  <2>10. Bounded'
    <3>1. \A g \in Games : \A k : Spent(insert, docs, g, k) \subseteq Spent(insert', docs', g, k)
      BY <2>8, SpentGrows
    <3>2. ASSUME NEW t \in DOMAIN docs', NEW g \in Games
          PROVE  \/ \E u \in DOMAIN docs : u[2] = t[2] /\ docs'[t].count[g] <= docs[u].count[g]
                 \/ /\ t \in DOMAIN docs /\ docs'[t].count[g] = docs[t].count[g] + 1
                    /\ Spent(insert, docs, g, t[2]) # Spent(insert', docs', g, t[2])
      <4>1. t \in DOMAIN docs /\ docs[t].count[g] \in Nat
        BY <1>1, <2>2, SnapshotShape, DocShape
      <4>2. CASE docs'[t].count[g] = docs[t].count[g]
        BY <4>1, <4>2
      <4>3. CASE docs'[t].count[g] # docs[t].count[g]
        <5>1. t = s
          BY <2>2, <4>1, <4>3
        <5>2. m.count[g] # docs[s].count[g]
          BY <2>2, <4>3, <5>1
        <5> QED
          BY <2>2, <2>9, <4>1, <5>1, <5>2
      <4> QED
        BY <4>2, <4>3
    <3> QED
      BY <1>3, <3>1, <3>2, BoundKeeps DEF CountInv
  <2>11. ASSUME NEW q \in Requests
         PROVE  /\ insert'[q].games \subseteq Collected(q)
                /\ Exact(insert'[q], docs') /\ OneOfARank(insert'[q])
    <3>1. CASE q = r
      BY <2>4, <2>6, <3>1
    <3>2. CASE q # r
      BY <1>1, <1>3, <2>4, <2>5, <3>2, GrowthKeepsExact DEF CountInv
    <3> QED
      BY <3>1, <3>2
  <2> QED
    BY <1>3, <2>10, <2>11 DEF CountInv
<1> QED
  BY <1>4, <1>5

\* A step of a tick or a patch: the calls stay, and a new document is blank, or a copy
\* of what one of its rank had.
LEMMA ServerCounts ==
    ASSUME StoreInv, StoreInv', CountInv, insert' = insert,
           \/ docs' = docs
           \/ \E t \in Slots \ DOMAIN docs, count \in [Games -> Nat] :
                /\ Add(t, count)
                /\ \/ \A g \in Games : count[g] = 0
                   \/ \E s \in DOMAIN docs :
                        s[2] = t[2] /\ \A g \in Games : count[g] <= docs[s].count[g],
           tick'.phase \in {"idle", "picks"} => tick'.copies = Nothing
    PROVE  CountInv'
<1>1. docs \in Snapshots /\ \A s \in DOMAIN docs, g \in Games : docs[s].count[g] <= docs[s].count[g]
  BY SnapshotShape, DocShape DEF StoreInv
<1>2. CASE docs' = docs
  BY <1>1, <1>2, NothingGrows, CountStep
<1>3. ASSUME NEW t \in Slots \ DOMAIN docs, NEW count \in [Games -> Nat], Add(t, count),
             \/ \A g \in Games : count[g] = 0
             \/ \E s \in DOMAIN docs :
                  s[2] = t[2] /\ \A g \in Games : count[g] <= docs[s].count[g]
      PROVE  CountInv'
  <2>1. /\ DOMAIN docs' = DOMAIN docs \cup {t} /\ docs'[t].count = count
        /\ \A s \in DOMAIN docs : docs'[s] = docs[s]
        /\ Grows(docs, docs')
    <3>1. t \in Slots /\ t \notin DOMAIN docs /\ Add(t, count)
      BY <1>3
    <3>2. /\ DOMAIN docs' = DOMAIN docs \cup {t}
          /\ docs'[t] = [count |-> count, rev |-> 0]
          /\ \A s \in DOMAIN docs : docs'[s] = docs[s]
          /\ Grows(docs, docs')
      BY <1>1, <3>1, AddGrows
    <3> QED
      BY <3>2
  <2>2. \A s \in DOMAIN docs', g \in Games :
          \/ docs'[s].count[g] = 0
          \/ \E u \in DOMAIN docs : u[2] = s[2] /\ docs'[s].count[g] <= docs[u].count[g]
    BY <1>1, <1>3, <2>1
  <2> QED
    BY <2>1, <2>2, CountStep
<1> QED
  BY <1>2, <1>3

LEMMA TickCounts ==
    ASSUME StoreInv, StoreInv', CountInv, Tick \/ TickStep
    PROVE  CountInv'
<1>1. CASE Tick \/ TickFails
  BY <1>1, ServerCounts DEF Tick, TickFails, NoTick, CountInv, StoreInv, TickOK, Ticks
<1>2. CASE TickRead
  <2>1. tick'.phase \in {"idle", "picks"} => tick'.copies = Nothing
    <3>1. CASE tick' = [tick EXCEPT !.phase = "wins", !.copies = Find(Before, PickDocs)]
      BY <3>1 DEF StoreInv, TickOK, Ticks
    <3>2. CASE tick' = NoTick \/ tick'.phase = "save"
      BY <3>2 DEF NoTick
    <3>3. TickRead => tick' = [tick EXCEPT !.phase = "wins", !.copies = Find(Before, PickDocs)]
                      \/ tick' = NoTick \/ tick'.phase = "save"
      BY DEF TickRead
    <3> QED
      BY <1>2, <3>1, <3>2, <3>3
  <2> QED
    BY <1>2, <2>1, ServerCounts DEF TickRead
<1>3. CASE TickSave
  <2> DEFINE s == First(tick.left)
             t == <<Now, s[2]>>
             count == tick.copies[s].count
  <2>1. /\ tick.phase = "save" /\ insert' = insert
        /\ \/ docs' = docs /\ tick' = NoTick
           \/ /\ t \notin DOMAIN docs /\ Add(t, count)
              /\ tick' = NoTick \/ tick' = [tick EXCEPT !.left = tick.left \ {s}]
    BY <1>3 DEF TickSave
  <2>2. tick \in Ticks
    BY DEF StoreInv, TickOK
  <2>3. tick'.phase \in {"idle", "picks"} => tick'.copies = Nothing
    BY <2>1, <2>2 DEF NoTick, Ticks
  <2>4. t \in Slots /\ s \in DOMAIN tick.copies /\ tick.copies[s] \in Doc
    BY <2>1, TickSaveFinds
  <2>5. s \in DOMAIN docs /\ \A g \in Games : count[g] <= docs[s].count[g]
    BY <2>4 DEF StoreInv, TickOK, Copied, Within
  <2>6. count \in [Games -> Nat] /\ t[2] = s[2]
    BY <2>4, DocShape
  <2> HIDE DEF s, t, count
  <2> QED
    BY <2>1, <2>3, <2>4, <2>5, <2>6, ServerCounts
<1> QED
  BY <1>1, <1>2, <1>3 DEF TickStep

LEMMA PatchCounts ==
    ASSUME StoreInv, StoreInv', CountInv, NEW o \in Operators,
           PatchStep(o) \/ \E v \in Versions : UpdatePatchVersion(o, v)
    PROVE  CountInv'
<1>1. insert' = insert /\ tick' = tick
  BY DEF PatchStep, SetPatchVersion, LookForVersion, Generate, SaveBlank, PatchFails,
     UpdatePatchVersion
<1>2. CASE ~SaveBlank(o)
  <2>1. docs' = docs
    BY <1>2 DEF PatchStep, SetPatchVersion, LookForVersion, Generate, PatchFails,
       UpdatePatchVersion
  <2> QED
    BY <1>1, <2>1, ServerCounts DEF CountInv
<1>3. CASE SaveBlank(o)
  <2> DEFINE s == First(patch[o].left)
             zeros == [g \in Games |-> 0]
  <2>1. /\ patch[o].phase = "save"
        /\ docs' = docs \/ (s \notin DOMAIN docs /\ Add(s, zeros))
    BY <1>3 DEF SaveBlank
  <2>2. s \in Slots
    BY <2>1, SaveBlankFinds
  <2>3. zeros \in [Games -> Nat] /\ \A g \in Games : zeros[g] = 0
    OBVIOUS
  <2> HIDE DEF s, zeros
  <2> QED
    BY <1>1, <2>1, <2>2, <2>3, ServerCounts DEF CountInv
<1> QED
  BY <1>2, <1>3

LEMMA RestartCounts ==
    ASSUME StoreInv, StoreInv', CountInv, Restart
    PROVE  CountInv'
<1>1. /\ docs' = docs /\ tick'.copies = Nothing
      /\ \A r \in Requests : insert'[r] = insert[r] \/ insert'[r] = Asleep("error")
  BY DEF Restart, NoTick
<1>2. \A s \in DOMAIN docs, g \in Games : docs[s].count[g] <= docs[s].count[g]
  BY SnapshotShape, DocShape DEF StoreInv
<1>3. \A r \in Requests :
        \/ insert'[r] = insert[r]
        \/ /\ insert'[r].games \subseteq Collected(r)
           /\ Exact(insert'[r], docs') /\ OneOfARank(insert'[r])
           /\ \A g \in Games : \A k : \A n \in Nat :
                Over(insert[r], docs, g, k, n) => Over(insert'[r], docs', g, k, n)
  BY <1>1, EndedCounts
<1> QED
  BY <1>1, <1>2, <1>3, NothingGrows, CountStep

LEMMA PipelineKeepsCounts ==
    ASSUME StoreInv, CountInv, [PipelineNext]_pipeline
    PROVE  CountInv'
<1>1. StoreInv'
  BY PipelineKeepsStore
<1>2. CASE UNCHANGED vars
  BY <1>2 DEF vars, CountInv, Bounded
<1>3. CASE ServerStep
  <2>1. ASSUME NEW r \in Requests, InsertStep(r)
        PROVE  CountInv'
    BY <2>1, ReadPicksCounts, ReadWinsCounts, CountGamesCounts, SaveCounts, InsertFailsCounts
       DEF InsertStep
  <2> QED
    BY <1>1, <1>3, <2>1, TickCounts, PatchCounts, RestartCounts DEF ServerStep
<1>4. ASSUME NEW r \in Requests, Insert(r, Collected(r))
      PROVE  CountInv'
  BY <1>4, InsertCounts
<1>5. \/ UNCHANGED vars \/ ServerStep
      \/ \E r \in Requests : Insert(r, Collected(r))
  BY DEF PipelineNext, pipeline, Forward, Post
<1> QED
  BY <1>2, <1>3, <1>4, <1>5

LEMMA CountInit == PipelineInit => CountInv
<1> SUFFICES ASSUME PipelineInit PROVE CountInv
  OBVIOUS
<1>1. /\ DOMAIN docs = {} /\ tick.copies = Nothing
      /\ \A r \in Requests : insert[r] = Asleep("idle")
  BY NothingIsSnapshot DEF PipelineInit, Init, NoTick
<1> QED
  BY <1>1, EndedCounts DEF CountInv, Bounded

\* A document's count of a game is never more than the attempts that have spent theirs,
\* and every copy that can still be saved is exact.
THEOREM CountInvariance == PipelineSpec => []CountInv
<1>1. StoreInv /\ CountInv /\ [PipelineNext]_pipeline => CountInv'
  BY PipelineKeepsCounts
<1> QED
  BY <1>1, CountInit, StoreInvariance, PTL DEF PipelineSpec

----------------------------------------------------------------------------
(* The store implements the ledger *)

\* What documents have counted, and what a tick has taken and not yet copied.
Tally(d) == [s \in DOMAIN d |-> d[s].count]
LeftOf(t) == IF t.phase = "save" THEN t.left ELSE DOMAIN t.copies
Carried(t) == [s \in LeftOf(t) |-> t.copies[s].count]

LEMMA DropIsDrop ==
    ASSUME docs' = docs, tick' = NoTick
    PROVE  Ledger!Next
<1>1. Carried(tick') = Ledger!Nothing
  BY NothingIsSnapshot DEF Carried, LeftOf, NoTick, Nothing, Ledger!Nothing
<1>2. Ledger!Drop
  BY <1>1 DEF Ledger!Drop, Carried, LeftOf, Uncopied
<1> QED
  BY <1>2 DEF Ledger!Next

LEMMA TallyUnchanged ==
    ASSUME docs' = docs, Carried(tick') = Carried(tick)
    PROVE  UNCHANGED Ledger!vars
BY DEF Ledger!vars, Carried, LeftOf, Uncopied

\* A save counts, once, the games of the copy that the document has not.
LEMMA SaveIsCount ==
    ASSUME StoreInv, StoreInv', CountInv, CountInv', NEW r \in Requests, Save(r), docs' # docs
    PROVE  Ledger!Next
<1> DEFINE s == First(insert[r].left)
           m == insert[r].mine[s]
<1>1. /\ insert[r].phase = "save" /\ tick' = tick /\ docs[s].rev = m.rev
      /\ docs' = [docs EXCEPT ![s] = [count |-> m.count, rev |-> docs[s].rev + 1]]
  BY DEF Save
<1>2. /\ s \in DOMAIN insert[r].mine /\ s \in DOMAIN docs /\ m \in Doc
      /\ docs \in Snapshots /\ Exact(insert[r], docs)
  BY <1>1, SaveFinds DEF StoreInv, CountInv
<1>3. s \in Slots /\ docs[s] \in Doc
  BY <1>2, SnapshotShape
<1>4. /\ DOMAIN docs' = DOMAIN docs /\ docs'[s].count = m.count
      /\ \A t \in DOMAIN docs : t # s => docs'[t] = docs[t]
  BY <1>1, <1>2, SnapshotShape
<1>5. PICK gs \in SUBSET Games : gs = {g \in Games : m.count[g] = docs[s].count[g] + 1}
  OBVIOUS
<1>6. \A g \in Games : m.count[g] = docs[s].count[g] + (IF g \in gs THEN 1 ELSE 0)
  <2> SUFFICES ASSUME NEW g \in Games
               PROVE  m.count[g] = docs[s].count[g] + (IF g \in gs THEN 1 ELSE 0)
    OBVIOUS
  <2>1. docs[s].count[g] \in Nat
    BY <1>3, DocShape
  <2>2. m.count[g] = docs[s].count[g] \/ m.count[g] = docs[s].count[g] + 1
    BY <1>1, <1>2 DEF Exact
  <2> QED
    BY <1>5, <2>1, <2>2
<1>7. m.count = [g \in Games |-> docs[s].count[g] + (IF g \in gs THEN 1 ELSE 0)]
  <2>1. m.count \in [Games -> Nat]
    BY <1>2, DocShape
  <2> QED
    BY <1>6, <2>1
<1>8. \A g \in gs : docs[s].count[g] < LimitOf(g)
  <2> SUFFICES ASSUME NEW g \in gs PROVE docs[s].count[g] < LimitOf(g)
    OBVIOUS
  <2>1. docs'[s].count[g] <= Cardinality(Spent(insert', docs', g, s[2]))
    BY <1>2, <1>4 DEF CountInv, Bounded
  <2>2. /\ Cardinality(Spent(insert', docs', g, s[2])) <= LimitOf(g)
        /\ Cardinality(Spent(insert', docs', g, s[2])) \in Nat /\ LimitOf(g) \in Nat
    BY SpentIsFinite
  <2>3. docs'[s].count[g] = docs[s].count[g] + 1 /\ docs[s].count[g] \in Nat
    BY <1>3, <1>4, <1>5, DocShape
  <2> QED
    BY <2>1, <2>2, <2>3
<1>9. Tally(docs') = [Tally(docs) EXCEPT ![s] =
                        [g \in Games |-> Tally(docs)[s][g] + (IF g \in gs THEN 1 ELSE 0)]]
  BY <1>2, <1>4, <1>7 DEF Tally
<1>10. Ledger!Count(s, gs)
  <2>1. s \in DOMAIN Tally(docs) /\ Tally(docs)[s] = docs[s].count
    BY <1>2 DEF Tally
  <2>2. \A g \in gs : Tally(docs)[s][g] < [g_1 \in Games |-> LimitOf(g_1)][g]
    BY <1>8, <2>1
  <2> QED
    BY <1>1, <1>9, <2>1, <2>2 DEF Ledger!Count, Tally, Uncopied
<1>11. s \in Ledger!Slots
  BY <1>3 DEF Slots, Docs, Ledger!Slots
<1> QED
  BY <1>10, <1>11 DEF Ledger!Next

\* A blank document opens an account.
LEMMA BlankIsOpen ==
    ASSUME StoreInv, NEW o \in Operators, SaveBlank(o), docs' # docs
    PROVE  Ledger!Next
<1> DEFINE zeros == [g \in Games |-> 0]
<1>0. PICK s \in Slots : s = First(patch[o].left)
  BY SaveBlankFinds DEF SaveBlank
<1>1. tick' = tick /\ s \notin DOMAIN docs /\ Add(s, zeros)
  BY <1>0 DEF SaveBlank
<1>2. docs \in Snapshots /\ zeros \in [Games -> Nat]
  BY DEF StoreInv
<1>3. /\ DOMAIN docs' = DOMAIN docs \cup {s} /\ docs'[s] = [count |-> zeros, rev |-> 0]
      /\ \A t \in DOMAIN docs : docs'[t] = docs[t]
  BY <1>1, <1>2, AddGrows
<1>4. Tally(docs') = [t \in DOMAIN Tally(docs) \cup {s} |->
                        IF t = s THEN zeros ELSE Tally(docs)[t]]
  BY <1>3 DEF Tally
<1>5. Ledger!Open(s)
  BY <1>1, <1>4 DEF Ledger!Open, Tally, Uncopied
<1>6. s \in Ledger!Slots
  BY DEF Slots, Docs, Ledger!Slots
<1> QED
  BY <1>5, <1>6 DEF Ledger!Next

\* A copy opens an account with the whole of what the tick has taken of another.
LEMMA TickSaveIsCopy ==
    ASSUME StoreInv, TickSave
    PROVE  Ledger!Next
<1>1. PICK s \in Slots : s = First(tick.left)
  BY TickSaveFinds, SnapshotShape DEF StoreInv, TickSave
<1>2. PICK t \in Slots : t = <<Now, s[2]>>
  BY <1>1, TickSaveFinds DEF TickSave
<1>3. CASE t \in DOMAIN docs
  BY <1>1, <1>2, <1>3, DropIsDrop DEF TickSave
<1>4. CASE t \notin DOMAIN docs
  <2> DEFINE count == tick.copies[s].count
  <2>1. /\ tick.phase = "save" /\ Add(t, count)
        /\ tick' = IF tick.left = {s} THEN NoTick ELSE [tick EXCEPT !.left = tick.left \ {s}]
    BY <1>1, <1>2, <1>4 DEF TickSave
  <2>2. /\ s \in tick.left /\ s \in DOMAIN tick.copies /\ s \in DOMAIN docs
        /\ tick.copies[s] \in Doc /\ t \in Slots /\ docs \in Snapshots /\ tick \in Ticks
    BY <1>1, <2>1, TickSaveFinds DEF StoreInv, TickOK
  <2>3. count \in [Games -> Nat] /\ t[2] = s[2] /\ s \in Slots
    BY <1>2, <2>2, DocShape
  <2>4. /\ DOMAIN docs' = DOMAIN docs \cup {t} /\ docs'[t] = [count |-> count, rev |-> 0]
        /\ \A u \in DOMAIN docs : docs'[u] = docs[u]
    BY <1>4, <2>1, <2>2, <2>3, AddGrows
  <2>5. Carried(tick') = [u \in tick.left \ {s} |-> tick.copies[u].count]
    <3>1. CASE tick.left = {s}
      <4>1. LeftOf(tick') = {} /\ tick.left \ {s} = {}
        BY <2>1, <3>1, NothingIsSnapshot DEF LeftOf, NoTick
      <4> QED
        BY <4>1 DEF Carried
    <3>2. CASE tick.left # {s}
      <4>1. LeftOf(tick') = tick.left \ {s} /\ tick'.copies = tick.copies
        BY <2>1, <2>2, <3>2 DEF LeftOf, Ticks
      <4> QED
        BY <4>1 DEF Carried
    <3> QED
      BY <3>1, <3>2
  <2>6. /\ DOMAIN Carried(tick) = tick.left /\ Carried(tick)[s] = count
        /\ \A u \in tick.left : Carried(tick)[u] = tick.copies[u].count
    BY <2>1, <2>2 DEF Carried, LeftOf
  <2>7. Carried(tick') = [u \in DOMAIN Carried(tick) \ {s} |-> Carried(tick)[u]]
    BY <2>5, <2>6
  <2>8. Tally(docs') = [u \in DOMAIN Tally(docs) \cup {t} |->
                          IF u = t THEN Carried(tick)[s] ELSE Tally(docs)[u]]
    BY <1>4, <2>4, <2>6 DEF Tally
  <2>9. Ledger!Copy(s, t)
    <3>1. s \in DOMAIN Carried(tick) /\ t \notin DOMAIN Tally(docs)
      BY <1>4, <2>2, <2>6 DEF Tally
    <3> QED
      BY <2>3, <2>7, <2>8, <3>1 DEF Ledger!Copy, Tally, Carried, LeftOf, Uncopied
  <2>10. s \in Ledger!Slots /\ t \in Ledger!Slots
    BY DEF Slots, Docs, Ledger!Slots
  <2> QED
    BY <2>9, <2>10 DEF Ledger!Next
<1> QED
  BY <1>3, <1>4

\* A tick that has found documents under a key takes them all.
LEMMA FoundIsRead ==
    ASSUME StoreInv, NEW ds \in {PickDocs, WinDocs}, docs' = docs,
           LeftOf(tick') = LeftOf(tick) \cup DOMAIN Find(Before, ds),
           \A s \in LeftOf(tick') :
               tick'.copies[s] = IF s \in LeftOf(tick) THEN tick.copies[s] ELSE docs[s]
    PROVE  Ledger!Next \/ UNCHANGED Ledger!vars
<1>1. DOMAIN Find(Before, ds) = DOMAIN docs \cap ({Before} \X ds) /\ DOMAIN docs \subseteq Slots
  BY SnapshotShape DEF Find, StoreInv
<1>2. CASE Before \notin Keys
  <2>1. DOMAIN Find(Before, ds) = {}
    BY <1>1, <1>2 DEF Slots
  <2>2. Carried(tick') = Carried(tick)
    BY <2>1 DEF Carried
  <2> QED
    BY <2>2, TallyUnchanged
<1>3. CASE Before \in Keys
  <2>1. DOMAIN Carried(tick) = LeftOf(tick) /\ DOMAIN Tally(docs) = DOMAIN docs
    BY DEF Carried, Tally
  <2>2. Carried(tick') =
          [s \in DOMAIN Carried(tick) \cup (DOMAIN Tally(docs) \cap ({Before} \X ds)) |->
             IF s \in DOMAIN Carried(tick) THEN Carried(tick)[s] ELSE Tally(docs)[s]]
    BY <1>1, <2>1 DEF Carried, Tally
  <2>3. Ledger!Read(Before, ds)
    BY <2>2 DEF Ledger!Read, Carried, LeftOf, Tally, Uncopied
  <2> QED
    BY <1>3, <2>3 DEF Ledger!Next
<1> QED
  BY <1>2, <1>3

LEMMA TickReadIsRead ==
    ASSUME StoreInv, CountInv, TickRead
    PROVE  Ledger!Next \/ UNCHANGED Ledger!vars
<1>1. docs' = docs /\ docs \in Snapshots /\ tick \in Ticks
  BY DEF TickRead, StoreInv, TickOK
<1>2. CASE tick.phase = "picks"
  <2> DEFINE found == Find(Before, PickDocs)
  <2>1. tick' = [tick EXCEPT !.phase = "wins", !.copies = found]
    BY <1>2 DEF TickRead
  <2>2. tick'.phase = "wins" /\ tick'.copies = found
    BY <1>1, <2>1 DEF Ticks
  <2>3. LeftOf(tick) = {}
    BY <1>2, NothingIsSnapshot DEF LeftOf, CountInv
  <2>4. LeftOf(tick') = DOMAIN found
    BY <2>2 DEF LeftOf
  <2>5. \A s \in DOMAIN found : found[s] = docs[s]
    BY <1>1, FindIsSnapshot
  <2> HIDE DEF found
  <2> QED
    BY <1>1, <2>2, <2>3, <2>4, <2>5, FoundIsRead DEF found
<1>3. CASE tick.phase = "wins"
  <2> DEFINE found == Find(Before, WinDocs)
             both == Merge(tick.copies, found)
  <2>1. tick' = IF both = Nothing THEN NoTick
                ELSE [phase |-> "save", copies |-> both, left |-> DOMAIN both]
    BY <1>3 DEF TickRead
  <2>2. /\ found \in Snapshots /\ tick.copies \in Snapshots
        /\ \A s \in DOMAIN found : found[s] = docs[s]
    BY <1>1, FindIsSnapshot DEF Ticks
  <2>3. /\ DOMAIN both = DOMAIN tick.copies \cup DOMAIN found
        /\ \A s \in DOMAIN both :
             both[s] = IF s \in DOMAIN tick.copies THEN tick.copies[s] ELSE found[s]
    <3> HIDE DEF found
    <3> QED
      BY <2>2 DEF Merge
  <2>4. LeftOf(tick) = DOMAIN tick.copies
    BY <1>3 DEF LeftOf
  <2> HIDE DEF both, found
  <2>5. CASE both = Nothing
    BY <1>1, <2>1, <2>5, DropIsDrop
  <2>6. CASE both # Nothing
    <3>1. LeftOf(tick') = DOMAIN both /\ tick'.copies = both
      BY <2>1, <2>6 DEF LeftOf
    <3> QED
      BY <1>1, <2>2, <2>3, <2>4, <3>1, FoundIsRead DEF found
  <2> QED
    BY <2>5, <2>6
<1> QED
  BY <1>2, <1>3 DEF TickRead

\* Every step of the pipeline is a step of the ledger or leaves it alone.
LEMMA StepsImplementLedger ==
    ASSUME StoreInv, StoreInv', CountInv, CountInv', [PipelineNext]_pipeline
    PROVE  Ledger!Next \/ UNCHANGED Ledger!vars
<1>1. ASSUME UNCHANGED <<docs, tick>>
      PROVE  UNCHANGED Ledger!vars
  BY <1>1, TallyUnchanged
<1>2. ASSUME NEW r \in Requests, InsertStep(r)
      PROVE  Ledger!Next \/ UNCHANGED Ledger!vars
  <2>1. tick' = tick
    BY <1>2 DEF InsertStep, ReadPicks, ReadWins, CountGames, Save, InsertFails
  <2>2. docs' = docs \/ Save(r)
    BY <1>2 DEF InsertStep, ReadPicks, ReadWins, CountGames, InsertFails
  <2>3. CASE docs' = docs
    BY <1>1, <2>1, <2>3
  <2>4. CASE docs' # docs
    BY <2>2, <2>4, SaveIsCount
  <2> QED
    BY <2>3, <2>4
<1>3. ASSUME NEW o \in Operators, PatchStep(o) \/ \E v \in Versions : UpdatePatchVersion(o, v)
      PROVE  Ledger!Next \/ UNCHANGED Ledger!vars
  <2>1. tick' = tick
    BY <1>3 DEF PatchStep, SetPatchVersion, LookForVersion, Generate, SaveBlank, PatchFails,
       UpdatePatchVersion
  <2>2. docs' = docs \/ SaveBlank(o)
    BY <1>3 DEF PatchStep, SetPatchVersion, LookForVersion, Generate, PatchFails,
       UpdatePatchVersion
  <2>3. CASE docs' = docs
    BY <1>1, <2>1, <2>3
  <2>4. CASE docs' # docs
    BY <2>2, <2>4, BlankIsOpen
  <2> QED
    BY <2>3, <2>4
<1>4. ASSUME Tick
      PROVE  UNCHANGED Ledger!vars
  <2>1. /\ tick.phase = "idle" /\ docs' = docs
        /\ tick \in Ticks /\ tick' = [tick EXCEPT !.phase = "picks"]
    BY <1>4 DEF Tick, StoreInv, TickOK
  <2>2. tick'.copies = tick.copies /\ LeftOf(tick') = LeftOf(tick)
    BY <2>1 DEF Ticks, LeftOf
  <2> QED
    BY <2>1, <2>2, TallyUnchanged DEF Carried
<1>5. TickFails \/ Restart => Ledger!Next
  BY DropIsDrop DEF TickFails, Restart
<1>6. CASE ServerStep
  BY <1>2, <1>3, <1>4, <1>5, <1>6, TickReadIsRead, TickSaveIsCopy DEF ServerStep, TickStep
<1>7. CASE ~ServerStep
  <2>1. UNCHANGED <<docs, tick>>
    BY <1>7 DEF PipelineNext, Forward, Post, Insert, pipeline, vars
  <2> QED
    BY <1>1, <2>1
<1> QED
  BY <1>6, <1>7

\* The statistics are a ledger, whatever interleaves, fails, is retried or dies: no
\* save takes a game out of a document, a tick copies what it has read whole or not at
\* all, and no game is counted in a document more often than the attempts of the
\* requests that brought it could, once each unless its indexes are ids of cards.
THEOREM PipelineImplementsLedger == PipelineSpec => ImplementsLedger
<1>1. PipelineInit => Ledger!Init
  <2> SUFFICES ASSUME PipelineInit PROVE Ledger!Init
    OBVIOUS
  <2>1. DOMAIN docs = {} /\ LeftOf(tick) = {}
    BY NothingIsSnapshot DEF PipelineInit, Init, NoTick, LeftOf
  <2> QED
    BY <2>1 DEF Ledger!Init, Ledger!Nothing, Uncopied, LeftOf
<1>2. StoreInv /\ StoreInv' /\ CountInv /\ CountInv' /\ [PipelineNext]_pipeline
        => [Ledger!Next]_Ledger!vars
  BY StepsImplementLedger
<1> QED
  BY <1>1, <1>2, StoreInvariance, CountInvariance, PTL
     DEF PipelineSpec, ImplementsLedger, Ledger!Spec

----------------------------------------------------------------------------
(* What a tick has copied is there *)

CopyOf(c, d, s) == \E t \in DOMAIN d \ DOMAIN c : t[2] = s[2] /\ Within(c[s], d[t])

\* The copies that a tick has already saved are documents, and not those it read.
CopyInv ==
    tick.phase = "save" =>
        \A s \in DOMAIN tick.copies \ tick.left : CopyOf(tick.copies, docs, s)

LEMMA GrowthKeepsCopiesOf ==
    ASSUME NEW d \in Snapshots, NEW e \in Snapshots, Grows(d, e),
           NEW c \in Snapshots, NEW s \in DOMAIN c, CopyOf(c, d, s)
    PROVE  CopyOf(c, e, s)
<1>1. PICK t \in DOMAIN d \ DOMAIN c : t[2] = s[2] /\ Within(c[s], d[t])
  BY DEF CopyOf
<1>2. t \in DOMAIN e /\ (e[t] = d[t] \/ Within(d[t], e[t]))
  BY DEF Grows
<1>3. \A g \in Games : c[s].count[g] \in Nat /\ d[t].count[g] \in Nat /\ e[t].count[g] \in Nat
  BY <1>2, SnapshotShape, DocShape
<1>4. Within(c[s], e[t])
  <2> SUFFICES ASSUME NEW g \in Games PROVE c[s].count[g] <= e[t].count[g]
    BY DEF Within
  <2>1. c[s].count[g] <= d[t].count[g]
    BY <1>1 DEF Within
  <2>2. CASE e[t] = d[t]
    BY <2>1, <2>2
  <2>3. CASE Within(d[t], e[t])
    <3>1. d[t].count[g] <= e[t].count[g]
      BY <2>3 DEF Within
    <3> QED
      BY <1>3, <2>1, <3>1
  <2> QED
    BY <1>2, <2>2, <2>3
<1> QED
  BY <1>1, <1>2, <1>4 DEF CopyOf

\* What a tick's save of the copy of s makes of the documents.
LEMMA TickSaveCopies ==
    ASSUME StoreInv, CopyInv, TickSave, docs' # docs
    PROVE  /\ \A s \in DOMAIN tick.copies : (s \notin tick.left \/ s = First(tick.left))
                => CopyOf(tick.copies, docs', s)
           /\ tick' = IF tick.left = {First(tick.left)} THEN NoTick
                      ELSE [tick EXCEPT !.left = tick.left \ {First(tick.left)}]
<1>1. PICK s \in Slots : s = First(tick.left)
  BY TickSaveFinds, SnapshotShape DEF StoreInv, TickSave
<1>2. PICK t \in Slots : t = <<Now, s[2]>>
  BY <1>1, TickSaveFinds DEF TickSave
<1> DEFINE count == tick.copies[s].count
<1>3. /\ tick.phase = "save" /\ t \notin DOMAIN docs /\ Add(t, count)
      /\ tick' = IF tick.left = {s} THEN NoTick ELSE [tick EXCEPT !.left = tick.left \ {s}]
  BY <1>1, <1>2 DEF TickSave
<1>4. /\ s \in tick.left /\ tick.copies[s] \in Doc /\ docs \in Snapshots
      /\ tick.copies \in Snapshots /\ DOMAIN tick.copies \subseteq DOMAIN docs
  BY <1>1, <1>3, TickSaveFinds DEF StoreInv, TickOK, Ticks, Copied
<1>5. count \in [Games -> Nat]
  BY <1>4, DocShape
<1>6. /\ docs' \in Snapshots /\ Grows(docs, docs')
      /\ t \in DOMAIN docs' /\ docs'[t] = [count |-> count, rev |-> 0]
  BY <1>3, <1>4, <1>5, AddGrows
<1>7. CopyOf(tick.copies, docs', s)
  <2>1. Within(tick.copies[s], docs'[t])
    BY <1>5, <1>6 DEF Within
  <2>2. t[2] = s[2] /\ t \in DOMAIN docs' \ DOMAIN tick.copies
    BY <1>2, <1>3, <1>4, <1>6
  <2> QED
    BY <2>1, <2>2 DEF CopyOf
<1>8. \A u \in DOMAIN tick.copies \ tick.left : CopyOf(tick.copies, docs', u)
  BY <1>3, <1>4, <1>6, GrowthKeepsCopiesOf DEF CopyInv
<1> QED
  BY <1>1, <1>3, <1>7, <1>8

\* How a tick comes to save, and goes on.
LEMMA TickMoves ==
    ASSUME StoreInv, [PipelineNext]_pipeline
    PROVE  \/ tick' = tick
           \/ docs' = docs /\ tick'.phase # "save"
           \/ docs' = docs /\ tick'.left = DOMAIN tick'.copies
           \/ TickSave /\ docs' # docs
<1>1. CASE ServerStep
  <2>1. ASSUME NEW r \in Requests, InsertStep(r)
        PROVE  tick' = tick
    BY <2>1 DEF InsertStep, ReadPicks, ReadWins, CountGames, Save, InsertFails
  <2>2. ASSUME NEW o \in Operators,
               PatchStep(o) \/ \E v \in Versions : UpdatePatchVersion(o, v)
        PROVE  tick' = tick
    BY <2>2 DEF PatchStep, SetPatchVersion, LookForVersion, Generate, SaveBlank, PatchFails,
       UpdatePatchVersion
  <2>3. Tick \/ TickFails \/ Restart => docs' = docs /\ tick'.phase # "save"
    BY DEF Tick, TickFails, Restart, NoTick, StoreInv, TickOK, Ticks
  <2>4. ASSUME TickRead
        PROVE  docs' = docs /\ (tick'.phase # "save" \/ tick'.left = DOMAIN tick'.copies)
    <3>1. tick \in Ticks /\ docs' = docs
      BY <2>4 DEF TickRead, StoreInv, TickOK
    <3>2. CASE tick.phase = "picks"
      BY <2>4, <3>1, <3>2 DEF TickRead, Ticks
    <3>3. CASE tick.phase = "wins"
      <4> DEFINE both == Merge(tick.copies, Find(Before, WinDocs))
      <4>1. tick' = IF both = Nothing THEN NoTick
                    ELSE [phase |-> "save", copies |-> both, left |-> DOMAIN both]
        BY <2>4, <3>3 DEF TickRead
      <4> HIDE DEF both
      <4> QED
        BY <3>1, <4>1 DEF NoTick
    <3> QED
      BY <2>4, <3>2, <3>3 DEF TickRead
  <2>5. TickSave /\ docs' = docs => tick'.phase # "save"
    <3> SUFFICES ASSUME TickSave, docs' = docs PROVE tick'.phase # "save"
      OBVIOUS
    <3>1. PICK s \in Slots : s = First(tick.left)
      BY TickSaveFinds, SnapshotShape DEF StoreInv, TickSave
    <3>2. PICK t \in Slots : t = <<Now, s[2]>>
      BY <3>1, TickSaveFinds DEF TickSave
    <3>3. CASE t \in DOMAIN docs
      BY <3>1, <3>2, <3>3 DEF TickSave, NoTick
    <3>4. CASE t \notin DOMAIN docs
      <4>1. Add(t, tick.copies[s].count) /\ docs \in Snapshots /\ tick.copies[s] \in Doc
        BY <3>1, <3>2, <3>4, TickSaveFinds DEF TickSave, StoreInv
      <4>2. t \in DOMAIN docs'
        BY <3>4, <4>1, AddGrows, DocShape
      <4> QED
        BY <3>4, <4>2
    <3> QED
      BY <3>3, <3>4
  <2> QED
    BY <1>1, <2>1, <2>2, <2>3, <2>4, <2>5 DEF ServerStep, TickStep
<1>2. CASE ~ServerStep
  BY <1>2 DEF PipelineNext, Forward, Post, Insert, pipeline, vars
<1> QED
  BY <1>1, <1>2

LEMMA PipelineKeepsCopies ==
    ASSUME StoreInv, CopyInv, [PipelineNext]_pipeline
    PROVE  CopyInv'
<1>1. /\ docs \in Snapshots /\ docs' \in Snapshots /\ Grows(docs, docs')
      /\ tick \in Ticks /\ tick.copies \in Snapshots
  BY PipelineKeepsStore DEF StoreInv, TickOK, Ticks
<1>2. CASE tick' = tick
  BY <1>1, <1>2, GrowthKeepsCopiesOf DEF CopyInv
<1>3. CASE tick'.phase # "save" \/ tick'.left = DOMAIN tick'.copies
  BY <1>3 DEF CopyInv
<1>4. CASE TickSave /\ docs' # docs
  <2>1. CASE tick' = NoTick
    BY <2>1 DEF CopyInv, NoTick
  <2>2. CASE tick' = [tick EXCEPT !.left = tick.left \ {First(tick.left)}]
    <3>1. tick'.copies = tick.copies /\ tick'.left = tick.left \ {First(tick.left)}
      BY <1>1, <2>2 DEF Ticks
    <3> QED
      BY <1>4, <3>1, TickSaveCopies DEF CopyInv
  <2> QED
    BY <1>4, <2>1, <2>2, TickSaveCopies
<1> QED
  BY <1>2, <1>3, <1>4, TickMoves

LEMMA LastCopyCompletes ==
    ASSUME StoreInv, CopyInv, [PipelineNext]_pipeline, LastCopyMade
    PROVE  \A s \in DOMAIN tick.copies : CopiedWith(s, tick.copies[s].count)
<1>1. /\ tick.phase = "save" /\ tick'.phase = "idle" /\ docs' # docs
      /\ tick \in Ticks /\ docs' \in Snapshots /\ tick.copies \in Snapshots
  BY PipelineKeepsStore DEF LastCopyMade, StoreInv, TickOK, Ticks
<1>2. TickSave
  BY <1>1, TickMoves
<1>3. tick.left = {First(tick.left)}
  <2>1. [tick EXCEPT !.left = tick.left \ {First(tick.left)}].phase = "save"
    BY <1>1 DEF Ticks
  <2> QED
    BY <1>1, <1>2, <2>1, TickSaveCopies
<1>4. \A s \in DOMAIN tick.copies : CopyOf(tick.copies, docs', s)
  BY <1>1, <1>2, <1>3, TickSaveCopies
<1>5. \A s \in DOMAIN tick.copies : \A t \in DOMAIN docs' : \A g \in Games :
        tick.copies[s].count[g] \in Nat /\ docs'[t].count[g] \in Nat
  BY <1>1, SnapshotShape, DocShape
<1> QED
  BY <1>4, <1>5 DEF CopyOf, CopiedWith, Within

\* A tick that ends its loops has carried over all it read, picks and wins, whatever
\* requests, patches and other failures do to the documents meanwhile.
THEOREM CarryOverCompletes == PipelineSpec => CarryOverIsComplete
<1>1. PipelineInit => CopyInv
  BY DEF PipelineInit, Init, NoTick, CopyInv
<1>2. StoreInv /\ CopyInv /\ [PipelineNext]_pipeline => CopyInv'
  BY PipelineKeepsCopies
<1>3. StoreInv /\ CopyInv /\ [PipelineNext]_pipeline
        => [LastCopyMade => \A s \in DOMAIN tick.copies :
              CopiedWith(s, tick.copies[s].count)]_vars
  BY LastCopyCompletes
<1> QED
  BY <1>1, <1>2, <1>3, StoreInvariance, PTL DEF PipelineSpec, CarryOverIsComplete

=============================================================================
