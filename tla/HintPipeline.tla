---------------------------- MODULE HintPipeline ----------------------------
(***************************************************************************)
(* How a game gets into the statistics: the mirror servers post batches of *)
(* records to the logging service, whose LogService hands each record to   *)
(* Kafka and posts the finished games of the batch to the indicator,       *)
(* HintStore.  A batch is handled by a thread of its own (@Async) and is   *)
(* not repeated when something fails.                                      *)
(***************************************************************************)
EXTENDS HintStore, Sequences, FiniteSets

CONSTANTS
    RecordsOf,       \* the records of each batch; Requests are batches, too
    Other,           \* a record of another event than gameEnd
    Malformed        \* a record without an eventType

ASSUME RecordsAssumption ==
    /\ RecordsOf \in [Requests -> Seq(Games \cup {Other, Malformed})]
    /\ {Other, Malformed} \cap Games = {}

\* The records of batch r that sb collects; the batches a game is in.
Collected(r) == {RecordsOf[r][i] : i \in 1..Len(RecordsOf[r])} \cap Games
BatchesWith(g) == {r \in Requests : g \in Collected(r)}

ASSUME BatchesAssumption == \A g \in Games : IsFiniteSet(BatchesWith(g))

VARIABLES
    log,         \* records handed to KafkaTemplate
    sent         \* how many records of each batch were handled; Ended: its thread ended

pipeline == <<vars, log, sent>>

Ended == -1

PipelineInit ==
    /\ Init
    /\ log = {}
    /\ sent = [r \in Requests |-> 0]

\* A plausible bug: only what the indicator does not get is logged.
Forward_Others(r) ==
    /\ sent[r] \in 0..(Len(RecordsOf[r]) - 1)
    /\ LET record == RecordsOf[r][sent[r] + 1]
       IN /\ log' = IF record \in Games THEN log ELSE log \cup {record}
          /\ sent' = [sent EXCEPT ![r] = IF record = Malformed THEN Ended ELSE @ + 1]
    /\ UNCHANGED vars

\* sendToKafka, which may throw, then getEventType, which throws for a record
\* without one: the thread ends and none of the batch's games is posted.
Forward(r) ==
    /\ sent[r] \in 0..(Len(RecordsOf[r]) - 1)
    /\ LET record == RecordsOf[r][sent[r] + 1]
       IN \/ /\ log' = log \cup {record}
             /\ sent' = [sent EXCEPT ![r] = IF record = Malformed THEN Ended ELSE @ + 1]
          \/ sent' = [sent EXCEPT ![r] = Ended] /\ UNCHANGED log
    /\ UNCHANGED vars

\* sendToIndicator, if there is a game; the call may fail before it arrives.
Post(r) ==
    /\ sent[r] = Len(RecordsOf[r])
    /\ sent' = [sent EXCEPT ![r] = Ended]
    /\ \/ Collected(r) # {} /\ Insert(r, Collected(r))
       \/ UNCHANGED vars
    /\ UNCHANGED log

PipelineNext ==
    \/ \E r \in Requests : Forward(r) \/ Post(r)
    \/ ServerStep /\ UNCHANGED <<log, sent>>

PipelineSpec == PipelineInit /\ [][PipelineNext]_pipeline

----------------------------------------------------------------------------

\* No game is in the statistics that the log has not been given.
CountedGamesAreLogged ==
    \A s \in DOMAIN docs, g \in Games : docs[s].count[g] > 0 => g \in log

\* Once for each batch it comes in; a game that a retry takes for another one, once
\* for each attempt.
Attempts(g) == IF g \in Ambiguous THEN 1..MaxAttempts ELSE {1}
LimitOf(g) == Cardinality(BatchesWith(g) \X Attempts(g))

\* What a tick has read, and from the loops on what it has still to save.
Uncopied == IF tick.phase = "save" THEN tick.left ELSE DOMAIN tick.copies

Ledger == INSTANCE HintLedger WITH
    tally <- [s \in DOMAIN docs |-> docs[s].count],
    carried <- [s \in Uncopied |-> tick.copies[s].count],
    Limit <- [g \in Games |-> LimitOf(g)]

\* Whatever requests, retries, ticks, patches and restarts interleave: what a document
\* has counted it keeps, a tick carries over whole what it has read, and no game is
\* counted in a document more often than it was sent.  Optimistic locking gives the
\* first; the last holds because a retry does not recognise the cards it converted.
ImplementsLedger == Ledger!Spec
=============================================================================
