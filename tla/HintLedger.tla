----------------------------- MODULE HintLedger -----------------------------
(***************************************************************************)
(* What the indicator promises of its statistics.  Every document is a     *)
(* tally of games: it starts blank, or as the whole of another document of *)
(* its rank as a tick has read it, and a game once counted stays counted.  *)
(* A game is not counted in a document more often than it was sent.        *)
(* No requests, revisions, versions or retries.                            *)
(***************************************************************************)
EXTENDS Naturals

CONSTANTS Keys, PickDocs, WinDocs,   \* a document has a key and a rank
          Games,
          Limit                      \* how often a game may be counted in a document

VARIABLES tally,      \* how often each game is counted in each document that exists
          carried     \* the tallies a tick has read and has still to copy

vars == <<tally, carried>>

Slots == Keys \X (PickDocs \cup WinDocs)
Nothing == [s \in {} |-> {}]

Init == tally = Nothing /\ carried = Nothing

Open(s) ==
    /\ s \notin DOMAIN tally
    /\ tally' = [t \in DOMAIN tally \cup {s} |->
                    IF t = s THEN [g \in Games |-> 0] ELSE tally[t]]
    /\ UNCHANGED carried

Count(s, gs) ==
    /\ s \in DOMAIN tally
    /\ UNCHANGED carried
    /\ tally' = [tally EXCEPT ![s] = [g \in Games |-> @[g] + (IF g \in gs THEN 1 ELSE 0)]]
    /\ \A g \in gs : tally[s][g] < Limit[g]

\* A tick takes all there is of the picks, or of the wins, under a key.
Read(key, ds) ==
    /\ carried' = [s \in DOMAIN carried \cup (DOMAIN tally \cap ({key} \X ds)) |->
                      IF s \in DOMAIN carried THEN carried[s] ELSE tally[s]]
    /\ UNCHANGED tally

\* It copies what it took, whole, into a new document of the same rank.
Copy(s, t) ==
    /\ t[2] = s[2] /\ s \in DOMAIN carried /\ t \notin DOMAIN tally
    /\ tally' = [u \in DOMAIN tally \cup {t} |-> IF u = t THEN carried[s] ELSE tally[u]]
    /\ carried' = [u \in DOMAIN carried \ {s} |-> carried[u]]

\* A tick ends, at the end or before.
Drop == carried' = Nothing /\ UNCHANGED tally

Next ==
    \/ \E s \in Slots : Open(s) \/ \E gs \in SUBSET Games : Count(s, gs)
    \/ \E key \in Keys, ds \in {PickDocs, WinDocs} : Read(key, ds)
    \/ \E s, t \in Slots : Copy(s, t)
    \/ Drop

Spec == Init /\ [][Next]_vars
=============================================================================
