----------------------------- MODULE RoomLobby -----------------------------
(***************************************************************************)
(* What the matching server promises a player about rooms, with no tables, *)
(* statuses, games or answers: a room is open or closed, a player who is   *)
(* nowhere opens a closed room, players enter open rooms with a seat left, *)
(* and a player leaves every room at once.  A player who leaves the only   *)
(* room they are in, as its last player, closes it.                        *)
(***************************************************************************)
CONSTANTS
    Rooms,
    Users,
    HasSeat(_)   \* whether a crew may take one more player

VARIABLES
    open,   \* the rooms that are listed
    crew    \* who is in each room

vars == <<open, crew>>

Init == open = {} /\ crew = [r \in Rooms |-> {}]

Where(u) == {r \in Rooms : u \in crew[r]}

Open(r, u) ==
    /\ r \notin open
    /\ Where(u) = {}
    /\ open' = open \cup {r}
    /\ crew' = [crew EXCEPT ![r] = {u}]

Enter(r, u) ==
    /\ r \in open
    /\ u \notin crew[r]
    /\ HasSeat(crew[r])
    /\ crew' = [crew EXCEPT ![r] = @ \cup {u}]
    /\ UNCHANGED open

\* Of the rooms u was alone in at most one is closed, and it is closed for
\* certain when u was in no other room.
Leave(u) ==
    /\ Where(u) # {}
    /\ crew' = [r \in Rooms |-> crew[r] \ {u}]
    /\ \E r \in Where(u) :
          open' = IF crew[r] = {u} THEN open \ {r} ELSE open

\* A mirror server that starts a game puts its room on the list, even when the
\* room was closed in the meantime.
Start(r) == open' = open \cup {r} /\ UNCHANGED crew

Next == \E r \in Rooms : Start(r) \/ \E u \in Users : Open(r, u) \/ Enter(r, u) \/ Leave(u)

Spec == Init /\ [][Next]_vars
=============================================================================
