---------------------------- MODULE MCRoomStore ----------------------------
(* Model values for RoomStore: three users, one mirror's port among the ids, *)
(* and rooms few enough that they run out and are reused.                    *)
EXTENDS RoomStore, TLC

CONSTANTS u1, u2, u3, mirror, g1, g2

MCUsers == {u1, u2, u3}
MCCallers == MCUsers \cup {mirror}
MCGames == {g1, g2}
MCRooms == {1, 2}
MCSizes == {1, 2, 3, 9}

Symmetry == Permutations(MCUsers) \cup Permutations(MCGames)
=============================================================================
