-------------------------- MODULE MCMatchingServer --------------------------
(* Model values for MatchingServer: the rooms of one mirror server. *)
EXTENDS MatchingServer, TLC

CONSTANTS p1

MCRooms == {1}
MCTwoRooms == {1, 2}
MCPortOf == [r \in Rooms |-> p1]
MCSizes == {2}

Symmetry == Permutations(Sessions) \cup Permutations(Tokens) \cup Permutations(Users)
=============================================================================
