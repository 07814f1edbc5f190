------------------------- MODULE MCGameSocketServer -------------------------
(* Model values for GameSocketServer: a pool of one connection that may grow *)
(* to two, rooms for two, and enough users to overfill one of them.          *)
EXTENDS GameSocketServer, TLC

CONSTANTS s1, u1, u2, u3

MCSessions == {s1}
MCThreeUsers == {u1, u2, u3}
MCRooms == {1, 2}
MCSizes == {2}
=============================================================================
