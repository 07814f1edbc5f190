--------------------------- MODULE MCMatrixCounts ---------------------------
(* MatrixCounts on a pool of seven cards, of which players pick two a round. *)
EXTENDS MatrixCounts

MCLogs == {<<5, 2, 6, 0, 1, 4>>}
=============================================================================
