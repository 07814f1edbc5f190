---------------------------- MODULE MCTestClient ----------------------------
(* TestClient on a small instance; all its parameters are numbers. *)
EXTENDS TestClient
=============================================================================
