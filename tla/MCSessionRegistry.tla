------------------------- MODULE MCSessionRegistry -------------------------
(* Model values for SessionRegistry. *)
EXTENDS SessionRegistry, TLC

Symmetry == Permutations(Sessions) \cup Permutations(Tokens)
            \cup Permutations(Users) \cup Permutations(Ips)
=============================================================================
