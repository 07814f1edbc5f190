----------------------------- MODULE MCAccounts -----------------------------
(* Model values for Accounts: a name in two spellings, and one that the form   *)
(* of register refuses.                                                        *)
EXTENDS Accounts, TLC

CONSTANTS bob, Bob, amy, p1, p2, nick, longNick, default

MCLower == bob :> bob @@ Bob :> bob @@ amy :> amy
=============================================================================
