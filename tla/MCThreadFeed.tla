---------------------------- MODULE MCThreadFeed ----------------------------
(* ThreadFeed with two connections, which are interchangeable. *)
EXTENDS ThreadFeed, TLC

CONSTANTS a, b

MCConns == {a, b}
Symmetry == Permutations(MCConns)
=============================================================================
