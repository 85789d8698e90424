----------------------------- MODULE MCResearch -----------------------------
(* Research with interchangeable calls. *)
EXTENDS Research, TLC

CONSTANTS a, b

MCCalls == {a, b}
MCStarts == {[planning |-> TRUE, files |-> FALSE], [planning |-> FALSE, files |-> TRUE]}
Symmetry == Permutations(MCCalls)
=============================================================================
