--------------------------- MODULE MCSessionTurn ---------------------------
(* SessionTurn on small instances: two messages, two steers, one prompt. *)
EXTENDS SessionTurn, TLC

CONSTANTS c1, c2, s1, s2, p1, k1, k2

MCCalls == {c1, c2}
MCSteers == {s1, s2}
MCPrompts == {p1}
Symmetry == Permutations(MCCalls)
MCCodexTurn == (c1 :> k1 @@ c2 :> k2)
OneSteer == {s1}

NoUploads == {}
OneUploadedMessage == {c1}
UploadedSteer == {s2}
UploadedMessages == {c1, c2}
UploadedSteers == {s1, s2}
=============================================================================
