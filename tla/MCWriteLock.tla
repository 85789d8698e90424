---------------------------- MODULE MCWriteLock ----------------------------
(* WriteLock with three writers, each in a process of its own. *)
EXTENDS WriteLock, TLC

CONSTANTS o1, o2, o3, p1, p2, p3

MCOps == {o1, o2, o3}
MCProcesses == {p1, p2, p3}
MCProcessOf == (o1 :> p1 @@ o2 :> p2 @@ o3 :> p3)
FirstOp == {o1}
LastProcess == {p3}
=============================================================================
