--------------------------- MODULE DurableSession ---------------------------
(***************************************************************************)
(* What the store promises about one session, without saying how: what is  *)
(* stored is a state the session has been in, the store only moves forward *)
(* until the session is deleted, and a crash loses what was not stored and *)
(* nothing else. Persistence implements this.                              *)
(***************************************************************************)
EXTENDS Naturals

VARIABLES
  memory,  \* the state of the session, counted in changes
  stored   \* the state a restart would find; 0 when it would find none

vars == <<memory, stored>>

Init == memory = 0 /\ stored = 0

Change ==
  /\ memory' = memory + 1
  /\ UNCHANGED stored

Save ==
  /\ stored' \in stored..memory
  /\ UNCHANGED memory

Delete ==
  /\ stored' = 0
  /\ UNCHANGED memory

Crash ==
  /\ memory' = stored
  /\ UNCHANGED stored

Next == Change \/ Save \/ Delete \/ Crash

Spec == Init /\ [][Next]_vars

\* The store never holds a state the session was not in.
StoredIsPast ==
  /\ memory \in Nat
  /\ stored \in Nat
  /\ stored <= memory
=============================================================================
