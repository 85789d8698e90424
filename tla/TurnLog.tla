------------------------------ MODULE TurnLog ------------------------------
(***************************************************************************)
(* What a session promises about its transcript, without saying how: turns *)
(* are opened one at a time, only the open turn writes to the transcript,  *)
(* and a closed turn is never opened again. SessionTurn implements this    *)
(* while no message has to wait for its uploaded attachments.              *)
(***************************************************************************)
EXTENDS Naturals, Sequences

CONSTANTS
  Calls,   \* the user messages a session receives; an accepted one names its turn
  Items,   \* what a turn can write
  None     \* no turn is open

VARIABLES
  open,    \* the turn that is open, or None
  closed,  \* the turns that have ended
  log      \* the transcript: what was written, and by which turn

vars == <<open, closed, log>>

Entry == [turn : Calls, item : Items]

Init == open = None /\ closed = {} /\ log = <<>>

\* log' is log with any number of entries of turn c behind it.
GrowsBy(c) ==
  /\ log' \in Seq(Entry)
  /\ Len(log') >= Len(log)
  /\ \A i \in 1..Len(log) : log'[i] = log[i]
  /\ \A i \in (Len(log) + 1)..Len(log') : log'[i].turn = c

Open(c) ==
  /\ open = None
  /\ c \notin closed
  /\ open' = c
  /\ UNCHANGED <<closed, log>>

Write(c) ==
  /\ open = c
  /\ GrowsBy(c)
  /\ UNCHANGED <<open, closed>>

\* A turn may end with a last write: what a failed model call had produced.
Close(c) ==
  /\ open = c
  /\ GrowsBy(c)
  /\ open' = None
  /\ closed' = closed \cup {c}

Next == \E c \in Calls : Open(c) \/ Write(c) \/ Close(c)

Spec == Init /\ [][Next]_vars

(***************************************************************************)
(* The messages of a turn are contiguous: no message of another turn lies  *)
(* between two of them.                                                    *)
(***************************************************************************)
Contiguous ==
  \A i, j, k \in 1..Len(log) :
    i < j /\ j < k /\ log[i].turn = log[k].turn => log[j].turn = log[i].turn
=============================================================================
