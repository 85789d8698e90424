--------------------------- MODULE TurnLogProofs ---------------------------
(* What TurnLog promises follows from its steps, for any number of turns. *)
EXTENDS TurnLog, TLAPS

TypeInv ==
  /\ log \in Seq(Entry)
  /\ closed \subseteq Calls
  /\ open \in Calls \cup {None}

\* Whoever wrote is open or closed, and what the open turn wrote is the end of
\* the transcript.
WritersKnown ==
  /\ open \notin closed
  /\ \A i \in 1..Len(log) : log[i].turn \in closed \cup {open}
  /\ \A i, j \in 1..Len(log) : i < j /\ log[i].turn = open => log[j].turn = open

LogInv == TypeInv /\ WritersKnown /\ Contiguous

(***************************************************************************)
(* A write of the open turn keeps the transcript contiguous.               *)
(***************************************************************************)
LEMMA GrowsByInv ==
  ASSUME LogInv, open \in Calls, GrowsBy(open)
  PROVE  /\ log' \in Seq(Entry)
         /\ \A i \in 1..Len(log') : log'[i].turn \in closed \cup {open}
         /\ \A i, j \in 1..Len(log') : i < j /\ log'[i].turn = open => log'[j].turn = open
         /\ Contiguous'
<1>1. log \in Seq(Entry) /\ log' \in Seq(Entry)
  BY DEF LogInv, TypeInv, GrowsBy
<1>2. \A i \in 1..Len(log') :
        \/ i \in 1..Len(log) /\ log'[i] = log[i]
        \/ i > Len(log) /\ log'[i].turn = open
  BY <1>1 DEF GrowsBy
<1>3. \A i \in 1..Len(log') : log'[i].turn \in closed \cup {open}
  BY <1>2 DEF LogInv, WritersKnown
<1>4. ASSUME NEW i \in 1..Len(log'), NEW j \in 1..Len(log'),
             i < j, log'[i].turn = open
      PROVE  log'[j].turn = open
  <2>1. CASE j > Len(log)
    BY <1>1, <1>2, <2>1
  <2>2. CASE ~(j > Len(log))
    <3>1. i \in 1..Len(log) /\ j \in 1..Len(log)
      BY <1>1, <1>4, <2>2
    <3>2. log'[i] = log[i] /\ log'[j] = log[j]
      BY <3>1 DEF GrowsBy
    <3>3. QED
      BY <1>4, <3>1, <3>2 DEF LogInv, WritersKnown
  <2>3. QED
    BY <2>1, <2>2
<1>5. ASSUME NEW i \in 1..Len(log'), NEW j \in 1..Len(log'), NEW k \in 1..Len(log'),
             i < j, j < k, log'[i].turn = log'[k].turn
      PROVE  log'[j].turn = log'[i].turn
  <2>1. CASE k > Len(log)
    <3>1. log'[i].turn = open
      BY <1>1, <1>2, <1>5, <2>1
    <3>2. QED
      BY <1>4, <1>5, <3>1
  <2>2. CASE ~(k > Len(log))
    <3>1. i \in 1..Len(log) /\ j \in 1..Len(log) /\ k \in 1..Len(log)
      BY <1>1, <1>5, <2>2
    <3>2. log'[i] = log[i] /\ log'[j] = log[j] /\ log'[k] = log[k]
      BY <3>1 DEF GrowsBy
    <3>3. QED
      BY <1>5, <3>1, <3>2 DEF LogInv, Contiguous
  <2>3. QED
    BY <2>1, <2>2
<1>6. Contiguous'
  BY <1>5 DEF Contiguous
<1>7. QED
  BY <1>1, <1>3, <1>4, <1>6

(***************************************************************************)
(* Opening, writing and closing keep the invariant.                        *)
(***************************************************************************)
LEMMA NextLogInv ==
  ASSUME None \notin Calls, LogInv, [Next]_vars
  PROVE  LogInv'
<1>1. ASSUME NEW c \in Calls, Open(c)
      PROVE  LogInv'
  <2>1. open = None /\ c \notin closed /\ open' = c /\ closed' = closed /\ log' = log
    BY <1>1 DEF Open
  <2>2. \A i \in 1..Len(log) : log[i].turn \in Calls
    <3>1. \A i \in 1..Len(log) : log[i] \in Entry
      BY DEF LogInv, TypeInv
    <3>2. QED
      BY <3>1 DEF Entry
  <2>3. \A i \in 1..Len(log) : log[i].turn \in closed
    BY <2>1, <2>2 DEF LogInv, WritersKnown
  <2>4. WritersKnown'
    BY <2>1, <2>3 DEF WritersKnown
  <2>5. TypeInv' /\ Contiguous'
    BY <2>1 DEF LogInv, TypeInv, Contiguous
  <2>6. QED
    BY <2>4, <2>5 DEF LogInv
<1>2. ASSUME NEW c \in Calls, Write(c)
      PROVE  LogInv'
  <2>1. open = c /\ GrowsBy(open) /\ open' = open /\ closed' = closed
    BY <1>2 DEF Write
  <2>2. QED
    BY <2>1, GrowsByInv DEF LogInv, TypeInv, WritersKnown
<1>3. ASSUME NEW c \in Calls, Close(c)
      PROVE  LogInv'
  <2>1. open = c /\ GrowsBy(open) /\ open' = None /\ closed' = closed \cup {c}
    BY <1>3 DEF Close
  <2>2. TypeInv' /\ Contiguous'
    BY <2>1, GrowsByInv DEF LogInv, TypeInv
  <2>3. \A i \in 1..Len(log') : log'[i].turn \in closed'
    BY <2>1, GrowsByInv
  <2>4. None \notin closed'
    BY <2>1 DEF LogInv, TypeInv
  <2>5. WritersKnown'
    BY <2>1, <2>3, <2>4 DEF WritersKnown
  <2>6. QED
    BY <2>2, <2>5 DEF LogInv
<1>4. CASE UNCHANGED vars
  BY <1>4 DEF vars, LogInv, TypeInv, WritersKnown, Contiguous
<1>5. QED
  BY <1>1, <1>2, <1>3, <1>4 DEF Next

(***************************************************************************)
(* No message of a turn lies between two messages of another.              *)
(***************************************************************************)
THEOREM TurnsAreContiguous ==
  ASSUME None \notin Calls
  PROVE  Spec => []Contiguous
<1>1. Init => LogInv
  BY DEF Init, LogInv, TypeInv, WritersKnown, Contiguous
<1>2. LogInv /\ [Next]_vars => LogInv'
  BY NextLogInv
<1>3. LogInv => Contiguous
  BY DEF LogInv
<1>4. QED
  BY <1>1, <1>2, <1>3, PTL DEF Spec
=============================================================================
