---------------------------- MODULE AgentsProofs ----------------------------
(***************************************************************************)
(* Agents for every set of agents and calls and every bound: its types,    *)
(* that what is reported finished is idle, that the messages taken become  *)
(* turns, and that closed is reported exactly while it is stored.          *)
(***************************************************************************)
EXTENDS Agents, FiniteSetTheorems, SequenceTheorems, TLAPS

-----------------------------------------------------------------------------
(* Agents *)

Agent == [sessions : Seq(Session), bound : Nat, row : States, runs : Seq(Run), inFlight : Nat,
          latest : States]

AgentOK(x) ==
  /\ x \in Agent
  /\ Len(x.sessions) <= MaxSessions /\ Len(x.runs) <= MaxRuns
  /\ \A r \in 1..Len(x.runs) : x.runs[r].s \in 1..Len(x.sessions)
  /\ x.bound <= Len(x.sessions) /\ x.inFlight <= Len(x.runs)
  /\ x.inFlight # 0 => x.runs[x.inFlight].tracked /\ x.runs[x.inFlight].at # "done"

\* The runs of y are those of x, but for what was aborted.
SameRuns(x, y) ==
  /\ Len(y.runs) = Len(x.runs)
  /\ \A r \in 1..Len(x.runs) : /\ y.runs[r].s = x.runs[r].s /\ y.runs[r].at = x.runs[r].at
                               /\ y.runs[r].tracked = x.runs[r].tracked

(***************************************************************************)
(* Replacing an item of a sequence keeps its length and the other items.   *)
(***************************************************************************)
LEMMA Replaced ==
  ASSUME NEW S, NEW q \in Seq(S), NEW i, NEW e \in S
  PROVE  /\ [q EXCEPT ![i] = e] \in Seq(S) /\ Len([q EXCEPT ![i] = e]) = Len(q)
         /\ \A j \in 1..Len(q) : [q EXCEPT ![i] = e][j] = IF j = i THEN e ELSE q[j]
<1>1. CASE i \in 1..Len(q)
  BY <1>1, ExceptSeq
<1>2. CASE i \notin 1..Len(q)
  <2>1. [q EXCEPT ![i] = e] = q
    BY <1>2
  <2>2. QED
    BY <1>2, <2>1
<1>3. QED
  BY <1>1, <1>2

(***************************************************************************)
(* A session is closed, running, errored or completed (StateOf).           *)
(***************************************************************************)
LEMMA StateOfIs ==
  ASSUME NEW session
  PROVE  /\ StateOf(session) \in {"closed", "running", "errored", "completed"}
         /\ RowOf(session) \in {"closed", "errored", "completed"}
         /\ StateOf(session) = "closed" <=> session.closed
         /\ RowOf(session) = "closed" <=> session.closed
         /\ StateOf(session) = "running" <=> ~session.closed /\ session.running
<1>1. StateOf(session) = IF session.closed THEN "closed" ELSE IF session.running THEN "running"
                         ELSE IF session.failed THEN "errored" ELSE "completed"
  BY Zenon DEF StateOf
<1>2. QED
  BY <1>1 DEF RowOf

(***************************************************************************)
(* The fields of an agent, and what is an agent.                           *)
(***************************************************************************)
LEMMA AgentFields ==
  ASSUME NEW x \in Agent
  PROVE  /\ x.sessions \in Seq(Session) /\ x.bound \in Nat /\ x.row \in States
         /\ x.runs \in Seq(Run) /\ x.inFlight \in Nat /\ x.latest \in States
         /\ x = [sessions |-> x.sessions, bound |-> x.bound, row |-> x.row, runs |-> x.runs,
                 inFlight |-> x.inFlight, latest |-> x.latest]
BY DEF Agent

(***************************************************************************)
(* A record of six fields of the right types is an agent.                  *)
(***************************************************************************)
LEMMA AgentRecord ==
  ASSUME NEW ss \in Seq(Session), NEW b \in Nat, NEW w \in States, NEW rs \in Seq(Run),
         NEW f \in Nat, NEW l \in States, NEW y,
         y = [sessions |-> ss, bound |-> b, row |-> w, runs |-> rs, inFlight |-> f, latest |-> l]
  PROVE  /\ y \in Agent
         /\ y.sessions = ss /\ y.bound = b /\ y.row = w /\ y.runs = rs /\ y.inFlight = f
         /\ y.latest = l
BY DEF Agent

(***************************************************************************)
(* A run that is aborted, or moves on, is a run of the same session.       *)
(***************************************************************************)
LEMMA RunChanges ==
  ASSUME NEW r \in Run, NEW at \in {"asked", "refused", "turn", "done"}
  PROVE  /\ [r EXCEPT !.aborted = TRUE] \in Run /\ [r EXCEPT !.aborted = TRUE].s = r.s
         /\ [r EXCEPT !.aborted = TRUE].at = r.at /\ [r EXCEPT !.aborted = TRUE].tracked = r.tracked
         /\ [r EXCEPT !.at = at] \in Run /\ [r EXCEPT !.at = at].s = r.s
         /\ [r EXCEPT !.at = at].at = at /\ [r EXCEPT !.at = at].tracked = r.tracked
BY DEF Run

(***************************************************************************)
(* A session just built shows no turn, and is closed when its row says so. *)
(***************************************************************************)
LEMMA OpenedSession ==
  ASSUME NEW status
  PROVE  /\ Opened(status) \in Session /\ ~Opened(status).running
         /\ Opened(status).closed <=> status = "closed"
<1>1. 0 \in 0..MaxRuns
  BY AgentsAssumption
<1>2. QED
  BY <1>1 DEF Opened, Session

(***************************************************************************)
(* ensureAgentSession leaves the agent bound.                              *)
(***************************************************************************)
LEMMA EnsureDoes ==
  ASSUME NEW x, AgentOK(x), Known(x), NEW y, y = Ensure(x)
  PROVE  /\ AgentOK(y) /\ y.bound \in 1..Len(y.sessions)
         /\ y.runs = x.runs /\ y.inFlight = x.inFlight /\ y.latest = x.latest /\ y.row = x.row
         /\ Len(y.sessions) >= Len(x.sessions)
         /\ \A s \in 1..Len(x.sessions) : y.sessions[s] = x.sessions[s]
         /\ \/ x.bound # 0 /\ y = x
            \/ /\ x.bound = 0 /\ y.bound = Len(y.sessions) /\ Len(y.sessions) = Len(x.sessions) + 1
               /\ y.sessions[y.bound] = Opened(x.row)
<1>1. /\ x.sessions \in Seq(Session) /\ x.bound \in Nat /\ x.row \in States
      /\ x.runs \in Seq(Run) /\ x.inFlight \in Nat /\ x.latest \in States
      /\ x = [sessions |-> x.sessions, bound |-> x.bound, row |-> x.row, runs |-> x.runs,
              inFlight |-> x.inFlight, latest |-> x.latest]
  BY AgentFields DEF AgentOK
<1>2. CASE x.bound # 0
  BY <1>1, <1>2 DEF Ensure, AgentOK
<1>3. CASE x.bound = 0
  <2>. DEFINE ss == Append(x.sessions, Opened(x.row))
  <2>1. Len(x.sessions) < MaxSessions
    BY <1>3 DEF Known
  <2>2. /\ ss \in Seq(Session) /\ Len(ss) = Len(x.sessions) + 1
        /\ \A s \in 1..Len(x.sessions) : ss[s] = x.sessions[s]
        /\ ss[Len(x.sessions) + 1] = Opened(x.row)
    BY <1>1, OpenedSession
  <2>3. y = [x EXCEPT !.sessions = ss, !.bound = Len(x.sessions) + 1]
    BY <1>3 DEF Ensure, Hydrated
  <2>. HIDE DEF ss
  <2>4. y = [sessions |-> ss, bound |-> Len(x.sessions) + 1, row |-> x.row,
             runs |-> x.runs, inFlight |-> x.inFlight, latest |-> x.latest]
    BY <1>1, <2>3
  <2>5. /\ y \in Agent /\ y.sessions = ss /\ y.bound = Len(x.sessions) + 1 /\ y.row = x.row
        /\ y.runs = x.runs /\ y.inFlight = x.inFlight /\ y.latest = x.latest
    BY <1>1, <2>2, <2>4, AgentRecord
  <2>6. AgentOK(y)
    BY <1>1, <2>1, <2>2, <2>5, AgentsAssumption DEF AgentOK
  <2>7. QED
    BY <1>1, <1>3, <2>2, <2>5, <2>6
<1>4. QED
  BY <1>1, <1>2, <1>3

(***************************************************************************)
(* cancel changes nothing but what is aborted.                             *)
(***************************************************************************)
LEMMA AbortDoes ==
  ASSUME NEW x, AgentOK(x), NEW s, NEW y, y = Abort(x, s)
  PROVE  /\ AgentOK(y) /\ SameRuns(x, y)
         /\ y.sessions = x.sessions /\ y.bound = x.bound /\ y.inFlight = x.inFlight
         /\ y.latest = x.latest /\ y.row = x.row
<1>1. /\ x.sessions \in Seq(Session) /\ x.bound \in Nat /\ x.row \in States
      /\ x.runs \in Seq(Run) /\ x.inFlight \in Nat /\ x.latest \in States
      /\ x = [sessions |-> x.sessions, bound |-> x.bound, row |-> x.row, runs |-> x.runs,
              inFlight |-> x.inFlight, latest |-> x.latest]
  BY AgentFields DEF AgentOK
<1>2. CASE x.sessions[s].running /\ x.sessions[s].controller # 0
  <2>. DEFINE k == x.sessions[s].controller
              e == [x.runs[k] EXCEPT !.aborted = TRUE]
              rs == [x.runs EXCEPT ![k] = e]
  <2>1. y = [x EXCEPT !.runs = rs]
    BY <1>2, Zenon DEF Abort
  <2>2. /\ rs \in Seq(Run) /\ Len(rs) = Len(x.runs)
        /\ \A j \in 1..Len(x.runs) : /\ rs[j].s = x.runs[j].s /\ rs[j].at = x.runs[j].at
                                     /\ rs[j].tracked = x.runs[j].tracked
    <3>1. CASE k \in 1..Len(x.runs)
      <4>1. x.runs[k] \in Run
        BY <1>1, <3>1
      <4>2. e \in Run /\ e.s = x.runs[k].s /\ e.at = x.runs[k].at /\ e.tracked = x.runs[k].tracked
        BY <4>1, RunChanges
      <4>. HIDE DEF e
      <4>3. QED
        BY <1>1, <4>2, Replaced
    <3>2. CASE k \notin 1..Len(x.runs)
      <4>1. rs = x.runs
        BY <1>1, <3>2
      <4>2. QED
        BY <1>1, <4>1
    <3>3. QED
      BY <3>1, <3>2
  <2>. HIDE DEF rs
  <2>3. y = [sessions |-> x.sessions, bound |-> x.bound, row |-> x.row, runs |-> rs,
             inFlight |-> x.inFlight, latest |-> x.latest]
    BY <1>1, <2>1
  <2>4. /\ y \in Agent /\ y.sessions = x.sessions /\ y.bound = x.bound /\ y.row = x.row
        /\ y.runs = rs /\ y.inFlight = x.inFlight /\ y.latest = x.latest
    BY <1>1, <2>2, <2>3, AgentRecord
  <2>5. QED
    BY <1>1, <2>2, <2>4 DEF AgentOK, SameRuns
<1>3. CASE ~(x.sessions[s].running /\ x.sessions[s].controller # 0)
  BY <1>3 DEF Abort, SameRuns
<1>4. QED
  BY <1>2, <1>3

(***************************************************************************)
(* Opening a session changes nothing but that it is closed.                *)
(***************************************************************************)
LEMMA OpensClosed ==
  ASSUME NEW session \in Session, NEW e, e = [session EXCEPT !.closed = FALSE]
  PROVE  e \in Session /\ e.running = session.running /\ ~e.closed
BY DEF Session

(***************************************************************************)
(* Closing a session changes nothing but that it is open.                  *)
(***************************************************************************)
LEMMA ClosesOpen ==
  ASSUME NEW session \in Session, NEW e, e = [session EXCEPT !.closed = TRUE]
  PROVE  e \in Session /\ e.running = session.running /\ e.closed
BY DEF Session

(***************************************************************************)
(* The end of a turn leaves a session that shows none, and open or closed  *)
(* as it was.                                                              *)
(***************************************************************************)
LEMMA EndsTurn ==
  ASSUME NEW session \in Session, NEW failed \in BOOLEAN, NEW e,
         e = [session EXCEPT !.running = FALSE, !.controller = 0, !.failed = failed]
  PROVE  e \in Session /\ ~e.running /\ e.closed = session.closed
<1>1. 0 \in 0..MaxRuns
  BY AgentsAssumption
<1>2. QED
  BY <1>1 DEF Session

(***************************************************************************)
(* Publishing a status changes what the bus says last.                     *)
(***************************************************************************)
LEMMA PublishDoes ==
  ASSUME NEW x, AgentOK(x), NEW state \in States, NEW y, y = Publish(x, state)
  PROVE  /\ AgentOK(y) /\ y.latest = state
         /\ y.runs = x.runs /\ y.sessions = x.sessions /\ y.bound = x.bound /\ y.inFlight = x.inFlight
         /\ y.row = x.row
<1>1. y = [sessions |-> x.sessions, bound |-> x.bound, row |-> x.row, runs |-> x.runs,
           inFlight |-> x.inFlight, latest |-> state]
  BY AgentFields DEF AgentOK, Publish
<1>2. /\ y \in Agent /\ y.sessions = x.sessions /\ y.bound = x.bound /\ y.row = x.row
      /\ y.runs = x.runs /\ y.inFlight = x.inFlight /\ y.latest = state
  BY <1>1, AgentFields, AgentRecord DEF AgentOK
<1>3. QED
  BY <1>2 DEF AgentOK

(***************************************************************************)
(* The flush of a session writes its row.                                  *)
(***************************************************************************)
LEMMA StoredDoes ==
  ASSUME NEW x, AgentOK(x), NEW s, NEW y, y = Stored(x, s)
  PROVE  /\ AgentOK(y) /\ y.row = RowOf(x.sessions[s])
         /\ y.runs = x.runs /\ y.sessions = x.sessions /\ y.bound = x.bound /\ y.inFlight = x.inFlight
         /\ y.latest = x.latest
<1>1. y = [sessions |-> x.sessions, bound |-> x.bound, row |-> RowOf(x.sessions[s]), runs |-> x.runs,
           inFlight |-> x.inFlight, latest |-> x.latest]
  BY AgentFields DEF AgentOK, Stored
<1>2. RowOf(x.sessions[s]) \in States
  BY StateOfIs DEF States
<1>3. /\ y \in Agent /\ y.sessions = x.sessions /\ y.bound = x.bound /\ y.row = RowOf(x.sessions[s])
      /\ y.runs = x.runs /\ y.inFlight = x.inFlight /\ y.latest = x.latest
  BY <1>1, <1>2, AgentFields, AgentRecord DEF AgentOK
<1>4. QED
  BY <1>3 DEF AgentOK

(***************************************************************************)
(* A session object changes, and nothing else.                             *)
(***************************************************************************)
LEMMA SessionReplaced ==
  ASSUME NEW x, AgentOK(x), NEW s \in 1..Len(x.sessions), NEW e \in Session,
         NEW y, y = [x EXCEPT !.sessions = [x.sessions EXCEPT ![s] = e]]
  PROVE  /\ AgentOK(y)
         /\ y.runs = x.runs /\ y.bound = x.bound /\ y.inFlight = x.inFlight
         /\ y.latest = x.latest /\ y.row = x.row
         /\ Len(y.sessions) = Len(x.sessions) /\ y.sessions[s] = e
         /\ \A q \in 1..Len(x.sessions) : q # s => y.sessions[q] = x.sessions[q]
<1>. DEFINE ss == [x.sessions EXCEPT ![s] = e]
<1>1. /\ x.sessions \in Seq(Session) /\ x.bound \in Nat /\ x.row \in States
      /\ x.runs \in Seq(Run) /\ x.inFlight \in Nat /\ x.latest \in States
      /\ x = [sessions |-> x.sessions, bound |-> x.bound, row |-> x.row, runs |-> x.runs,
              inFlight |-> x.inFlight, latest |-> x.latest]
  BY AgentFields DEF AgentOK
<1>2. /\ ss \in Seq(Session) /\ Len(ss) = Len(x.sessions)
      /\ \A q \in 1..Len(x.sessions) : ss[q] = IF q = s THEN e ELSE x.sessions[q]
  BY <1>1, Replaced
<1>3. y = [x EXCEPT !.sessions = ss]
  OBVIOUS
<1>. HIDE DEF ss
<1>4. y = [sessions |-> ss, bound |-> x.bound, row |-> x.row, runs |-> x.runs,
           inFlight |-> x.inFlight, latest |-> x.latest]
  BY <1>1, <1>3
<1>5. /\ y \in Agent /\ y.sessions = ss /\ y.bound = x.bound /\ y.row = x.row
      /\ y.runs = x.runs /\ y.inFlight = x.inFlight /\ y.latest = x.latest
  BY ONLY <1>1, <1>2, <1>4, AgentRecord
<1>6. AgentOK(y)
  BY <1>2, <1>5 DEF AgentOK
<1>7. QED
  BY <1>2, <1>5, <1>6

(***************************************************************************)
(* reopenForHistory opens a closed session and stores that.                *)
(***************************************************************************)
LEMMA ReopenDoes ==
  ASSUME NEW x, AgentOK(x), NEW s \in 1..Len(x.sessions), NEW y, y = Reopen(x, s)
  PROVE  /\ AgentOK(y)
         /\ y.runs = x.runs /\ y.bound = x.bound /\ y.inFlight = x.inFlight /\ y.latest = x.latest
         /\ Len(y.sessions) = Len(x.sessions)
         /\ \A q \in 1..Len(x.sessions) :
              /\ y.sessions[q].running = x.sessions[q].running
              /\ q # s => y.sessions[q].closed = x.sessions[q].closed
         /\ ~y.sessions[s].closed
         /\ IF x.sessions[s].closed THEN y.row # "closed" ELSE y = x
<1>1. CASE x.sessions[s].closed
  <2>1. PICK e : e = [x.sessions[s] EXCEPT !.closed = FALSE]
    OBVIOUS
  <2>2. PICK z : z = [x EXCEPT !.sessions = [x.sessions EXCEPT ![s] = e]]
    OBVIOUS
  <2>3. e \in Session /\ e.running = x.sessions[s].running /\ ~e.closed
    <3>1. x.sessions[s] \in Session
      BY AgentFields DEF AgentOK
    <3>2. QED
      BY <2>1, <3>1, OpensClosed
  <2>4. /\ AgentOK(z)
        /\ z.runs = x.runs /\ z.bound = x.bound /\ z.inFlight = x.inFlight
        /\ z.latest = x.latest /\ z.row = x.row
        /\ Len(z.sessions) = Len(x.sessions) /\ z.sessions[s] = e
        /\ \A q \in 1..Len(x.sessions) : q # s => z.sessions[q] = x.sessions[q]
    BY <2>2, <2>3, SessionReplaced
  <2>5. y = Stored(z, s)
    BY <1>1, <2>1, <2>2, Zenon DEF Reopen
  <2>6. /\ AgentOK(y) /\ y.row = RowOf(z.sessions[s])
        /\ y.runs = z.runs /\ y.sessions = z.sessions /\ y.bound = z.bound /\ y.inFlight = z.inFlight
        /\ y.latest = z.latest
    BY <2>4, <2>5, StoredDoes
  <2>7. y.row # "closed"
    BY <2>4, <2>3, <2>6, StateOfIs
  <2>8. QED
    BY <1>1, <2>4, <2>3, <2>6, <2>7
<1>2. CASE ~x.sessions[s].closed
  <2>1. y = x
    BY <1>2 DEF Reopen
  <2>2. QED
    BY <1>2, <2>1
<1>3. QED
  BY <1>1, <1>2

(***************************************************************************)
(* A tracked run is the agent's last, in flight, and reported.             *)
(***************************************************************************)
LEMMA TrackDoes ==
  ASSUME NEW x, AgentOK(x), NEW s \in 1..Len(x.sessions), Len(x.runs) < MaxRuns,
         NEW y, y = Track(x, s)
  PROVE  /\ AgentOK(y) /\ y.latest = "running" /\ y.inFlight = Len(x.runs) + 1
         /\ y.sessions = x.sessions /\ y.bound = x.bound /\ y.row = x.row
         /\ Len(y.runs) = Len(x.runs) + 1
         /\ \A r \in 1..Len(x.runs) : y.runs[r] = x.runs[r]
         /\ y.runs[Len(x.runs) + 1].s = s /\ y.runs[Len(x.runs) + 1].tracked
         /\ y.runs[Len(x.runs) + 1].at = IF x.sessions[s].running THEN "refused" ELSE "asked"
<1>. DEFINE r == [s |-> s, at |-> IF x.sessions[s].running THEN "refused" ELSE "asked",
                  aborted |-> FALSE, tracked |-> TRUE]
            rs == Append(x.runs, r)
<1>1. /\ x.sessions \in Seq(Session) /\ x.bound \in Nat /\ x.row \in States
      /\ x.runs \in Seq(Run) /\ x.inFlight \in Nat /\ x.latest \in States
      /\ x = [sessions |-> x.sessions, bound |-> x.bound, row |-> x.row, runs |-> x.runs,
              inFlight |-> x.inFlight, latest |-> x.latest]
  BY AgentFields DEF AgentOK
<1>2. s \in 1..MaxSessions
  BY <1>1, AgentsAssumption DEF AgentOK
<1>3. /\ r \in Run /\ r.s = s /\ r.tracked
      /\ r.at = IF x.sessions[s].running THEN "refused" ELSE "asked"
  BY <1>2 DEF Run
<1>4. y = [x EXCEPT !.runs = rs, !.inFlight = Len(x.runs) + 1, !.latest = "running"]
  BY DEF Track
<1>. HIDE DEF r
<1>5. /\ rs \in Seq(Run) /\ Len(rs) = Len(x.runs) + 1 /\ rs[Len(x.runs) + 1] = r
      /\ \A k \in 1..Len(x.runs) : rs[k] = x.runs[k]
  BY <1>1, <1>3
<1>. HIDE DEF rs
<1>6. y = [sessions |-> x.sessions, bound |-> x.bound, row |-> x.row, runs |-> rs,
           inFlight |-> Len(x.runs) + 1, latest |-> "running"]
  BY <1>1, <1>4
<1>7. "running" \in States /\ Len(x.runs) + 1 \in Nat
  BY <1>1 DEF States
<1>8. /\ y \in Agent /\ y.sessions = x.sessions /\ y.bound = x.bound /\ y.row = x.row
      /\ y.runs = rs /\ y.inFlight = Len(x.runs) + 1 /\ y.latest = "running"
  BY <1>1, <1>5, <1>6, <1>7, AgentRecord
<1>9. AgentOK(y)
  <2>1. \A k \in 1..Len(rs) : rs[k].s \in 1..Len(x.sessions)
    <3>1. \A k \in 1..Len(x.runs) : rs[k].s \in 1..Len(x.sessions)
      BY <1>5 DEF AgentOK
    <3>2. QED
      BY <1>1, <1>3, <1>5, <3>1
  <2>2. rs[Len(rs)].tracked /\ rs[Len(rs)].at # "done"
    BY <1>1, <1>3, <1>5
  <2>3. QED
    BY <1>1, <1>5, <1>8, <2>1, <2>2, AgentsAssumption DEF AgentOK
<1>10. QED
  BY <1>3, <1>5, <1>8, <1>9

(***************************************************************************)
(* As AgentRecord, when no run is in flight.                               *)
(***************************************************************************)
LEMMA IdleAgentRecord ==
  ASSUME NEW ss \in Seq(Session), NEW b \in Nat, NEW w \in States, NEW rs \in Seq(Run),
         NEW l \in States, NEW y,
         y = [sessions |-> ss, bound |-> b, row |-> w, runs |-> rs, inFlight |-> 0, latest |-> l]
  PROVE  /\ y \in Agent
         /\ y.sessions = ss /\ y.bound = b /\ y.row = w /\ y.runs = rs /\ y.inFlight = 0
         /\ y.latest = l
BY DEF Agent

Places == {"asked", "refused", "turn", "done"}

Moved(x, r, at) == [x.runs EXCEPT ![r] = [x.runs[r] EXCEPT !.at = at]]

\* The run r is at a place, and nothing else changed.
RunAt(x, rs, r, at) ==
  /\ Len(rs) = Len(x.runs) /\ rs[r].at = at
  /\ \A k \in 1..Len(x.runs) : /\ rs[k].s = x.runs[k].s /\ rs[k].tracked = x.runs[k].tracked
                               /\ k # r => rs[k].at = x.runs[k].at

(***************************************************************************)
(* A run moves on, and nothing else changes about the runs of its agent.   *)
(***************************************************************************)
LEMMA RunMoved ==
  ASSUME NEW x, x.runs \in Seq(Run), NEW r \in 1..Len(x.runs), NEW at \in Places,
         NEW rs, rs = Moved(x, r, at)
  PROVE  rs \in Seq(Run) /\ RunAt(x, rs, r, at)
<1>. DEFINE e == [x.runs[r] EXCEPT !.at = at]
<1>1. e \in Run /\ e.s = x.runs[r].s /\ e.at = at /\ e.tracked = x.runs[r].tracked
  <2>1. x.runs[r] \in Run
    OBVIOUS
  <2>2. QED
    BY <2>1, RunChanges DEF Places
<1>. HIDE DEF e
<1>2. rs = [x.runs EXCEPT ![r] = e]
  BY DEF e, Moved
<1>3. QED
  BY <1>1, <1>2, Replaced DEF RunAt

\* The turn of a run starts.
Turned(x, r) == Started([x EXCEPT !.runs[r].at = "turn"], x.runs[r].s, r)

(***************************************************************************)
(* A turn starts: its session shows it, and is stored as open.             *)
(***************************************************************************)
LEMMA StartDoes ==
  ASSUME NEW x, AgentOK(x), NEW r \in 1..Len(x.runs), NEW s, s = x.runs[r].s,
         NEW y, y = Turned(x, r)
  PROVE  /\ AgentOK(y)
         /\ y.bound = x.bound /\ y.inFlight = x.inFlight /\ y.latest = x.latest /\ y.row # "closed"
         /\ RunAt(x, y.runs, r, "turn")
         /\ Len(y.sessions) = Len(x.sessions) /\ y.sessions[s].running /\ ~y.sessions[s].closed
         /\ \A q \in 1..Len(x.sessions) : q # s => y.sessions[q] = x.sessions[q]
<1>1. /\ x.sessions \in Seq(Session) /\ x.bound \in Nat /\ x.row \in States
      /\ x.runs \in Seq(Run) /\ x.inFlight \in Nat /\ x.latest \in States
      /\ x = [sessions |-> x.sessions, bound |-> x.bound, row |-> x.row, runs |-> x.runs,
              inFlight |-> x.inFlight, latest |-> x.latest]
  BY AgentFields DEF AgentOK
<1>2. PICK rs : rs = Moved(x, r, "turn")
  OBVIOUS
<1>3. /\ rs \in Seq(Run) /\ RunAt(x, rs, r, "turn")
  BY <1>1, <1>2, RunMoved DEF Places
<1>4. PICK z : z = [x EXCEPT !.runs = rs]
  OBVIOUS
<1>5. z = [sessions |-> x.sessions, bound |-> x.bound, row |-> x.row, runs |-> rs,
           inFlight |-> x.inFlight, latest |-> x.latest]
  BY <1>1, <1>4
<1>6. /\ z \in Agent /\ z.sessions = x.sessions /\ z.bound = x.bound /\ z.row = x.row
      /\ z.runs = rs /\ z.inFlight = x.inFlight /\ z.latest = x.latest
  BY ONLY <1>1, <1>3, <1>5, AgentRecord
<1>7. AgentOK(z)
  BY <1>1, <1>3, <1>6 DEF AgentOK, RunAt
<1>8. PICK e : e = [closed |-> FALSE, running |-> TRUE, failed |-> FALSE, controller |-> r]
  OBVIOUS
<1>9. e \in Session /\ e.running /\ ~e.closed
  <2>1. r \in 0..MaxRuns
    BY <1>1, AgentsAssumption DEF AgentOK, RunAt
  <2>2. QED
    BY <1>8, <2>1 DEF Session
<1>10. s \in 1..Len(z.sessions)
  BY <1>6 DEF AgentOK, RunAt
<1>11. PICK w : w = [z EXCEPT !.sessions = [z.sessions EXCEPT ![s] = e]]
  OBVIOUS
<1>12. /\ AgentOK(w)
       /\ w.runs = z.runs /\ w.bound = z.bound /\ w.inFlight = z.inFlight
       /\ w.latest = z.latest /\ w.row = z.row
       /\ Len(w.sessions) = Len(z.sessions) /\ w.sessions[s] = e
       /\ \A q \in 1..Len(z.sessions) : q # s => w.sessions[q] = z.sessions[q]
  BY <1>7, <1>9, <1>10, <1>11, SessionReplaced
<1>13. y = Stored(w, s)
  BY <1>2, <1>4, <1>8, <1>11, Zenon DEF Turned, Started, Moved
<1>14. /\ AgentOK(y) /\ y.row = RowOf(w.sessions[s])
       /\ y.runs = w.runs /\ y.sessions = w.sessions /\ y.bound = w.bound /\ y.inFlight = w.inFlight
       /\ y.latest = w.latest
  BY <1>12, <1>13, StoredDoes
<1>15. y.row # "closed"
  BY <1>9, <1>12, <1>14, StateOfIs
<1>16. QED
  BY <1>3, <1>6, <1>9, <1>12, <1>14, <1>15

Refused(x, r) == Untrack([x EXCEPT !.runs[r].at = "done"], x.runs[r].s)

(***************************************************************************)
(* A refused run is over, and what its session shows is published.         *)
(***************************************************************************)
LEMMA RefusedDoes ==
  ASSUME NEW x, AgentOK(x), NEW r \in 1..Len(x.runs), NEW s, s = x.runs[r].s,
         NEW y, y = Refused(x, r)
  PROVE  /\ AgentOK(y)
         /\ y.bound = x.bound /\ y.inFlight = 0 /\ y.latest = StateOf(x.sessions[s]) /\ y.row = x.row
         /\ y.sessions = x.sessions
         /\ RunAt(x, y.runs, r, "done")
<1>1. /\ x.sessions \in Seq(Session) /\ x.bound \in Nat /\ x.row \in States
      /\ x.runs \in Seq(Run) /\ x.inFlight \in Nat /\ x.latest \in States
      /\ x = [sessions |-> x.sessions, bound |-> x.bound, row |-> x.row, runs |-> x.runs,
              inFlight |-> x.inFlight, latest |-> x.latest]
  BY AgentFields DEF AgentOK
<1>2. PICK rs : rs = Moved(x, r, "done")
  OBVIOUS
<1>3. /\ rs \in Seq(Run) /\ RunAt(x, rs, r, "done")
  BY <1>1, <1>2, RunMoved DEF Places
<1>4. PICK z : z = [x EXCEPT !.runs = rs]
  OBVIOUS
<1>5. z = [sessions |-> x.sessions, bound |-> x.bound, row |-> x.row, runs |-> rs,
           inFlight |-> x.inFlight, latest |-> x.latest]
  BY <1>1, <1>4
<1>6. y = Publish([z EXCEPT !.inFlight = 0], StateOf(z.sessions[s]))
  BY <1>2, <1>4, Zenon DEF Refused, Untrack, Moved
<1>7. y = [sessions |-> x.sessions, bound |-> x.bound, row |-> x.row, runs |-> rs,
           inFlight |-> 0, latest |-> StateOf(x.sessions[s])]
  BY <1>5, <1>6 DEF Publish
<1>8. PICK l : l = StateOf(x.sessions[s])
  OBVIOUS
<1>9. l \in States
  BY <1>8, StateOfIs DEF States
<1>10. y = [sessions |-> x.sessions, bound |-> x.bound, row |-> x.row, runs |-> rs,
           inFlight |-> 0, latest |-> l]
  BY <1>7, <1>8
<1>11. /\ y \in Agent /\ y.sessions = x.sessions /\ y.bound = x.bound /\ y.row = x.row
      /\ y.runs = rs /\ y.inFlight = 0 /\ y.latest = l
  BY ONLY <1>1, <1>3, <1>9, <1>10, IdleAgentRecord
<1>12. AgentOK(y)
  <2>1. \A k \in 1..Len(rs) : rs[k].s \in 1..Len(x.sessions)
    BY <1>3 DEF AgentOK, RunAt
  <2>2. Len(rs) = Len(x.runs) /\ Len(rs) \in Nat
    BY <1>1, <1>3 DEF RunAt
  <2>3. Len(x.sessions) <= MaxSessions /\ Len(x.runs) <= MaxRuns /\ x.bound <= Len(x.sessions)
    BY DEF AgentOK
  <2>4. y.inFlight <= Len(y.runs)
    BY <1>11, <2>2
  <2>5. QED
    BY ONLY <1>11, <2>1, <2>2, <2>3, <2>4 DEF AgentOK
<1>13. QED
  BY <1>3, <1>8, <1>11, <1>12

(***************************************************************************)
(* The end of a turn: its session is idle and stored; the end of a tracked *)
(* one is published.                                                       *)
(***************************************************************************)
Ended(x, r, failed) ==
  LET s == x.runs[r].s
      session == [x.sessions[s] EXCEPT !.running = FALSE, !.controller = 0, !.failed = failed]
  IN Stored([x EXCEPT !.runs[r].at = "done", !.sessions[s] = session], s)

EndedAt(x, r, failed) ==
  IF x.runs[r].tracked THEN Untrack(Ended(x, r, failed), x.runs[r].s) ELSE Ended(x, r, failed)

(***************************************************************************)
(* The end of a turn: the run is done, its session shows no turn and is    *)
(* stored as it is.                                                        *)
(***************************************************************************)
LEMMA EndDoes ==
  ASSUME NEW x, AgentOK(x), NEW r \in 1..Len(x.runs), x.runs[r].at = "turn", NEW s, s = x.runs[r].s,
         NEW failed \in BOOLEAN,
         NEW y, y = EndedAt(x, r, failed)
  PROVE  /\ AgentOK(y)
         /\ y.bound = x.bound /\ y.row = RowOf(y.sessions[s])
         /\ y.inFlight = IF x.runs[r].tracked THEN 0 ELSE x.inFlight
         /\ y.latest = IF x.runs[r].tracked THEN StateOf(y.sessions[s]) ELSE x.latest
         /\ RunAt(x, y.runs, r, "done")
         /\ Len(y.sessions) = Len(x.sessions) /\ ~y.sessions[s].running
         /\ y.sessions[s].closed = x.sessions[s].closed
         /\ \A q \in 1..Len(x.sessions) : q # s => y.sessions[q] = x.sessions[q]
<1>1. y = IF x.runs[r].tracked THEN Untrack(Ended(x, r, failed), s) ELSE Ended(x, r, failed)
  BY Zenon DEF EndedAt
<1>2. /\ x.sessions \in Seq(Session) /\ x.bound \in Nat /\ x.row \in States
      /\ x.runs \in Seq(Run) /\ x.inFlight \in Nat /\ x.latest \in States
      /\ x = [sessions |-> x.sessions, bound |-> x.bound, row |-> x.row, runs |-> x.runs,
              inFlight |-> x.inFlight, latest |-> x.latest]
  BY AgentFields DEF AgentOK
<1>3. PICK rs : rs = Moved(x, r, "done")
  OBVIOUS
<1>4. /\ rs \in Seq(Run) /\ RunAt(x, rs, r, "done")
  BY <1>2, <1>3, RunMoved DEF Places
<1>5. PICK e : e = [x.sessions[s] EXCEPT !.running = FALSE, !.controller = 0, !.failed = failed]
  OBVIOUS
<1>6. s \in 1..Len(x.sessions) /\ x.sessions[s] \in Session
  BY <1>2 DEF AgentOK, RunAt
<1>7. e \in Session /\ ~e.running /\ e.closed = x.sessions[s].closed
  BY <1>5, <1>6, EndsTurn
<1>8. PICK ss : ss = [x.sessions EXCEPT ![s] = e]
  OBVIOUS
<1>9. /\ ss \in Seq(Session) /\ Len(ss) = Len(x.sessions) /\ ss[s] = e
      /\ \A q \in 1..Len(x.sessions) : q # s => ss[q] = x.sessions[q]
  BY <1>2, <1>6, <1>7, <1>8, Replaced
<1>10. PICK z : z = [x EXCEPT !.runs = rs, !.sessions = ss]
  OBVIOUS
<1>11. z = [sessions |-> ss, bound |-> x.bound, row |-> x.row, runs |-> rs,
           inFlight |-> x.inFlight, latest |-> x.latest]
  BY <1>2, <1>10
<1>12. Ended(x, r, failed) = Stored(z, s)
  BY <1>3, <1>5, <1>8, <1>10, Zenon DEF Ended, Moved
<1>13. Ended(x, r, failed) = [sessions |-> ss, bound |-> x.bound, row |-> RowOf(e), runs |-> rs,
                             inFlight |-> x.inFlight, latest |-> x.latest]
  BY <1>9, <1>11, <1>12 DEF Stored
<1>14. PICK w \in States, l \in States : w = RowOf(e) /\ l = StateOf(e)
  <2>1. RowOf(e) \in States /\ StateOf(e) \in States
    BY StateOfIs DEF States
  <2>2. QED
    BY <2>1
<1>15. /\ \A k \in 1..Len(rs) : rs[k].s \in 1..Len(ss)
      /\ Len(rs) = Len(x.runs) /\ Len(rs) \in Nat
  <2>1. Len(rs) = Len(x.runs) /\ \A k \in 1..Len(x.runs) : rs[k].s = x.runs[k].s
    BY <1>4 DEF RunAt
  <2>2. QED
    BY <1>2, <1>9, <2>1 DEF AgentOK
<1>16. CASE x.runs[r].tracked
  <2>1. y = Publish([Ended(x, r, failed) EXCEPT !.inFlight = 0], StateOf(Ended(x, r, failed).sessions[s]))
    BY <1>1, <1>16, Zenon DEF Untrack
  <2>2. y = [sessions |-> ss, bound |-> x.bound, row |-> w, runs |-> rs,
             inFlight |-> 0, latest |-> l]
    <3>1. /\ Ended(x, r, failed).sessions = ss
          /\ [Ended(x, r, failed) EXCEPT !.inFlight = 0] =
               [sessions |-> ss, bound |-> x.bound, row |-> RowOf(e), runs |-> rs,
                inFlight |-> 0, latest |-> x.latest]
      BY <1>13
    <3>2. y = [[sessions |-> ss, bound |-> x.bound, row |-> RowOf(e), runs |-> rs,
                inFlight |-> 0, latest |-> x.latest] EXCEPT !.latest = StateOf(e)]
      BY <1>9, <2>1, <3>1, Zenon DEF Publish
    <3>3. QED
      BY <1>14, <3>2
  <2>3. /\ y \in Agent /\ y.sessions = ss /\ y.bound = x.bound /\ y.row = w
        /\ y.runs = rs /\ y.inFlight = 0 /\ y.latest = l
    BY ONLY <1>2, <1>4, <1>9, <1>14, <2>2, IdleAgentRecord
  <2>4. AgentOK(y)
    BY <1>2, <1>9, <1>15, <2>3 DEF AgentOK
  <2>5. QED
    BY <1>4, <1>7, <1>9, <1>14, <1>16, <2>3, <2>4
<1>17. CASE ~x.runs[r].tracked
  <2>1. /\ y \in Agent /\ y.sessions = ss /\ y.bound = x.bound /\ y.row = w
        /\ y.runs = rs /\ y.inFlight = x.inFlight /\ y.latest = x.latest
    <3>1. y = [sessions |-> ss, bound |-> x.bound, row |-> w, runs |-> rs,
               inFlight |-> x.inFlight, latest |-> x.latest]
      BY <1>1, <1>13, <1>14, <1>17
    <3>2. QED
      BY ONLY <1>2, <1>4, <1>9, <1>14, <3>1, AgentRecord
  <2>2. x.inFlight # r
    BY <1>2, <1>17 DEF AgentOK, RunAt
  <2>3. AgentOK(y)
    <3>1. x.inFlight # 0 => rs[x.inFlight].tracked /\ rs[x.inFlight].at # "done"
      BY <1>2, <1>4, <2>2 DEF AgentOK, RunAt
    <3>2. QED
      BY <1>2, <1>9, <1>15, <2>1, <3>1 DEF AgentOK
  <2>4. QED
    BY <1>4, <1>7, <1>9, <1>14, <1>17, <2>1, <2>3
<1>18. QED
  BY <1>16, <1>17

-----------------------------------------------------------------------------
(* The invariant *)

CallRec == [pc : {"idle", "spawning", "joining", "waiting", "closing"},
            op : {"none", "spawn", "input", "wait", "close"}, ids : SUBSET Agents, s : Nat,
            run : Nat, all : BOOLEAN]

\* The call e waits for the run of the agent a, or closes it.
On(e, a) == a \in call[e].ids /\ call[e].pc \in {"joining", "closing"}

BeingClosed(a) == \E e \in Calls : On(e, a) /\ call[e].pc = "closing"

Inputs(a) == {e \in Calls : call[e].op = "input" /\ a \in call[e].ids}

CallOK(e) ==
  /\ call[e].op = "input" => call[e].pc = "joining"
  /\ call[e].pc \in {"joining", "closing"} =>
       \E a \in Agents : call[e].ids = {a} /\ call[e].s \in 1..Len(agent[a].sessions)
  /\ call[e].pc = "spawning" => \E a \in Agents : call[e].ids = {a} /\ agent[a] = NoAgent

SpawnsApart ==
  \A e, f \in Calls : /\ call[e].pc = "spawning" /\ call[f].pc = "spawning"
                      /\ call[e].ids = call[f].ids
                      => e = f

Budgeted(a) == Len(agent[a].runs) + Cardinality(Inputs(a)) <= MaxRuns

Typed ==
  /\ agent \in [Agents -> Agent] /\ call \in [Calls -> CallRec]
  /\ deleted \in BOOLEAN /\ spent \in 0..Budget
  /\ crossed \subseteq Agents /\ foreign \subseteq Agents
  /\ \A e \in Calls : CallOK(e)
  /\ SpawnsApart
  /\ \A a \in Agents : AgentOK(agent[a]) /\ Budgeted(a)

\* The run in flight is the only tracked one that is not over, and the only one that
\* is about to start or to be refused. It is in the session the agent is bound to; it
\* is not reported finished, nor its session closed.
Alone(x) ==
  \A r \in 1..Len(x.runs) :
    x.runs[r].at # "done" /\ (x.runs[r].tracked \/ x.runs[r].at # "turn") => r = x.inFlight
Shown(x) ==
  x.inFlight # 0 =>
    /\ x.runs[x.inFlight].s = x.bound
    /\ x.latest \notin Terminal
    /\ x.runs[x.inFlight].at = "turn" => ~x.sessions[x.bound].closed

\* A session shows the turn it has, and has one at most.
Busy(x) ==
  \A r \in 1..Len(x.runs) : /\ x.runs[r].at = "turn" => x.sessions[x.runs[r].s].running
                            /\ x.runs[r].at = "asked" => ~x.sessions[x.runs[r].s].running
Apart(x) ==
  \A q, r \in 1..Len(x.runs) :
    q # r /\ x.runs[q].at \in {"asked", "turn"} /\ x.runs[r].at \in {"asked", "turn"} =>
      x.runs[q].s # x.runs[r].s

Sound(x) == Alone(x) /\ Shown(x) /\ Busy(x) /\ Apart(x)

LoneAt(a) ==
  /\ Sound(agent[a])
  /\ \A e, f \in Calls : On(e, a) /\ On(f, a) => e = f
  /\ \A e \in Calls : On(e, a) =>
       /\ call[e].s = agent[a].bound
       /\ agent[a].inFlight = 0 \/ (call[e].pc = "joining" /\ agent[a].inFlight = call[e].run)

Lone == \A a \in Agents \ crossed : LoneAt(a)

\* No run was refused, none is untracked, and a session shows no turn it has not.
Taken(x) == \A r \in 1..Len(x.runs) : x.runs[r].tracked /\ x.runs[r].at # "refused"
Showing(x) ==
  \A s \in 1..Len(x.sessions) : x.sessions[s].running =>
    \E r \in 1..Len(x.runs) : x.runs[r].at = "turn" /\ x.runs[r].s = s

\* The bus, the row and the bound session agree on whether the agent is closed.
Agree(x) ==
  /\ x.latest = "closed" <=> x.row = "closed"
  /\ x.bound # 0 => (x.sessions[x.bound].closed <=> x.row = "closed")

KeptAt(a) ==
  /\ Taken(agent[a]) /\ Showing(agent[a])
  /\ BeingClosed(a) => agent[a].sessions[agent[a].bound].closed
  /\ ~BeingClosed(a) => Agree(agent[a])
  /\ \A e \in Calls : On(e, a) /\ call[e].op = "input" => agent[a].row # "closed"

Kept == \A a \in Agents \ (crossed \cup foreign) : KeptAt(a)

-----------------------------------------------------------------------------
(* What a step leaves alone *)

\* The calls that wait for the agent a, or close it, are as they were.
SameCalls(a) == \A e \in Calls : On(e, a) \/ On(e, a)' => call'[e] = call[e]

Grows(a) ==
  /\ Len(agent'[a].sessions) >= Len(agent[a].sessions)
  /\ agent[a] = NoAgent => agent'[a] = NoAgent

(***************************************************************************)
(* The bus answers calls that wait and leaves the others as they are.      *)
(***************************************************************************)
LEMMA NotifiedDoes ==
  ASSUME NEW calls \in [Calls -> CallRec], NEW agents, NEW after, after = Notified(calls, agents)
  PROVE  /\ after \in [Calls -> CallRec]
         /\ \A e \in Calls : /\ after[e] = calls[e] \/ after[e] = Idle
                             /\ calls[e].pc # "waiting" => after[e] = calls[e]
<1>1. Idle \in CallRec
  BY DEF Idle, CallRec
<1>2. QED
  BY <1>1 DEF Notified

(***************************************************************************)
(* A call that is free waits for nobody.                                   *)
(***************************************************************************)
LEMMA IdleIs == Idle.pc = "idle" /\ Idle.op = "none" /\ Idle.ids = {} /\ Idle \in CallRec
BY DEF Idle, CallRec

(***************************************************************************)
(* A call that is as it was, or free, is still well formed: sessions are   *)
(* only added, and an agent that does not exist does not come to be by     *)
(* itself.                                                                 *)
(***************************************************************************)
LEMMA CallStays ==
  ASSUME Typed, NEW e \in Calls, call'[e] = call[e] \/ call'[e] = Idle, \A a \in Agents : Grows(a)
  PROVE  CallOK(e)'
<1>1. CASE call'[e] = call[e]
  <2>1. CallOK(e)
    BY DEF Typed
  <2>2. \A a \in Agents : Len(agent[a].sessions) \in Nat /\ Len(agent'[a].sessions) >= Len(agent[a].sessions)
    <3>1. \A a \in Agents : agent[a].sessions \in Seq(Session)
      BY AgentFields DEF Typed
    <3>2. QED
      BY <3>1 DEF Grows
  <2>3. ASSUME NEW a \in Agents, call[e].s \in 1..Len(agent[a].sessions), Len(agent'[a].sessions) \in Nat
        PROVE  call[e].s \in 1..Len(agent'[a].sessions)
    BY <2>2, <2>3
  <2>4. QED
    BY <1>1, <2>1, <2>2, <2>3 DEF CallOK, Grows
<1>2. CASE call'[e] = Idle
  BY <1>2, IdleIs DEF CallOK
<1>3. QED
  BY <1>1, <1>2

-----------------------------------------------------------------------------
(* Preserving the invariant for one agent *)

\* Only what is aborted, published, stored, bound, opened or closed is different.
Settles(x, y) ==
  /\ SameRuns(x, y) /\ y.inFlight = x.inFlight
  /\ Len(y.sessions) >= Len(x.sessions)
  /\ \A s \in 1..Len(x.sessions) : y.sessions[s].running = x.sessions[s].running
  /\ \A s \in 1..Len(y.sessions) : s > Len(x.sessions) => ~y.sessions[s].running

(***************************************************************************)
(* A step that settles an agent keeps what is sound of its runs, as long   *)
(* as the run in flight is still shown.                                    *)
(***************************************************************************)
LEMMA SettlesSound ==
  ASSUME NEW x, NEW y, AgentOK(x), AgentOK(y), Settles(x, y)
  PROVE  /\ Sound(x) /\ Shown(y) => Sound(y)
         /\ Taken(x) => Taken(y)
         /\ Showing(x) => Showing(y)
<1>1. \A r \in 1..Len(x.runs) : x.runs[r].s \in 1..Len(x.sessions)
  BY DEF AgentOK
<1>2. Alone(x) => Alone(y)
  BY DEF Alone, Settles, SameRuns
<1>3. Busy(x) => Busy(y)
  BY <1>1 DEF Busy, Settles, SameRuns
<1>4. Apart(x) => Apart(y)
  BY DEF Apart, Settles, SameRuns
<1>5. Taken(x) => Taken(y)
  BY DEF Taken, Settles, SameRuns
<1>6. ASSUME Showing(x) PROVE Showing(y)
  <2>1. SUFFICES ASSUME NEW s \in 1..Len(y.sessions), y.sessions[s].running
                 PROVE  \E r \in 1..Len(y.runs) : y.runs[r].at = "turn" /\ y.runs[r].s = s
    BY DEF Showing
  <2>2. s \in 1..Len(x.sessions) /\ x.sessions[s].running
    <3>1. Len(x.sessions) \in Nat /\ Len(y.sessions) \in Nat
      BY AgentFields DEF AgentOK
    <3>2. QED
      BY <2>1, <3>1 DEF Settles
  <2>3. QED
    BY <1>6, <2>2 DEF Showing, Settles, SameRuns
<1>7. QED
  BY <1>2, <1>3, <1>4, <1>5, <1>6 DEF Sound

(***************************************************************************)
(* The messages that wait to be sent to an agent are those that waited     *)
(* before.                                                                 *)
(***************************************************************************)
LEMMA SameInputs ==
  ASSUME Typed, \A e \in Calls : CallOK(e)', NEW a \in Agents, SameCalls(a)
  PROVE  Inputs(a)' = Inputs(a) /\ Cardinality(Inputs(a)) \in Nat
<1>1. \A e \in Calls : /\ call[e].op = "input" => call[e].pc = "joining"
                       /\ call'[e].op = "input" => call'[e].pc = "joining"
  BY DEF Typed, CallOK
<1>2. Inputs(a)' = Inputs(a)
  BY <1>1 DEF Inputs, SameCalls, On
<1>3. IsFiniteSet(Inputs(a))
  BY AgentsAssumption, FS_Subset DEF Inputs
<1>4. QED
  BY <1>2, <1>3, FS_CardinalityType

(***************************************************************************)
(* There is room for the runs of an agent and the messages that wait for   *)
(* it.                                                                     *)
(***************************************************************************)
LEMMA BudgetStays ==
  ASSUME Typed, \A e \in Calls : CallOK(e)', NEW a \in Agents, SameCalls(a),
         \/ Len(agent'[a].runs) = Len(agent[a].runs)
         \/ MayRun(a) /\ Len(agent'[a].runs) = Len(agent[a].runs) + 1
  PROVE  Budgeted(a)'
<1>1. Inputs(a)' = Inputs(a) /\ Cardinality(Inputs(a)) \in Nat
  BY SameInputs
<1>2. Len(agent[a].runs) \in Nat
  BY AgentFields DEF Typed
<1>3. Len(agent[a].runs) + Cardinality(Inputs(a)) <= MaxRuns
  BY DEF Typed, Budgeted
<1>4. MayRun(a) => Len(agent[a].runs) + Cardinality(Inputs(a)) < MaxRuns
  BY DEF MayRun, Inputs
<1>5. Cardinality(Inputs(a)') = Cardinality(Inputs(a))
  BY <1>1
<1>6. Len(agent'[a].runs) + Cardinality(Inputs(a)') <= MaxRuns
  BY <1>1, <1>2, <1>3, <1>4, <1>5, AgentsAssumption
<1>7. QED
  BY <1>6 DEF Budgeted

(***************************************************************************)
(* A step that leaves the calls on an agent alone keeps one call on it at  *)
(* most.                                                                   *)
(***************************************************************************)
LEMMA LoneStays ==
  ASSUME NEW a \in Agents, LoneAt(a), SameCalls(a), Sound(agent'[a]),
         (\E e \in Calls : On(e, a)) =>
            /\ agent'[a].bound = agent[a].bound
            /\ agent'[a].inFlight = 0 \/ agent'[a].inFlight = agent[a].inFlight
  PROVE  LoneAt(a)'
<1>1. \A e \in Calls : On(e, a)' => On(e, a) /\ call'[e] = call[e]
  BY DEF SameCalls, On
<1>2. Sound(agent[a])'
  OBVIOUS
<1>3. \A e, f \in Calls : On(e, a)' /\ On(f, a)' => e = f
  BY <1>1 DEF LoneAt
<1>4. ASSUME NEW e \in Calls, On(e, a)'
      PROVE  /\ call'[e].s = agent'[a].bound
             /\ agent'[a].inFlight = 0 \/ (call'[e].pc = "joining" /\ agent'[a].inFlight = call'[e].run)
  BY <1>1, <1>4 DEF LoneAt
<1>5. QED
  BY <1>2, <1>3, <1>4 DEF LoneAt

(***************************************************************************)
(* A step that leaves the calls on an agent alone keeps what is stored and *)
(* reported of it.                                                         *)
(***************************************************************************)
LEMMA KeptStays ==
  ASSUME NEW a \in Agents, SameCalls(a), Taken(agent'[a]), Showing(agent'[a]),
         BeingClosed(a) => agent'[a].sessions[agent'[a].bound].closed,
         ~BeingClosed(a) => Agree(agent'[a]),
         \A e \in Calls : On(e, a) /\ call[e].op = "input" => agent'[a].row # "closed"
  PROVE  KeptAt(a)'
<1>1. BeingClosed(a)' <=> BeingClosed(a)
  BY DEF BeingClosed, SameCalls, On
<1>2. Taken(agent[a])' /\ Showing(agent[a])' /\ (Agree(agent'[a]) => Agree(agent[a])')
  OBVIOUS
<1>3. \A e \in Calls : On(e, a)' /\ call'[e].op = "input" => agent'[a].row # "closed"
  BY DEF SameCalls, On
<1>4. QED
  BY <1>1, <1>2, <1>3 DEF KeptAt

(***************************************************************************)
(* What holds of an agent nobody touches still holds.                      *)
(***************************************************************************)
LEMMA Untouched ==
  ASSUME Typed, \A e \in Calls : CallOK(e)', NEW a \in Agents, SameCalls(a), agent'[a] = agent[a]
  PROVE  /\ AgentOK(agent'[a]) /\ Budgeted(a)'
         /\ LoneAt(a) => LoneAt(a)'
         /\ KeptAt(a) => KeptAt(a)'
<1>1. AgentOK(agent'[a]) /\ Budgeted(a)'
  BY BudgetStays DEF Typed
<1>2. LoneAt(a) => LoneAt(a)'
  BY LoneStays DEF LoneAt
<1>3. KeptAt(a) => KeptAt(a)'
  BY KeptStays DEF KeptAt
<1>4. QED
  BY <1>1, <1>2, <1>3

Inv == Typed /\ Lone /\ Kept

Keeps(a) ==
  /\ AgentOK(agent'[a]) /\ Budgeted(a)'
  /\ a \notin crossed' => LoneAt(a)'
  /\ a \notin crossed' \cup foreign' => KeptAt(a)'

\* Calls other than c are as they were, or were answered.
Others(c) ==
  \A e \in Calls : e # c => call'[e] = call[e] \/ (call[e].pc = "waiting" /\ call'[e] = Idle)

Spreads == crossed \subseteq crossed' /\ foreign \subseteq foreign'

(***************************************************************************)
(* The calls on an agent are as they were, when those other than c were    *)
(* left alone or answered, and c is not on it.                             *)
(***************************************************************************)
LEMMA OthersSame ==
  ASSUME Typed, NEW c, Others(c), NEW a \in Agents,
         c \in Calls => call'[c] = call[c] \/ (~On(c, a) /\ ~On(c, a)')
  PROVE  SameCalls(a)
<1>1. SUFFICES ASSUME NEW e \in Calls, On(e, a) \/ On(e, a)', e # c
               PROVE  call'[e] = call[e]
  BY DEF SameCalls
<1>2. call[e].pc = "waiting" => ~On(e, a)
  BY DEF On
<1>3. call'[e] = Idle => ~On(e, a)'
  BY IdleIs DEF On
<1>4. QED
  BY <1>1, <1>2, <1>3 DEF Others

(***************************************************************************)
(* The calls other than c are well formed still.                           *)
(***************************************************************************)
LEMMA OthersOK ==
  ASSUME Typed, NEW c, Others(c), \A a \in Agents : Grows(a),
         c \in Calls => CallOK(c)' /\ call'[c].pc # "spawning"
  PROVE  (\A e \in Calls : CallOK(e)') /\ SpawnsApart'
<1>1. ASSUME NEW e \in Calls PROVE CallOK(e)'
  BY CallStays DEF Others
<1>2. SpawnsApart'
  <2>1. \A e \in Calls : call'[e].pc = "spawning" => call'[e] = call[e]
    BY IdleIs DEF Others
  <2>2. QED
    BY <2>1 DEF SpawnsApart, Typed
<1>3. QED
  BY <1>1, <1>2

(***************************************************************************)
(* An agent nobody touches keeps its part of the invariant.                *)
(***************************************************************************)
LEMMA UntouchedKeeps ==
  ASSUME Inv, \A e \in Calls : CallOK(e)', NEW a \in Agents, SameCalls(a), agent'[a] = agent[a], Spreads
  PROVE  Keeps(a)
<1>1. /\ a \notin crossed' => LoneAt(a)
      /\ a \notin crossed' \cup foreign' => KeptAt(a)
  BY DEF Inv, Lone, Kept, Spreads
<1>2. QED
  BY <1>1, Untouched DEF Inv, Keeps

(***************************************************************************)
(* The invariant is kept when every agent keeps its part of it.            *)
(***************************************************************************)
LEMMA ManyAgents ==
  ASSUME Inv, agent' = [b \in Agents |-> agent'[b]],
         call' \in [Calls -> CallRec], \A e \in Calls : CallOK(e)', SpawnsApart',
         crossed' \subseteq Agents, foreign' \subseteq Agents, deleted' \in BOOLEAN,
         spent' \in 0..Budget, \A b \in Agents : Keeps(b)
  PROVE  Inv'
<1>1. \A b \in Agents : agent'[b] \in Agent
  BY DEF Keeps, AgentOK
<1>2. agent' \in [Agents -> Agent]
  BY <1>1
<1>3. \A b \in Agents : AgentOK(agent[b])' /\ Budgeted(b)'
  BY DEF Keeps
<1>4. Typed'
  BY <1>2, <1>3 DEF Typed
<1>5. Lone' /\ Kept'
  BY DEF Keeps, Lone, Kept
<1>6. QED
  BY <1>4, <1>5 DEF Inv

(***************************************************************************)
(* The invariant is kept when the one agent that changes keeps its part of *)
(* it.                                                                     *)
(***************************************************************************)
LEMMA OneAgent ==
  ASSUME Inv, NEW a \in Agents, NEW y, agent' = [agent EXCEPT ![a] = y],
         call' \in [Calls -> CallRec], \A e \in Calls : CallOK(e)', SpawnsApart',
         \A b \in Agents : b # a => SameCalls(b),
         Spreads, crossed' \subseteq Agents, foreign' \subseteq Agents, deleted' \in BOOLEAN,
         spent' \in 0..Budget, Keeps(a)
  PROVE  Inv'
<1>1. agent \in [Agents -> Agent]
  BY DEF Inv, Typed
<1>2. ASSUME NEW b \in Agents PROVE Keeps(b)
  <2>1. CASE b = a
    BY <2>1
  <2>2. CASE b # a
    <3>1. agent'[b] = agent[b]
      BY <1>1, <2>2
    <3>2. QED
      BY <2>2, <3>1, UntouchedKeeps
  <2>3. QED
    BY <2>1, <2>2
<1>3. agent' = [b \in Agents |-> agent'[b]]
  BY <1>1
<1>4. QED
  BY <1>2, <1>3, ManyAgents

(***************************************************************************)
(* A step that only answers calls leaves those on any agent alone.         *)
(***************************************************************************)
LEMMA QuietCalls ==
  ASSUME Typed, NEW agents, UNCHANGED call \/ call' = Notified(call, agents)
  PROVE  /\ call' \in [Calls -> CallRec]
         /\ \A c : Others(c)
         /\ \A a \in Agents : SameCalls(a)
         /\ \A e \in Calls : call'[e] = call[e] \/ call'[e] = Idle
<1>1. /\ call' \in [Calls -> CallRec]
      /\ \A e \in Calls : call'[e] = call[e] \/ (call[e].pc = "waiting" /\ call'[e] = Idle)
  BY NotifiedDoes DEF Typed
<1>2. \A c : Others(c)
  BY <1>1 DEF Others
<1>3. ASSUME NEW a \in Agents PROVE SameCalls(a)
  <2>1. PICK c : c \notin Calls
    BY NoSetContainsEverything
  <2>2. QED
    BY <1>2, <2>1, OthersSame
<1>4. QED
  BY <1>1, <1>2, <1>3

-----------------------------------------------------------------------------
(* Runs *)

(***************************************************************************)
(* A turn that starts in a free session keeps what is sound of its agent.  *)
(***************************************************************************)
LEMMA StartSound ==
  ASSUME NEW x, AgentOK(x), NEW r \in 1..Len(x.runs), x.runs[r].at = "asked", NEW s, s = x.runs[r].s,
         NEW y, y = Turned(x, r)
  PROVE  /\ Sound(x) => Sound(y)
         /\ Taken(x) => Taken(y)
         /\ Showing(x) => Showing(y)
<1>1. /\ AgentOK(y)
      /\ y.bound = x.bound /\ y.inFlight = x.inFlight /\ y.latest = x.latest
      /\ RunAt(x, y.runs, r, "turn")
      /\ Len(y.sessions) = Len(x.sessions) /\ y.sessions[s].running /\ ~y.sessions[s].closed
      /\ \A q \in 1..Len(x.sessions) : q # s => y.sessions[q] = x.sessions[q]
  BY StartDoes
<1>2. \A k \in 1..Len(x.runs) : x.runs[k].s \in 1..Len(x.sessions)
  BY DEF AgentOK
<1>3. x.inFlight # 0 => x.inFlight \in 1..Len(x.runs)
  BY AgentFields DEF AgentOK
<1>4. Alone(x) => Alone(y)
  BY <1>1 DEF Alone, RunAt
<1>5. /\ Len(y.runs) = Len(x.runs)
      /\ \A k \in 1..Len(x.runs) : /\ y.runs[k].s = x.runs[k].s
                                   /\ k # r => y.runs[k].at = x.runs[k].at
      /\ y.runs[r].at = "turn"
  BY <1>1 DEF RunAt
<1>6. ASSUME Shown(x) PROVE Shown(y)
  <2>1. SUFFICES ASSUME x.inFlight # 0
                 PROVE  /\ y.runs[x.inFlight].s = x.bound
                        /\ y.latest \notin Terminal
                        /\ y.runs[x.inFlight].at = "turn" => ~y.sessions[x.bound].closed
    BY <1>1 DEF Shown
  <2>2. /\ x.runs[x.inFlight].s = x.bound /\ x.latest \notin Terminal
        /\ x.runs[x.inFlight].at = "turn" => ~x.sessions[x.bound].closed
    BY <1>6, <2>1 DEF Shown
  <2>3. x.inFlight \in 1..Len(x.runs) /\ x.bound \in 1..Len(x.sessions)
    BY <1>2, <1>3, <2>1, <2>2
  <2>4. x.bound # s => x.inFlight # r /\ y.sessions[x.bound] = x.sessions[x.bound]
    BY <1>1, <2>2, <2>3
  <2>5. QED
    BY <1>1, <1>5, <2>2, <2>3, <2>4
<1>7. ASSUME Busy(x), Apart(x) PROVE Busy(y)
  <2>1. SUFFICES ASSUME NEW k \in 1..Len(x.runs)
                 PROVE  /\ y.runs[k].at = "turn" => y.sessions[x.runs[k].s].running
                        /\ y.runs[k].at = "asked" => ~y.sessions[x.runs[k].s].running
    BY <1>5 DEF Busy
  <2>2. /\ x.runs[k].at = "turn" => x.sessions[x.runs[k].s].running
        /\ x.runs[k].at = "asked" => ~x.sessions[x.runs[k].s].running
    BY <1>7 DEF Busy
  <2>3. k # r /\ x.runs[k].at = "asked" => x.runs[k].s # s
    BY <1>7 DEF Apart
  <2>4. x.runs[k].s # s => y.sessions[x.runs[k].s] = x.sessions[x.runs[k].s]
    BY <1>1, <1>2
  <2>5. CASE x.runs[k].s = s
    BY <1>1, <1>5, <2>3, <2>5
  <2>6. CASE x.runs[k].s # s
    BY <1>5, <2>2, <2>4, <2>6
  <2>7. QED
    BY <2>5, <2>6
<1>8. ASSUME Apart(x) PROVE Apart(y)
  <2>1. \A k \in 1..Len(x.runs) : y.runs[k].at \in {"asked", "turn"} => x.runs[k].at \in {"asked", "turn"}
    BY <1>5
  <2>2. QED
    BY <1>8, <1>5, <2>1 DEF Apart
<1>9. Taken(x) => Taken(y)
  BY <1>1 DEF Taken, RunAt
<1>10. ASSUME Showing(x) PROVE Showing(y)
  <2>1. SUFFICES ASSUME NEW q \in 1..Len(x.sessions), y.sessions[q].running
                 PROVE  \E k \in 1..Len(x.runs) : y.runs[k].at = "turn" /\ y.runs[k].s = q
    BY <1>1, <1>5 DEF Showing
  <2>2. CASE q = s
    BY <1>5, <2>2
  <2>3. CASE q # s
    <3>1. PICK k \in 1..Len(x.runs) : x.runs[k].at = "turn" /\ x.runs[k].s = q
      BY <1>1, <1>10, <2>1, <2>3 DEF Showing
    <3>2. QED
      BY <1>5, <3>1
  <2>4. QED
    BY <2>2, <2>3
<1>11. QED
  BY <1>4, <1>6, <1>7, <1>8, <1>9, <1>10 DEF Sound

(***************************************************************************)
(* TurnStarts keeps the invariant: a run of an agent being closed is never *)
(* about to start.                                                         *)
(***************************************************************************)
LEMMA StartsKeep ==
  ASSUME Inv, NEW a \in Agents, NEW r \in 1..MaxRuns, TurnStarts(a, r)
  PROVE  Inv'
<1>. DEFINE x == agent[a]
<1>1. PICK s, y : s = x.runs[r].s /\ y = Turned(x, r)
  OBVIOUS
<1>2. /\ r \in 1..Len(x.runs) /\ x.runs[r].at = "asked"
      /\ agent' = [agent EXCEPT ![a] = y] /\ UNCHANGED <<call, deleted, spent, crossed, foreign>>
  BY <1>1 DEF TurnStarts, RunsAt, Turned
<1>3. AgentOK(x) /\ agent'[a] = y
  BY <1>2 DEF Inv, Typed
<1>. HIDE DEF x
<1>4. /\ AgentOK(y)
      /\ y.bound = x.bound /\ y.inFlight = x.inFlight /\ y.latest = x.latest /\ y.row # "closed"
      /\ RunAt(x, y.runs, r, "turn")
      /\ Len(y.sessions) = Len(x.sessions) /\ y.sessions[s].running /\ ~y.sessions[s].closed
  BY <1>1, <1>2, <1>3, StartDoes
<1>5. /\ Sound(x) => Sound(y)
      /\ Taken(x) => Taken(y)
      /\ Showing(x) => Showing(y)
  BY <1>1, <1>2, <1>3, StartSound
<1>6. \A b \in Agents : Grows(b)
  <2>1. x # NoAgent
    BY <1>2 DEF NoAgent
  <2>2. \A b \in Agents : Len(agent[b].sessions) \in Nat
    BY AgentFields DEF Inv, Typed
  <2>3. QED
    BY <1>2, <1>3, <1>4, <2>1, <2>2 DEF Grows, Inv, Typed, x
<1>7. /\ call' \in [Calls -> CallRec]
      /\ \A b \in Agents : SameCalls(b)
      /\ \A e \in Calls : call'[e] = call[e]
  BY <1>2 DEF Inv, Typed, SameCalls
<1>8. (\A e \in Calls : CallOK(e)') /\ SpawnsApart'
  BY <1>6, <1>7, CallStays DEF Inv, Typed, SpawnsApart
<1>9. Budgeted(a)'
  BY <1>3, <1>4, <1>7, <1>8, BudgetStays DEF Inv, RunAt, x
<1>10. ASSUME a \notin crossed' PROVE LoneAt(a)'
  <2>1. LoneAt(a)
    BY <1>2, <1>10 DEF Inv, Lone
  <2>2. QED
    BY <1>3, <1>4, <1>5, <1>7, <2>1, LoneStays DEF LoneAt, x
<1>11. ASSUME a \notin crossed' \cup foreign' PROVE KeptAt(a)'
  <2>1. LoneAt(a) /\ KeptAt(a)
    BY <1>2, <1>11 DEF Inv, Lone, Kept
  <2>2. r = x.inFlight /\ x.runs[r].s = x.bound /\ x.latest # "closed"
    BY <1>2, <2>1 DEF KeptAt, LoneAt, Taken, Sound, Alone, Shown, Terminal, x
  <2>3. ~BeingClosed(a)
    BY <1>2, <2>1, <2>2 DEF BeingClosed, LoneAt, x
  <2>4. Agree(y)
    BY <1>1, <1>4, <2>2 DEF Agree
  <2>5. QED
    BY <1>3, <1>4, <1>5, <1>7, <2>1, <2>3, <2>4, KeptStays DEF KeptAt, x
<1>12. QED
  BY <1>2, <1>3, <1>4, <1>7, <1>8, <1>9, <1>10, <1>11, OneAgent DEF Inv, Typed, Keeps, Spreads

(***************************************************************************)
(* A run that is refused leaves none in flight, and the others as they     *)
(* are.                                                                    *)
(***************************************************************************)
LEMMA RefusedSound ==
  ASSUME NEW x, AgentOK(x), NEW r \in 1..Len(x.runs), x.runs[r].at = "refused", Sound(x),
         NEW y, y = Refused(x, r)
  PROVE  Sound(y)
<1>1. /\ y.bound = x.bound /\ y.inFlight = 0 /\ y.sessions = x.sessions
      /\ RunAt(x, y.runs, r, "done")
  BY RefusedDoes
<1>2. Alone(y)
  <2>1. r = x.inFlight
    BY DEF Sound, Alone
  <2>2. ASSUME NEW k \in 1..Len(y.runs), y.runs[k].at # "done", y.runs[k].tracked \/ y.runs[k].at # "turn"
        PROVE  FALSE
    <3>1. k \in 1..Len(x.runs) /\ k # r /\ y.runs[k].at = x.runs[k].at
      BY <1>1, <2>2 DEF RunAt
    <3>2. x.runs[k].tracked \/ x.runs[k].at # "turn"
      BY <1>1, <2>2, <3>1 DEF RunAt
    <3>3. QED
      BY <2>1, <2>2, <3>1, <3>2 DEF Sound, Alone
  <2>3. QED
    BY <2>2 DEF Alone
<1>3. Shown(y)
  BY <1>1 DEF Shown
<1>4. Busy(y)
  BY <1>1 DEF Busy, RunAt, Sound
<1>5. Apart(y)
  BY <1>1 DEF Apart, RunAt, Sound
<1>6. QED
  BY <1>2, <1>3, <1>4, <1>5 DEF Sound

(***************************************************************************)
(* RunRefused keeps the invariant: it takes calls that crossed, or a turn  *)
(* nobody tracks.                                                          *)
(***************************************************************************)
LEMMA RefusalsKeep ==
  ASSUME Inv, NEW a \in Agents, NEW r \in 1..MaxRuns, RunRefused(a, r)
  PROVE  Inv'
<1>. DEFINE x == agent[a]
<1>1. PICK s, y : s = x.runs[r].s /\ y = Refused(x, r)
  OBVIOUS
<1>2. /\ r \in 1..Len(x.runs) /\ x.runs[r].at = "refused"
      /\ UNCHANGED <<deleted, spent, crossed, foreign>>
  BY DEF RunRefused, RunsAt
<1>3. agent' = [agent EXCEPT ![a] = y] /\ call' = Notified(call, agent')
  <2>1. Publishes(call, [agent EXCEPT ![a] = y])
    BY <1>1, Zenon DEF RunRefused, Refused
  <2>2. QED
    BY <2>1 DEF Publishes
<1>4. AgentOK(x) /\ agent'[a] = y
  BY <1>3 DEF Inv, Typed
<1>. HIDE DEF x
<1>5. /\ AgentOK(y)
      /\ y.bound = x.bound /\ y.inFlight = 0 /\ y.sessions = x.sessions
      /\ RunAt(x, y.runs, r, "done")
  BY <1>1, <1>2, <1>4, RefusedDoes
<1>6. Sound(x) => Sound(y)
  BY <1>1, <1>2, <1>4, RefusedSound
<1>7. \A b \in Agents : Grows(b)
  <2>1. x # NoAgent
    BY <1>2 DEF NoAgent
  <2>2. \A b \in Agents : Len(agent[b].sessions) \in Nat
    BY AgentFields DEF Inv, Typed
  <2>3. QED
    BY <1>3, <1>4, <1>5, <2>1, <2>2 DEF Grows, Inv, Typed, x
<1>8. /\ call' \in [Calls -> CallRec]
      /\ \A c : Others(c)
      /\ \A b \in Agents : SameCalls(b)
      /\ \A e \in Calls : call'[e] = call[e] \/ call'[e] = Idle
  BY <1>3, QuietCalls DEF Inv
<1>9. (\A e \in Calls : CallOK(e)') /\ SpawnsApart'
  <2>1. PICK c : c \notin Calls
    BY NoSetContainsEverything
  <2>2. QED
    BY <1>7, <1>8, <2>1, OthersOK DEF Inv
<1>10. Budgeted(a)'
  BY <1>4, <1>5, <1>8, <1>9, BudgetStays DEF Inv, RunAt, x
<1>11. ASSUME a \notin crossed' PROVE LoneAt(a)'
  <2>1. LoneAt(a)
    BY <1>2, <1>11 DEF Inv, Lone
  <2>2. QED
    BY <1>4, <1>5, <1>6, <1>8, <2>1, LoneStays DEF LoneAt, x
<1>12. a \in crossed' \cup foreign'
  BY <1>2 DEF Inv, Kept, KeptAt, Taken, x
<1>13. QED
  BY <1>2, <1>3, <1>4, <1>5, <1>8, <1>9, <1>10, <1>11, <1>12, OneAgent DEF Inv, Typed, Keeps, Spreads

(***************************************************************************)
(* A turn that ends leaves its session to nobody, and the other runs as    *)
(* they are.                                                               *)
(***************************************************************************)
LEMMA EndSound ==
  ASSUME NEW x, AgentOK(x), NEW r \in 1..Len(x.runs), x.runs[r].at = "turn", NEW s, s = x.runs[r].s,
         NEW failed \in BOOLEAN, NEW y, y = EndedAt(x, r, failed)
  PROVE  /\ Sound(x) => Sound(y)
         /\ Taken(x) => Taken(y)
         /\ Showing(x) => Showing(y)
<1>1. /\ AgentOK(y)
      /\ y.bound = x.bound
      /\ y.inFlight = IF x.runs[r].tracked THEN 0 ELSE x.inFlight
      /\ ~x.runs[r].tracked => y.latest = x.latest
      /\ RunAt(x, y.runs, r, "done")
      /\ Len(y.sessions) = Len(x.sessions) /\ ~y.sessions[s].running
      /\ y.sessions[s].closed = x.sessions[s].closed
      /\ \A q \in 1..Len(x.sessions) : q # s => y.sessions[q] = x.sessions[q]
  BY EndDoes
<1>2. \A k \in 1..Len(x.runs) : x.runs[k].s \in 1..Len(x.sessions)
  BY DEF AgentOK
<1>3. x.inFlight # 0 => /\ x.inFlight \in 1..Len(x.runs)
                        /\ x.runs[x.inFlight].tracked
  BY AgentFields DEF AgentOK
<1>4. /\ Len(y.runs) = Len(x.runs)
      /\ \A k \in 1..Len(x.runs) : /\ y.runs[k].s = x.runs[k].s
                                   /\ k # r => y.runs[k].at = x.runs[k].at
      /\ y.runs[r].at = "done"
  BY <1>1 DEF RunAt
<1>5. ASSUME Alone(x) PROVE Alone(y)
  <2>1. SUFFICES ASSUME NEW k \in 1..Len(x.runs), y.runs[k].at # "done",
                        y.runs[k].tracked \/ y.runs[k].at # "turn"
                 PROVE  k = y.inFlight
    BY <1>4 DEF Alone
  <2>2. k # r /\ y.runs[k].at = x.runs[k].at
    BY <1>4, <2>1
  <2>3. x.runs[k].tracked \/ x.runs[k].at # "turn"
    BY <1>1, <2>1, <2>2 DEF RunAt
  <2>4. k = x.inFlight
    BY <1>5, <2>1, <2>2, <2>3 DEF Alone
  <2>5. x.runs[r].tracked => r = x.inFlight
    BY <1>5 DEF Alone
  <2>6. QED
    BY <1>1, <2>2, <2>4, <2>5
<1>6. ASSUME Shown(x) PROVE Shown(y)
  <2>1. SUFFICES ASSUME y.inFlight # 0
                 PROVE  /\ y.runs[y.inFlight].s = x.bound
                        /\ y.latest \notin Terminal
                        /\ y.runs[y.inFlight].at = "turn" => ~y.sessions[x.bound].closed
    BY <1>1 DEF Shown
  <2>2. y.inFlight = x.inFlight /\ ~x.runs[r].tracked
    BY <1>1, <2>1
  <2>3. /\ x.runs[x.inFlight].s = x.bound /\ x.latest \notin Terminal
        /\ x.runs[x.inFlight].at = "turn" => ~x.sessions[x.bound].closed
    BY <1>6, <2>1, <2>2 DEF Shown
  <2>4. x.inFlight \in 1..Len(x.runs) /\ x.inFlight # r /\ x.bound \in 1..Len(x.sessions)
    BY <1>2, <1>3, <2>1, <2>2, <2>3
  <2>5. y.sessions[x.bound].closed = x.sessions[x.bound].closed
    BY <1>1, <2>4
  <2>6. QED
    BY <1>1, <1>4, <2>2, <2>3, <2>4, <2>5
<1>7. ASSUME Busy(x), Apart(x) PROVE Busy(y)
  <2>1. SUFFICES ASSUME NEW k \in 1..Len(x.runs), k # r, x.runs[k].at \in {"asked", "turn"}
                 PROVE  /\ y.runs[k].at = "turn" => y.sessions[x.runs[k].s].running
                        /\ y.runs[k].at = "asked" => ~y.sessions[x.runs[k].s].running
    BY <1>4 DEF Busy
  <2>2. x.runs[k].s # s
    BY <1>7, <2>1 DEF Apart
  <2>3. y.sessions[x.runs[k].s] = x.sessions[x.runs[k].s]
    BY <1>1, <1>2, <2>2
  <2>4. QED
    BY <1>4, <1>7, <2>1, <2>3 DEF Busy
<1>8. ASSUME Apart(x) PROVE Apart(y)
  <2>1. \A k \in 1..Len(x.runs) : y.runs[k].at \in {"asked", "turn"} => x.runs[k].at \in {"asked", "turn"}
    BY <1>4
  <2>2. QED
    BY <1>4, <1>8, <2>1 DEF Apart
<1>9. Taken(x) => Taken(y)
  BY <1>1 DEF Taken, RunAt
<1>10. ASSUME Showing(x) PROVE Showing(y)
  <2>1. SUFFICES ASSUME NEW q \in 1..Len(x.sessions), y.sessions[q].running
                 PROVE  \E k \in 1..Len(x.runs) : y.runs[k].at = "turn" /\ y.runs[k].s = q
    BY <1>1, <1>4 DEF Showing
  <2>2. PICK k \in 1..Len(x.runs) : x.runs[k].at = "turn" /\ x.runs[k].s = q
    BY <1>1, <1>10, <2>1 DEF Showing
  <2>3. k # r
    BY <1>1, <2>1, <2>2
  <2>4. QED
    BY <1>4, <2>2, <2>3
<1>11. QED
  BY <1>5, <1>6, <1>7, <1>8, <1>9, <1>10 DEF Sound

(***************************************************************************)
(* TurnEnds keeps the invariant: the end of a tracked turn is published    *)
(* and stored.                                                             *)
(***************************************************************************)
LEMMA EndsKeep ==
  ASSUME Inv, NEW a \in Agents, NEW r \in 1..MaxRuns, NEW failed \in BOOLEAN, TurnEnds(a, r, failed)
  PROVE  Inv'
<1>. DEFINE x == agent[a]
<1>1. PICK s, y : s = x.runs[r].s /\ y = EndedAt(x, r, failed)
  OBVIOUS
<1>2. /\ r \in 1..Len(x.runs) /\ x.runs[r].at = "turn"
      /\ UNCHANGED <<deleted, spent, crossed, foreign>>
  BY DEF TurnEnds, Turns
<1>3. agent' = [agent EXCEPT ![a] = y] /\ (UNCHANGED call \/ call' = Notified(call, agent'))
  <2>1. CASE x.runs[r].tracked
    <3>1. Publishes(call, [agent EXCEPT ![a] = y])
      BY <1>1, <2>1, Zenon DEF TurnEnds, EndedAt, Ended
    <3>2. QED
      BY <3>1 DEF Publishes
  <2>2. CASE ~x.runs[r].tracked
    BY <1>1, <2>2, Zenon DEF TurnEnds, EndedAt, Ended
  <2>3. QED
    BY <2>1, <2>2
<1>4. AgentOK(x) /\ agent'[a] = y
  BY <1>3 DEF Inv, Typed
<1>. HIDE DEF x
<1>5. /\ AgentOK(y)
      /\ y.bound = x.bound /\ y.row = RowOf(y.sessions[s])
      /\ y.inFlight = IF x.runs[r].tracked THEN 0 ELSE x.inFlight
      /\ y.latest = IF x.runs[r].tracked THEN StateOf(y.sessions[s]) ELSE x.latest
      /\ RunAt(x, y.runs, r, "done")
      /\ Len(y.sessions) = Len(x.sessions) /\ ~y.sessions[s].running
      /\ y.sessions[s].closed = x.sessions[s].closed
  BY <1>1, <1>2, <1>4, EndDoes
<1>6. /\ Sound(x) => Sound(y)
      /\ Taken(x) => Taken(y)
      /\ Showing(x) => Showing(y)
  BY <1>1, <1>2, <1>4, EndSound
<1>7. \A b \in Agents : Grows(b)
  <2>1. x # NoAgent
    BY <1>2 DEF NoAgent
  <2>2. \A b \in Agents : Len(agent[b].sessions) \in Nat
    BY AgentFields DEF Inv, Typed
  <2>3. QED
    BY <1>3, <1>4, <1>5, <2>1, <2>2 DEF Grows, Inv, Typed, x
<1>8. /\ call' \in [Calls -> CallRec]
      /\ \A c : Others(c)
      /\ \A b \in Agents : SameCalls(b)
      /\ \A e \in Calls : call'[e] = call[e] \/ call'[e] = Idle
  BY <1>3, QuietCalls DEF Inv
<1>9. (\A e \in Calls : CallOK(e)') /\ SpawnsApart'
  <2>1. PICK c : c \notin Calls
    BY NoSetContainsEverything
  <2>2. QED
    BY <1>7, <1>8, <2>1, OthersOK DEF Inv
<1>10. Budgeted(a)'
  BY <1>4, <1>5, <1>8, <1>9, BudgetStays DEF Inv, RunAt, x
<1>11. ASSUME a \notin crossed' PROVE LoneAt(a)'
  <2>1. LoneAt(a)
    BY <1>2, <1>11 DEF Inv, Lone
  <2>2. QED
    BY <1>4, <1>5, <1>6, <1>8, <2>1, LoneStays DEF LoneAt, x
<1>12. ASSUME a \notin crossed' \cup foreign' PROVE KeptAt(a)'
  <2>1. LoneAt(a) /\ KeptAt(a)
    BY <1>2, <1>12 DEF Inv, Lone, Kept
  <2>2. x.runs[r].tracked /\ r = x.inFlight /\ s = x.bound /\ ~x.sessions[s].closed
    BY <1>1, <1>2, <2>1 DEF KeptAt, LoneAt, Taken, Sound, Alone, Shown, x
  <2>3. ~BeingClosed(a)
    BY <1>2, <2>1, <2>2 DEF BeingClosed, LoneAt, x
  <2>4. ~y.sessions[s].closed
    BY <1>5, <2>2
  <2>5. y.latest # "closed" /\ y.row # "closed"
    BY <1>5, <2>2, <2>4, StateOfIs
  <2>6. Agree(y)
    BY <1>5, <2>2, <2>4, <2>5 DEF Agree
  <2>7. QED
    BY <1>4, <1>6, <1>8, <2>1, <2>3, <2>5, <2>6, KeptStays DEF KeptAt, x
<1>13. QED
  BY <1>2, <1>3, <1>4, <1>5, <1>8, <1>9, <1>10, <1>11, <1>12, OneAgent DEF Inv, Typed, Keeps, Spreads

(***************************************************************************)
(* While no run is about to start, an agent's run in flight is a turn that *)
(* its session shows.                                                      *)
(***************************************************************************)
LEMMA InFlightRuns ==
  ASSUME Quiet, NEW a \in Agents, NEW x, x = agent[a], AgentOK(x)
  PROVE  /\ \A r \in 1..Len(x.runs) : x.runs[r].at \in {"turn", "done"}
         /\ Sound(x) /\ x.inFlight # 0 =>
              /\ x.inFlight \in 1..Len(x.runs) /\ x.runs[x.inFlight].at = "turn"
              /\ x.runs[x.inFlight].s = x.bound /\ x.bound \in 1..Len(x.sessions)
              /\ x.sessions[x.bound].running /\ ~x.sessions[x.bound].closed /\ x.latest \notin Terminal
<1>1. \A r \in 1..Len(x.runs) : r \in 1..MaxRuns /\ x.runs[r].at \in Places
  <2>1. Len(x.runs) \in Nat /\ x.runs \in Seq(Run)
    BY AgentFields DEF AgentOK
  <2>2. \A r \in 1..Len(x.runs) : x.runs[r] \in Run
    BY <2>1
  <2>3. QED
    BY <2>1, <2>2, AgentsAssumption DEF AgentOK, Run, Places
<1>2. \A r \in 1..Len(x.runs) : x.runs[r].at \notin {"asked", "refused"}
  <2>1. SUFFICES ASSUME NEW r \in 1..Len(x.runs), x.runs[r].at \in {"asked", "refused"}
                 PROVE  FALSE
    OBVIOUS
  <2>2. <<a, r>> \in Agents \X (1..MaxRuns)
    BY <1>1
  <2>3. r <= Len(x.runs)
    BY AgentFields DEF AgentOK
  <2>4. <<a, r>> \in RunsAt({"asked", "refused"})
    BY <2>1, <2>2, <2>3 DEF RunsAt
  <2>5. QED
    BY <2>4 DEF Quiet
<1>3. \A r \in 1..Len(x.runs) : x.runs[r].at \in {"turn", "done"}
  BY <1>1, <1>2 DEF Places
<1>4. ASSUME Sound(x), x.inFlight # 0
      PROVE  /\ x.inFlight \in 1..Len(x.runs) /\ x.runs[x.inFlight].at = "turn"
             /\ x.runs[x.inFlight].s = x.bound /\ x.bound \in 1..Len(x.sessions)
             /\ x.sessions[x.bound].running /\ ~x.sessions[x.bound].closed /\ x.latest \notin Terminal
  <2>1. x.inFlight \in 1..Len(x.runs) /\ x.runs[x.inFlight].at # "done"
    BY <1>4, AgentFields DEF AgentOK
  <2>2. x.runs[x.inFlight].at = "turn" /\ x.runs[x.inFlight].s \in 1..Len(x.sessions)
    BY <1>3, <2>1 DEF AgentOK
  <2>3. QED
    BY <1>4, <2>1, <2>2 DEF Sound, Shown, Busy
<1>5. QED
  BY <1>3, <1>4

ForeignRun(x) == [s |-> x.bound, at |-> "turn", aborted |-> FALSE, tracked |-> FALSE]
ForeignStarted(x) == Started([x EXCEPT !.runs = Append(@, ForeignRun(x))], x.bound, Len(x.runs) + 1)

(***************************************************************************)
(* A turn from the agent's own thread is its last run, which nobody        *)
(* tracks.                                                                 *)
(***************************************************************************)
LEMMA ForeignDoes ==
  ASSUME NEW x, AgentOK(x), NEW s \in 1..Len(x.sessions), s = x.bound, Len(x.runs) < MaxRuns,
         NEW y, y = ForeignStarted(x)
  PROVE  /\ AgentOK(y)
         /\ y.bound = x.bound /\ y.inFlight = x.inFlight /\ y.latest = x.latest
         /\ Len(y.runs) = Len(x.runs) + 1 /\ y.runs[Len(x.runs) + 1] = ForeignRun(x)
         /\ \A k \in 1..Len(x.runs) : y.runs[k] = x.runs[k]
         /\ Len(y.sessions) = Len(x.sessions) /\ y.sessions[s].running /\ ~y.sessions[s].closed
         /\ \A q \in 1..Len(x.sessions) : q # s => y.sessions[q] = x.sessions[q]
<1>1. /\ x.sessions \in Seq(Session) /\ x.bound \in Nat /\ x.row \in States
      /\ x.runs \in Seq(Run) /\ x.inFlight \in Nat /\ x.latest \in States
      /\ x = [sessions |-> x.sessions, bound |-> x.bound, row |-> x.row, runs |-> x.runs,
              inFlight |-> x.inFlight, latest |-> x.latest]
  BY AgentFields DEF AgentOK
<1>2. PICK e : e = ForeignRun(x)
  OBVIOUS
<1>3. e \in Run /\ e.s = s
  <2>1. s \in 1..MaxSessions
    BY <1>1, AgentsAssumption DEF AgentOK
  <2>2. QED
    BY <1>2, <2>1 DEF ForeignRun, Run
<1>4. PICK rs : rs = Append(x.runs, e)
  OBVIOUS
<1>5. /\ rs \in Seq(Run) /\ Len(rs) = Len(x.runs) + 1 /\ rs[Len(x.runs) + 1] = e
      /\ \A k \in 1..Len(x.runs) : rs[k] = x.runs[k]
  BY <1>1, <1>3, <1>4
<1>6. PICK z : z = [x EXCEPT !.runs = rs]
  OBVIOUS
<1>7. z = [sessions |-> x.sessions, bound |-> x.bound, row |-> x.row, runs |-> rs,
           inFlight |-> x.inFlight, latest |-> x.latest]
  BY <1>1, <1>6
<1>8. /\ z \in Agent /\ z.sessions = x.sessions /\ z.bound = x.bound /\ z.row = x.row
      /\ z.runs = rs /\ z.inFlight = x.inFlight /\ z.latest = x.latest
  BY ONLY <1>1, <1>5, <1>7, AgentRecord
<1>9. AgentOK(z)
  <2>1. \A k \in 1..Len(rs) : rs[k].s \in 1..Len(x.sessions)
    <3>1. \A k \in 1..Len(x.runs) : x.runs[k].s \in 1..Len(x.sessions)
      BY DEF AgentOK
    <3>2. QED
      BY <1>1, <1>3, <1>5, <3>1
  <2>2. x.inFlight <= Len(x.runs) /\ Len(x.runs) \in Nat
        /\ (x.inFlight # 0 => rs[x.inFlight].tracked /\ rs[x.inFlight].at # "done")
    BY <1>1, <1>5 DEF AgentOK
  <2>3. QED
    BY <1>1, <1>5, <1>8, <2>1, <2>2, AgentsAssumption DEF AgentOK
<1>10. PICK t : t = [closed |-> FALSE, running |-> TRUE, failed |-> FALSE, controller |-> Len(x.runs) + 1]
  OBVIOUS
<1>11. t \in Session /\ t.running /\ ~t.closed
  <2>1. Len(x.runs) + 1 \in 0..MaxRuns
    BY <1>1, AgentsAssumption
  <2>2. QED
    BY <1>10, <2>1 DEF Session
<1>12. s \in 1..Len(z.sessions)
  BY <1>8
<1>13. PICK w : w = [z EXCEPT !.sessions = [z.sessions EXCEPT ![s] = t]]
  OBVIOUS
<1>14. /\ AgentOK(w)
       /\ w.runs = z.runs /\ w.bound = z.bound /\ w.inFlight = z.inFlight
       /\ w.latest = z.latest /\ w.row = z.row
       /\ Len(w.sessions) = Len(z.sessions) /\ w.sessions[s] = t
       /\ \A q \in 1..Len(z.sessions) : q # s => w.sessions[q] = z.sessions[q]
  BY <1>9, <1>11, <1>12, <1>13, SessionReplaced
<1>15. y = Stored(w, s)
  BY <1>2, <1>4, <1>6, <1>10, <1>13, Zenon DEF ForeignStarted, Started
<1>16. /\ AgentOK(y)
       /\ y.runs = w.runs /\ y.sessions = w.sessions /\ y.bound = w.bound /\ y.inFlight = w.inFlight
       /\ y.latest = w.latest
  BY <1>14, <1>15, StoredDoes
<1>17. QED
  BY <1>2, <1>5, <1>8, <1>11, <1>14, <1>16

(***************************************************************************)
(* Nothing settles an agent as it is.                                      *)
(***************************************************************************)
LEMMA SettlesSelf ==
  ASSUME NEW x, AgentOK(x)
  PROVE  Settles(x, x)
<1>1. Len(x.sessions) \in Nat
  BY AgentFields DEF AgentOK
<1>2. QED
  BY <1>1 DEF Settles, SameRuns

(***************************************************************************)
(* An agent that is known exists.                                          *)
(***************************************************************************)
LEMMA KnownIs ==
  ASSUME NEW x, Known(x)
  PROVE  x # NoAgent
BY DEF Known, NoAgent

(***************************************************************************)
(* Building a session for an agent settles it and keeps what it showed.    *)
(***************************************************************************)
LEMMA EnsureKeeps ==
  ASSUME NEW x, AgentOK(x), Known(x), NEW y, y = Ensure(x)
  PROVE  /\ Settles(x, y)
         /\ Sound(x) => Sound(y)
         /\ Taken(x) => Taken(y)
         /\ Showing(x) => Showing(y)
         /\ Agree(x) => Agree(y)
         /\ x.bound # 0 => y = x
<1>1. /\ AgentOK(y) /\ y.bound \in 1..Len(y.sessions)
      /\ y.runs = x.runs /\ y.inFlight = x.inFlight /\ y.latest = x.latest /\ y.row = x.row
      /\ Len(y.sessions) >= Len(x.sessions)
      /\ \A s \in 1..Len(x.sessions) : y.sessions[s] = x.sessions[s]
      /\ \/ x.bound # 0 /\ y = x
         \/ /\ x.bound = 0 /\ y.bound = Len(y.sessions) /\ Len(y.sessions) = Len(x.sessions) + 1
            /\ y.sessions[y.bound] = Opened(x.row)
  BY EnsureDoes
<1>2. CASE x.bound # 0
  <2>1. y = x
    BY <1>1, <1>2
  <2>2. QED
    BY <2>1, SettlesSelf
<1>3. CASE x.bound = 0
  <2>1. y.bound = Len(x.sessions) + 1 /\ Len(y.sessions) = Len(x.sessions) + 1 /\ Len(x.sessions) \in Nat
    BY <1>1, <1>3, AgentFields DEF AgentOK
  <2>2. ~y.sessions[y.bound].running /\ (y.sessions[y.bound].closed <=> x.row = "closed")
    BY <1>1, <1>3, OpenedSession
  <2>3. Settles(x, y)
    BY <1>1, <2>1, <2>2 DEF Settles, SameRuns
  <2>4. ASSUME Sound(x) PROVE Shown(y)
    <3>1. x.inFlight # 0 => x.inFlight \in 1..Len(x.runs)
      BY AgentFields DEF AgentOK
    <3>2. x.inFlight # 0 => x.runs[x.inFlight].s # 0
      BY <3>1 DEF AgentOK
    <3>3. x.inFlight = 0
      BY <1>3, <2>4, <3>2 DEF Sound, Shown
    <3>4. QED
      BY <1>1, <3>3 DEF Shown
  <2>5. Agree(x) => Agree(y)
    BY <1>1, <2>2 DEF Agree
  <2>6. QED
    BY <1>1, <1>3, <2>3, <2>4, <2>5, SettlesSound
<1>4. QED
  BY <1>2, <1>3

(***************************************************************************)
(* A turn from the agent's own thread starts in a session that shows none. *)
(***************************************************************************)
LEMMA ForeignSound ==
  ASSUME NEW x, AgentOK(x), NEW s \in 1..Len(x.sessions), s = x.bound, Len(x.runs) < MaxRuns,
         ~x.sessions[s].running, Sound(x), x.inFlight = 0,
         \A r \in 1..Len(x.runs) : x.runs[r].at \in {"turn", "done"},
         NEW y, y = ForeignStarted(x)
  PROVE  Sound(y)
<1>. DEFINE n == Len(x.runs) + 1
<1>1. /\ AgentOK(y)
      /\ y.inFlight = 0
      /\ Len(y.runs) = n /\ y.runs[n] = ForeignRun(x)
      /\ \A k \in 1..Len(x.runs) : y.runs[k] = x.runs[k]
      /\ Len(y.sessions) = Len(x.sessions) /\ y.sessions[s].running
      /\ \A q \in 1..Len(x.sessions) : q # s => y.sessions[q] = x.sessions[q]
  BY ForeignDoes
<1>2. y.runs[n].at = "turn" /\ ~y.runs[n].tracked /\ y.runs[n].s = s
  BY <1>1 DEF ForeignRun
<1>3. Len(x.runs) \in Nat /\ \A k \in 1..Len(x.runs) : x.runs[k].s \in 1..Len(x.sessions)
  BY AgentFields DEF AgentOK
<1>4. \A k \in 1..n : k # n => k \in 1..Len(x.runs) /\ y.runs[k] = x.runs[k]
  BY <1>1, <1>3
<1>. HIDE DEF n
<1>5. Alone(y)
  BY <1>1, <1>2, <1>4 DEF Sound, Alone
<1>6. Shown(y)
  BY <1>1 DEF Shown
<1>7. \A k \in 1..Len(x.runs) : x.runs[k].at = "turn" => x.runs[k].s # s
  BY DEF Sound, Busy
<1>8. Busy(y)
  <2>1. SUFFICES ASSUME NEW k \in 1..n
                 PROVE  /\ y.runs[k].at = "turn" => y.sessions[y.runs[k].s].running
                        /\ y.runs[k].at # "asked"
    BY <1>1 DEF Busy
  <2>2. CASE k = n
    BY <1>1, <1>2, <2>2
  <2>3. CASE k # n
    <3>1. k \in 1..Len(x.runs) /\ y.runs[k] = x.runs[k] /\ x.runs[k].at \in {"turn", "done"}
      BY <1>4, <2>3
    <3>2. x.runs[k].at = "turn" => x.sessions[x.runs[k].s].running /\ x.runs[k].s # s
      BY <1>7, <3>1 DEF Sound, Busy
    <3>3. x.runs[k].s # s => y.sessions[x.runs[k].s] = x.sessions[x.runs[k].s]
      BY <1>1, <1>3, <3>1
    <3>4. QED
      BY <3>1, <3>2, <3>3
  <2>4. QED
    BY <2>2, <2>3
<1>9. Apart(y)
  <2>1. SUFFICES ASSUME NEW q \in 1..n, NEW k \in 1..n, q # k,
                        y.runs[q].at \in {"asked", "turn"}, y.runs[k].at \in {"asked", "turn"}
                 PROVE  y.runs[q].s # y.runs[k].s
    BY <1>1 DEF Apart
  <2>2. CASE q # n /\ k # n
    BY <1>4, <2>1, <2>2 DEF Sound, Apart
  <2>3. CASE q = n
    BY <1>2, <1>4, <1>7, <2>1, <2>3
  <2>4. CASE k = n
    BY <1>2, <1>4, <1>7, <2>1, <2>4
  <2>5. QED
    BY <2>2, <2>3, <2>4
<1>10. QED
  BY <1>5, <1>6, <1>8, <1>9 DEF Sound

(***************************************************************************)
(* ForeignTurn keeps the invariant: the session it needs is free, so no    *)
(* run is in flight.                                                       *)
(***************************************************************************)
LEMMA ForeignKeeps ==
  ASSUME Inv, NEW a \in Agents, ForeignTurn(a)
  PROVE  Inv'
<1>1. PICK w, x, y : w = agent[a] /\ x = Ensure(w) /\ y = ForeignStarted(x)
  OBVIOUS
<1>2. /\ Quiet /\ Known(w) /\ MayRun(a) /\ ~x.sessions[x.bound].running
      /\ agent' = [agent EXCEPT ![a] = y] /\ foreign' = foreign \cup {a}
      /\ UNCHANGED <<call, deleted, spent, crossed>>
  BY <1>1, Zenon DEF ForeignTurn, ForeignStarted, ForeignRun
<1>3. AgentOK(w) /\ agent'[a] = y /\ Budgeted(a)
  BY <1>1, <1>2 DEF Inv, Typed
<1>4. /\ AgentOK(x) /\ x.bound \in 1..Len(x.sessions) /\ x.runs = w.runs
      /\ Len(x.sessions) >= Len(w.sessions) /\ x.inFlight = w.inFlight
  BY <1>1, <1>2, <1>3, EnsureDoes
<1>5. Len(w.runs) < MaxRuns
  <2>1. Cardinality(Inputs(a)) \in Nat /\ Len(w.runs) \in Nat
    BY <1>1, <1>3, AgentFields, AgentsAssumption, FS_Subset, FS_CardinalityType DEF Inputs, AgentOK
  <2>2. Len(w.runs) + Cardinality(Inputs(a)) < MaxRuns
    BY <1>1, <1>2 DEF MayRun, Inputs
  <2>3. QED
    BY <2>1, <2>2, AgentsAssumption
<1>6. /\ AgentOK(y)
      /\ y.bound = x.bound /\ y.inFlight = x.inFlight /\ y.latest = x.latest
      /\ Len(y.runs) = Len(x.runs) + 1
      /\ Len(y.sessions) = Len(x.sessions)
  BY <1>1, <1>4, <1>5, ForeignDoes
<1>7. \A b \in Agents : Grows(b)
  <2>1. w # NoAgent
    BY <1>2, KnownIs
  <2>2. \A b \in Agents : Len(agent[b].sessions) \in Nat
    BY AgentFields DEF Inv, Typed
  <2>3. QED
    BY <1>1, <1>2, <1>3, <1>4, <1>6, <2>1, <2>2 DEF Grows, Inv, Typed
<1>8. /\ call' \in [Calls -> CallRec]
      /\ \A c : Others(c)
      /\ \A b \in Agents : SameCalls(b)
      /\ \A e \in Calls : call'[e] = call[e] \/ call'[e] = Idle
  BY <1>2, QuietCalls DEF Inv
<1>9. (\A e \in Calls : CallOK(e)') /\ SpawnsApart'
  <2>1. PICK c : c \notin Calls
    BY NoSetContainsEverything
  <2>2. QED
    BY <1>7, <1>8, <2>1, OthersOK DEF Inv
<1>10. Budgeted(a)'
  BY <1>1, <1>2, <1>3, <1>4, <1>6, <1>8, <1>9, BudgetStays DEF Inv
<1>11. ASSUME a \notin crossed' PROVE LoneAt(a)'
  <2>1. LoneAt(a)
    BY <1>2, <1>11 DEF Inv, Lone
  <2>2. Sound(w) /\ Sound(x)
    BY <1>1, <1>2, <1>3, <2>1, EnsureKeeps DEF LoneAt
  <2>3. w.inFlight = 0
    <3>1. w.inFlight # 0 => w.bound # 0 /\ w.sessions[w.bound].running
      BY <1>1, <1>2, <1>3, <2>2, InFlightRuns
    <3>2. w.bound # 0 => x = w
      BY <1>1, <1>2, <1>3, EnsureKeeps
    <3>3. QED
      BY <1>2, <3>1, <3>2
  <2>4. \A r \in 1..Len(x.runs) : x.runs[r].at \in {"turn", "done"}
    BY <1>1, <1>2, <1>3, <1>4, InFlightRuns
  <2>5. Sound(y)
    BY <1>1, <1>2, <1>4, <1>5, <2>2, <2>3, <2>4, ForeignSound
  <2>6. (\E e \in Calls : On(e, a)) => y.bound = w.bound
    <3>1. (\E e \in Calls : On(e, a)) => w.bound # 0
      BY <1>1, <1>3, <2>1 DEF LoneAt, Inv, Typed, CallOK, On
    <3>2. QED
      BY <1>1, <1>2, <1>3, <1>6, <3>1, EnsureKeeps
  <2>7. QED
    BY <1>1, <1>3, <1>4, <1>6, <1>8, <2>1, <2>5, <2>6, LoneStays
<1>12. a \in crossed' \cup foreign'
  BY <1>2
<1>13. QED
  BY <1>2, <1>3, <1>6, <1>8, <1>9, <1>10, <1>11, <1>12, OneAgent DEF Inv, Typed, Keeps, Spreads

-----------------------------------------------------------------------------
(* Calls *)

(***************************************************************************)
(* A call that writes its own record leaves the others alone, but for      *)
(* those the bus answers.                                                  *)
(***************************************************************************)
LEMMA CallerCalls ==
  ASSUME Typed, NEW c \in Calls, NEW rec \in CallRec, NEW agents, NEW before,
         before = [call EXCEPT ![c] = rec],
         call' = before \/ call' = Notified(before, agents)
  PROVE  /\ call' \in [Calls -> CallRec] /\ Others(c)
         /\ call'[c] = rec \/ (rec.pc = "waiting" /\ call'[c] = Idle)
<1>1. before \in [Calls -> CallRec] /\ before[c] = rec /\ \A e \in Calls : e # c => before[e] = call[e]
  BY DEF Typed
<1>2. /\ call' \in [Calls -> CallRec]
      /\ \A e \in Calls : call'[e] = before[e] \/ (before[e].pc = "waiting" /\ call'[e] = Idle)
  <2>1. CASE call' = before
    BY <1>1, <2>1
  <2>2. CASE call' = Notified(before, agents)
    <3>1. /\ call' \in [Calls -> CallRec]
          /\ \A e \in Calls : /\ call'[e] = before[e] \/ call'[e] = Idle
                              /\ before[e].pc # "waiting" => call'[e] = before[e]
      BY ONLY <1>1, <2>2, NotifiedDoes
    <3>2. QED
      BY <3>1
  <2>3. QED
    BY <2>1, <2>2
<1>3. QED
  BY <1>1, <1>2 DEF Others

(***************************************************************************)
(* Aborting a run settles its agent.                                       *)
(***************************************************************************)
LEMMA AbortSettles ==
  ASSUME NEW x, AgentOK(x), NEW s, NEW y, y = Abort(x, s)
  PROVE  /\ AgentOK(y) /\ Settles(x, y)
         /\ y.sessions = x.sessions /\ y.bound = x.bound /\ y.latest = x.latest /\ y.row = x.row
         /\ Shown(x) => Shown(y)
         /\ Agree(x) => Agree(y)
<1>1. /\ AgentOK(y) /\ SameRuns(x, y)
      /\ y.sessions = x.sessions /\ y.bound = x.bound /\ y.inFlight = x.inFlight
      /\ y.latest = x.latest /\ y.row = x.row
  BY AbortDoes
<1>2. Len(x.sessions) \in Nat /\ (x.inFlight # 0 => x.inFlight \in 1..Len(x.runs))
  BY AgentFields DEF AgentOK
<1>3. Settles(x, y)
  BY <1>1, <1>2 DEF Settles
<1>4. Shown(x) => Shown(y)
  BY <1>1, <1>2 DEF Shown, SameRuns
<1>5. Agree(x) => Agree(y)
  BY <1>1 DEF Agree
<1>6. QED
  BY <1>1, <1>3, <1>4, <1>5

(***************************************************************************)
(* Reopening a session settles its agent, and the row no longer says       *)
(* closed.                                                                 *)
(***************************************************************************)
LEMMA ReopenSettles ==
  ASSUME NEW x, AgentOK(x), NEW s \in 1..Len(x.sessions), s = x.bound, NEW y, y = Reopen(x, s)
  PROVE  /\ AgentOK(y) /\ Settles(x, y)
         /\ Shown(x) => Shown(y)
         /\ Agree(x) => y.row # "closed"
         /\ ~y.sessions[s].closed /\ y.bound = x.bound /\ y.latest = x.latest
         /\ y.sessions[s].running = x.sessions[s].running
         /\ ~x.sessions[s].closed => y = x
<1>1. /\ AgentOK(y)
      /\ y.runs = x.runs /\ y.bound = x.bound /\ y.inFlight = x.inFlight /\ y.latest = x.latest
      /\ Len(y.sessions) = Len(x.sessions)
      /\ \A q \in 1..Len(x.sessions) : y.sessions[q].running = x.sessions[q].running
      /\ ~y.sessions[s].closed
      /\ IF x.sessions[s].closed THEN y.row # "closed" ELSE y = x
  BY ReopenDoes
<1>2. Len(x.sessions) \in Nat
  BY AgentFields DEF AgentOK
<1>3. Settles(x, y)
  BY <1>1, <1>2 DEF Settles, SameRuns
<1>4. Shown(x) => Shown(y)
  BY <1>1 DEF Shown
<1>5. Agree(x) => y.row # "closed"
  BY <1>1 DEF Agree
<1>6. QED
  BY <1>1, <1>3, <1>4, <1>5

(***************************************************************************)
(* A run that is tracked while none is in flight leaves the agent sound;   *)
(* in a session that shows no turn it is not refused.                      *)
(***************************************************************************)
LEMMA TrackSound ==
  ASSUME NEW x, AgentOK(x), NEW s \in 1..Len(x.sessions), s = x.bound, Len(x.runs) < MaxRuns,
         Sound(x), x.inFlight = 0, NEW y, y = Track(x, s)
  PROVE  /\ Sound(y)
         /\ Taken(x) /\ ~x.sessions[s].running => Taken(y)
         /\ Showing(x) => Showing(y)
<1>. DEFINE n == Len(x.runs) + 1
<1>1. /\ AgentOK(y) /\ y.latest = "running" /\ y.inFlight = n
      /\ y.sessions = x.sessions /\ y.bound = x.bound
      /\ Len(y.runs) = n
      /\ \A r \in 1..Len(x.runs) : y.runs[r] = x.runs[r]
      /\ y.runs[n].s = s /\ y.runs[n].tracked
      /\ y.runs[n].at = IF x.sessions[s].running THEN "refused" ELSE "asked"
  BY TrackDoes
<1>2. Len(x.runs) \in Nat /\ \A k \in 1..Len(x.runs) : x.runs[k].s \in 1..Len(x.sessions)
  BY AgentFields DEF AgentOK
<1>3. n \in 1..n /\ n # 0 /\ \A k \in 1..n : k # n => k \in 1..Len(x.runs) /\ y.runs[k] = x.runs[k]
  BY <1>1, <1>2
<1>. HIDE DEF n
<1>4. \A k \in 1..Len(x.runs) : x.runs[k].at = "done" \/ (x.runs[k].at = "turn" /\ ~x.runs[k].tracked)
  <2>1. SUFFICES ASSUME NEW k \in 1..Len(x.runs)
                 PROVE  x.runs[k].at = "done" \/ (x.runs[k].at = "turn" /\ ~x.runs[k].tracked)
    OBVIOUS
  <2>2. k # 0
    BY <1>2
  <2>3. QED
    BY <2>2 DEF Sound, Alone
<1>5. Alone(y)
  <2>1. SUFFICES ASSUME NEW k \in 1..n, k # n
                 PROVE  ~(y.runs[k].at # "done" /\ (y.runs[k].tracked \/ y.runs[k].at # "turn"))
    BY <1>1 DEF Alone
  <2>2. k \in 1..Len(x.runs) /\ y.runs[k] = x.runs[k]
    BY <1>3, <2>1
  <2>3. QED
    BY <1>4, <2>2
<1>6. Shown(y)
  <2>1. y.latest \notin Terminal
    BY <1>1 DEF Terminal
  <2>2. y.runs[n].at # "turn"
    BY <1>1
  <2>3. QED
    BY <1>1, <2>1, <2>2 DEF Shown
<1>7. Busy(y)
  <2>1. SUFFICES ASSUME NEW k \in 1..n
                 PROVE  /\ y.runs[k].at = "turn" => x.sessions[y.runs[k].s].running
                        /\ y.runs[k].at = "asked" => ~x.sessions[y.runs[k].s].running
    BY <1>1 DEF Busy
  <2>2. CASE k = n
    BY <1>1, <2>2
  <2>3. CASE k # n
    <3>1. k \in 1..Len(x.runs) /\ y.runs[k] = x.runs[k]
      BY <1>3, <2>3
    <3>2. QED
      BY <3>1 DEF Sound, Busy
  <2>4. QED
    BY <2>2, <2>3
<1>8. Apart(y)
  <2>1. SUFFICES ASSUME NEW q \in 1..n, NEW k \in 1..n, q # k,
                        y.runs[q].at \in {"asked", "turn"}, y.runs[k].at \in {"asked", "turn"}
                 PROVE  y.runs[q].s # y.runs[k].s
    BY <1>1 DEF Apart
  <2>2. \A i \in 1..n : i # n /\ y.runs[i].at \in {"asked", "turn"} =>
          x.sessions[y.runs[i].s].running /\ y.runs[i] = x.runs[i] /\ i \in 1..Len(x.runs)
    BY <1>3, <1>4 DEF Sound, Busy
  <2>3. y.runs[n].at \in {"asked", "turn"} => ~x.sessions[y.runs[n].s].running
    BY <1>1
  <2>4. CASE q # n /\ k # n
    BY <2>1, <2>2, <2>4 DEF Sound, Apart
  <2>5. CASE q = n
    BY <2>1, <2>2, <2>3, <2>5
  <2>6. CASE k = n
    BY <2>1, <2>2, <2>3, <2>6
  <2>7. QED
    BY <2>4, <2>5, <2>6
<1>9. ASSUME Taken(x), ~x.sessions[s].running PROVE Taken(y)
  <2>1. SUFFICES ASSUME NEW k \in 1..n PROVE y.runs[k].tracked /\ y.runs[k].at # "refused"
    BY <1>1 DEF Taken
  <2>2. CASE k = n
    BY <1>1, <1>9, <2>2
  <2>3. CASE k # n
    BY <1>3, <1>9, <2>3 DEF Taken
  <2>4. QED
    BY <2>2, <2>3
<1>10. ASSUME Showing(x) PROVE Showing(y)
  <2>1. SUFFICES ASSUME NEW q \in 1..Len(x.sessions), x.sessions[q].running
                 PROVE  \E k \in 1..n : y.runs[k].at = "turn" /\ y.runs[k].s = q
    BY <1>1 DEF Showing
  <2>2. PICK k \in 1..Len(x.runs) : x.runs[k].at = "turn" /\ x.runs[k].s = q
    BY <1>10, <2>1 DEF Showing
  <2>3. k \in 1..n
    BY <1>2, <2>2 DEF n
  <2>4. QED
    BY <1>1, <2>2, <2>3
<1>11. QED
  BY <1>5, <1>6, <1>7, <1>8, <1>9, <1>10 DEF Sound

(***************************************************************************)
(* A call that is on no agent, before and after, leaves the calls on       *)
(* agents alone.                                                           *)
(***************************************************************************)
LEMMA CallerSame ==
  ASSUME Typed, NEW c \in Calls, Others(c), call[c].pc \notin {"joining", "closing"},
         call'[c].pc \notin {"joining", "closing"}, NEW a \in Agents
  PROVE  SameCalls(a)
<1>1. ~On(c, a) /\ ~On(c, a)'
  BY DEF On
<1>2. QED
  BY <1>1, OthersSame

(***************************************************************************)
(* An agent that is settled keeps its part of the invariant, if it shows   *)
(* its run in flight, stays bound to what calls await, and agrees on       *)
(* whether it is closed.                                                   *)
(***************************************************************************)
LEMMA SettledKeeps ==
  ASSUME Inv, \A e \in Calls : CallOK(e)', NEW a \in Agents, NEW y, y = agent'[a],
         SameCalls(a), AgentOK(y), Settles(agent[a], y), Spreads,
         a \notin crossed' =>
           /\ Shown(y)
           /\ (\E e \in Calls : On(e, a)) => y.bound = agent[a].bound,
         a \notin crossed' \cup foreign' =>
           /\ BeingClosed(a) => y.sessions[y.bound].closed
           /\ ~BeingClosed(a) => Agree(y)
           /\ \A e \in Calls : On(e, a) /\ call[e].op = "input" => y.row # "closed"
  PROVE  Keeps(a)
<1>1. AgentOK(agent[a])
  BY DEF Inv, Typed
<1>2. /\ Sound(agent[a]) /\ Shown(y) => Sound(y)
      /\ Taken(agent[a]) => Taken(y)
      /\ Showing(agent[a]) => Showing(y)
  BY <1>1, SettlesSound
<1>3. Len(y.runs) = Len(agent[a].runs) /\ y.inFlight = agent[a].inFlight
  BY DEF Settles, SameRuns
<1>4. Budgeted(a)'
  BY <1>3, BudgetStays DEF Inv
<1>5. ASSUME a \notin crossed' PROVE LoneAt(a)'
  <2>1. LoneAt(a)
    BY <1>5 DEF Inv, Lone, Spreads
  <2>2. QED
    BY <1>2, <1>3, <1>5, <2>1, LoneStays DEF LoneAt
<1>6. ASSUME a \notin crossed' \cup foreign' PROVE KeptAt(a)'
  <2>1. KeptAt(a)
    BY <1>6 DEF Inv, Kept, Spreads
  <2>2. QED
    BY <1>2, <1>6, <2>1, KeptStays DEF KeptAt
<1>7. QED
  BY <1>4, <1>5, <1>6 DEF Keeps

(***************************************************************************)
(* Settling an agent only adds sessions.                                   *)
(***************************************************************************)
LEMMA SettledGrows ==
  ASSUME Typed, NEW a \in Agents, agent'[a] = agent[a] \/ (agent[a] # NoAgent /\ Settles(agent[a], agent'[a]))
  PROVE  Grows(a)
<1>1. Len(agent[a].sessions) \in Nat
  BY AgentFields DEF Typed
<1>2. QED
  BY <1>1 DEF Grows, Settles

(***************************************************************************)
(* An agent a call waits for is bound.                                     *)
(***************************************************************************)
LEMMA OnBinds ==
  ASSUME Inv, NEW a \in Agents \ crossed, NEW e \in Calls, On(e, a)
  PROVE  agent[a].bound \in 1..Len(agent[a].sessions) /\ agent[a].bound # 0
<1>1. call[e].s = agent[a].bound
  BY DEF Inv, Lone, LoneAt
<1>2. call[e].s \in 1..Len(agent[a].sessions)
  BY DEF Inv, Typed, CallOK, On
<1>3. QED
  BY <1>1, <1>2

SpawningOf(a) == [Idle EXCEPT !.pc = "spawning", !.op = "spawn", !.ids = {a}]

(***************************************************************************)
(* Spawn keeps the invariant: it reserves an agent nobody else is about to *)
(* build.                                                                  *)
(***************************************************************************)
LEMMA SpawnKeeps ==
  ASSUME Inv, NEW c \in Calls, NEW a \in Agents, Spawn(c, a)
  PROVE  Inv'
<1>1. /\ call[c] = Idle /\ spent < Budget /\ spent' = spent + 1
      /\ agent[a] = NoAgent
      /\ \A d \in Calls : call[d].pc = "spawning" => a \notin call[d].ids
      /\ call' = [call EXCEPT ![c] = SpawningOf(a)]
      /\ UNCHANGED <<agent, deleted, crossed, foreign>>
  BY Zenon DEF Spawn, Called, SpawningOf
<1>2. /\ SpawningOf(a) \in CallRec /\ SpawningOf(a).pc = "spawning" /\ SpawningOf(a).op = "spawn"
      /\ SpawningOf(a).ids = {a}
  BY DEF SpawningOf, CallRec, Idle
<1>3. /\ call' \in [Calls -> CallRec] /\ call'[c] = SpawningOf(a)
      /\ \A e \in Calls : e # c => call'[e] = call[e]
  BY <1>1, <1>2 DEF Inv, Typed
<1>4. \A b \in Agents : SameCalls(b)
  BY <1>1, <1>2, <1>3, IdleIs DEF SameCalls, On
<1>5. ASSUME NEW e \in Calls PROVE CallOK(e)'
  <2>1. CASE e = c
    BY <1>1, <1>2, <1>3, <2>1 DEF CallOK
  <2>2. CASE e # c
    <3>1. \A b \in Agents : Grows(b)
      BY <1>1, SettledGrows DEF Inv
    <3>2. QED
      BY <1>3, <2>2, <3>1, CallStays DEF Inv
  <2>3. QED
    BY <2>1, <2>2
<1>6. SpawnsApart'
  BY <1>1, <1>2, <1>3 DEF SpawnsApart, Inv, Typed
<1>7. ASSUME NEW b \in Agents PROVE Keeps(b)
  BY <1>1, <1>4, <1>5, UntouchedKeeps DEF Spreads
<1>8. spent' \in 0..Budget
  BY <1>1, AgentsAssumption DEF Inv, Typed
<1>9. QED
  BY <1>1, <1>3, <1>5, <1>6, <1>7, <1>8, ManyAgents DEF Inv, Typed

(***************************************************************************)
(* WaitTimesOut keeps the invariant.                                       *)
(***************************************************************************)
LEMMA TimeoutKeeps ==
  ASSUME Inv, NEW c \in Calls, WaitTimesOut(c)
  PROVE  Inv'
<1>1. /\ call[c].pc = "waiting" /\ call' = [call EXCEPT ![c] = Idle]
      /\ UNCHANGED <<agent, deleted, spent, crossed, foreign>>
  BY DEF WaitTimesOut
<1>2. call' \in [Calls -> CallRec] /\ Others(c) /\ call'[c] = Idle
  BY <1>1, IdleIs, CallerCalls DEF Inv
<1>3. \A b \in Agents : SameCalls(b)
  BY <1>1, <1>2, IdleIs, CallerSame DEF Inv
<1>4. (\A e \in Calls : CallOK(e)') /\ SpawnsApart'
  <2>1. CallOK(c)' /\ call'[c].pc # "spawning"
    BY <1>2, IdleIs DEF CallOK
  <2>2. \A b \in Agents : Grows(b)
    BY <1>1, SettledGrows DEF Inv
  <2>3. QED
    BY <1>2, <2>1, <2>2, OthersOK DEF Inv
<1>5. ASSUME NEW b \in Agents PROVE Keeps(b)
  BY <1>1, <1>3, <1>4, UntouchedKeeps DEF Spreads
<1>6. QED
  BY <1>1, <1>2, <1>4, <1>5, ManyAgents DEF Inv, Typed

Built == [NoAgent EXCEPT !.sessions = <<Opened("completed")>>, !.bound = 1, !.row = "completed"]

(***************************************************************************)
(* An agent just built has one open session, and no run.                   *)
(***************************************************************************)
LEMMA BuiltIs ==
  /\ AgentOK(Built) /\ Len(Built.runs) = 0 /\ Len(Built.sessions) = 1 /\ Built.bound = 1
  /\ Built.inFlight = 0 /\ Built.row = "completed" /\ ~Built.sessions[1].running
  /\ ~Built.sessions[1].closed
<1>1. PICK e \in Session : e = Opened("completed") /\ ~e.running /\ ~e.closed
  BY OpenedSession
<1>2. PICK ss : ss = <<e>>
  OBVIOUS
<1>3. ss \in Seq(Session) /\ Len(ss) = 1 /\ ss[1] = e
  BY <1>2
<1>4. PICK rs : rs = <<>>
  OBVIOUS
<1>5. rs \in Seq(Run) /\ Len(rs) = 0
  BY <1>4
<1>6. PICK y : y = Built
  OBVIOUS
<1>7. y = [NoAgent EXCEPT !.sessions = ss, !.bound = 1, !.row = "completed"]
  BY <1>1, <1>2, <1>6, Zenon DEF Built
<1>8. y = [sessions |-> ss, bound |-> 1, row |-> "completed", runs |-> rs, inFlight |-> 0,
           latest |-> "none"]
  BY <1>4, <1>7 DEF NoAgent
<1>9. /\ y \in Agent /\ y.sessions = ss /\ y.bound = 1 /\ y.row = "completed" /\ y.runs = rs
      /\ y.inFlight = 0
  BY <1>3, <1>5, <1>8 DEF Agent, States
<1>10. AgentOK(y)
  <2>1. \A r \in 1..Len(rs) : FALSE
    BY <1>5
  <2>2. Len(ss) <= MaxSessions /\ Len(rs) <= MaxRuns
    BY <1>3, <1>5, AgentsAssumption
  <2>3. 1 <= Len(ss) /\ 0 <= Len(rs)
    BY <1>3, <1>5
  <2>4. QED
    BY <1>9, <2>1, <2>2, <2>3 DEF AgentOK
<1>11. QED
  BY <1>1, <1>3, <1>5, <1>6, <1>9, <1>10

(***************************************************************************)
(* Spawned keeps the invariant: the first run of the agent is in flight.   *)
(***************************************************************************)
LEMMA SpawnedKeeps ==
  ASSUME Inv, NEW c \in Calls, Spawned(c)
  PROVE  Inv'
<1>1. call[c].pc = "spawning" /\ UNCHANGED <<deleted, spent, crossed, foreign>>
  BY DEF Spawned
<1>2. PICK a \in Agents : call[c].ids = {a} /\ agent[a] = NoAgent
  BY <1>1 DEF Inv, Typed, CallOK
<1>3. PICK w, s, y, before : /\ w = Publish(Built, "pending_init") /\ s = 1 /\ y = Track(w, s)
                             /\ before = [call EXCEPT ![c] = Idle]
  OBVIOUS
<1>4. agent' = [agent EXCEPT ![a] = y] /\ call' = Notified(before, agent')
  <2>1. Publishes(before, [agent EXCEPT ![a] = y])
    BY <1>2, <1>3, Zenon DEF Spawned, Built
  <2>2. QED
    BY <2>1 DEF Publishes
<1>5. /\ AgentOK(w) /\ Len(w.runs) = 0 /\ Len(w.sessions) = 1 /\ w.bound = 1
      /\ w.inFlight = 0 /\ w.row = "completed" /\ ~w.sessions[1].running /\ ~w.sessions[1].closed
  <2>1. "pending_init" \in States
    BY DEF States
  <2>2. QED
    BY <1>3, <2>1, BuiltIs, PublishDoes
<1>6. Sound(w) /\ Taken(w) /\ Showing(w)
  BY <1>5 DEF Sound, Alone, Shown, Busy, Apart, Taken, Showing
<1>7. s \in 1..Len(w.sessions) /\ s = w.bound /\ Len(w.runs) < MaxRuns
  BY <1>3, <1>5, AgentsAssumption
<1>8. /\ AgentOK(y) /\ y.latest = "running" /\ Len(y.runs) = 1 /\ y.bound = s
      /\ y.sessions = w.sessions /\ y.row = "completed"
      /\ Sound(y) /\ Taken(y) /\ Showing(y)
  <2>1. /\ AgentOK(y) /\ y.latest = "running" /\ y.inFlight = Len(w.runs) + 1
        /\ y.sessions = w.sessions /\ y.bound = w.bound /\ y.row = w.row
        /\ Len(y.runs) = Len(w.runs) + 1
    BY <1>3, <1>5, <1>7, TrackDoes
  <2>2. /\ Sound(y)
        /\ Taken(w) /\ ~w.sessions[s].running => Taken(y)
        /\ Showing(w) => Showing(y)
    BY <1>3, <1>5, <1>6, <1>7, TrackSound
  <2>3. ~w.sessions[s].running
    BY <1>3, <1>5
  <2>4. QED
    BY <1>5, <1>6, <1>7, <2>1, <2>2, <2>3
<1>9. call' \in [Calls -> CallRec] /\ Others(c) /\ call'[c] = Idle
  BY <1>3, <1>4, IdleIs, CallerCalls DEF Inv
<1>10. \A b \in Agents : SameCalls(b)
  BY <1>1, <1>9, IdleIs, CallerSame DEF Inv
<1>11. \A e \in Calls : ~On(e, a)
  BY <1>2 DEF Inv, Typed, CallOK, On, NoAgent
<1>12. agent'[a] = y /\ \A b \in Agents : b # a => agent'[b] = agent[b]
  BY <1>4 DEF Inv, Typed
<1>13. ASSUME NEW e \in Calls PROVE CallOK(e)'
  <2>1. CASE call'[e] = Idle
    BY <2>1, IdleIs DEF CallOK
  <2>2. CASE call'[e] # Idle
    <3>1. call'[e] = call[e] /\ e # c
      BY <1>9, <2>2 DEF Others
    <3>2. CallOK(e)
      BY DEF Inv, Typed
    <3>3. CASE call[e].pc \in {"joining", "closing"}
      <4>1. PICK b \in Agents : call[e].ids = {b} /\ call[e].s \in 1..Len(agent[b].sessions)
        BY <3>2, <3>3 DEF CallOK
      <4>2. b # a
        BY <1>11, <3>3, <4>1 DEF On
      <4>3. QED
        BY <1>12, <3>1, <3>2, <3>3, <4>1, <4>2 DEF CallOK
    <3>4. CASE call[e].pc = "spawning"
      <4>1. PICK b \in Agents : call[e].ids = {b} /\ agent[b] = NoAgent
        BY <3>2, <3>4 DEF CallOK
      <4>2. b # a
        BY <1>1, <1>2, <3>1, <3>4, <4>1 DEF Inv, Typed, SpawnsApart
      <4>3. QED
        BY <1>12, <3>1, <3>2, <3>4, <4>1, <4>2 DEF CallOK
    <3>5. CASE call[e].pc \notin {"joining", "closing", "spawning"}
      BY <3>1, <3>2, <3>5 DEF CallOK
    <3>6. QED
      BY <3>3, <3>4, <3>5
  <2>3. QED
    BY <2>1, <2>2
<1>14. SpawnsApart'
  <2>1. \A e \in Calls : call'[e].pc = "spawning" => call'[e] = call[e]
    BY <1>9, IdleIs DEF Others
  <2>2. QED
    BY <2>1 DEF SpawnsApart, Inv, Typed
<1>15. Keeps(a)
  <2>1. Inputs(a)' = {}
    <3>1. Inputs(a)' = Inputs(a)
      BY <1>10, <1>13, SameInputs DEF Inv
    <3>2. Inputs(a) = {}
      BY <1>11 DEF Inputs, On, Inv, Typed, CallOK
    <3>3. QED
      BY <3>1, <3>2
  <2>2. Budgeted(a)'
    <3>1. Cardinality(Inputs(a)') = 0
      BY <2>1, FS_EmptySet
    <3>2. Len(agent'[a].runs) + Cardinality(Inputs(a)') <= MaxRuns
      <4>1. Len(agent'[a].runs) = 1 /\ 1 <= MaxRuns
        BY <1>8, <1>12, AgentsAssumption
      <4>2. QED
        BY <3>1, <4>1
    <3>3. QED
      BY <3>2 DEF Budgeted
  <2>3. ~BeingClosed(a) /\ \A e \in Calls : ~On(e, a)'
    BY <1>10, <1>11 DEF BeingClosed, SameCalls, On
  <2>4. Agree(y)
    BY <1>3, <1>5, <1>8 DEF Agree
  <2>5. Sound(agent[a])'
    BY <1>8, <1>12
  <2>6. LoneAt(a)'
    BY <2>3, <2>5 DEF LoneAt
  <2>7. KeptAt(a)'
    BY <1>8, <1>10, <1>11, <1>12, <2>3, <2>4, KeptStays
  <2>8. QED
    BY <1>8, <1>12, <2>2, <2>6, <2>7 DEF Keeps
<1>16. QED
  BY <1>1, <1>4, <1>9, <1>10, <1>13, <1>14, <1>15, OneAgent DEF Inv, Typed, Spreads

(***************************************************************************)
(* A call that crosses another on an agent is recorded.                    *)
(***************************************************************************)
LEMMA CrossesDoes ==
  ASSUME Inv, NEW a \in Agents, Crosses(a)
  PROVE  /\ crossed' \subseteq Agents /\ crossed \subseteq crossed'
         /\ a \notin crossed' => a \notin crossed /\ \A e \in Calls : ~On(e, a)
BY DEF Crosses, On, Inv, Typed

(***************************************************************************)
(* Settling twice settles.                                                 *)
(***************************************************************************)
LEMMA SettlesOn ==
  ASSUME NEW x, NEW y, NEW z, AgentOK(x), AgentOK(y), AgentOK(z), Settles(x, y), Settles(y, z)
  PROVE  Settles(x, z)
<1>1. /\ Len(x.sessions) \in Nat /\ Len(y.sessions) \in Nat /\ Len(z.sessions) \in Nat
      /\ Len(x.runs) \in Nat
  BY AgentFields DEF AgentOK
<1>2. SameRuns(x, z) /\ z.inFlight = x.inFlight /\ Len(z.sessions) >= Len(x.sessions)
  BY <1>1 DEF Settles, SameRuns
<1>3. \A s \in 1..Len(x.sessions) : z.sessions[s].running = x.sessions[s].running
  <2>1. \A s \in 1..Len(x.sessions) : s \in 1..Len(y.sessions)
    BY <1>1 DEF Settles
  <2>2. QED
    BY <2>1 DEF Settles
<1>4. ASSUME NEW s \in 1..Len(z.sessions), s > Len(x.sessions) PROVE ~z.sessions[s].running
  <2>1. CASE s > Len(y.sessions)
    BY <2>1 DEF Settles
  <2>2. CASE s \in 1..Len(y.sessions)
    BY <1>4, <2>2 DEF Settles
  <2>3. QED
    BY <1>1, <2>1, <2>2
<1>5. QED
  BY <1>2, <1>3, <1>4 DEF Settles

(***************************************************************************)
(* A bound session that shows a turn is open, and its run is in flight.    *)
(***************************************************************************)
LEMMA BusyOpen ==
  ASSUME NEW x, AgentOK(x), Sound(x), Taken(x), Showing(x),
         NEW s \in 1..Len(x.sessions), s = x.bound, x.sessions[s].running
  PROVE  ~x.sessions[s].closed
<1>1. PICK r \in 1..Len(x.runs) : x.runs[r].at = "turn" /\ x.runs[r].s = s
  BY DEF Showing
<1>2. r = x.inFlight /\ r # 0
  BY <1>1, AgentFields DEF Taken, Sound, Alone, AgentOK
<1>3. QED
  BY <1>1, <1>2 DEF Sound, Shown

(***************************************************************************)
(* Where a run may be started there is room for it, also if it has to      *)
(* wait.                                                                   *)
(***************************************************************************)
LEMMA MayRunOne ==
  ASSUME Typed, NEW a \in Agents, MayRun(a)
  PROVE  /\ Len(agent[a].runs) < MaxRuns
         /\ Len(agent[a].runs) + (Cardinality(Inputs(a)) + 1) <= MaxRuns
<1>1. Cardinality(Inputs(a)) \in Nat /\ Len(agent[a].runs) \in Nat
  BY AgentFields, AgentsAssumption, FS_Subset, FS_CardinalityType DEF Inputs, Typed
<1>2. Len(agent[a].runs) + Cardinality(Inputs(a)) < MaxRuns
  BY DEF MayRun, Inputs
<1>3. QED
  BY <1>1, <1>2, AgentsAssumption

(***************************************************************************)
(* All calls are well formed after a step of c on an agent that exists.    *)
(***************************************************************************)
LEMMA CallOKAll ==
  ASSUME Typed, NEW c \in Calls, NEW a \in Agents, NEW y,
         agent' = [agent EXCEPT ![a] = y], Others(c),
         agent[a] # NoAgent, AgentOK(y), Len(y.sessions) >= Len(agent[a].sessions),
         CallOK(c)', call'[c].pc # "spawning"
  PROVE  (\A e \in Calls : CallOK(e)') /\ SpawnsApart'
<1>1. agent'[a] = y /\ \A b \in Agents : b # a => agent'[b] = agent[b]
  BY DEF Typed
<1>2. \A b \in Agents : Len(agent[b].sessions) \in Nat
  BY AgentFields DEF Typed
<1>3. \A b \in Agents : Grows(b)
  BY <1>1, <1>2 DEF Grows
<1>4. QED
  BY <1>3, OthersOK

(***************************************************************************)
(* A call that begins to await the run of an agent keeps the invariant:    *)
(* unless it crosses another, it is the only one on that agent.            *)
(***************************************************************************)
LEMMA JoinKeeps ==
  ASSUME Inv, NEW c \in Calls, NEW a \in Agents, call[c] = Idle, agent[a] # NoAgent,
         NEW y, AgentOK(y), Settles(agent[a], y), y.bound \in 1..Len(y.sessions),
         NEW rec \in CallRec, rec.pc = "joining", rec.op \in {"input", "close"}, rec.ids = {a},
         rec.s = y.bound, rec.run = y.inFlight,
         agent' = [agent EXCEPT ![a] = y], call' = [call EXCEPT ![c] = rec],
         Crosses(a), UNCHANGED <<deleted, foreign>>, spent' \in 0..Budget,
         rec.op = "input" => MayRun(a),
         a \notin crossed' => Shown(y),
         a \notin crossed' \cup foreign' => Agree(y) /\ (rec.op = "input" => y.row # "closed")
  PROVE  Inv'
<1>1. /\ crossed' \subseteq Agents /\ crossed \subseteq crossed'
      /\ a \notin crossed' => a \notin crossed /\ \A e \in Calls : ~On(e, a)
  BY CrossesDoes
<1>2. AgentOK(agent[a]) /\ agent'[a] = y
  BY DEF Inv, Typed
<1>3. /\ call' \in [Calls -> CallRec] /\ call'[c] = rec
      /\ \A e \in Calls : e # c => call'[e] = call[e]
  BY DEF Inv, Typed
<1>4. Others(c)
  BY <1>3 DEF Others
<1>5. (\A e \in Calls : CallOK(e)') /\ SpawnsApart'
  <2>1. CallOK(c)'
    BY <1>2, <1>3 DEF CallOK
  <2>2. Len(y.sessions) >= Len(agent[a].sessions)
    BY DEF Settles
  <2>3. QED
    BY <1>3, <1>4, <2>1, <2>2, CallOKAll DEF Inv
<1>6. \A b \in Agents : b # a => SameCalls(b)
  <2>1. \A b \in Agents : b # a => ~On(c, b) /\ ~On(c, b)'
    BY <1>3, IdleIs DEF On
  <2>2. QED
    BY <1>4, <2>1, OthersSame DEF Inv
<1>7. Budgeted(a)'
  <2>1. \A e \in Inputs(a) : e # c
    BY IdleIs DEF Inputs
  <2>2. IsFiniteSet(Inputs(a)) /\ Cardinality(Inputs(a)) \in Nat
    BY AgentsAssumption, FS_Subset, FS_CardinalityType DEF Inputs
  <2>3. Len(y.runs) = Len(agent[a].runs)
    BY DEF Settles, SameRuns
  <2>4. CASE rec.op = "input"
    <3>1. Inputs(a)' = Inputs(a) \cup {c}
      BY <1>3, <2>1, <2>4 DEF Inputs
    <3>2. Cardinality(Inputs(a)') = Cardinality(Inputs(a)) + 1
      BY <2>1, <2>2, <3>1, FS_AddElement
    <3>3. Len(agent[a].runs) + (Cardinality(Inputs(a)) + 1) <= MaxRuns
      BY <2>4, MayRunOne DEF Inv
    <3>4. Len(agent'[a].runs) + Cardinality(Inputs(a)') <= MaxRuns
      BY <1>2, <2>3, <3>2, <3>3
    <3>5. QED
      BY <3>4 DEF Budgeted
  <2>5. CASE rec.op # "input"
    <3>1. Inputs(a)' = Inputs(a)
      BY <1>3, <2>1, <2>5 DEF Inputs
    <3>2. Len(agent[a].runs) + Cardinality(Inputs(a)) <= MaxRuns
      BY DEF Inv, Typed, Budgeted
    <3>3. Len(agent'[a].runs) + Cardinality(Inputs(a)') <= MaxRuns
      BY <1>2, <2>3, <3>1, <3>2
    <3>4. QED
      BY <3>3 DEF Budgeted
  <2>6. QED
    BY <2>4, <2>5
<1>8. /\ Sound(agent[a]) /\ Shown(y) => Sound(y)
      /\ Taken(agent[a]) => Taken(y)
      /\ Showing(agent[a]) => Showing(y)
  BY <1>2, SettlesSound
<1>9. ASSUME a \notin crossed' PROVE \A e \in Calls : On(e, a)' => e = c
  BY <1>1, <1>3, <1>9 DEF On
<1>10. ASSUME a \notin crossed' PROVE LoneAt(a)'
  <2>1. Sound(agent[a])'
    BY <1>1, <1>2, <1>8, <1>10 DEF Inv, Lone, LoneAt
  <2>2. QED
    BY <1>2, <1>3, <1>9, <1>10, <2>1 DEF LoneAt
<1>11. ASSUME a \notin crossed' \cup foreign' PROVE KeptAt(a)'
  <2>1. Taken(agent[a])' /\ Showing(agent[a])'
    BY <1>1, <1>2, <1>8, <1>11 DEF Inv, Kept, KeptAt
  <2>2. ~BeingClosed(a)'
    BY <1>3, <1>9, <1>11 DEF BeingClosed
  <2>3. Agree(agent[a])'
    BY <1>2, <1>11
  <2>4. \A e \in Calls : On(e, a)' /\ call'[e].op = "input" => agent'[a].row # "closed"
    BY <1>2, <1>3, <1>9, <1>11
  <2>5. QED
    BY <2>1, <2>2, <2>3, <2>4 DEF KeptAt
<1>12. QED
  BY <1>1, <1>2, <1>3, <1>5, <1>6, <1>7, <1>10, <1>11, OneAgent DEF Inv, Typed, Keeps, Spreads

(***************************************************************************)
(* A call that settles an agent and waits for nothing keeps the invariant. *)
(***************************************************************************)
LEMMA SettlingKeeps ==
  ASSUME Inv, NEW a \in Agents, agent[a] # NoAgent,
         NEW y, AgentOK(y), Settles(agent[a], y), agent' = [agent EXCEPT ![a] = y],
         UNCHANGED call \/ call' = Notified(call, agent'),
         Crosses(a), UNCHANGED <<deleted, foreign>>, spent' \in 0..Budget,
         a \notin crossed' => Shown(y),
         a \notin crossed' \cup foreign' => Agree(y)
  PROVE  Inv'
<1>1. /\ crossed' \subseteq Agents /\ crossed \subseteq crossed'
      /\ a \notin crossed' => a \notin crossed /\ \A e \in Calls : ~On(e, a)
  BY CrossesDoes
<1>2. agent'[a] = y /\ \A b \in Agents : b # a => agent'[b] = agent[b]
  BY DEF Inv, Typed
<1>3. /\ call' \in [Calls -> CallRec]
      /\ \A c : Others(c)
      /\ \A b \in Agents : SameCalls(b)
  BY QuietCalls DEF Inv
<1>4. \A b \in Agents : Grows(b)
  BY <1>2, SettledGrows DEF Inv
<1>5. (\A e \in Calls : CallOK(e)') /\ SpawnsApart'
  <2>1. PICK c : c \notin Calls
    BY NoSetContainsEverything
  <2>2. QED
    BY <1>3, <1>4, <2>1, OthersOK DEF Inv
<1>6. Spreads
  BY <1>1 DEF Spreads
<1>7. Keeps(a)
  <2>1. a \notin crossed' => ~BeingClosed(a) /\ \A e \in Calls : ~On(e, a)
    BY <1>1 DEF BeingClosed
  <2>2. QED
    BY <1>2, <1>3, <1>5, <1>6, <2>1, SettledKeeps
<1>8. QED
  BY <1>1, <1>3, <1>5, <1>6, <1>7, OneAgent DEF Inv, Typed
Joining(op, a, s, run) ==
  [Idle EXCEPT !.pc = "joining", !.op = op, !.ids = {a}, !.s = s, !.run = run]

(***************************************************************************)
(* A call that awaits a run is a call.                                     *)
(***************************************************************************)
LEMMA JoiningIs ==
  ASSUME NEW op \in {"input", "close"}, NEW a \in Agents, NEW s \in Nat, NEW run \in Nat,
         NEW rec, rec = Joining(op, a, s, run)
  PROVE  /\ rec \in CallRec /\ rec.pc = "joining" /\ rec.op = op /\ rec.ids = {a}
         /\ rec.s = s /\ rec.run = run
<1>1. rec = [pc |-> "joining", op |-> op, ids |-> {a}, s |-> s, run |-> run, all |-> FALSE]
  BY DEF Joining, Idle
<1>2. QED
  BY <1>1 DEF CallRec

(***************************************************************************)
(* A call is made while nothing is about to go on, from a free place and   *)
(* within the budget.                                                      *)
(***************************************************************************)
LEMMA CalledIs ==
  ASSUME Inv, NEW c, Called(c)
  PROVE  Quiet /\ call[c] = Idle /\ spent' \in 0..Budget
BY AgentsAssumption DEF Called, Inv, Typed

(***************************************************************************)
(* The agent a call finds, bound: what it showed and kept, it still does.  *)
(***************************************************************************)
LEMMA FoundIs ==
  ASSUME Inv, NEW a \in Agents, NEW w, w = agent[a], Known(w), NEW x, x = Ensure(w), Crosses(a)
  PROVE  /\ w # NoAgent /\ AgentOK(w) /\ AgentOK(x) /\ x.bound \in 1..Len(x.sessions)
         /\ Settles(w, x) /\ x.inFlight = w.inFlight /\ x.runs = w.runs
         /\ a \notin crossed' => Sound(w) /\ Sound(x)
         /\ a \notin crossed' \cup foreign => Taken(x) /\ Showing(x) /\ Agree(x)
<1>1. w # NoAgent /\ AgentOK(w)
  BY KnownIs DEF Inv, Typed
<1>2. AgentOK(x) /\ x.bound \in 1..Len(x.sessions) /\ x.inFlight = w.inFlight /\ x.runs = w.runs
  BY <1>1, EnsureDoes
<1>3. /\ Settles(w, x)
      /\ Sound(w) => Sound(x)
      /\ Taken(w) => Taken(x)
      /\ Showing(w) => Showing(x)
      /\ Agree(w) => Agree(x)
  BY <1>1, EnsureKeeps
<1>4. a \notin crossed' => a \notin crossed /\ \A e \in Calls : ~On(e, a)
  BY CrossesDoes
<1>5. a \notin crossed' => Sound(w)
  BY <1>4 DEF Inv, Lone, LoneAt
<1>6. ASSUME a \notin crossed' \cup foreign PROVE Taken(w) /\ Showing(w) /\ Agree(w)
  <2>1. KeptAt(a)
    BY <1>4, <1>6 DEF Inv, Kept
  <2>2. ~BeingClosed(a)
    BY <1>4, <1>6 DEF BeingClosed
  <2>3. QED
    BY <2>1, <2>2 DEF KeptAt
<1>7. QED
  BY <1>1, <1>2, <1>3, <1>5, <1>6

(***************************************************************************)
(* SendInput keeps the invariant. A busy session is open, so it is not     *)
(* reopened; a free one has no run in flight, so the new one is alone.     *)
(***************************************************************************)
LEMMA SendsKeep ==
  ASSUME Inv, NEW c \in Calls, NEW a \in Agents, NEW interrupt \in BOOLEAN,
         SendInput(c, a, interrupt)
  PROVE  Inv'
<1>1. PICK w, x, s, z, rec : /\ w = agent[a] /\ x = Ensure(w) /\ s = x.bound /\ z = Reopen(x, s)
                             /\ rec = Joining("input", a, s, x.inFlight)
  OBVIOUS
<1>2. Called(c) /\ Known(w) /\ Crosses(a) /\ UNCHANGED <<deleted, foreign>>
  BY <1>1, Zenon DEF SendInput
<1>3. \/ /\ x.sessions[s].running /\ MayRun(a)
         /\ agent' = [agent EXCEPT ![a] = Abort(z, s)]
         /\ call' = [call EXCEPT ![c] = rec]
      \/ /\ x.sessions[s].running
         /\ agent' = [agent EXCEPT ![a] = z]
         /\ UNCHANGED call
      \/ /\ ~x.sessions[s].running /\ MayRun(a)
         /\ Publishes(call, [agent EXCEPT ![a] = Track(z, s)])
  BY <1>1, Zenon DEF SendInput, Joining, RunToJoin
<1>4. Quiet /\ call[c] = Idle /\ spent' \in 0..Budget
  BY <1>2, CalledIs
<1>5. /\ w # NoAgent /\ AgentOK(w) /\ AgentOK(x) /\ s \in 1..Len(x.sessions)
      /\ Settles(w, x) /\ x.inFlight = w.inFlight /\ x.runs = w.runs
      /\ a \notin crossed' => Sound(w) /\ Sound(x)
      /\ a \notin crossed' \cup foreign => Taken(x) /\ Showing(x) /\ Agree(x)
  BY <1>1, <1>2, FoundIs
<1>6. /\ AgentOK(z) /\ Settles(x, z)
      /\ Shown(x) => Shown(z)
      /\ Agree(x) => z.row # "closed"
      /\ ~z.sessions[s].closed /\ z.bound = s /\ z.latest = x.latest
      /\ z.sessions[s].running = x.sessions[s].running
      /\ ~x.sessions[s].closed => z = x
  BY <1>1, <1>5, ReopenSettles
<1>7. Settles(w, z) /\ s \in 1..Len(z.sessions)
  <2>1. Len(z.sessions) >= Len(x.sessions) /\ Len(x.sessions) \in Nat /\ Len(z.sessions) \in Nat
    BY <1>5, <1>6, AgentFields DEF Settles, AgentOK
  <2>2. s \in 1..Len(z.sessions)
    BY <1>5, <2>1
  <2>3. QED
    BY <1>5, <1>6, <2>2, SettlesOn
<1>8. a \notin crossed' => Shown(z)
  BY <1>5, <1>6 DEF Sound
<1>9. ASSUME a \notin crossed' \cup foreign, x.sessions[s].running
      PROVE  Agree(z) /\ z.row # "closed"
  <2>1. ~x.sessions[s].closed
    BY <1>1, <1>5, <1>9, BusyOpen
  <2>2. QED
    BY <1>5, <1>6, <1>9, <2>1
<1>10. CASE /\ x.sessions[s].running /\ MayRun(a)
            /\ agent' = [agent EXCEPT ![a] = Abort(z, s)]
            /\ call' = [call EXCEPT ![c] = rec]
  <2>1. PICK y : y = Abort(z, s)
    OBVIOUS
  <2>2. /\ AgentOK(y) /\ Settles(z, y)
        /\ y.sessions = z.sessions /\ y.bound = z.bound /\ y.latest = z.latest /\ y.row = z.row
        /\ Shown(z) => Shown(y)
        /\ Agree(z) => Agree(y)
    BY <1>6, <2>1, AbortSettles
  <2>3. Settles(w, y) /\ y.inFlight = x.inFlight
    BY <1>5, <1>6, <1>7, <2>2, SettlesOn DEF Settles
  <2>4. s \in Nat /\ x.inFlight \in Nat
    BY <1>5, AgentFields DEF AgentOK
  <2>5. /\ rec \in CallRec /\ rec.pc = "joining" /\ rec.op = "input" /\ rec.ids = {a}
        /\ rec.s = y.bound /\ rec.run = y.inFlight
    BY <1>1, <1>6, <2>2, <2>3, <2>4, JoiningIs
  <2>6. y.bound \in 1..Len(y.sessions)
    BY <1>6, <1>7, <2>2
  <2>7. a \notin crossed' => Shown(y)
    BY <1>8, <2>2
  <2>8. a \notin crossed' \cup foreign' => Agree(y) /\ y.row # "closed"
    BY <1>2, <1>9, <1>10, <2>2
  <2>9. agent' = [agent EXCEPT ![a] = y] /\ call' = [call EXCEPT ![c] = rec] /\ MayRun(a)
    BY <1>10, <2>1
  <2>10. call[c] = Idle /\ agent[a] # NoAgent /\ AgentOK(y) /\ Settles(agent[a], y)
    BY <1>1, <1>4, <1>5, <2>2, <2>3
  <2>11. QED
    BY <1>2, <1>4, <2>5, <2>6, <2>7, <2>8, <2>9, <2>10, JoinKeeps
<1>11. CASE x.sessions[s].running /\ agent' = [agent EXCEPT ![a] = z] /\ UNCHANGED call
  BY <1>1, <1>2, <1>4, <1>5, <1>6, <1>7, <1>8, <1>9, <1>11, SettlingKeeps
<1>12. CASE /\ ~x.sessions[s].running /\ MayRun(a)
            /\ Publishes(call, [agent EXCEPT ![a] = Track(z, s)])
  <2>1. PICK y : y = Track(z, s)
    OBVIOUS
  <2>2. agent' = [agent EXCEPT ![a] = y] /\ call' = Notified(call, agent')
    BY <1>12, <2>1 DEF Publishes
  <2>3. Len(z.runs) = Len(w.runs) /\ Len(w.runs) < MaxRuns
    BY <1>1, <1>7, <1>12, MayRunOne DEF Settles, SameRuns, Inv
  <2>4. /\ AgentOK(y) /\ y.latest = "running"
        /\ y.sessions = z.sessions /\ y.bound = z.bound /\ y.row = z.row
        /\ Len(y.runs) = Len(w.runs) + 1
    BY <1>6, <1>7, <2>1, <2>3, TrackDoes
  <2>5. a \notin crossed' => z.inFlight = 0
    <3>1. a \notin crossed' /\ w.inFlight # 0 => w.bound # 0 /\ w.sessions[w.bound].running
      BY <1>1, <1>4, <1>5, InFlightRuns
    <3>2. w.bound # 0 => x = w
      BY <1>1, <1>2, <1>5, EnsureKeeps
    <3>3. QED
      BY <1>1, <1>5, <1>6, <1>12, <3>1, <3>2 DEF Settles
  <2>6. /\ Sound(x) => Sound(z)
        /\ Taken(x) => Taken(z)
        /\ Showing(x) => Showing(z)
    BY <1>5, <1>6, SettlesSound DEF Sound
  <2>7. ASSUME a \notin crossed'
        PROVE  /\ Sound(y)
               /\ Taken(z) => Taken(y)
               /\ Showing(z) => Showing(y)
    <3>1. Sound(z) /\ z.inFlight = 0 /\ ~z.sessions[s].running
      BY <1>5, <1>6, <1>12, <2>5, <2>6, <2>7
    <3>2. QED
      BY <1>6, <1>7, <2>1, <2>3, <3>1, TrackSound
  <2>8. /\ call' \in [Calls -> CallRec]
        /\ \A d : Others(d)
        /\ \A b \in Agents : SameCalls(b)
    BY <2>2, QuietCalls DEF Inv
  <2>9. /\ crossed' \subseteq Agents /\ crossed \subseteq crossed'
        /\ a \notin crossed' => a \notin crossed /\ \A e \in Calls : ~On(e, a)
    BY <1>2, CrossesDoes
  <2>10. agent'[a] = y /\ \A b \in Agents : b # a => agent'[b] = agent[b]
    BY <2>2 DEF Inv, Typed
  <2>11. (\A e \in Calls : CallOK(e)') /\ SpawnsApart'
    <3>1. Len(y.sessions) >= Len(w.sessions)
      BY <1>7, <2>4 DEF Settles
    <3>2. \A b \in Agents : Len(agent[b].sessions) \in Nat
      BY AgentFields DEF Inv, Typed
    <3>3. \A b \in Agents : Grows(b)
      BY <1>1, <1>5, <2>10, <3>1, <3>2 DEF Grows
    <3>4. PICK d : d \notin Calls
      BY NoSetContainsEverything
    <3>5. QED
      BY <2>8, <3>3, <3>4, OthersOK DEF Inv
  <2>12. Budgeted(a)'
    BY <1>1, <1>12, <2>4, <2>8, <2>10, <2>11, BudgetStays DEF Inv
  <2>13. a \notin crossed' => LoneAt(a)'
    BY <2>7, <2>8, <2>9, <2>10, LoneStays DEF Inv, Lone
  <2>14. ASSUME a \notin crossed' \cup foreign' PROVE KeptAt(a)'
    <3>1. Taken(y) /\ Showing(y)
      BY <1>2, <1>5, <2>6, <2>7, <2>14
    <3>2. ~BeingClosed(a)
      BY <2>9, <2>14 DEF BeingClosed
    <3>3. z.row # "closed" /\ ~z.sessions[s].closed
      BY <1>2, <1>5, <1>6, <2>14
    <3>4. Agree(y)
      BY <1>6, <2>4, <3>3 DEF Agree
    <3>5. QED
      BY <2>8, <2>9, <2>10, <2>14, <3>1, <3>2, <3>4, KeptStays
  <2>15. QED
    BY <1>2, <1>4, <2>2, <2>4, <2>8, <2>9, <2>10, <2>11, <2>12, <2>13, <2>14, OneAgent
       DEF Inv, Typed, Keeps, Spreads
<1>13. QED
  BY <1>3, <1>10, <1>11, <1>12

(***************************************************************************)
(* ResumeAgent keeps the invariant: a run in flight is published as        *)
(* running.                                                                *)
(***************************************************************************)
LEMMA ResumesKeep ==
  ASSUME Inv, NEW c \in Calls, NEW a \in Agents, ResumeAgent(c, a)
  PROVE  Inv'
<1>1. PICK w, x, s, z, y : /\ w = agent[a] /\ x = Ensure(w) /\ s = x.bound /\ z = Reopen(x, s)
                           /\ y = Publish(z, StateOf(z.sessions[s]))
  OBVIOUS
<1>2. Called(c) /\ Known(w) /\ Crosses(a) /\ UNCHANGED <<deleted, foreign>>
  BY <1>1, Zenon DEF ResumeAgent
<1>3. agent' = [agent EXCEPT ![a] = y] /\ call' = Notified(call, agent')
  <2>1. Publishes(call, [agent EXCEPT ![a] = y])
    BY <1>1, Zenon DEF ResumeAgent
  <2>2. QED
    BY <2>1 DEF Publishes
<1>4. Quiet /\ spent' \in 0..Budget
  BY <1>2, CalledIs
<1>5. /\ w # NoAgent /\ AgentOK(w) /\ AgentOK(x) /\ s \in 1..Len(x.sessions)
      /\ Settles(w, x) /\ x.inFlight = w.inFlight /\ x.runs = w.runs
      /\ a \notin crossed' => Sound(w) /\ Sound(x)
      /\ a \notin crossed' \cup foreign => Taken(x) /\ Showing(x) /\ Agree(x)
  BY <1>1, <1>2, FoundIs
<1>6. /\ AgentOK(z) /\ Settles(x, z)
      /\ Shown(x) => Shown(z)
      /\ Agree(x) => z.row # "closed"
      /\ ~z.sessions[s].closed /\ z.bound = s /\ z.latest = x.latest
      /\ z.sessions[s].running = x.sessions[s].running
      /\ ~x.sessions[s].closed => z = x
  BY <1>1, <1>5, ReopenSettles
<1>7. PICK state : state = StateOf(z.sessions[s]) /\ y = Publish(z, state)
  BY <1>1
<1>8. state \in States /\ state # "closed" /\ (z.sessions[s].running => state = "running")
  BY <1>6, <1>7, StateOfIs DEF States
<1>9. /\ AgentOK(y) /\ y.latest = state
      /\ y.runs = z.runs /\ y.sessions = z.sessions /\ y.bound = z.bound /\ y.inFlight = z.inFlight
      /\ y.row = z.row
  BY <1>6, <1>7, <1>8, PublishDoes
<1>10. Settles(w, y)
  <2>1. Settles(w, z)
    BY <1>5, <1>6, SettlesOn
  <2>2. QED
    BY <1>9, <2>1 DEF Settles, SameRuns
<1>11. ASSUME a \notin crossed' PROVE Shown(y)
  <2>1. Shown(z)
    BY <1>5, <1>6, <1>11 DEF Sound
  <2>2. w.inFlight # 0 => w.bound # 0 /\ w.sessions[w.bound].running
    BY <1>1, <1>4, <1>5, <1>11, InFlightRuns
  <2>3. w.bound # 0 => x = w
    BY <1>1, <1>2, <1>5, EnsureKeeps
  <2>4. z.inFlight # 0 => z.sessions[s].running
    BY <1>1, <1>6, <2>2, <2>3, <1>5 DEF Settles
  <2>5. z.inFlight # 0 => y.latest \notin Terminal
    BY <1>8, <1>9, <2>4 DEF Terminal
  <2>6. QED
    BY <1>9, <2>1, <2>5 DEF Shown
<1>12. a \notin crossed' \cup foreign' => Agree(y)
  BY <1>2, <1>5, <1>6, <1>8, <1>9 DEF Agree
<1>13. QED
  BY <1>1, <1>2, <1>3, <1>4, <1>5, <1>9, <1>10, <1>11, <1>12, SettlingKeeps

(***************************************************************************)
(* Close keeps the invariant.                                              *)
(***************************************************************************)
LEMMA ClosesKeep ==
  ASSUME Inv, NEW c \in Calls, NEW a \in Agents, Close(c, a)
  PROVE  Inv'
<1>1. PICK w, x, s, y, rec : /\ w = agent[a] /\ x = Ensure(w) /\ s = x.bound /\ y = Abort(x, s)
                             /\ rec = Joining("close", a, s, x.inFlight)
  OBVIOUS
<1>2. /\ Called(c) /\ Known(w) /\ Crosses(a) /\ UNCHANGED <<deleted, foreign>>
      /\ agent' = [agent EXCEPT ![a] = y] /\ call' = [call EXCEPT ![c] = rec]
  BY <1>1, Zenon DEF Close, Joining, RunToJoin
<1>3. call[c] = Idle /\ spent' \in 0..Budget
  BY <1>2, CalledIs
<1>4. /\ w # NoAgent /\ AgentOK(w) /\ AgentOK(x) /\ s \in 1..Len(x.sessions)
      /\ Settles(w, x)
      /\ a \notin crossed' => Sound(w) /\ Sound(x)
      /\ a \notin crossed' \cup foreign => Agree(x)
  BY <1>1, <1>2, FoundIs
<1>5. /\ AgentOK(y) /\ Settles(x, y)
      /\ y.sessions = x.sessions /\ y.bound = x.bound
      /\ Shown(x) => Shown(y)
      /\ Agree(x) => Agree(y)
  BY <1>1, <1>4, AbortSettles
<1>6. Settles(w, y) /\ y.inFlight = x.inFlight
  BY <1>4, <1>5, SettlesOn DEF Settles
<1>7. s \in Nat /\ x.inFlight \in Nat
  BY <1>4, AgentFields DEF AgentOK
<1>8. /\ rec \in CallRec /\ rec.pc = "joining" /\ rec.op = "close" /\ rec.ids = {a}
      /\ rec.s = y.bound /\ rec.run = y.inFlight
  BY <1>1, <1>5, <1>6, <1>7, JoiningIs
<1>9. y.bound \in 1..Len(y.sessions)
  BY <1>1, <1>4, <1>5
<1>10. /\ a \notin crossed' => Shown(y)
       /\ a \notin crossed' \cup foreign' => Agree(y)
  BY <1>2, <1>4, <1>5 DEF Sound
<1>11. QED
  BY <1>1, <1>2, <1>3, <1>4, <1>5, <1>6, <1>8, <1>9, <1>10, JoinKeeps

(***************************************************************************)
(* A call on an agent holds a session of it; unless calls crossed, that is *)
(* the bound one, and no other call is on the agent.                       *)
(***************************************************************************)
LEMMA JoinerIs ==
  ASSUME Inv, NEW c \in Calls, call[c].pc \in {"joining", "closing"}, NEW a \in call[c].ids,
         NEW x, x = agent[a], NEW s, s = call[c].s
  PROVE  /\ a \in Agents /\ call[c].ids = {a} /\ s \in 1..Len(x.sessions) /\ AgentOK(x)
         /\ x # NoAgent /\ On(c, a)
         /\ a \notin crossed =>
              /\ Sound(x) /\ s = x.bound /\ \A e \in Calls : On(e, a) => e = c
              /\ x.inFlight = 0 \/ (call[c].pc = "joining" /\ x.inFlight = call[c].run)
<1>1. CallOK(c)
  BY DEF Inv, Typed
<1>2. a \in Agents /\ call[c].ids = {a} /\ s \in 1..Len(x.sessions)
  BY <1>1 DEF CallOK
<1>3. AgentOK(x)
  BY <1>2 DEF Inv, Typed
<1>4. x # NoAgent
  BY <1>2 DEF NoAgent
<1>5. On(c, a)
  BY DEF On
<1>6. ASSUME a \notin crossed
      PROVE  /\ Sound(x) /\ s = x.bound /\ \A e \in Calls : On(e, a) => e = c
             /\ x.inFlight = 0 \/ (call[c].pc = "joining" /\ x.inFlight = call[c].run)
  <2>1. LoneAt(a)
    BY <1>2, <1>6 DEF Inv, Lone
  <2>2. QED
    BY <1>5, <2>1 DEF LoneAt
<1>7. QED
  BY <1>2, <1>3, <1>4, <1>5, <1>6

(***************************************************************************)
(* When an awaited run is over, and no calls crossed, none is in flight.   *)
(***************************************************************************)
LEMMA ResumedIdle ==
  ASSUME Inv, NEW c \in Resumed, NEW a \in call[c].ids, a \notin crossed
  PROVE  agent[a].inFlight = 0
<1>1. c \in Calls /\ call[c].pc = "joining" /\ (call[c].run = 0 \/ agent[a].runs[call[c].run].at = "done")
  BY DEF Resumed
<1>2. AgentOK(agent[a]) /\ (agent[a].inFlight = 0 \/ agent[a].inFlight = call[c].run)
  BY <1>1, JoinerIs
<1>3. QED
  BY <1>1, <1>2 DEF AgentOK

(***************************************************************************)
(* A step of a call on an agent keeps the invariant, if that agent keeps   *)
(* its part.                                                               *)
(***************************************************************************)
LEMMA JoinerKeeps ==
  ASSUME Inv, NEW c \in Calls, call[c].pc \in {"joining", "closing"}, NEW a \in call[c].ids,
         NEW y, agent' = [agent EXCEPT ![a] = y], AgentOK(y),
         Len(y.sessions) >= Len(agent[a].sessions),
         call' \in [Calls -> CallRec], Others(c), CallOK(c)', call'[c].pc # "spawning",
         call'[c].ids \subseteq {a}, UNCHANGED <<deleted, spent, crossed, foreign>>,
         Budgeted(a)', a \notin crossed => LoneAt(a)', a \notin crossed \cup foreign => KeptAt(a)'
  PROVE  Inv'
<1>1. a \in Agents /\ call[c].ids = {a} /\ agent[a] # NoAgent
  BY JoinerIs
<1>2. agent'[a] = y
  BY <1>1 DEF Inv, Typed
<1>3. (\A e \in Calls : CallOK(e)') /\ SpawnsApart'
  BY <1>1, CallOKAll DEF Inv
<1>4. \A b \in Agents : b # a => SameCalls(b)
  <2>1. \A b \in Agents : b # a => ~On(c, b) /\ ~On(c, b)'
    BY <1>1 DEF On
  <2>2. QED
    BY <2>1, OthersSame DEF Inv
<1>5. QED
  BY <1>1, <1>2, <1>3, <1>4, OneAgent DEF Inv, Typed, Keeps, Spreads

(***************************************************************************)
(* When the only call on an agent is answered, none is on it.              *)
(***************************************************************************)
LEMMA NobodyLeft ==
  ASSUME Inv, NEW c \in Calls, Others(c), call'[c] = Idle, NEW a,
         \A e \in Calls : On(e, a) => e = c
  PROVE  \A e \in Calls : ~On(e, a)'
BY IdleIs DEF On, Others

(***************************************************************************)
(* InputJoined keeps the invariant: the run awaited was the only one that  *)
(* could keep the session busy, so the message is not refused.             *)
(***************************************************************************)
LEMMA InputsKeep ==
  ASSUME Inv, NEW c \in Calls, InputJoined(c)
  PROVE  Inv'
<1>1. /\ c \in Resumed /\ call[c].op = "input" /\ call[c].pc = "joining"
      /\ UNCHANGED <<deleted, spent, crossed, foreign>>
  BY DEF InputJoined, Resumed
<1>2. PICK a \in call[c].ids :
        Publishes([call EXCEPT ![c] = Idle], [agent EXCEPT ![a] = Track(@, call[c].s)])
  BY DEF InputJoined
<1>3. PICK x, s, y, before : /\ x = agent[a] /\ s = call[c].s /\ y = Track(x, s)
                             /\ before = [call EXCEPT ![c] = Idle]
  OBVIOUS
<1>4. /\ a \in Agents /\ call[c].ids = {a} /\ s \in 1..Len(x.sessions) /\ AgentOK(x)
      /\ On(c, a)
      /\ a \notin crossed => Sound(x) /\ s = x.bound /\ \A e \in Calls : On(e, a) => e = c
  BY <1>1, <1>3, JoinerIs
<1>5. agent' = [agent EXCEPT ![a] = y] /\ call' = Notified(before, agent')
  BY <1>2, <1>3 DEF Publishes
<1>6. call' \in [Calls -> CallRec] /\ Others(c) /\ call'[c] = Idle
  BY <1>3, <1>5, IdleIs, CallerCalls DEF Inv
<1>7. agent'[a] = y
  BY <1>4, <1>5 DEF Inv, Typed
<1>8. IsFiniteSet(Inputs(a)) /\ Cardinality(Inputs(a)) \in Nat /\ c \in Inputs(a)
  BY <1>1, <1>4, AgentsAssumption, FS_Subset, FS_CardinalityType DEF Inputs
<1>9. Cardinality(Inputs(a) \ {c}) = Cardinality(Inputs(a)) - 1 /\ Cardinality(Inputs(a) \ {c}) \in Nat
  BY <1>8, FS_RemoveElement, FS_Subset, FS_CardinalityType
<1>10. Len(x.runs) + Cardinality(Inputs(a)) <= MaxRuns /\ Len(x.runs) \in Nat
  BY <1>3, <1>4, AgentFields DEF Inv, Typed, Budgeted, AgentOK
<1>11. Len(x.runs) < MaxRuns
  BY <1>8, <1>9, <1>10, AgentsAssumption
<1>12. /\ AgentOK(y) /\ y.latest = "running"
       /\ y.sessions = x.sessions /\ y.bound = x.bound /\ y.row = x.row
       /\ Len(y.runs) = Len(x.runs) + 1
  BY <1>3, <1>4, <1>11, TrackDoes
<1>13. Budgeted(a)'
  <2>1. \A e \in Calls : e # c => call'[e] = call[e] \/ (call[e].op # "input" /\ call'[e] = Idle)
    <3>1. \A e \in Calls : call[e].pc = "waiting" => call[e].op # "input"
      BY DEF Inv, Typed, CallOK
    <3>2. QED
      BY <1>6, <3>1 DEF Others
  <2>2. Inputs(a)' = Inputs(a) \ {c}
    BY <1>6, <2>1, IdleIs DEF Inputs
  <2>3. Len(agent'[a].runs) = Len(x.runs) + 1
    BY <1>7, <1>12
  <2>4. Cardinality(Inputs(a)') = Cardinality(Inputs(a)) - 1
    BY <1>9, <2>2
  <2>5. Len(agent'[a].runs) + Cardinality(Inputs(a)') <= MaxRuns
    BY <1>8, <1>10, <2>3, <2>4, AgentsAssumption
  <2>6. QED
    BY <2>5 DEF Budgeted
<1>14. a \notin crossed => x.inFlight = 0
  BY <1>1, <1>3, ResumedIdle
<1>15. ASSUME a \notin crossed
       PROVE  /\ Sound(y)
              /\ Taken(x) /\ ~x.sessions[s].running => Taken(y)
              /\ Showing(x) => Showing(y)
  BY <1>3, <1>4, <1>11, <1>14, <1>15, TrackSound
<1>16. a \notin crossed => \A e \in Calls : ~On(e, a)'
  BY <1>4, <1>6, NobodyLeft
<1>17. ASSUME a \notin crossed PROVE LoneAt(a)'
  <2>1. Sound(agent[a])'
    BY <1>7, <1>15, <1>17
  <2>2. QED
    BY <1>16, <1>17, <2>1 DEF LoneAt
<1>18. ASSUME a \notin crossed \cup foreign PROVE KeptAt(a)'
  <2>1. KeptAt(a)
    BY <1>4, <1>18 DEF Inv, Kept
  <2>2. Taken(x) /\ Showing(x) /\ x.row # "closed"
    BY <1>1, <1>3, <1>4, <2>1 DEF KeptAt
  <2>3. ~x.sessions[s].running
    <3>1. SUFFICES ASSUME x.sessions[s].running PROVE FALSE
      OBVIOUS
    <3>2. PICK r \in 1..Len(x.runs) : x.runs[r].at = "turn"
      BY <1>4, <2>2, <3>1 DEF Showing
    <3>3. x.runs[r].tracked /\ r # 0
      BY <1>10, <2>2 DEF Taken
    <3>4. QED
      BY <1>4, <1>14, <1>18, <3>2, <3>3 DEF Sound, Alone
  <2>4. ~BeingClosed(a)
    BY <1>1, <1>4, <1>18 DEF BeingClosed
  <2>5. Agree(x)
    BY <1>3, <2>1, <2>4 DEF KeptAt
  <2>6. Agree(y)
    BY <1>12, <2>2, <2>5 DEF Agree
  <2>7. Taken(agent[a])' /\ Showing(agent[a])' /\ Agree(agent[a])'
    BY <1>7, <1>15, <1>18, <2>2, <2>3, <2>6
  <2>8. ~BeingClosed(a)'
    BY <1>16, <1>18 DEF BeingClosed
  <2>9. QED
    BY <1>16, <1>18, <2>7, <2>8 DEF KeptAt
<1>19. CallOK(c)' /\ call'[c].pc # "spawning" /\ call'[c].ids \subseteq {a}
  BY <1>6, IdleIs DEF CallOK
<1>20. Len(y.sessions) >= Len(agent[a].sessions)
  BY <1>3, <1>4, <1>12, AgentFields DEF AgentOK
<1>21. QED
  BY <1>1, <1>5, <1>6, <1>12, <1>13, <1>17, <1>18, <1>19, <1>20, JoinerKeeps
Closing(rec) == [rec EXCEPT !.pc = "closing", !.run = 0]

(***************************************************************************)
(* A call that closes an agent is a call.                                  *)
(***************************************************************************)
LEMMA ClosingIs ==
  ASSUME NEW r \in CallRec, NEW rec, rec = Closing(r)
  PROVE  rec \in CallRec /\ rec.pc = "closing" /\ rec.op = r.op /\ rec.ids = r.ids /\ rec.s = r.s
<1>1. rec = [pc |-> "closing", op |-> r.op, ids |-> r.ids, s |-> r.s, run |-> 0, all |-> r.all]
  BY DEF CallRec, Closing
<1>2. QED
  BY <1>1 DEF CallRec

(***************************************************************************)
(* CloseJoined keeps the invariant: no run is in flight in the session it  *)
(* closes.                                                                 *)
(***************************************************************************)
LEMMA JoinedCloseKeeps ==
  ASSUME Inv, NEW c \in Calls, CloseJoined(c)
  PROVE  Inv'
<1>1. /\ c \in Resumed /\ call[c].op = "close" /\ call[c].pc = "joining"
      /\ UNCHANGED <<deleted, spent, crossed, foreign>>
  BY DEF CloseJoined, Resumed
<1>2. PICK a \in call[c].ids : agent' = [agent EXCEPT ![a].sessions[call[c].s].closed = TRUE]
  BY DEF CloseJoined
<1>3. PICK x, s, e, rec : /\ x = agent[a] /\ s = call[c].s
                          /\ e = [x.sessions[s] EXCEPT !.closed = TRUE] /\ rec = Closing(call[c])
  OBVIOUS
<1>4. PICK y : y = [x EXCEPT !.sessions = [x.sessions EXCEPT ![s] = e]]
  OBVIOUS
<1>5. agent' = [agent EXCEPT ![a] = y]
  BY <1>2, <1>3, <1>4, Zenon
<1>6. call' = [call EXCEPT ![c] = rec]
  BY <1>3, Zenon DEF CloseJoined, Closing
<1>7. /\ a \in Agents /\ call[c].ids = {a} /\ s \in 1..Len(x.sessions) /\ AgentOK(x)
      /\ a \notin crossed => Sound(x) /\ s = x.bound /\ \A f \in Calls : On(f, a) => f = c
  BY <1>1, <1>3, JoinerIs
<1>8. call[c] \in CallRec
  BY DEF Inv, Typed
<1>9. rec \in CallRec /\ rec.pc = "closing" /\ rec.op = "close" /\ rec.ids = {a} /\ rec.s = s
  BY <1>1, <1>3, <1>7, <1>8, ClosingIs
<1>10. call' \in [Calls -> CallRec] /\ Others(c) /\ call'[c] = rec
  BY <1>6, <1>9, CallerCalls DEF Inv
<1>11. e \in Session /\ e.running = x.sessions[s].running /\ e.closed
  BY <1>3, <1>7, AgentFields, ClosesOpen DEF AgentOK
<1>12. /\ AgentOK(y)
       /\ y.runs = x.runs /\ y.bound = x.bound /\ y.inFlight = x.inFlight
       /\ Len(y.sessions) = Len(x.sessions) /\ y.sessions[s] = e
       /\ \A q \in 1..Len(x.sessions) : q # s => y.sessions[q] = x.sessions[q]
  BY <1>4, <1>7, <1>11, SessionReplaced
<1>13. Len(x.sessions) \in Nat
  BY <1>7, AgentFields DEF AgentOK
<1>14. Settles(x, y)
  BY <1>11, <1>12, <1>13 DEF Settles, SameRuns
<1>15. agent'[a] = y
  BY <1>5, <1>7 DEF Inv, Typed
<1>16. /\ Sound(x) /\ Shown(y) => Sound(y)
       /\ Taken(x) => Taken(y)
       /\ Showing(x) => Showing(y)
  BY <1>7, <1>12, <1>14, SettlesSound
<1>17. a \notin crossed => y.inFlight = 0
  BY <1>1, <1>3, <1>12, ResumedIdle
<1>18. a \notin crossed => \A f \in Calls : On(f, a)' => f = c
  BY <1>7, <1>10, IdleIs DEF On, Others
<1>19. ASSUME a \notin crossed PROVE LoneAt(a)'
  <2>1. Sound(agent[a])'
    BY <1>7, <1>15, <1>16, <1>17, <1>19 DEF Shown
  <2>2. call'[c].s = agent'[a].bound /\ agent'[a].inFlight = 0
    BY <1>7, <1>9, <1>10, <1>12, <1>15, <1>17, <1>19
  <2>3. QED
    BY <1>18, <1>19, <2>1, <2>2 DEF LoneAt
<1>20. ASSUME a \notin crossed \cup foreign PROVE KeptAt(a)'
  <2>1. Taken(agent[a])' /\ Showing(agent[a])'
    BY <1>3, <1>7, <1>15, <1>16, <1>20 DEF Inv, Kept, KeptAt
  <2>2. agent'[a].sessions[agent'[a].bound].closed
    BY <1>7, <1>11, <1>12, <1>15, <1>20
  <2>3. BeingClosed(a)'
    BY <1>9, <1>10 DEF BeingClosed, On
  <2>4. \A f \in Calls : On(f, a)' => call'[f].op # "input"
    BY <1>9, <1>10, <1>18, <1>20
  <2>5. QED
    BY <2>1, <2>2, <2>3, <2>4 DEF KeptAt
<1>21. CallOK(c)' /\ call'[c].pc # "spawning" /\ call'[c].ids \subseteq {a}
  BY <1>7, <1>9, <1>10, <1>12, <1>15 DEF CallOK
<1>22. Budgeted(a)'
  <2>1. \A f \in Calls : call[f].pc = "waiting" => call[f].op # "input"
    BY DEF Inv, Typed, CallOK
  <2>2. Inputs(a)' = Inputs(a)
    BY <1>1, <1>9, <1>10, <2>1, IdleIs DEF Inputs, Others
  <2>3. Len(agent'[a].runs) + Cardinality(Inputs(a)') <= MaxRuns
    BY <1>3, <1>7, <1>12, <1>15, <2>2 DEF Inv, Typed, Budgeted
  <2>4. QED
    BY <2>3 DEF Budgeted
<1>23. Len(y.sessions) >= Len(agent[a].sessions)
  BY <1>3, <1>12, <1>13
<1>24. QED
  BY <1>1, <1>5, <1>10, <1>12, <1>19, <1>20, <1>21, <1>22, <1>23, JoinerKeeps

Unbound(x) == [x EXCEPT !.bound = 0]

(***************************************************************************)
(* Unbinding an agent changes nothing else.                                *)
(***************************************************************************)
LEMMA UnboundIs ==
  ASSUME NEW x, AgentOK(x), NEW y, y = Unbound(x)
  PROVE  /\ AgentOK(y) /\ y.bound = 0
         /\ y.runs = x.runs /\ y.sessions = x.sessions /\ y.inFlight = x.inFlight
         /\ y.row = x.row /\ y.latest = x.latest
<1>1. x = [sessions |-> x.sessions, bound |-> x.bound, row |-> x.row, runs |-> x.runs,
           inFlight |-> x.inFlight, latest |-> x.latest]
  BY AgentFields DEF AgentOK
<1>2. y = [sessions |-> x.sessions, bound |-> 0, row |-> x.row, runs |-> x.runs,
           inFlight |-> x.inFlight, latest |-> x.latest]
  BY <1>1 DEF Unbound
<1>3. /\ y \in Agent /\ y.sessions = x.sessions /\ y.bound = 0 /\ y.row = x.row
      /\ y.runs = x.runs /\ y.inFlight = x.inFlight /\ y.latest = x.latest
  BY <1>2, AgentFields DEF AgentOK, Agent
<1>4. 0 <= Len(x.sessions)
  BY AgentFields DEF AgentOK
<1>5. QED
  BY <1>3, <1>4 DEF AgentOK

(***************************************************************************)
(* Closed keeps the invariant: the session stored is the closed one, so    *)
(* the row says closed as the bus does.                                    *)
(***************************************************************************)
LEMMA ClosedKeeps ==
  ASSUME Inv, NEW c \in Calls, Closed(c)
  PROVE  Inv'
<1>1. call[c].pc = "closing" /\ UNCHANGED <<deleted, spent, crossed, foreign>>
  BY DEF Closed
<1>2. PICK a \in call[c].ids :
        Publishes([call EXCEPT ![c] = Idle],
                  [agent EXCEPT ![a] =
                     Publish([Stored(Abort(agent[a], call[c].s), call[c].s) EXCEPT !.bound = 0], "closed")])
  BY DEF Closed
<1>3. PICK x, s, before : x = agent[a] /\ s = call[c].s /\ before = [call EXCEPT ![c] = Idle]
  OBVIOUS
<1>4. PICK v, w, z, y : v = Abort(x, s) /\ w = Stored(v, s) /\ z = Unbound(w) /\ y = Publish(z, "closed")
  OBVIOUS
<1>5. agent' = [agent EXCEPT ![a] = y] /\ call' = Notified(before, agent')
  BY <1>2, <1>3, <1>4, Zenon DEF Publishes, Unbound
<1>6. /\ a \in Agents /\ call[c].ids = {a} /\ s \in 1..Len(x.sessions) /\ AgentOK(x)
      /\ a \notin crossed => /\ Sound(x) /\ s = x.bound /\ \A e \in Calls : On(e, a) => e = c
                             /\ x.inFlight = 0
      /\ On(c, a)
  <2>1. call[c].pc # "joining"
    BY <1>1
  <2>2. QED
    BY <1>1, <1>3, <2>1, JoinerIs
<1>7. call' \in [Calls -> CallRec] /\ Others(c) /\ call'[c] = Idle
  BY <1>3, <1>5, IdleIs, CallerCalls DEF Inv
<1>8. AgentOK(v) /\ Settles(x, v) /\ v.sessions = x.sessions
  BY <1>4, <1>6, AbortSettles
<1>9. /\ AgentOK(w) /\ w.row = RowOf(v.sessions[s])
      /\ w.runs = v.runs /\ w.sessions = v.sessions /\ w.inFlight = v.inFlight
  BY <1>4, <1>8, StoredDoes
<1>10. /\ AgentOK(z) /\ z.bound = 0
       /\ z.runs = w.runs /\ z.sessions = w.sessions /\ z.inFlight = w.inFlight /\ z.row = w.row
  BY <1>4, <1>9, UnboundIs
<1>11. /\ AgentOK(y) /\ y.latest = "closed"
       /\ y.runs = z.runs /\ y.sessions = z.sessions /\ y.bound = z.bound /\ y.inFlight = z.inFlight
       /\ y.row = z.row
  <2>1. "closed" \in States
    BY DEF States
  <2>2. QED
    BY <1>4, <1>10, <2>1, PublishDoes
<1>12. /\ AgentOK(y) /\ y.runs = v.runs /\ y.sessions = x.sessions /\ y.inFlight = v.inFlight
       /\ y.bound = 0 /\ y.latest = "closed" /\ y.row = RowOf(x.sessions[s])
  BY <1>8, <1>9, <1>10, <1>11
<1>13. Settles(x, y)
  BY <1>8, <1>12 DEF Settles, SameRuns
<1>14. agent'[a] = y
  BY <1>5, <1>6 DEF Inv, Typed
<1>15. /\ Sound(x) /\ Shown(y) => Sound(y)
       /\ Taken(x) => Taken(y)
       /\ Showing(x) => Showing(y)
  BY <1>6, <1>12, <1>13, SettlesSound
<1>16. a \notin crossed => \A e \in Calls : ~On(e, a)'
  BY <1>6, <1>7, NobodyLeft
<1>17. ASSUME a \notin crossed PROVE LoneAt(a)'
  <2>1. y.inFlight = 0
    BY <1>6, <1>13, <1>17 DEF Settles
  <2>2. Sound(agent[a])'
    BY <1>6, <1>14, <1>15, <1>17, <2>1 DEF Shown
  <2>3. QED
    BY <1>16, <1>17, <2>2 DEF LoneAt
<1>18. ASSUME a \notin crossed \cup foreign PROVE KeptAt(a)'
  <2>1. KeptAt(a)
    BY <1>6, <1>18 DEF Inv, Kept
  <2>2. x.sessions[s].closed
    BY <1>1, <1>3, <1>6, <1>18, <2>1 DEF KeptAt, BeingClosed
  <2>3. y.row = "closed"
    BY <1>12, <2>2, StateOfIs
  <2>4. Taken(agent[a])' /\ Showing(agent[a])' /\ Agree(agent[a])'
    BY <1>3, <1>12, <1>14, <1>15, <2>1, <2>3 DEF KeptAt, Agree
  <2>5. ~BeingClosed(a)'
    BY <1>16, <1>18 DEF BeingClosed
  <2>6. QED
    BY <1>16, <1>18, <2>4, <2>5 DEF KeptAt
<1>19. CallOK(c)' /\ call'[c].pc # "spawning" /\ call'[c].ids \subseteq {a}
  BY <1>7, IdleIs DEF CallOK
<1>20. Budgeted(a)'
  <2>1. \A f \in Calls : call[f].pc = "waiting" \/ f = c => call[f].op # "input"
    BY <1>1 DEF Inv, Typed, CallOK
  <2>2. Inputs(a)' = Inputs(a)
    BY <1>7, <2>1, IdleIs DEF Inputs, Others
  <2>3. Len(agent'[a].runs) + Cardinality(Inputs(a)') <= MaxRuns
    BY <1>3, <1>6, <1>13, <1>14, <2>2 DEF Inv, Typed, Budgeted, Settles, SameRuns
  <2>4. QED
    BY <2>3 DEF Budgeted
<1>21. Len(y.sessions) >= Len(agent[a].sessions)
  BY <1>3, <1>13 DEF Settles
<1>22. QED
  BY <1>1, <1>5, <1>7, <1>12, <1>17, <1>18, <1>19, <1>20, <1>21, JoinerKeeps
-----------------------------------------------------------------------------
(* Steps on every agent *)

(***************************************************************************)
(* A step that settles every agent keeps the invariant.                    *)
(***************************************************************************)
LEMMA ManySettle ==
  ASSUME Inv, agent' = [b \in Agents |-> agent'[b]],
         call' \in [Calls -> CallRec], \A e \in Calls : CallOK(e)', SpawnsApart',
         \A b \in Agents : SameCalls(b),
         UNCHANGED <<crossed, foreign, deleted>>, spent' \in 0..Budget,
         \A b \in Agents :
           /\ AgentOK(agent'[b]) /\ Settles(agent[b], agent'[b]) /\ agent'[b].row = agent[b].row
           /\ b \notin crossed =>
                Shown(agent'[b]) /\ ((\E e \in Calls : On(e, b)) => agent'[b].bound = agent[b].bound)
           /\ b \notin crossed \cup foreign =>
                /\ BeingClosed(b) => agent'[b].sessions[agent'[b].bound].closed
                /\ ~BeingClosed(b) => Agree(agent'[b])
  PROVE  Inv'
<1>1. Spreads /\ crossed' \subseteq Agents /\ foreign' \subseteq Agents /\ deleted' \in BOOLEAN
  BY DEF Spreads, Inv, Typed
<1>2. ASSUME NEW b \in Agents PROVE Keeps(b)
  <2>1. b \notin crossed \cup foreign =>
          \A e \in Calls : On(e, b) /\ call[e].op = "input" => agent'[b].row # "closed"
    BY DEF Inv, Kept, KeptAt
  <2>2. PICK y : y = agent'[b]
    OBVIOUS
  <2>3. /\ AgentOK(y) /\ Settles(agent[b], y) /\ SameCalls(b)
        /\ b \notin crossed' => Shown(y) /\ ((\E e \in Calls : On(e, b)) => y.bound = agent[b].bound)
        /\ b \notin crossed' \cup foreign' =>
             /\ BeingClosed(b) => y.sessions[y.bound].closed
             /\ ~BeingClosed(b) => Agree(y)
             /\ \A e \in Calls : On(e, b) /\ call[e].op = "input" => y.row # "closed"
    BY <2>1, <2>2
  <2>4. QED
    BY <1>1, <2>2, <2>3, SettledKeeps
<1>3. QED
  BY <1>1, <1>2, ManyAgents

(***************************************************************************)
(* Publishing a status settles an agent.                                   *)
(***************************************************************************)
LEMMA PublishSettles ==
  ASSUME NEW w, NEW x, AgentOK(x), Settles(w, x), NEW state \in States, NEW y, y = Publish(x, state)
  PROVE  /\ AgentOK(y) /\ Settles(w, y) /\ y.latest = state
         /\ y.sessions = x.sessions /\ y.bound = x.bound /\ y.row = x.row /\ y.runs = x.runs
         /\ y.inFlight = x.inFlight
<1>1. /\ AgentOK(y) /\ y.latest = state
      /\ y.runs = x.runs /\ y.sessions = x.sessions /\ y.bound = x.bound /\ y.inFlight = x.inFlight
      /\ y.row = x.row
  BY PublishDoes
<1>2. QED
  BY <1>1 DEF Settles, SameRuns

\* What wait publishes of an agent that is bound.
ShownAs(x) == IF x.inFlight # 0 THEN "running" ELSE StateOf(x.sessions[x.bound])

(***************************************************************************)
(* What wait and list publish of a bound agent is true: a run in flight    *)
(* shows as running, and closed is said exactly of a closed session.       *)
(***************************************************************************)
LEMMA PublishTrue ==
  ASSUME Quiet, NEW b \in Agents, NEW x, x = agent[b], AgentOK(x), x.bound # 0,
         NEW state, state = ShownAs(x) \/ state = StateOf(x.sessions[x.bound]),
         NEW y, y = Publish(x, state)
  PROVE  /\ AgentOK(y) /\ Settles(x, y) /\ y.bound = x.bound /\ y.sessions = x.sessions /\ y.row = x.row
         /\ Sound(x) => Shown(y)
         /\ Sound(x) /\ Agree(x) => Agree(y)
<1>1. PICK t : t = StateOf(x.sessions[x.bound])
  OBVIOUS
<1>2. /\ t \in States /\ (t = "closed" <=> x.sessions[x.bound].closed)
      /\ x.sessions[x.bound].running /\ ~x.sessions[x.bound].closed => t = "running"
  BY <1>1, StateOfIs DEF States
<1>3. state \in States /\ (state = t \/ (state = "running" /\ x.inFlight # 0))
  BY <1>1, <1>2 DEF ShownAs, States
<1>4. /\ AgentOK(y) /\ Settles(x, y) /\ y.latest = state
      /\ y.sessions = x.sessions /\ y.bound = x.bound /\ y.row = x.row /\ y.runs = x.runs
      /\ y.inFlight = x.inFlight
  BY <1>3, SettlesSelf, PublishSettles
<1>5. Sound(x) /\ x.inFlight # 0 => /\ x.sessions[x.bound].running /\ ~x.sessions[x.bound].closed
                                    /\ x.latest \notin Terminal
  BY InFlightRuns
<1>6. Sound(x) /\ x.inFlight # 0 => state = "running"
  BY <1>2, <1>3, <1>5
<1>7. Sound(x) => Shown(y)
  BY <1>4, <1>6 DEF Sound, Shown, Terminal
<1>8. ASSUME Sound(x), Agree(x) PROVE Agree(y)
  <2>1. x.sessions[x.bound].closed <=> x.row = "closed"
    BY <1>8 DEF Agree
  <2>2. state = "closed" <=> x.sessions[x.bound].closed
    BY <1>2, <1>3, <1>5, <1>8
  <2>3. QED
    BY <1>4, <2>1, <2>2 DEF Agree
<1>9. QED
  BY <1>4, <1>7, <1>8

(***************************************************************************)
(* What the invariant says of one agent.                                   *)
(***************************************************************************)
LEMMA SoundIs ==
  ASSUME Inv, NEW b \in Agents
  PROVE  /\ AgentOK(agent[b])
         /\ b \notin crossed => Sound(agent[b])
         /\ b \notin crossed \cup foreign =>
              /\ BeingClosed(b) => agent[b].sessions[agent[b].bound].closed
              /\ ~BeingClosed(b) => Agree(agent[b])
BY DEF Inv, Typed, Lone, LoneAt, Kept, KeptAt

(***************************************************************************)
(* List keeps the invariant.                                               *)
(***************************************************************************)
LEMMA ListsKeep ==
  ASSUME Inv, NEW c \in Calls, List(c)
  PROVE  Inv'
<1>1. /\ Quiet /\ spent' \in 0..Budget
      /\ UNCHANGED <<crossed, foreign, deleted>>
      /\ agent' = [b \in Agents |->
           IF agent[b].bound # 0 THEN Publish(agent[b], StateOf(agent[b].sessions[agent[b].bound]))
                                 ELSE agent[b]]
      /\ call' = Notified(call, agent')
  BY CalledIs DEF List, Publishes
<1>2. /\ call' \in [Calls -> CallRec]
      /\ \A d : Others(d)
      /\ \A b \in Agents : SameCalls(b)
  BY <1>1, QuietCalls DEF Inv
<1>3. ASSUME NEW b \in Agents
      PROVE  /\ AgentOK(agent'[b]) /\ Settles(agent[b], agent'[b])
             /\ agent'[b].bound = agent[b].bound /\ agent'[b].row = agent[b].row
             /\ agent'[b].sessions = agent[b].sessions
             /\ agent[b].bound = 0 => agent'[b] = agent[b]
             /\ Sound(agent[b]) => Shown(agent'[b])
             /\ Sound(agent[b]) /\ Agree(agent[b]) => Agree(agent'[b])
  <2>1. PICK x, y : x = agent[b] /\ y = agent'[b]
    OBVIOUS
  <2>2. AgentOK(x)
    BY <2>1, SoundIs
  <2>3. CASE x.bound # 0
    <3>1. PICK state : state = StateOf(x.sessions[x.bound])
      OBVIOUS
    <3>2. y = Publish(x, state)
      BY <1>1, <2>1, <2>3, <3>1
    <3>3. QED
      BY <1>1, <2>1, <2>2, <2>3, <3>1, <3>2, PublishTrue
  <2>4. CASE x.bound = 0
    <3>1. y = x
      BY <1>1, <2>1, <2>4
    <3>2. QED
      BY <2>1, <2>2, <3>1, SettlesSelf DEF Sound
  <2>5. QED
    BY <2>3, <2>4
<1>4. \A b \in Agents : Grows(b)
  <2>1. \A b \in Agents : agent[b] # NoAgent \/ agent'[b] = agent[b]
    BY <1>3 DEF NoAgent
  <2>2. QED
    BY <1>3, <2>1, SettledGrows DEF Inv
<1>5. (\A e \in Calls : CallOK(e)') /\ SpawnsApart'
  <2>1. PICK d : d \notin Calls
    BY NoSetContainsEverything
  <2>2. QED
    BY <1>2, <1>4, <2>1, OthersOK DEF Inv
<1>6. agent' = [b \in Agents |-> agent'[b]]
  BY <1>1
<1>7. \A b \in Agents :
        /\ b \notin crossed => Shown(agent'[b])
        /\ b \notin crossed \cup foreign =>
             /\ BeingClosed(b) => agent'[b].sessions[agent'[b].bound].closed
             /\ ~BeingClosed(b) => Agree(agent'[b])
  BY <1>3, SoundIs
<1>8. QED
  BY <1>1, <1>2, <1>3, <1>5, <1>6, <1>7, ManySettle

CancelledAgent(x) == IF x.bound # 0 THEN Abort(x, x.bound) ELSE x

(***************************************************************************)
(* Cancelling an agent settles it.                                         *)
(***************************************************************************)
LEMMA CancelSettles ==
  ASSUME NEW x, AgentOK(x), NEW y, y = CancelledAgent(x)
  PROVE  /\ AgentOK(y) /\ Settles(x, y)
         /\ y.sessions = x.sessions /\ y.bound = x.bound /\ y.latest = x.latest /\ y.row = x.row
         /\ Shown(x) => Shown(y)
         /\ Agree(x) => Agree(y)
         /\ x.bound = 0 => y = x
<1>1. CASE x.bound # 0
  <2>1. PICK s : s = x.bound
    OBVIOUS
  <2>2. y = Abort(x, s)
    BY <1>1, <2>1 DEF CancelledAgent
  <2>3. QED
    BY <1>1, <2>2, AbortSettles
<1>2. CASE x.bound = 0
  <2>1. y = x
    BY <1>2 DEF CancelledAgent
  <2>2. QED
    BY <2>1, SettlesSelf
<1>3. QED
  BY <1>1, <1>2

(***************************************************************************)
(* CancelAll keeps the invariant.                                          *)
(***************************************************************************)
LEMMA CancelsKeep ==
  ASSUME Inv, CancelAll
  PROVE  Inv'
<1>1. /\ UNCHANGED <<call, crossed, foreign, deleted>> /\ spent' \in 0..Budget
      /\ agent' = [b \in Agents |-> CancelledAgent(agent[b])]
  BY DEF CancelAll, CancelledAgent, Inv, Typed
<1>2. /\ call' \in [Calls -> CallRec]
      /\ \A d : Others(d)
      /\ \A b \in Agents : SameCalls(b)
  BY <1>1, QuietCalls DEF Inv
<1>3. ASSUME NEW b \in Agents
      PROVE  /\ AgentOK(agent'[b]) /\ Settles(agent[b], agent'[b])
             /\ agent'[b].bound = agent[b].bound /\ agent'[b].row = agent[b].row
             /\ agent'[b].sessions = agent[b].sessions
             /\ agent[b].bound = 0 => agent'[b] = agent[b]
             /\ Shown(agent[b]) => Shown(agent'[b])
             /\ Agree(agent[b]) => Agree(agent'[b])
  BY <1>1, CancelSettles, SoundIs
<1>4. \A b \in Agents : Grows(b)
  <2>1. \A b \in Agents : agent[b] # NoAgent \/ agent'[b] = agent[b]
    BY <1>3 DEF NoAgent
  <2>2. QED
    BY <1>3, <2>1, SettledGrows DEF Inv
<1>5. (\A e \in Calls : CallOK(e)') /\ SpawnsApart'
  <2>1. PICK d : d \notin Calls
    BY NoSetContainsEverything
  <2>2. QED
    BY <1>2, <1>4, <2>1, OthersOK DEF Inv
<1>6. agent' = [b \in Agents |-> agent'[b]]
  BY <1>1
<1>7. \A b \in Agents :
        /\ b \notin crossed => Shown(agent'[b])
        /\ b \notin crossed \cup foreign =>
             /\ BeingClosed(b) => agent'[b].sessions[agent'[b].bound].closed
             /\ ~BeingClosed(b) => Agree(agent'[b])
  BY <1>3, SoundIs DEF Sound
<1>8. QED
  BY <1>1, <1>2, <1>3, <1>5, <1>6, <1>7, ManySettle

Deleted(x) == [x EXCEPT !.bound = 0, !.row = "none"]

(***************************************************************************)
(* Deleting an agent takes its binding and its row.                        *)
(***************************************************************************)
LEMMA DeletedIs ==
  ASSUME NEW x, AgentOK(x), NEW y, y = Deleted(x)
  PROVE  /\ AgentOK(y) /\ y.bound = 0 /\ y.row = "none"
         /\ y.runs = x.runs /\ y.sessions = x.sessions /\ y.inFlight = x.inFlight
         /\ y.latest = x.latest
<1>1. x = [sessions |-> x.sessions, bound |-> x.bound, row |-> x.row, runs |-> x.runs,
           inFlight |-> x.inFlight, latest |-> x.latest]
  BY AgentFields DEF AgentOK
<1>2. y = [sessions |-> x.sessions, bound |-> 0, row |-> "none", runs |-> x.runs,
           inFlight |-> x.inFlight, latest |-> x.latest]
  BY <1>1 DEF Deleted
<1>3. /\ y \in Agent /\ y.sessions = x.sessions /\ y.bound = 0 /\ y.row = "none"
      /\ y.runs = x.runs /\ y.inFlight = x.inFlight /\ y.latest = x.latest
  BY <1>2, AgentFields DEF AgentOK, Agent, States
<1>4. 0 <= Len(x.sessions)
  BY AgentFields DEF AgentOK
<1>5. QED
  BY <1>3, <1>4 DEF AgentOK

(***************************************************************************)
(* DeleteParent keeps the invariant.                                       *)
(***************************************************************************)
LEMMA DeletesKeep ==
  ASSUME Inv, DeleteParent
  PROVE  Inv'
<1>1. /\ UNCHANGED <<call, foreign>> /\ spent' \in 0..Budget /\ crossed' = Agents /\ deleted' \in BOOLEAN
      /\ agent' = [b \in Agents |-> Deleted(CancelledAgent(agent[b]))]
  BY DEF DeleteParent, CancelledAgent, Deleted, Inv, Typed
<1>2. /\ call' \in [Calls -> CallRec]
      /\ \A d : Others(d)
      /\ \A b \in Agents : SameCalls(b)
  BY <1>1, QuietCalls DEF Inv
<1>3. ASSUME NEW b \in Agents
      PROVE  /\ AgentOK(agent'[b]) /\ Settles(agent[b], agent'[b])
             /\ agent[b] = NoAgent => agent'[b] = NoAgent
  <2>1. PICK x, w, y : x = agent[b] /\ w = CancelledAgent(x) /\ y = Deleted(w)
    OBVIOUS
  <2>2. AgentOK(x) /\ agent'[b] = y
    BY <1>1, <2>1, SoundIs
  <2>3. /\ AgentOK(w) /\ Settles(x, w) /\ (x.bound = 0 => w = x)
    BY <2>1, <2>2, CancelSettles
  <2>4. /\ AgentOK(y) /\ y.bound = 0 /\ y.row = "none"
        /\ y.runs = w.runs /\ y.sessions = w.sessions /\ y.inFlight = w.inFlight
        /\ y.latest = w.latest
    BY <2>1, <2>3, DeletedIs
  <2>5. Settles(x, y)
    BY <2>3, <2>4 DEF Settles, SameRuns
  <2>6. x = NoAgent => y = NoAgent
    <3>1. SUFFICES ASSUME x = NoAgent PROVE y = NoAgent
      OBVIOUS
    <3>2. w = NoAgent
      BY <2>3, <3>1 DEF NoAgent
    <3>3. y = [sessions |-> y.sessions, bound |-> y.bound, row |-> y.row, runs |-> y.runs,
               inFlight |-> y.inFlight, latest |-> y.latest]
      BY <2>4, AgentFields DEF AgentOK
    <3>4. QED
      BY <2>4, <3>2, <3>3 DEF NoAgent
  <2>7. QED
    BY <2>1, <2>2, <2>4, <2>5, <2>6
<1>4. \A b \in Agents : Grows(b)
  BY <1>3, SettledGrows DEF Inv
<1>5. (\A e \in Calls : CallOK(e)') /\ SpawnsApart'
  <2>1. PICK d : d \notin Calls
    BY NoSetContainsEverything
  <2>2. QED
    BY <1>2, <1>4, <2>1, OthersOK DEF Inv
<1>6. agent' = [b \in Agents |-> agent'[b]]
  BY <1>1
<1>7. crossed' \subseteq Agents /\ foreign' \subseteq Agents
  BY <1>1 DEF Inv, Typed
<1>8. ASSUME NEW b \in Agents PROVE Keeps(b)
  <2>1. Len(agent'[b].runs) = Len(agent[b].runs)
    BY <1>3 DEF Settles, SameRuns
  <2>2. Budgeted(b)'
    BY <1>2, <1>5, <2>1, BudgetStays DEF Inv
  <2>3. QED
    BY <1>1, <1>3, <2>2 DEF Keeps
<1>9. QED
  BY <1>1, <1>2, <1>5, <1>6, <1>7, <1>8, ManyAgents
Waiting(ids, all) == [Idle EXCEPT !.pc = "waiting", !.op = "wait", !.ids = ids, !.all = all]

(***************************************************************************)
(* A call that waits is a call.                                            *)
(***************************************************************************)
LEMMA WaitingIs ==
  ASSUME NEW ids \in SUBSET Agents, NEW all \in BOOLEAN, NEW rec, rec = Waiting(ids, all)
  PROVE  rec \in CallRec /\ rec.pc = "waiting" /\ rec.op = "wait"
<1>1. rec = [pc |-> "waiting", op |-> "wait", ids |-> ids, s |-> 0, run |-> 0, all |-> all]
  BY DEF Waiting, Idle
<1>2. QED
  BY <1>1 DEF CallRec

WaitedFor(x) == Publish(Ensure(x), ShownAs(Ensure(x)))

(***************************************************************************)
(* Looking an agent up and publishing its status settles it, and says what *)
(* is true.                                                                *)
(***************************************************************************)
LEMMA WaitedSettles ==
  ASSUME Inv, Quiet, NEW b \in Agents, NEW w, w = agent[b], Known(w), NEW y, y = WaitedFor(w)
  PROVE  /\ AgentOK(y) /\ Settles(w, y) /\ y.row = w.row
         /\ w.bound # 0 => y.bound = w.bound /\ y.sessions = w.sessions
         /\ Sound(w) => Shown(y)
         /\ Sound(w) /\ Agree(w) => Agree(y)
<1>1. AgentOK(w)
  BY SoundIs
<1>2. PICK x, state : x = Ensure(w) /\ state = ShownAs(x)
  OBVIOUS
<1>3. y = Publish(x, state)
  BY <1>2 DEF WaitedFor
<1>4. CASE w.bound # 0
  <2>1. x = w
    BY <1>1, <1>2, <1>4, EnsureKeeps
  <2>2. y = Publish(w, state) /\ state = ShownAs(w)
    BY <1>2, <1>3, <2>1
  <2>3. QED
    BY <1>1, <1>4, <2>2, PublishTrue
<1>5. CASE w.bound = 0
  <2>1. /\ AgentOK(x) /\ x.bound \in 1..Len(x.sessions)
        /\ x.inFlight = w.inFlight /\ x.row = w.row
        /\ x.sessions[x.bound] = Opened(w.row)
    BY <1>1, <1>2, <1>5, EnsureDoes
  <2>2. /\ Settles(w, x)
        /\ Sound(w) => Sound(x)
        /\ Agree(w) => Agree(x)
    BY <1>1, <1>2, EnsureKeeps
  <2>3. PICK t : t = StateOf(x.sessions[x.bound])
    OBVIOUS
  <2>4. t \in States /\ (t = "closed" <=> x.sessions[x.bound].closed)
    BY <2>3, StateOfIs DEF States
  <2>5. state = IF x.inFlight # 0 THEN "running" ELSE t
    BY <1>2, <2>3 DEF ShownAs
  <2>6. state \in States
    BY <2>4, <2>5 DEF States
  <2>7. /\ AgentOK(y) /\ Settles(w, y) /\ y.latest = state
        /\ y.sessions = x.sessions /\ y.bound = x.bound /\ y.row = x.row /\ y.runs = x.runs
        /\ y.inFlight = x.inFlight
    BY <1>3, <2>1, <2>2, <2>6, PublishSettles
  <2>8. Sound(w) => x.inFlight = 0
    <3>1. Sound(w) /\ w.inFlight # 0 => w.bound \in 1..Len(w.sessions)
      BY <1>1, InFlightRuns
    <3>2. QED
      BY <1>5, <2>1, <3>1
  <2>9. Sound(w) => Shown(y)
    BY <2>7, <2>8 DEF Shown
  <2>10. Sound(w) /\ Agree(w) => Agree(y)
    BY <2>1, <2>2, <2>4, <2>5, <2>7, <2>8 DEF Agree
  <2>11. QED
    BY <1>5, <2>1, <2>7, <2>9, <2>10
<1>6. QED
  BY <1>4, <1>5

(***************************************************************************)
(* Wait keeps the invariant.                                               *)
(***************************************************************************)
LEMMA WaitsKeep ==
  ASSUME Inv, NEW c \in Calls, NEW ids \in SUBSET Agents, NEW all \in BOOLEAN, Wait(c, ids, all)
  PROVE  Inv'
<1>1. PICK rec, before : rec = Waiting(ids, all) /\ before = [call EXCEPT ![c] = rec]
  OBVIOUS
<1>2. Called(c) /\ (\A b \in ids : Known(agent[b])) /\ UNCHANGED <<deleted, crossed, foreign>>
  BY DEF Wait
<1>3. agent' = [b \in Agents |-> IF b \in ids THEN WaitedFor(agent[b]) ELSE agent[b]]
      /\ call' = Notified(before, agent')
  <2>1. Publishes(before, [b \in Agents |-> IF b \in ids THEN WaitedFor(agent[b]) ELSE agent[b]])
    BY <1>1, Zenon DEF Wait, Waiting, WaitedFor, ShownAs
  <2>2. QED
    BY <2>1 DEF Publishes
<1>4. Quiet /\ call[c] = Idle /\ spent' \in 0..Budget
  BY <1>2, CalledIs
<1>5. rec \in CallRec /\ rec.pc = "waiting" /\ rec.op = "wait"
  BY <1>1, WaitingIs
<1>6. call' \in [Calls -> CallRec] /\ Others(c) /\ (call'[c] = rec \/ call'[c] = Idle)
  BY <1>1, <1>3, <1>5, CallerCalls DEF Inv
<1>7. call'[c].pc \in {"waiting", "idle"} /\ call'[c].op # "input"
  BY <1>5, <1>6, IdleIs
<1>8. \A b \in Agents : SameCalls(b)
  BY <1>4, <1>6, <1>7, IdleIs, CallerSame DEF Inv
<1>9. ASSUME NEW b \in Agents
      PROVE  /\ AgentOK(agent'[b]) /\ Settles(agent[b], agent'[b]) /\ agent'[b].row = agent[b].row
             /\ agent[b].bound # 0 =>
                  agent'[b].bound = agent[b].bound /\ agent'[b].sessions = agent[b].sessions
             /\ Sound(agent[b]) => Shown(agent'[b])
             /\ Sound(agent[b]) /\ Agree(agent[b]) => Agree(agent'[b])
             /\ agent[b] # NoAgent \/ agent'[b] = agent[b]
  <2>1. PICK w, y : w = agent[b] /\ y = agent'[b]
    OBVIOUS
  <2>2. CASE b \in ids
    <3>1. y = WaitedFor(w) /\ Known(w)
      BY <1>2, <1>3, <2>1, <2>2
    <3>2. w # NoAgent
      BY <3>1, KnownIs
    <3>3. QED
      BY <1>4, <2>1, <3>1, <3>2, WaitedSettles
  <2>3. CASE b \notin ids
    <3>1. y = w /\ AgentOK(w)
      BY <1>3, <2>1, <2>3, SoundIs
    <3>2. QED
      BY <2>1, <3>1, SettlesSelf DEF Sound
  <2>4. QED
    BY <2>2, <2>3
<1>10. \A b \in Agents : Grows(b)
  BY <1>9, SettledGrows DEF Inv
<1>11. (\A e \in Calls : CallOK(e)') /\ SpawnsApart'
  <2>1. CallOK(c)' /\ call'[c].pc # "spawning"
    BY <1>7 DEF CallOK
  <2>2. QED
    BY <1>6, <1>10, <2>1, OthersOK DEF Inv
<1>12. agent' = [b \in Agents |-> agent'[b]]
  BY <1>3
<1>13. ASSUME NEW b \in Agents
       PROVE  /\ b \notin crossed =>
                   /\ Shown(agent'[b])
                   /\ (\E e \in Calls : On(e, b)) => agent'[b].bound = agent[b].bound
              /\ b \notin crossed \cup foreign =>
                   /\ BeingClosed(b) => agent'[b].sessions[agent'[b].bound].closed
                   /\ ~BeingClosed(b) => Agree(agent'[b])
  <2>1. b \notin crossed /\ (\E e \in Calls : On(e, b)) => agent[b].bound # 0
    BY OnBinds
  <2>2. BeingClosed(b) => \E e \in Calls : On(e, b)
    BY DEF BeingClosed
  <2>3. QED
    BY <1>9, <2>1, <2>2, SoundIs
<1>14. QED
  BY <1>2, <1>4, <1>6, <1>8, <1>9, <1>11, <1>12, <1>13, ManySettle

-----------------------------------------------------------------------------
(* Every step *)

(***************************************************************************)
(* A step of something else keeps the invariant.                           *)
(***************************************************************************)
LEMMA StutterKeeps ==
  ASSUME Inv, UNCHANGED vars
  PROVE  Inv'
<1>1. UNCHANGED call /\ UNCHANGED agent /\ UNCHANGED <<deleted, spent, crossed, foreign>>
  BY DEF vars
<1>2. /\ call' \in [Calls -> CallRec]
      /\ \A d : Others(d)
      /\ \A b \in Agents : SameCalls(b)
  BY <1>1, QuietCalls DEF Inv
<1>3. \A b \in Agents : Grows(b)
  BY <1>1, SettledGrows DEF Inv
<1>4. (\A e \in Calls : CallOK(e)') /\ SpawnsApart'
  <2>1. PICK d : d \notin Calls
    BY NoSetContainsEverything
  <2>2. QED
    BY <1>2, <1>3, <2>1, OthersOK DEF Inv
<1>5. ASSUME NEW b \in Agents PROVE Keeps(b)
  BY <1>1, <1>2, <1>4, UntouchedKeeps DEF Spreads
<1>6. QED
  BY <1>1, <1>2, <1>4, <1>5, ManyAgents DEF Inv, Typed

(***************************************************************************)
(* Every step keeps the invariant.                                         *)
(***************************************************************************)
LEMMA NextInv ==
  ASSUME Inv, [Next]_vars
  PROVE  Inv'
<1>1. CASE UNCHANGED vars
  BY <1>1, StutterKeeps
<1>2. ASSUME NEW a \in Agents, NEW r \in 1..MaxRuns, RunStep(a, r) PROVE Inv'
  BY <1>2, StartsKeep, RefusalsKeep, EndsKeep DEF RunStep
<1>3. ASSUME NEW c \in Calls, CallStep(c) PROVE Inv'
  <2>1. ASSUME NEW a \in Agents, Spawn(c, a) \/ ResumeAgent(c, a) \/ Close(c, a) PROVE Inv'
    BY <2>1, SpawnKeeps, ResumesKeep, ClosesKeep
  <2>2. ASSUME NEW a \in Agents, NEW interrupt \in BOOLEAN, SendInput(c, a, interrupt) PROVE Inv'
    BY <2>2, SendsKeep
  <2>3. ASSUME NEW ids \in SUBSET Agents, NEW all \in BOOLEAN, Wait(c, ids, all) PROVE Inv'
    BY <2>3, WaitsKeep
  <2>4. CASE List(c)
    BY <2>4, ListsKeep
  <2>5. CASE Spawned(c)
    BY <2>5, SpawnedKeeps
  <2>6. CASE InputJoined(c)
    BY <2>6, InputsKeep
  <2>7. CASE WaitTimesOut(c)
    BY <2>7, TimeoutKeeps
  <2>8. CASE CloseJoined(c)
    BY <2>8, JoinedCloseKeeps
  <2>9. CASE Closed(c)
    BY <2>9, ClosedKeeps
  <2>10. QED
    BY <1>3, <2>1, <2>2, <2>3, <2>4, <2>5, <2>6, <2>7, <2>8, <2>9 DEF CallStep
<1>4. ASSUME NEW a \in Agents, ForeignTurn(a) PROVE Inv'
  BY <1>4, ForeignKeeps
<1>5. CASE CancelAll
  BY <1>5, CancelsKeep
<1>6. CASE DeleteParent
  BY <1>6, DeletesKeep
<1>7. QED
  BY <1>1, <1>2, <1>3, <1>4, <1>5, <1>6 DEF Next

(***************************************************************************)
(* An agent that does not exist has no session and no run.                 *)
(***************************************************************************)
LEMMA NoAgentIs ==
  /\ AgentOK(NoAgent) /\ Len(NoAgent.runs) = 0 /\ Len(NoAgent.sessions) = 0 /\ NoAgent.bound = 0
  /\ NoAgent.inFlight = 0 /\ NoAgent.row = "none" /\ NoAgent.latest = "none"
<1>1. PICK ss, rs : ss = <<>> /\ rs = <<>>
  OBVIOUS
<1>2. ss \in Seq(Session) /\ rs \in Seq(Run) /\ Len(ss) = 0 /\ Len(rs) = 0
  BY <1>1
<1>3. PICK y : y = NoAgent
  OBVIOUS
<1>4. y = [sessions |-> ss, bound |-> 0, row |-> "none", runs |-> rs, inFlight |-> 0, latest |-> "none"]
  BY <1>1, <1>3 DEF NoAgent
<1>5. /\ y \in Agent /\ y.sessions = ss /\ y.bound = 0 /\ y.row = "none" /\ y.runs = rs
      /\ y.inFlight = 0 /\ y.latest = "none"
  BY <1>2, <1>4 DEF Agent, States
<1>6. AgentOK(y)
  <2>1. \A r \in 1..Len(rs) : FALSE
    BY <1>2
  <2>2. Len(ss) <= MaxSessions /\ Len(rs) <= MaxRuns /\ 0 <= Len(ss) /\ 0 <= Len(rs)
    BY <1>2, AgentsAssumption
  <2>3. QED
    BY <1>5, <2>1, <2>2 DEF AgentOK
<1>7. QED
  BY <1>2, <1>3, <1>5, <1>6

(***************************************************************************)
(* The invariant holds at first.                                           *)
(***************************************************************************)
LEMMA InitInv == Init => Inv
<1>1. SUFFICES ASSUME Init PROVE Inv
  OBVIOUS
<1>2. \A a \in Agents : agent[a] = NoAgent
  BY <1>1 DEF Init
<1>3. \A c \in Calls : call[c] = Idle
  BY <1>1 DEF Init
<1>4. \A a \in Agents : Inputs(a) = {} /\ ~BeingClosed(a) /\ \A e \in Calls : ~On(e, a)
  BY <1>3, IdleIs DEF Inputs, BeingClosed, On
<1>5. \A c \in Calls : CallOK(c) /\ call[c].pc # "spawning"
  BY <1>3, IdleIs DEF CallOK
<1>6. \A a \in Agents : AgentOK(agent[a]) /\ Budgeted(a)
  <2>1. Cardinality({}) = 0
    BY FS_EmptySet
  <2>2. ASSUME NEW a \in Agents PROVE Budgeted(a)
    <3>1. Cardinality(Inputs(a)) = 0
      BY <1>4, <2>1
    <3>2. Len(agent[a].runs) = 0
      BY <1>2, NoAgentIs
    <3>3. QED
      BY <3>1, <3>2, AgentsAssumption DEF Budgeted
  <2>3. QED
    BY <1>2, <2>2, NoAgentIs
<1>7. Typed
  <2>1. agent \in [Agents -> Agent] /\ call \in [Calls -> CallRec]
    <3>1. NoAgent \in Agent /\ Idle \in CallRec
      BY NoAgentIs, IdleIs DEF AgentOK
    <3>2. QED
      BY <1>1, <3>1 DEF Init
  <2>2. deleted \in BOOLEAN /\ spent \in 0..Budget /\ crossed \subseteq Agents /\ foreign \subseteq Agents
    <3>1. deleted \in BOOLEAN
      BY <1>1, Zenon DEF Init
    <3>2. 0 \in 0..Budget
      BY AgentsAssumption
    <3>3. QED
      BY <1>1, <3>1, <3>2, Zenon DEF Init
  <2>3. QED
    BY <1>5, <1>6, <2>1, <2>2 DEF Typed, SpawnsApart
<1>8. ASSUME NEW a \in Agents PROVE LoneAt(a) /\ KeptAt(a)
  <2>1. PICK x : x = agent[a]
    OBVIOUS
  <2>2. /\ \A r \in 1..Len(x.runs) : FALSE
        /\ \A s \in 1..Len(x.sessions) : FALSE
        /\ x.inFlight = 0 /\ x.bound = 0 /\ x.row = "none" /\ x.latest = "none"
    BY <1>2, <2>1, NoAgentIs
  <2>3. Sound(x) /\ Taken(x) /\ Showing(x)
    BY <2>2 DEF Sound, Alone, Shown, Busy, Apart, Taken, Showing
  <2>4. Agree(x)
    BY <2>2 DEF Agree
  <2>5. QED
    BY <1>4, <2>1, <2>2, <2>3, <2>4 DEF LoneAt, KeptAt
<1>9. QED
  BY <1>7, <1>8 DEF Inv, Lone, Kept

(***************************************************************************)
(* The invariant implies the types.                                        *)
(***************************************************************************)
LEMMA InvTypes == Inv => TypeOK
<1>1. SUFFICES ASSUME Inv PROVE TypeOK
  OBVIOUS
<1>2. ASSUME NEW a \in Agents, NEW x, x = agent[a]
      PROVE  /\ x.sessions \in Seq(Session) /\ Len(x.sessions) <= MaxSessions
             /\ x.runs \in Seq(Run) /\ Len(x.runs) <= MaxRuns
             /\ \A r \in 1..Len(x.runs) : x.runs[r].s <= Len(x.sessions)
             /\ x.bound \in 0..Len(x.sessions) /\ {x.row, x.latest} \subseteq States
             /\ x.inFlight \in 0..Len(x.runs)
             /\ x.inFlight # 0 => x.runs[x.inFlight].tracked /\ x.runs[x.inFlight].at # "done"
  <2>1. AgentOK(x)
    BY <1>1, <1>2, SoundIs
  <2>2. /\ x.sessions \in Seq(Session) /\ x.bound \in Nat /\ x.row \in States
        /\ x.runs \in Seq(Run) /\ x.inFlight \in Nat /\ x.latest \in States
    BY <2>1, AgentFields DEF AgentOK
  <2>3. x.bound \in 0..Len(x.sessions) /\ x.inFlight \in 0..Len(x.runs)
    BY <2>1, <2>2 DEF AgentOK
  <2>4. \A r \in 1..Len(x.runs) : x.runs[r].s <= Len(x.sessions)
    BY <2>1, <2>2 DEF AgentOK
  <2>5. QED
    BY <2>1, <2>2, <2>3, <2>4 DEF AgentOK
<1>3. \A c \in Calls : /\ call[c].pc \in {"idle", "spawning", "joining", "waiting", "closing"}
                       /\ call[c].ids \subseteq Agents
  <2>1. \A c \in Calls : call[c] \in CallRec
    BY <1>1 DEF Inv, Typed
  <2>2. QED
    BY <2>1 DEF CallRec
<1>4. deleted \in BOOLEAN /\ spent \in 0..Budget /\ crossed \subseteq Agents /\ foreign \subseteq Agents
  BY <1>1 DEF Inv, Typed
<1>5. QED
  BY <1>2, <1>3, <1>4 DEF TypeOK

(***************************************************************************)
(* The invariant implies FinishedMeansIdle: whatever tracked run goes on   *)
(* is in flight, and a run in flight is not reported finished.             *)
(***************************************************************************)
LEMMA InvFinished == Inv => FinishedMeansIdle
<1>1. SUFFICES ASSUME Inv, NEW a \in Agents \ crossed, agent[a].latest \in Terminal,
                      NEW r \in 1..Len(agent[a].runs), agent[a].runs[r].tracked
               PROVE  agent[a].runs[r].at = "done"
  BY DEF FinishedMeansIdle
<1>2. Alone(agent[a]) /\ Shown(agent[a])
  BY <1>1, SoundIs DEF Sound
<1>3. r # 0
  BY <1>1, SoundIs, AgentFields DEF AgentOK
<1>4. agent[a].inFlight = 0
  BY <1>1, <1>2 DEF Shown
<1>5. QED
  BY <1>1, <1>2, <1>3, <1>4 DEF Alone

(***************************************************************************)
(* The invariant implies InputsAreTaken.                                   *)
(***************************************************************************)
LEMMA InvTaken == Inv => InputsAreTaken
BY DEF Inv, Kept, KeptAt, Taken, InputsAreTaken

(***************************************************************************)
(* The invariant implies ClosedIsStored.                                   *)
(***************************************************************************)
LEMMA InvClosed == Inv => ClosedIsStored
BY DEF Inv, Kept, KeptAt, Agree, BeingClosed, On, ClosedIsStored

(***************************************************************************)
(* The invariant holds of every behaviour.                                 *)
(***************************************************************************)
LEMMA Invariance == Spec => []Inv
<1>1. Inv /\ [Next]_vars => Inv'
  BY NextInv
<1>2. QED
  BY <1>1, InitInv, PTL DEF Spec

(***************************************************************************)
(* The sessions, runs and calls of every agent are of their types: what is *)
(* bound, in flight and awaited is there.                                  *)
(***************************************************************************)
THEOREM TypeCorrect == Spec => []TypeOK
BY Invariance, InvTypes, PTL

(***************************************************************************)
(* What the bus says last is true: an agent it reports completed, errored  *)
(* or closed has no tracked run that goes on, unless calls crossed on it.  *)
(***************************************************************************)
THEOREM ReportsAreTrue == Spec => []FinishedMeansIdle
BY Invariance, InvFinished, PTL

(***************************************************************************)
(* A message that was taken becomes a turn: no run AgentControl starts is  *)
(* refused, unless calls crossed on the agent or its own thread started a  *)
(* turn nobody tracks.                                                     *)
(***************************************************************************)
THEOREM MessagesBecomeTurns == Spec => []InputsAreTaken
BY Invariance, InvTaken, PTL

(***************************************************************************)
(* An agent is reported closed exactly as long as the database keeps it    *)
(* closed, but while a close is under way.                                 *)
(***************************************************************************)
THEOREM ClosedStaysStored == Spec => []ClosedIsStored
BY Invariance, InvClosed, PTL
=============================================================================
