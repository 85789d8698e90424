------------------------------- MODULE Agents -------------------------------
(***************************************************************************)
(* The child agents of one session: their sessions, the runs AgentControl  *)
(* tracks, the status bus, and the calls that spawn, message, await and    *)
(* close agents. Calls come from the tools of the parent's turn, which may *)
(* run in parallel, and from clients.                                      *)
(*                                                                         *)
(* A step is what runs up to an await that reaches the event loop. What a  *)
(* settled promise resumes runs before any other handler: first the calls  *)
(* that awaited it, then the turns they asked for (see Quiet).             *)
(***************************************************************************)
EXTENDS Naturals, Sequences, FiniteSets

CONSTANTS
  Agents,       \* child agents of the session
  Calls,        \* calls that may be under way at a time
  MaxRuns,      \* bound on the runs of an agent
  MaxSessions,  \* bound on the session objects made for an agent
  Budget        \* bound on the calls, all together

ASSUME AgentsAssumption ==
  /\ {MaxRuns, MaxSessions} \subseteq Nat \ {0} /\ Budget \in Nat
  /\ Agents # {} /\ IsFiniteSet(Calls)

VARIABLES
  agent,    \* what there is of each agent
  call,     \* where each call is
  deleted,  \* the parent session was deleted
  spent,    \* calls made
  crossed,  \* agents that were messaged, resumed, closed or deleted while such a call was
            \* under way
  foreign   \* agents that had a turn started from their own thread

vars == <<agent, call, deleted, spent, crossed, foreign>>

States == {"none", "pending_init", "running", "completed", "errored", "closed"}
Terminal == {"completed", "errored", "closed"}

\* A session object: status, whether it shows a turn, how the last one ended, and
\* the run its abort controller belongs to.
Session == [closed : BOOLEAN, running : BOOLEAN, failed : BOOLEAN, controller : 0..MaxRuns]
Opened(status) == [closed |-> status = "closed", running |-> FALSE, failed |-> status = "errored",
                   controller |-> 0]

\* A run: its session, where it is, and whether its turn was aborted. AgentControl
\* tracks the ones it started itself.
Run == [s : 1..MaxSessions, at : {"asked", "refused", "turn", "done"}, aborted : BOOLEAN,
        tracked : BOOLEAN]

\* bound is the session of the binding, or 0; row what the database says.
NoAgent == [sessions |-> <<>>, bound |-> 0, row |-> "none", runs |-> <<>>, inFlight |-> 0,
            latest |-> "none"]

Idle == [pc |-> "idle", op |-> "none", ids |-> {}, s |-> 0, run |-> 0, all |-> FALSE]

Init ==
  /\ agent = [a \in Agents |-> NoAgent]
  /\ call = [c \in Calls |-> Idle]
  /\ deleted = FALSE
  /\ spent = 0
  /\ crossed = {}
  /\ foreign = {}

-----------------------------------------------------------------------------
(* An agent x and its sessions *)

\* Mutant: a closed agent is hydrated as any other.
HydratedOpen(row) == [Opened(row) EXCEPT !.closed = FALSE]

\* hydrateAgentSession: what was running in the row is normalised to completed.
Hydrated(row) == Opened(row)

Known(x) == x.bound # 0 \/ (x.row # "none" /\ Len(x.sessions) < MaxSessions)

\* ensureAgentSession
Ensure(x) ==
  IF x.bound # 0 THEN x
  ELSE [x EXCEPT !.sessions = Append(@, Hydrated(x.row)), !.bound = Len(x.sessions) + 1]

\* executionStateForSession
StateOf(session) ==
  CASE session.closed -> "closed"
    [] ~session.closed /\ session.running -> "running"
    [] ~session.closed /\ ~session.running /\ session.failed -> "errored"
    [] OTHER -> "completed"

\* What a flush of the session writes: a running one counts as completed when it is
\* hydrated.
RowOf(session) == IF StateOf(session) = "running" THEN "completed" ELSE StateOf(session)

\* StatusBus.publish, on the side of the agent
Publish(x, state) == [x EXCEPT !.latest = state]

\* Mutant: nothing is aborted.
AbortNothing(x, s) == x

\* cancel: the controller of the session is aborted, if it shows a turn.
Abort(x, s) ==
  IF x.sessions[s].running /\ x.sessions[s].controller # 0
    THEN [x EXCEPT !.runs[x.sessions[s].controller].aborted = TRUE]
    ELSE x

\* The flush a change of the session asks for.
Stored(x, s) == [x EXCEPT !.row = RowOf(x.sessions[s])]

\* reopenForHistory
Reopen(x, s) == IF x.sessions[s].closed THEN Stored([x EXCEPT !.sessions[s].closed = FALSE], s) ELSE x

\* trackRun: sendUserMessage tests running at once, and sets it a microtask later.
Track(x, s) ==
  LET r == [s |-> s, at |-> IF x.sessions[s].running THEN "refused" ELSE "asked",
            aborted |-> FALSE, tracked |-> TRUE]
  IN [x EXCEPT !.runs = Append(@, r), !.inFlight = Len(x.runs) + 1, !.latest = "running"]

\* Runs are left, also for the calls that are about to start one.
MayRun(a) == Len(agent[a].runs) + Cardinality({c \in Calls : call[c].op = "input" /\ a \in call[c].ids}) < MaxRuns

\* Mutants: the end of a run is not published; its run is not forgotten.
UntrackSilently(x, s) == [x EXCEPT !.inFlight = 0]
KeepTracked(x, s) == Publish(x, StateOf(x.sessions[s]))

\* finally of trackRun: whatever run is in flight by now is forgotten.
Untrack(x, s) == Publish([x EXCEPT !.inFlight = 0], StateOf(x.sessions[s]))

-----------------------------------------------------------------------------
(* Waiting *)

\* isSatisfied
Satisfied(w, agents) ==
  LET ready == {a \in w.ids : agents[a].latest \in Terminal}
  IN IF w.all THEN ready = w.ids ELSE ready # {}

\* The listeners of the bus: a satisfied call is answered.
Notified(calls, agents) ==
  [c \in Calls |-> IF calls[c].pc = "waiting" /\ Satisfied(calls[c], agents) THEN Idle ELSE calls[c]]

Publishes(calls, agents) ==
  /\ agent' = agents
  /\ call' = Notified(calls, agents)

\* The calls and turns that go on before any other handler: a call whose run is
\* over, or that found none, and a run that was refused or is about to start.
Resumed ==
  {c \in Calls : /\ call[c].pc = "joining"
                 /\ \A a \in call[c].ids : call[c].run = 0 \/ agent[a].runs[call[c].run].at = "done"}
RunsAt(places) ==
  {p \in Agents \X (1..MaxRuns) : p[2] <= Len(agent[p[1]].runs) /\ agent[p[1]].runs[p[2]].at \in places}
Quiet == Resumed = {} /\ RunsAt({"asked", "refused"}) = {}

\* The turns of an agent that run.
Turns(a) == {r \in 1..Len(agent[a].runs) : agent[a].runs[r].at = "turn"}

-----------------------------------------------------------------------------
(* Runs *)

Started(x, s, r) ==
  Stored([x EXCEPT !.sessions[s] = [closed |-> FALSE, running |-> TRUE, failed |-> FALSE, controller |-> r]], s)

\* sendUserMessage: the turn starts, in a session it reopens if need be. A second
\* one, asked for in between, starts too and takes the controller.
TurnStarts(a, r) ==
  LET x == agent[a] IN
  /\ Resumed = {}
  /\ <<a, r>> \in RunsAt({"asked"})
  /\ agent' = [agent EXCEPT ![a] = Started([x EXCEPT !.runs[r].at = "turn"], x.runs[r].s, r)]
  /\ UNCHANGED <<call, deleted, spent, crossed, foreign>>

\* The session is busy: sendUserMessage returns.
RunRefused(a, r) ==
  /\ Resumed = {}
  /\ <<a, r>> \in RunsAt({"refused"})
  /\ Publishes(call, [agent EXCEPT ![a] = Untrack([@ EXCEPT !.runs[r].at = "done"], @.runs[r].s)])
  /\ UNCHANGED <<deleted, spent, crossed, foreign>>

\* finally of the turn, the row it asks for, and finally of trackRun: an aborted
\* turn does not count as failed.
TurnEnds(a, r, failed) ==
  LET x == agent[a]
      s == x.runs[r].s
      session == [x.sessions[s] EXCEPT !.running = FALSE, !.controller = 0, !.failed = failed]
      ended == Stored([x EXCEPT !.runs[r].at = "done", !.sessions[s] = session], s)
  IN /\ Quiet
     /\ r \in Turns(a)
     /\ failed => ~x.runs[r].aborted
     /\ IF x.runs[r].tracked
          THEN Publishes(call, [agent EXCEPT ![a] = Untrack(ended, s)])
          ELSE agent' = [agent EXCEPT ![a] = ended] /\ UNCHANGED call
     /\ UNCHANGED <<deleted, spent, crossed, foreign>>

\* turn/start on the thread of the agent: nobody tracks the run.
ForeignTurn(a) ==
  LET x == Ensure(agent[a])
      run == [s |-> x.bound, at |-> "turn", aborted |-> FALSE, tracked |-> FALSE]
  IN /\ Quiet
     /\ Known(agent[a]) /\ MayRun(a)
     /\ ~x.sessions[x.bound].running
     /\ agent' = [agent EXCEPT ![a] = Started([x EXCEPT !.runs = Append(@, run)], x.bound, Len(x.runs) + 1)]
     /\ foreign' = foreign \cup {a}
     /\ UNCHANGED <<call, deleted, spent, crossed>>

-----------------------------------------------------------------------------
(* Calls *)

Called(c) ==
  /\ Quiet
  /\ call[c] = Idle
  /\ spent < Budget /\ spent' = spent + 1

Crosses(a) ==
  crossed' = IF \E c \in Calls : a \in call[c].ids /\ call[c].pc \in {"joining", "closing"}
               THEN crossed \cup {a} ELSE crossed

\* spawn, up to its awaits: the providers that are connected, the prompt of the agent
Spawn(c, a) ==
  /\ Called(c)
  /\ ~deleted
  /\ agent[a] = NoAgent
  /\ \A d \in Calls : call[d].pc = "spawning" => a \notin call[d].ids
  /\ call' = [call EXCEPT ![c] = [Idle EXCEPT !.pc = "spawning", !.op = "spawn", !.ids = {a}]]
  /\ UNCHANGED <<agent, deleted, crossed, foreign>>

\* The session is built and its run tracked; the parent may be cancelled or deleted by now.
Spawned(c) ==
  /\ Quiet
  /\ call[c].pc = "spawning"
  /\ \E a \in call[c].ids :
       LET built == [NoAgent EXCEPT !.sessions = <<Opened("completed")>>, !.bound = 1, !.row = "completed"]
       IN Publishes([call EXCEPT ![c] = Idle],
                    [agent EXCEPT ![a] = Track(Publish(built, "pending_init"), 1)])
  /\ UNCHANGED <<deleted, spent, crossed, foreign>>

\* Mutant: the run is not awaited.
NothingToJoin(x) == 0

\* The run an interrupting message or a close awaits.
RunToJoin(x) == x.inFlight

\* sendInput: a busy agent is interrupted, and its run awaited, or the call refused.
SendInput(c, a, interrupt) ==
  LET x == Ensure(agent[a])
      busy == x.sessions[x.bound].running
      reopened == Reopen(x, x.bound)
  IN /\ Called(c)
     /\ Known(agent[a])
     /\ Crosses(a)
     /\ \/ /\ busy /\ interrupt /\ MayRun(a)
           /\ agent' = [agent EXCEPT ![a] = Abort(reopened, x.bound)]
           /\ call' = [call EXCEPT ![c] = [Idle EXCEPT !.pc = "joining", !.op = "input", !.ids = {a},
                                                       !.s = x.bound, !.run = RunToJoin(x)]]
        \/ /\ busy /\ ~interrupt
           /\ agent' = [agent EXCEPT ![a] = reopened]
           /\ UNCHANGED call
        \/ /\ ~busy /\ MayRun(a)
           /\ Publishes(call, [agent EXCEPT ![a] = Track(reopened, x.bound)])
     /\ UNCHANGED <<deleted, foreign>>

\* The awaited run is over: the message is sent, to the session found before the await.
InputJoined(c) ==
  /\ c \in Resumed /\ call[c].op = "input"
  /\ \E a \in call[c].ids :
       Publishes([call EXCEPT ![c] = Idle], [agent EXCEPT ![a] = Track(@, call[c].s)])
  /\ UNCHANGED <<deleted, spent, crossed, foreign>>

\* wait: the state of every agent is published, then the call is answered or waits.
Wait(c, ids, all) ==
  LET agents == [a \in Agents |->
        IF a \in ids
          THEN LET x == Ensure(agent[a])
               IN Publish(x, IF x.inFlight # 0 THEN "running" ELSE StateOf(x.sessions[x.bound]))
          ELSE agent[a]]
      waiting == [Idle EXCEPT !.pc = "waiting", !.op = "wait", !.ids = ids, !.all = all]
  IN /\ Called(c)
     /\ ids # {} /\ \A a \in ids : Known(agent[a])
     /\ Publishes([call EXCEPT ![c] = waiting], agents)
     /\ UNCHANGED <<deleted, crossed, foreign>>

WaitTimesOut(c) ==
  /\ Quiet
  /\ call[c].pc = "waiting"
  /\ call' = [call EXCEPT ![c] = Idle]
  /\ UNCHANGED <<agent, deleted, spent, crossed, foreign>>

\* list: the state of every bound agent is published.
List(c) ==
  /\ Called(c)
  /\ Publishes(call, [a \in Agents |->
       IF agent[a].bound # 0 THEN Publish(agent[a], StateOf(agent[a].sessions[agent[a].bound])) ELSE agent[a]])
  /\ UNCHANGED <<deleted, crossed, foreign>>

ResumeAgent(c, a) ==
  LET x == Ensure(agent[a])
      reopened == Reopen(x, x.bound)
  IN /\ Called(c)
     /\ Known(agent[a])
     /\ Crosses(a)
     /\ Publishes(call, [agent EXCEPT ![a] = Publish(reopened, StateOf(reopened.sessions[x.bound]))])
     /\ UNCHANGED <<deleted, foreign>>

\* close: the agent is cancelled and its run awaited.
Close(c, a) ==
  LET x == Ensure(agent[a]) IN
  /\ Called(c)
  /\ Known(agent[a])
  /\ Crosses(a)
  /\ agent' = [agent EXCEPT ![a] = Abort(x, x.bound)]
  /\ call' = [call EXCEPT ![c] = [Idle EXCEPT !.pc = "joining", !.op = "close", !.ids = {a},
                                              !.s = x.bound, !.run = RunToJoin(x)]]
  /\ UNCHANGED <<deleted, foreign>>

\* closeForHistory, up to its awaits: its servers are closed, its state stored.
CloseJoined(c) ==
  /\ c \in Resumed /\ call[c].op = "close"
  /\ \E a \in call[c].ids : agent' = [agent EXCEPT ![a].sessions[call[c].s].closed = TRUE]
  /\ call' = [call EXCEPT ![c].pc = "closing", ![c].run = 0]
  /\ UNCHANGED <<deleted, spent, crossed, foreign>>

\* The session is stored, disposed of and unbound; whatever binding is there goes.
Closed(c) ==
  LET s == call[c].s IN
  /\ Quiet
  /\ call[c].pc = "closing"
  /\ \E a \in call[c].ids :
       LET x == Abort(agent[a], s)
       IN Publishes([call EXCEPT ![c] = Idle],
                    [agent EXCEPT ![a] = Publish([Stored(x, s) EXCEPT !.bound = 0], "closed")])
  /\ UNCHANGED <<deleted, spent, crossed, foreign>>

\* cancelAll, when the parent is cancelled with its agents
CancelAll ==
  /\ Quiet
  /\ agent' = [a \in Agents |-> IF agent[a].bound # 0 THEN Abort(agent[a], agent[a].bound) ELSE agent[a]]
  /\ UNCHANGED <<call, deleted, spent, crossed, foreign>>

\* deleteSession of the parent: its agents are disposed of, unbound and deleted.
DeleteParent ==
  /\ Quiet
  /\ ~deleted
  /\ deleted' = TRUE
  /\ agent' = [a \in Agents |->
       [(IF agent[a].bound # 0 THEN Abort(agent[a], agent[a].bound) ELSE agent[a])
          EXCEPT !.bound = 0, !.row = "none"]]
  /\ crossed' = Agents
  /\ UNCHANGED <<call, spent, foreign>>

-----------------------------------------------------------------------------
RunStep(a, r) ==
  \/ TurnStarts(a, r)
  \/ RunRefused(a, r)
  \/ \E failed \in BOOLEAN : TurnEnds(a, r, failed)

CallStep(c) ==
  \/ \E a \in Agents : Spawn(c, a) \/ ResumeAgent(c, a) \/ Close(c, a)
  \/ \E a \in Agents, interrupt \in BOOLEAN : SendInput(c, a, interrupt)
  \/ \E ids \in SUBSET Agents, all \in BOOLEAN : Wait(c, ids, all)
  \/ List(c)
  \/ Spawned(c) \/ InputJoined(c) \/ WaitTimesOut(c) \/ CloseJoined(c) \/ Closed(c)

Next ==
  \/ \E a \in Agents, r \in 1..MaxRuns : RunStep(a, r)
  \/ \E c \in Calls : CallStep(c)
  \/ \E a \in Agents : ForeignTurn(a)
  \/ CancelAll
  \/ DeleteParent

\* An aborted turn ends, and what was resumed goes on. Nothing makes the model, the
\* user or the parent's timers act.
Fairness ==
  /\ \A a \in Agents, r \in 1..MaxRuns :
       /\ WF_vars(TurnStarts(a, r) \/ RunRefused(a, r))
       /\ WF_vars(r \in Turns(a) /\ agent[a].runs[r].aborted /\ TurnEnds(a, r, FALSE))
  /\ \A c \in Calls : WF_vars(InputJoined(c) \/ CloseJoined(c) \/ Closed(c))

Spec == Init /\ [][Next]_vars /\ Fairness
-----------------------------------------------------------------------------
\* Every agent, call and counter is of its type, a tracked run that is not over has
\* a session, and the run that is in flight is not over.
TypeOK ==
  /\ \A a \in Agents :
       LET x == agent[a] IN
       /\ x.sessions \in Seq(Session) /\ Len(x.sessions) <= MaxSessions
       /\ x.runs \in Seq(Run) /\ Len(x.runs) <= MaxRuns
       /\ \A r \in 1..Len(x.runs) : x.runs[r].s <= Len(x.sessions)
       /\ x.bound \in 0..Len(x.sessions) /\ {x.row, x.latest} \subseteq States
       /\ x.inFlight \in 0..Len(x.runs)
       /\ x.inFlight # 0 => x.runs[x.inFlight].tracked /\ x.runs[x.inFlight].at # "done"
  /\ \A c \in Calls : /\ call[c].pc \in {"idle", "spawning", "joining", "waiting", "closing"}
                       /\ call[c].ids \subseteq Agents
  /\ deleted \in BOOLEAN /\ spent \in 0..Budget
  /\ crossed \subseteq Agents /\ foreign \subseteq Agents

\* What the bus says last, and so what a waiting call is told, is true: an agent that
\* is reported completed, errored or closed has no tracked run that goes on (trackRun,
\* close). Calls that cross on one agent can break this: both send their message.
FinishedMeansIdle ==
  \A a \in Agents \ crossed : agent[a].latest \in Terminal =>
    \A r \in 1..Len(agent[a].runs) : agent[a].runs[r].tracked => agent[a].runs[r].at = "done"

\* A message that was taken becomes a turn: with the interruption awaited, the session
\* is no longer busy (sendInput). A turn nobody tracks cannot be awaited.
InputsAreTaken ==
  \A a \in Agents \ (crossed \cup foreign) : \A r \in 1..Len(agent[a].runs) : agent[a].runs[r].at # "refused"

\* Once closed, an agent is reported closed as long as the database keeps it closed,
\* whoever looks it up: waiting and listing do not reopen it, only a message or its
\* resumption does, and they store that (close, hydrateAgentSession, reopenForHistory).
\* A message that crosses the close is lost to it, and a turn from the agent's own
\* thread reopens it unheard.
ClosedIsStored ==
  \A a \in Agents \ (crossed \cup foreign) :
    \/ \E c \in Calls : call[c].pc = "closing" /\ a \in call[c].ids
    \/ agent[a].latest = "closed" <=> agent[a].row = "closed"

\* Messages that interrupt, and closes, do not wait for ever, whatever the agent was
\* doing: what they await was aborted (sendInput, close). After calls that crossed, the
\* run awaited may be one that nobody aborted.
JoinsEnd == \A c \in Calls : call[c].pc = "joining" ~> call[c].pc # "joining" \/ call[c].ids \subseteq crossed

\* A call that waits for agents whose turns were all cancelled is answered without
\* its timer, unless one of them is given more to do (trackRun, StatusBus.wait). The
\* end of a turn started from the thread of an agent is not published.
Cancelled(ids) == \A a \in ids : \A r \in Turns(a) : agent[a].runs[r].aborted
CancelledWaitsEnd ==
  \A c \in Calls :
    call[c].pc = "waiting" /\ Cancelled(call[c].ids)
      ~> call[c].pc # "waiting" \/ ~Cancelled(call[c].ids) \/ foreign # {}
=============================================================================
