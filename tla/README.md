# A TLA+ model of the agent-coworker server

agent-coworker is an assistant whose server (`src/server`) keeps *sessions*. A
session holds a transcript, runs a *turn* per user message by calling a model
provider through a runtime, takes *steers* while a turn runs, puts *prompts*
(questions, command approvals) to the user, and shows its events to any number
of clients over JSON-RPC. Sessions are stored in one SQLite database that
several server processes may share.

Paths below are relative to the repository; `session/` stands for
`src/server/session/`.

## 1. Inventory

Every component, with the state it keeps, its operations, what is hard about
it and what makes it correct.

| component | state | operations | hard | correct when |
|---|---|---|---|---|
| turn execution (`session/turnExecution/*`, `TurnExecutionManager.ts`, `InteractionManager.ts`) | running, controller, currentTurnId, acceptingSteers, pendingSteers, steer handler, pending prompts, transcript | sendUserMessage, sendSteerMessage, prompts, answers, cancel | every await lets any other handler in; two kinds of runtime; step budget; cancel against everything | one turn at a time; steers end up in their turn, once, in order, or are refused aloud; prompts do not outlive turns; turns end |
| write lock (`sessionDb/writeCoordinator.ts`) | a lock directory and its owner file | acquire, recover, heartbeat, release | several processes, crashes, time, calls by path | one writer at a time; waiting writers get in or fail |
| persistence (`session/PersistenceManager.ts`) | pending reasons, a promise chain | queue a flush, flush, waitForIdle | changes during a flush, failing writes, crash between two writes, deletion | nothing is lost in silence; what is resumed is consistent |
| thread journal (`runtime/ThreadJournal.ts`) | queue per thread | enqueue, flush, waitForIdle, list | events during a batch, a failing append | the journal is the past, in order |
| JSON-RPC feed (`jsonrpc/transportAdapter.ts`, `jsonrpc/routes/thread.ts`, the replay buffer of `AgentSession.ts`) | sinks, replay buffer, requests known to a connection | resume, unsubscribe, close, answer, read, hydrate | three sources of the same event (journal, buffer, live) across an await | a follower gets every event once; a pending prompt is shown once and answerable |
| session registry (`runtime/SessionRegistry.ts`) | live bindings, idle times | build, resume, dispose, delete, evict | deletion against running work | a deleted session stays deleted |
| repository (`sessionDb/*`, `sessionDb.ts`) | the tables | transactions, migration, legacy import | SQLite does the hard part | |
| history window (`session/HistoryManager.ts`) | messages shown to the model | append, refresh | boundary at 200 | first message and newest 199 |
| socket send queue (`runtime/SocketSendQueue.ts`) | queue per connection | send, flush, evict | back-pressure codes, eviction | no message twice, order kept |
| event capture (`jsonrpc/sessionEventCapture.ts`) | temporary sinks | capture, captureMutationOutcome | timeouts; its sinks count as connections | a reply for every control call |
| child agents (`agents/AgentControl.ts`, `StatusBus.ts`) | bindings, the run in flight per agent, the last status per agent, waiters | spawn, list, sendInput, wait, resume, close, cancelAll | calls of one turn run in parallel; a run is awaited and then acted upon; sessions are rebuilt from rows | what is reported finished is idle; messages taken become turns; waits end; closed agents stay closed |
| research service (`research/ResearchService.ts` and its repository, runtime, files) | a runtime state per research, its row, timers, subscribers | start, follow up, approve, refine, rename, attach, cancel, read, clean-up, resumption | every write waits for a lock that serves nobody in order; runs, calls, timers and restarts overlap | the stored report is whole; clients see it; cancelled stays cancelled; the remote store is not forgotten |
| client connection (`src/client/jsonRpcSocket.ts`, the desktop client's `store.helpers/jsonRpcSocket.ts`) | the WebSocket, its timeouts, attempts, pending requests, a queue of retryable operations | connect, close, request, notify, respond | handlers of an earlier socket run late, on shared fields; a server that says nothing; timeouts and reconnections meet close and connect | what waits is answered; operations are sent once, in order; one connection at a time |
| backups | manifests | checkpoint, restore | file trees | |
| configuration and skill stores, workspace control, previews, web desktop service | files | read, write | I/O | |
| provider runtimes, auth, MCP, tools | external | | streams | |
| desktop, mobile and command-line clients | derived views | | | |

How they interact: a JSON-RPC request reaches a route, the route a session's
runtime facade, the facade the turn execution. Turn execution *emits* events;
`AgentSession` puts them in the replay buffer if one runs, the registry hands
them to every sink of the session, and a sink is either the thread journal or a
connection. Turn execution also asks `PersistenceManager` for flushes. Both the
flush and the journal write through the write lock. Callbacks in the other
direction are answers to prompts, steers and cancel.

The hazards of this code, each at its line and with the properties that cover
it, are in `PROJECT.json`.

## 2. What a step is

The server is one JavaScript thread. What a handler does between two awaits
that reach the event loop is one action; at such an await any other handler may
run. An await of a promise that is already settled, or whose settling the same
step brings about, goes on in the same microtask checkpoint, before any other
handler: `ThreadFeed` models this with `Idle`, which every other action
requires. Between *processes* (`WriteLock`) a step is one file-system call.

## 3. Modules

| module | models | state and actions |
|---|---|---|
| `TurnLog` | the promise about a transcript: turns open one at a time, only the open turn writes | `Open`, `Write`, `Close` |
| `SessionTurn` | turn execution | the variables are the fields of `state` by name, the locals of each sendUserMessage call (`pc`, `started`, `base`, `left`, `drained`), the place of each steer and prompt; one action per stretch of code between awaits |
| `MCSessionTurn` | instances of it | |
| `SessionTurnProofs`, `TurnLogProofs` | theorems | |
| `WriteLock`, `MCWriteLock` | the write lock | directory, owner file, ages, where each call is; `acquire` is `MakeLockDir`, `FindLockHeld`, `WriteOwner`, and cleanupStaleLock is split at each file-system call |
| `WriteLockProofs` | theorems | |
| `DurableSession` | the promise of the store | `Change`, `Save`, `Delete`, `Crash` |
| `Persistence` | PersistenceManager, the two writes of the repository, deletion and resume of the registry | contents are the number of changes so far; `BeginFlush`, `WriteRow`, `BuildSnapshot`, `WriteSnapshot`, `FailFlush` |
| `PersistenceProofs` | theorems | |
| `ThreadFeed`, `MCThreadFeed` | journal, replay buffer, connections | `stream` is everything given to the journal, `received` what a connection was sent; resume with a cursor is two actions around its await |
| `ThreadFeedProofs` | theorems | |
| `Research`, `MCResearch` | one research of the research service | `obj` are the runtime states, `db` the row, `proc` where each run and call is and the record it writes; each write is two steps, the call and its landing, and landings come in any order |
| `ClientLink` | JsonRpcSocket with its handshake, timeouts, reconnection and queue, as the desktop client uses it | `me` are its fields, `net` the WebSockets, `op` the operations asked for, `wire` what was sent; one action per handler and timer, and the server's and network's choices |
| `ClientLinkProofs` | theorems | |
| `Agents`, `MCAgents` | AgentControl, StatusBus, the part of a child's session they read, deletion and cancellation by the parent | per agent the session objects made, the bound one, its row, its runs, the one in flight and the last status published; `call` is where each call waits |
| `AgentsProofs` | theorems | |
| `ResearchProofs` | theorems | |

How the code reads in them:

* **A turn is named by its message.** `makeTurnId` draws a fresh id per
  accepted message, so the call and the turn are the same name.
* **Runtimes.** The looping runtimes start a step, call prepareStep (which
  drains steers), and await their tools one at a time; the Codex runtime makes
  one step per call, registers a handler for live steers and may put several
  prompts. `runtime` is chosen in `Init`.
* **The provider** may start a step, ask, return or fail whenever the loop of
  the runtime allows it.
* **A refused message or steer** may be refused at any time: budget, size and
  attachment checks are abstracted to a choice; the checks on the turn are not.
* **What a finished turn drops** (its locals) is reset, so that equal situations
  are equal states.
* **The write lock's time.** Lock staleness and acquire timeout are both 30 s:
  `ThirtySecondsPass` ages what is there and lets waiting writers time out. A
  heartbeat can only fire in a callback that awaits, which is the bootstrap's
  (`sessionDb.ts:365-381`); all other callbacks are synchronous.
* **Heartbeats by path.** `writeFile` truncates and then writes: two steps, and
  the second one goes to the file that was opened, even if that is gone.
* **Persistence.** `captured` is the version the canonical snapshot was built
  from; the session snapshot is built later, after the row. `waitForIdle`
  awaits the promise the queue is at, so an error ends the wait although a
  follow-up flush is queued. After a deletion the model lets any change come,
  though in the code only the end of a running turn brings them.
* **Thread feed.** Every event of the session is an item, a prompt, or the
  `serverRequest/resolved` entry the transport writes. The projectors that turn
  an event into notifications are the identity here: one event, one
  notification, one journal entry. Approvals behave as asks without blank
  answers. `received`, `since`, `fresh` and `unseen` are history variables for
  the properties. A closed connection does not come back; a client that
  reconnects is another connection. One resume at a time per connection. The
  journal writes its first event at once; in the code the events of one
  synchronous stretch share that batch.
* **Research.** One research; what a follow-up does to the new one is its
  start, with the previous interaction as data. Approving and refining share
  their code and their action. Titles and file lists are one flag, `edited`.
  The text is the sequence of the events it came from, so that a gap or a
  repetition shows. A write that landed and what its caller does next are one
  step, except in `Start`; writes do not fail. `status_update` events are
  treated as the start event. A missing API key is one of the failures of a
  run. The ring buffer of notifications, lists and exports are left out.
* **Agents.** A run is asked for, starts its turn a microtask later, ends, and
  its end is published; `Resumed` and `Quiet` keep the order of microtasks:
  first the calls whose run is over, then the turns they asked for, then any
  handler. A flush of a child's row lands at once (`Persistence` models
  flushes). `inspect` only reads. Budget and attachment refusals of a message
  are left out, as are restarts and idle eviction. `crossed` and `foreign` are
  history variables: agents on which two calls overlapped, or whose parent was
  deleted, and agents that had a turn from their own thread.

* **Client connection.** A WebSocket keeps its slot until its close event, and
  the slot is used again. Server and network may accept, answer, refuse, drop or
  say nothing. Two initialize requests of one socket are answered in any order;
  the server accepts one. `opened` is the flag the desktop client keeps, and
  `EnsureConnected` its call of connect before a request; it is bounded by
  `Slots`. After close the object is not used again, as in both clients. What
  messages say, and `respond`, which only sends, are left out. `again` is a
  history variable: connect was called while a reconnection was due.

## 4. Runs

`tlc -config X.cfg M`; run `X` uses `X.cfg`.

| run | module | bounds | shows |
|---|---|---|---|
| `SessionTurn` | `MCSessionTurn` | 2 messages, 2 steers (one with files), 1 prompt, 2 steps, queue of 2 | the session shows its one turn; steers; prompts; refinement of `TurnLog` |
| `SessionTurnLive` | `MCSessionTurn` | 2 messages (one with files), 1 steer, 1 prompt; states with one turn at most | turns end or ask; cancelled turns end |
| `WriteLock` | `MCWriteLock` | 3 writers in 3 processes, one bootstrap, one that may crash | lone recovery is safe; writers end |
| `Persistence` | `Persistence` | 4 changes | nothing lost in silence; consistent resume; close; refinement of `DurableSession` |
| `ThreadFeed` | `MCThreadFeed` | 2 connections, 1 prompt, 4 journal entries, buffer of 2 | followers miss nothing; prompts once and answerable; the journal |
| `Research` | `MCResearch` | 2 runs, 2 runtime states, 2 calls at a time, 2 calls or timers after the start, 1 restart, 1 content event | stored report, clients, remote store, cancellation |
| `Agents` | `MCAgents` | 1 agent, 2 calls at a time, 5 in all, 3 runs, 2 session objects | statuses are true, messages become turns, closed stays closed, waits end |
| `ClientLink` | `ClientLink` | 2 sockets and reconnections at a time, 2 attempts, 3 operations, queue of 2 | what waits ends; order on the wire; one connection |
| `SessionTurnUploads`, `WriteLockCrash`, `PersistenceDelete`, `ResearchRead` | | as above or less | the disagreements of section 7 |

Why the bounds are enough. *SessionTurn*: two messages let a turn follow a turn,
which is where leaks between turns show; two steers make an order, and one of
them can be in a drained batch while the other waits; two steps give a first
and a last step. *WriteLock*: an owner, a recoverer and a bystander; the case
of two recoverers needs a third writer between them. *Persistence*: a change
before, during and after each of the two writes, and one after a restart.
*ThreadFeed*: a buffer of two overflows with three entries, and four entries
leave one before the cursor; two connections are one that follows while the
other resumes. *Research*: two runs are a plan and its research, or a run and
the one that replaces it; two calls overlap each other and the run, and one of
them or a timer can be on its way to the database while the research ends; one
content event separates the start, the middle and the end of a stream.
*Agents*: agents share nothing but the calls that wait for several of them, so
one agent is run and the modes *any* and *all* are told apart by reading only;
three runs are one that two calls interrupt and the two that follow; five calls
are enough to spawn, interrupt, close, find again and reopen. *ClientLink*: a
socket and one that closes late, or a socket and a reconnection; a first, a
second and a refused attempt; three operations are two queued around one sent,
and the third finds a queue of two full. `MaxChanges` and `MaxEntries` only bound the exploration;
`MaxSteps`, `MaxPending` and `MaxBuffer` are the limits of the code (100, 32
and 256 by default) made small. The configuration also admits `maxSteps` 0,
where a turn only appends its message; the model assumes at least one step, and
that the configuration does not change while a turn runs. Calls, steers and prompts are used once
each. `CHECK_DEADLOCK FALSE`: a session to which nobody sends anything more
stops, and so do the bounded runs.

Symmetry is used in `SessionTurn` (messages) and `ThreadFeed` (connections),
whose properties name no particular one; the liveness runs use none.

### Fairness

* `SessionTurn`: weak fairness of each call's own steps (`CallStep`): its awaits
  resolve, and a provider call ends by itself or because its signal aborts it.
  None for answering, cancelling, steering, sending, registering a handler or
  retrying. Hence "ends *or asks*".
* `WriteLock`: weak fairness of each writer's next file-system call, of its
  heartbeat's two calls and of time. None for crashes or for beginning.
* `Persistence`: weak fairness of the flush: a database write returns or throws.
* `ThreadFeed`, `Research`: safety only.
* `Agents`: weak fairness of what microtasks resume, and of the end of an
  aborted turn, which `CancelledTurnEnds` of `SessionTurn` provides. None for
  the model, for calls or for timers.
* `ClientLink`: weak fairness of timers that are set and of the close event of
  a socket that closes, which every WebSocket implementation delivers. None for
  server and network, which may stay silent for ever.

### Premises stated in the properties

* `SteerStaysInItsTurn` and `CompletedTurnSettlesItsSteers` speak of steers
  without uploaded files and of uncancelled turns: a steer with files can be
  queued after its turn (section 7), and a cancelled turn drops its queue
  without a word, by design.
* `PromptHasItsTurn` speaks of looping runtimes: the Codex runtime may fail
  with a prompt standing.
* `CancelledTurnEnds` and `TurnEndsOrAsks` hold while turns run one at a time;
  the run cuts the other states off with a constraint that says the same, so
  that they need not be explored. When two turns overlap, a cancelled one may
  put a prompt after its cancellation and wait for it.
* `LoneRecoveryExcludes` holds while one writer at most recovered a lock, and
  no writer holds the lock over 30 s (`LongWrites = FALSE`). The process that
  sends heartbeats does not die in this run.
* `SubscriberMissesNothing` holds while no append failed and no closed
  connection has a sink (`NoDeadSinks`): a connection that closes during its
  resume leaves one.
* The `refused` prompts are left out of `PendingPromptIsAnswerable`, since a
  refused answer makes its connection forget them (section 7).

* `StoredReportIsWhole` and `NoStoreIsForgotten` leave out researches in which
  attaching or renaming put back the record read before an await (`putBack`),
  which undoes text, status and store. `NoStoreIsForgotten` speaks of a server
  that was not restarted: the store is named in the row only after the files
  are uploaded.
* `FinishedMeansIdle`, `InputsAreTaken`, `ClosedIsStored` and `JoinsEnd` leave
  out agents on which calls crossed, and all but `FinishedMeansIdle` and
  `JoinsEnd` those with a turn from their own thread, whose end nobody
  publishes and nobody can await (section 7).

* `QueuedEnds`, `ReadySettles` and `OneConnection` leave out clients that called
  connect while a reconnection was due (`again`): the timer is not cancelled
  and a second socket follows (section 7). `ReadySettles` also leaves out a
  client that closes its socket: close during a reconnection wait settles
  nothing.

## 5. Theorems

All proofs are checked by TLAPS, with no unproved step.

* `SessionTurnProofs!TypeCorrect`: `TypeOK`. Typing alone is not inductive:
  `left'` is `left - 1`, and the steps of a pass are `MaxSteps - started`, so
  `StepsBounded` bounds the counters at each place of a call; `IInv` is both.
* `SessionShows`, `SingleThreaded`, `ImplementsTurnLog`, `PromptsBelong`, under
  `NoUploadedMessages` (no message carries uploaded files; steers may). The
  invariant `TurnInv` adds to `IInv` that live steers were handed to a named
  turn (`LiveSteersNamed`; with `ForeignTurnIds` it follows that none is
  accepted, hence none is written to a closed turn), that no message is between
  its busy check and its start (`NoneValidating`), and the property itself. The
  premise is necessary: `SessionTurnUploads` is the counterexample without it.
  `PromptsAwaited` adds that the call that asked is in its model call.
* `SteersStay`, `CompletedSettles`, `SteersInOrder`, `SteeringHasAStep`, under
  the same premise. An accepted steer is in one of three places, in this order:
  the transcript, the batch its turn has drained and not yet committed, the
  queue (`AcceptedInOrder` is their concatenation). `SteerInv` says that a
  steer is there only if accepted (`Placed`), at most once over all three
  (`Once`), under its own turn in each (`InItsTurn`), and that a steer told
  accepted which is nowhere was rejected aloud (`Settled`). `StepShape` reduces
  the steps to eight that concern these places: a step writes a message of
  the turn, drains the queue, commits the drained batch, ends the turn, queues a
  steer, opens a turn, or leaves them alone. `Rearranged` is what draining and
  committing do: the concatenation stays what it is. The lemmas on occurrence and
  order in sequences (`OccursConcat`, `BeforeConcat`, `ItemsOfBatch`) need that a
  steer is never also called "user" or "response" (`SteersAssumption`).
  `SteeringHasAStep` is separate: it follows the budget through the places of a
  call (`StepForSteers`).
* `TurnLogProofs!TurnsAreContiguous`: in `TurnLog`, the messages of a turn are
  contiguous. `TranscriptContiguous` carries it to `SessionTurn` through the
  refinement.
* `PersistenceProofs`: `QuietSessionsAreStored`, `ResumedFeedIsCurrent`,
  `CloseIsStored`, `ImplementsDurableSession`, for any number of changes. The
  invariant says which version is where during a flush: the row being written is
  not older than the stored one (`FlushIsCurrent`, `RowFollowsFlush`), the
  snapshot has the row's number only with at least the row's contents
  (`SnapshotFollowsRow`), and a close in progress has its flush ahead of it
  (`CloseIsFlushed`).
* `ThreadFeedProofs!JournalHolds`: `JournalIsThePast`. The invariant `QueueInv`
  adds the types of the queue, that the journal is no longer than the stream
  (else "a prefix of it" would not survive the next event), and that an idle
  queue holds nothing.
* `ThreadFeedProofs!PromptsAnswerable`: `PendingPromptIsAnswerable`, inductive
  with two typing facts. The argument is in `SubscribeKnows` (what a replay
  registers and what is presented behind it cover all that is asked) and
  `ForgetKeeps` (a connection forgets only what is settled or was refused).
* `ThreadFeedProofs!TypesHold`: `TypeOK`, with what is asked being finite
  (`SetToSeq` lists it). That the buffer drops one entry at most at a time keeps
  it within its bound (`KeepTypes`).
* `ThreadFeedProofs!PromptsPresentedOnce`: `PromptPresentedOnce`. What makes it
  inductive (`AsksOnce`) is that the stream and the buffer hold a prompt once as
  well, and that the buffer, and what each connection was sent, ask nothing that
  is not in the stream: then a prompt a tool puts for the first time is nowhere
  yet, and one that is pending is presented only if the replay does not hold it.
* `ThreadFeedProofs!NothingIsMissed`: `SubscriberMissesNothing`. The invariant
  `FeedInv` says, beside the types and `QueueInv`, that a cursor lies in the
  journal and the handler that goes on with it never finds the journal being
  written (`Waits`: it then holds the whole stream); that what a follower was
  sent `Covers` the stream behind its cursor (`Followed`); and that while
  nobody follows the thread the buffer is a `Mirrored` part of the stream: some
  `f` places its entries there in order, and all that was emitted from `unseen`
  on but what only the journal is given is placed (`Kept`). `MirrorsTail` is the
  crux: what a full buffer drops is the first of its kind from `unseen` on, so
  that the rest is again all there is behind it.

* `WriteLockProofs!TypeCorrect`, and `LoneRecovery`: `LoneRecoveryExcludes`
  under `LeasesHold`, the premise that nobody holds the lock over 30 s and the
  processes that send heartbeats do not die. The invariant `LockInv` says, while
  one writer at most recovered a lock, that whoever is inside made the directory
  and cannot be taken for stale (`InsideOwns`: nothing has aged and the owner
  file names a living process), and that whoever is about to remove a lock
  judged a dead one (`RemovesDeadLock`); `WriteLockCrash` shows that the second
  part fails with two recoverers.
* `ClientLinkProofs`, for any number of sockets, attempts and operations:
  `TypeCorrect`, for which sockets and reconnections together must fit the slots;
  `HopeHolds`: `WaitingHasAHope`, since operations are queued only while neither
  closed nor exhausted, and then a socket or a timer is there; `OrderHolds`:
  `WireFollowsCalls`, since all that is queued was asked for after all that was
  sent and nothing is queued on a ready connection; `OneConnectionHolds`:
  `OneConnection`, by the three situations of `Single`. The handlers are first
  reduced to what they do to the few fields these speak of (`QuietStep`,
  `Greets`, `Connects`, `CloseCases`, `AsksCases`), so that each invariant is
  proved over a handful of cases.
* `AgentsProofs`, for any number of agents, calls, runs and sessions:
  `TypeCorrect`, `ReportsAreTrue` (`FinishedMeansIdle`), `MessagesBecomeTurns`
  (`InputsAreTaken`) and `ClosedStaysStored` (`ClosedIsStored`), from one
  invariant of three parts. `Typed`: the types, the shape of a call at each place
  it waits (it awaits runs and sessions there are), and that there is room for
  the runs and messages still under way (`Budgeted`). `Lone`, of an agent on which
  no calls crossed: the run in flight is the only tracked one that goes on or is
  about to start (`Alone`), it is in the session that is bound and is not
  reported finished (`Shown`), a session shows the turn it has and has one at
  most (`Busy`, `Apart`), and one call at most works on the agent, awaiting
  exactly that run. `Kept`, when moreover no turn was started from the agent's own
  thread: no run was refused, no session shows a turn it has not, and the bus,
  the row and the bound session agree on "closed" unless a close is under way
  (`Agree`). `Settles` reduces what most handlers do to an agent to a few cases;
  then there is one lemma per action.

* `ResearchProofs`, for any number of calls, runs, runtime states, restarts and
  events of a stream: `TypeCorrect`, `ViewIsCurrent` (`ViewFollowsRecord`),
  `StoreIsNamed` (`NoStoreIsForgotten`), `ReportIsWhole` (`StoredReportIsWhole`)
  and the action property `CancelIsFinal` (`CancelledStaysCancelled`), from one
  invariant `Inv` (`Invariance`) of five parts, which need each other. `Typed`:
  the types, what a run or call holds at each place it waits, when it may be
  there (a run prepares files only as the first one and before any restart), and
  that no record names a store, a plan or an interaction before one has begun.
  `Asked`: a run goes on with a cancelled research only while the state's cancel
  flag is set, since only the flag, not the status, makes the end of the stream
  a cancellation. `Followed`: the subscriber follows the state in the map, and
  `ViewFollowsRecord`. `Stores`: the run that prepares files works on the state
  in the map, whose stream nobody ends, and a store that was dropped is gone.
  `Reported`: unless a stale record was put back, every record there is (in a
  state, in the row, on its way to it, read by a call) is whole (`Sound`), each
  state has one run at most amid its stream, and that run and the record agree on
  what was read (`Coupled`). `RunMove`, `CallMove`, `ExecMove` and
  `QuietMove` say what a step that writes one state and moves one or two entries must
  do to preserve `Inv` and to keep a cancellation; then there is one lemma per
  action.

Assumptions: those on the constants, named in the modules and evaluated by TLC
in the runs; `ForeignTurnIds` says that two services that draw ids
independently never draw the same one.

Only model-checked: liveness and everything with fairness, which is out of the
prover's reach. Every invariant and every action property a passing run checks
is a theorem. What `ThreadFeed` says of sequences it says by positions
(`ItemsIn`, `InOrder`) and not with `SelectSeq`: that one is recursive, and what
it returns for every sequence needs induction over data, which the installed
provers cannot instantiate.

## 6. Not modelled

The contents of messages, streams, usage accounting, titles and telemetry;
the file store used without a database; schema migration; the components of section 1
without a module. Reasons per component are in `PROJECT.json`.

## 7. Where code and documentation disagree

The first four have a run that exhibits them; lines and quotations are in
`PROJECT.json`.

1. Two messages with uploaded files can run two turns at once
   (`SessionTurnUploads`).
2. Two writers recovering one dead lock can be inside together
   (`WriteLockCrash`).
3. A deleted session can be written again by its last flush
   (`PersistenceDelete`).
4. A read that resolves citations can put the running record back over a
   completed one (`ResearchRead`).

The others are behaviour of the models, which the properties leave out by name:

5. A failed append stops a thread's journal for good: the loop is left without
   forgetting that it runs (ThreadJournal.ts:31-41), so every later enqueue
   returns at line 21, although the handler at line 27 says "Keep queue alive
   after prior failure." (`FailAppend`, `JournalIsThePast`).
6. A steer with uploaded files can be accepted for a turn that ended
   (`ValidateSteerUploads`).
7. Live steers of Codex turns are always refused: the two sides compare ids of
   different services (`ForeignTurnIds`).
8. A blank or malformed answer cannot be corrected from the same connection
   (`AnswerBlank`, `AnswerMalformed`).
9. Two messages that interrupt the same run of a child agent, and any message
   sent while it is being closed, run two turns at once in a session, or one in
   a session that is disposed of (`InputJoined`, `Closed`);
   docs/architecture.md:338 says turns are single-threaded per session.
10. An interrupting message to an agent whose turn came from its own thread
    awaits nothing and is refused, while its caller is told it was taken.
11. connect does not cancel a reconnection that is due, and no close handler
    asks whose socket it is. The desktop client calls connect in that state
    (`EnsureConnected`): the timer then replaces a healthy socket, which stays
    open beside the new one and delivers every notification a second time, the
    timeouts of one clear those of the other, and an operation queued then may
    wait for ever. docs/bundling-guide.md:7 speaks of "a single WebSocket", and
    :155 says "Messages sent during disconnection are queued and flushed on
    reconnect".

## 8. Plan

Done, in this order: `TurnLog`, `SessionTurn`, their proofs; `WriteLock`;
`Persistence`, `DurableSession`, their proofs; `ThreadFeed`; `Research`;
`Agents`; `ClientLink`; the proofs about `WriteLock`, `ClientLink`, `Agents`,
`Research` and `ThreadFeed`.

Next:

1. The desktop feed: the reducer replaces the live feed by the snapshot that
   `thread/read` took before it waited for the journal
   (`routes/thread.ts:150`), unless the thread is busy and the snapshot is the
   older one; notifications that arrived during the wait can be lost from view.
   In `ThreadFeed`: capture sinks, which count as connections.
2. `WriteLock`: an abstract `Mutex` specification it implements under the
   premise of `LoneRecovery`.
3. `SendQueue`: `SocketSendQueue` against "each message at most once, in order",
   with the three answers of `ws.send`: a direct send overtakes what is queued,
   and the flush drops a message on 0 where it keeps it on -1.
4. `History`: the window of `HistoryManager` as operators, incremental against
   from-scratch.
5. `SessionRegistry`: building, disposal and idle eviction, composed with
   `Persistence` so that deletion and the end of a turn are one system.
