---------------------------- MODULE SessionTurn ----------------------------
(***************************************************************************)
(* One session of the server: the user messages it is sent, the turn each  *)
(* accepted one runs, the steers sent while a turn runs, the prompts its   *)
(* tools put to the user, and cancellation.                                *)
(*                                                                         *)
(* The server is a single JavaScript thread, so what a handler does        *)
(* between two awaits that reach the event loop is one step here; at such  *)
(* an await any other handler may run. A turn is named by the message that *)
(* started it: makeTurnId draws a fresh id per accepted message.           *)
(*                                                                         *)
(* The model provider is outside: the runtime may start a step, put a      *)
(* prompt to the user, return or fail whenever its loop allows it.         *)
(***************************************************************************)
EXTENDS Naturals, Sequences

CONSTANTS
  Calls,       \* the sendUserMessage calls
  Steers,      \* the sendSteerMessage calls
  Uploads,     \* the calls and steers that carry uploaded files: checking
               \* those files is I/O, so it yields to the event loop
  Prompts,     \* identities for the prompts tools put to the user
  MaxSteps,    \* state.maxSteps, the model steps a turn may take
  MaxPending,  \* MAX_PENDING_STEER_COUNT
  CodexTurn,   \* the turn id the Codex app-server drew for the turn of a call
  None

ASSUME MaxStepsAssumption == MaxSteps \in Nat \ {0}
ASSUME MaxPendingAssumption == MaxPending \in Nat
ASSUME NoneAssumption == None \notin Calls
\* A steer is none of the other messages of a transcript.
ASSUME SteersAssumption == Steers \cap {"user", "response"} = {}
\* Two services draw their ids independently: neither draws the other's.
ASSUME ForeignTurnIds == \A c \in Calls : CodexTurn[c] \notin Calls

VARIABLES
  runtime,          \* "loop" (one prompt at a time, drains steers) or "codex"
  running,          \* state.running
  controller,       \* the turn whose AbortController is state.abortController
  aborted,          \* the turns whose AbortController is aborted
  acceptingSteers,  \* state.acceptingSteers
  currentTurnId,    \* state.currentTurnId
  outcome,          \* state.currentTurnOutcome
  pendingSteers,    \* state.pendingSteers
  steerHandler,     \* the turn whose runtime registered state.activeSteerHandler
  executionState,   \* sessionInfo.executionState of a child-agent session
  pc,               \* where each sendUserMessage call is
  started,          \* tracker.startedStepCount of a turn
  base,             \* startedStepsBeforePass
  left,             \* the steps the runtime may still start in this pass
  retried,          \* the calls whose pass was already retried, transcript only
  signal,           \* the turn whose AbortController the pass was given
  drained,          \* the steers commitPendingSteers took and has not committed
  report,           \* the outcome a turn's session_busy(false) carried
  steer,            \* where each sendSteerMessage call is
  target,           \* the turn id a steer was checked against
  via,              \* the turn whose handler a live steer was handed to
  notified,         \* the queued steers dropped with an error to the client
  prompt,           \* pendingAsk and pendingApproval: the state of each prompt
  asker,            \* the turn that put a prompt
  history           \* state.allMessages, each message with the turn it belongs to

sessionVars == <<running, controller, acceptingSteers, currentTurnId, outcome,
                 steerHandler, executionState>>
turnVars == <<started, base, left, retried, signal, drained, report>>
steerVars == <<steer, target, via, notified>>
promptVars == <<prompt, asker>>
vars == <<runtime, sessionVars, aborted, pendingSteers, pc, turnVars, steerVars,
          promptVars, history>>

\* Inside the try of sendUserMessage, from running = true to the finally.
Active == {"building", "model", "draining", "tick", "lateDrain"}
Items == {"user", "response"} \cup Steers
Entry == [turn : Calls, item : Items]

SessionTypes ==
  /\ running \in BOOLEAN
  /\ controller \in Calls \cup {None}
  /\ acceptingSteers \in BOOLEAN
  /\ currentTurnId \in Calls \cup {None}
  /\ outcome \in {"completed", "cancelled", "error"}
  /\ steerHandler \in Calls \cup {None}
  /\ executionState \in {"running", "completed", "errored"}

CallTypes ==
  /\ pc \in [Calls -> Active \cup {"idle", "validating", "refused", "done"}]
  /\ started \in [Calls -> Nat]
  /\ base \in [Calls -> Nat]
  /\ left \in [Calls -> Nat]
  /\ retried \subseteq Calls
  /\ signal \in [Calls -> Calls \cup {None}]
  /\ drained \in [Calls -> Seq(Steers)]
  /\ report \in [Calls -> {"none", "completed", "cancelled", "error"}]

SteerTypes ==
  /\ pendingSteers \in Seq(Steers)
  /\ steer \in [Steers -> {"idle", "validating", "live", "accepted", "refused"}]
  /\ target \in [Steers -> Calls \cup {None}]
  /\ via \in [Steers -> Calls \cup {None}]
  /\ notified \subseteq Steers

PromptTypes ==
  /\ prompt \in [Prompts -> {"unused", "pending", "settled"}]
  /\ asker \in [Prompts -> Calls \cup {None}]

HistoryTypes ==
  /\ runtime \in {"loop", "codex"}
  /\ aborted \subseteq Calls
  /\ history \in Seq(Entry)

TypeOK == SessionTypes /\ CallTypes /\ SteerTypes /\ PromptTypes /\ HistoryTypes

Init ==
  /\ runtime \in {"loop", "codex"}
  /\ running = FALSE
  /\ controller = None
  /\ aborted = {}
  /\ acceptingSteers = FALSE
  /\ currentTurnId = None
  /\ outcome = "completed"
  /\ pendingSteers = <<>>
  /\ steerHandler = None
  /\ executionState = "completed"
  /\ pc = [c \in Calls |-> "idle"]
  /\ started = [c \in Calls |-> 0]
  /\ base = [c \in Calls |-> 0]
  /\ left = [c \in Calls |-> 0]
  /\ retried = {}
  /\ signal = [c \in Calls |-> None]
  /\ drained = [c \in Calls |-> <<>>]
  /\ report = [c \in Calls |-> "none"]
  /\ steer = [s \in Steers |-> "idle"]
  /\ target = [s \in Steers |-> None]
  /\ via = [s \in Steers |-> None]
  /\ notified = {}
  /\ prompt = [p \in Prompts |-> "unused"]
  /\ asker = [p \in Prompts |-> None]
  /\ history = <<>>

-----------------------------------------------------------------------------
(* sendUserMessage up to the start of the turn *)

\* isAbortLikeError and the loop look at the session's controller, which is
\* the turn's own only as long as one turn runs.
SessionAborted == controller # None /\ controller \in aborted

AsksUser(c) == \E p \in Prompts : prompt[p] = "pending" /\ asker[p] = c

\* "Agent is busy", an exceeded budget, a bad attachment, or a failed check of
\* the uploaded files: an error event and nothing else.
RefuseUserMessage(c) ==
  /\ \/ pc[c] = "idle"
     \/ pc[c] = "validating"
  /\ pc' = [pc EXCEPT ![c] = "refused"]
  /\ UNCHANGED <<runtime, sessionVars, aborted, pendingSteers, turnVars,
                 steerVars, promptVars, history>>

\* await validateUploadedFileAttachments: stat and realpath of each file.
ValidateUploads(c) ==
  /\ pc[c] = "idle"
  /\ ~running
  /\ c \in Uploads
  /\ pc' = [pc EXCEPT ![c] = "validating"]
  /\ UNCHANGED <<runtime, sessionVars, aborted, pendingSteers, turnVars,
                 steerVars, promptVars, history>>

\* Mutant: the busy check is missing.
MayStartUnguarded(c) == pc[c] \in {"idle", "validating"}

\* running is tested before the await and not again after it.
MayStart(c) ==
  \/ pc[c] = "idle" /\ c \notin Uploads /\ ~running
  \/ pc[c] = "validating"

StartTurn(c) ==
  /\ MayStart(c)
  /\ running' = TRUE
  /\ controller' = c
  /\ acceptingSteers' = TRUE
  /\ currentTurnId' = c
  /\ outcome' = "completed"
  /\ executionState' = "running"
  /\ pc' = [pc EXCEPT ![c] = "building"]
  /\ UNCHANGED <<runtime, aborted, pendingSteers, steerHandler, turnVars,
                 steerVars, promptVars, history>>

-----------------------------------------------------------------------------
(* The passes of a turn: model calls, the steers they drain, their end *)

Entries(c, items) == [i \in 1..Len(items) |-> [turn |-> c, item |-> items[i]]]
Queued == {pendingSteers[i] : i \in 1..Len(pendingSteers)}

\* remainingSteps: the Codex runtime takes one step per call, the others loop.
PassSteps(startedBefore) == IF runtime = "codex" THEN 1 ELSE MaxSteps - startedBefore

\* invokeRunTurn
Invoke(c, startedBefore) ==
  /\ left' = [left EXCEPT ![c] = PassSteps(startedBefore)]
  /\ signal' = [signal EXCEPT ![c] = controller]
  /\ pc' = [pc EXCEPT ![c] = "model"]

BeginPass(c) ==
  /\ base' = [base EXCEPT ![c] = started[c]]
  /\ retried' = retried \ {c}
  /\ Invoke(c, started[c])

\* Mutant: what is queued when a turn ends stays queued.
KeepPendingSteers == UNCHANGED pendingSteers
ClearPendingSteers == pendingSteers' = <<>>

SettledState(out) == IF out = "error" THEN "errored" ELSE "completed"

\* The finally block. The call's locals are gone with it.
Finish(c, out) ==
  /\ started' = [started EXCEPT ![c] = 0]
  /\ base' = [base EXCEPT ![c] = 0]
  /\ left' = [left EXCEPT ![c] = 0]
  /\ retried' = retried \ {c}
  /\ signal' = [signal EXCEPT ![c] = None]
  /\ drained' = [drained EXCEPT ![c] = <<>>]
  /\ acceptingSteers' = FALSE
  /\ steerHandler' = None
  /\ ClearPendingSteers
  /\ executionState' = SettledState(out)
  /\ outcome' = out
  /\ report' = [report EXCEPT ![c] = out]
  /\ running' = FALSE
  /\ controller' = None
  /\ currentTurnId' = None
  /\ pc' = [pc EXCEPT ![c] = "done"]

BuildUserMessageContent(c) ==
  /\ pc[c] = "building"
  /\ history' = Append(history, [turn |-> c, item |-> "user"])
  /\ BeginPass(c)
  /\ UNCHANGED <<runtime, sessionVars, aborted, pendingSteers, started, drained,
                 report, steerVars, promptVars>>

\* A looping runtime awaits its tool, and the tool the user's answer.
InModelCall(c) == pc[c] = "model" /\ (runtime = "loop" => ~AsksUser(c))

\* Mutant: the runtime does not count the steps it may start.
StepsUnbounded(c) == TRUE
StepsRemain(c) == left[c] > 0

\* Mutant: off by one, the last step still invites steers.
OneStepTooMany(n) == n <= MaxSteps
StepsFit(n) == n < MaxSteps

\* start-step, then prepareStep, which takes the queued steers. The runtime
\* tests its signal first.
StartStep(c) ==
  /\ InModelCall(c)
  /\ StepsRemain(c)
  /\ signal[c] \notin aborted
  /\ started' = [started EXCEPT ![c] = @ + 1]
  /\ left' = [left EXCEPT ![c] = @ - 1]
  /\ acceptingSteers' = StepsFit(started[c] + 1)
  /\ IF runtime = "loop" /\ pendingSteers # <<>>
       THEN /\ drained' = [drained EXCEPT ![c] = pendingSteers]
            /\ pendingSteers' = <<>>
            /\ pc' = [pc EXCEPT ![c] = "draining"]
       ELSE UNCHANGED <<drained, pendingSteers, pc>>
  /\ UNCHANGED <<runtime, running, controller, currentTurnId, outcome, steerHandler,
                 executionState, aborted, base, retried, signal, report,
                 steerVars, promptVars, history>>

\* Mutant: a batch is committed newest first.
CommitReversed(c, items) ==
  history' = history \o [i \in 1..Len(items) |->
                           [turn |-> c, item |-> items[Len(items) + 1 - i]]]

\* The end of commitPendingSteers, once the content of every steer is built.
CommitSteers(c, items) == history' = history \o Entries(c, items)

CommitDrained(c) ==
  /\ pc[c] = "draining"
  /\ CommitSteers(c, drained[c])
  /\ drained' = [drained EXCEPT ![c] = <<>>]
  /\ pc' = [pc EXCEPT ![c] = "model"]
  /\ UNCHANGED <<runtime, sessionVars, aborted, pendingSteers, started, base, left,
                 retried, signal, report, steerVars, promptVars>>

\* Codex: the app-server answered turn/start, the handler for live steers is set.
RegisterSteerHandler(c) ==
  /\ runtime = "codex"
  /\ pc[c] = "model"
  /\ left[c] = 0
  /\ signal[c] \notin aborted
  /\ steerHandler' = c
  /\ UNCHANGED <<runtime, running, controller, acceptingSteers, currentTurnId, outcome,
                 executionState, aborted, pendingSteers, pc, turnVars,
                 steerVars, promptVars, history>>

\* The runtime's finally: unregister the handler if it is still its own.
Unregistered(c) == IF steerHandler = c THEN None ELSE steerHandler

BudgetSpent(n) == n >= MaxSteps

StepsAfterPass(c) == IF started[c] = base[c] THEN started[c] + 1 ELSE started[c]

\* Mutant: the queue is emptied without an error event.
DropPendingSteers == UNCHANGED notified
RejectPendingSteers == notified' = notified \cup Queued

\* The pass returned and the step budget is spent: the queued steers are
\* dropped with an error to the client and the turn ends.
ReturnAtBudget(c) ==
  /\ InModelCall(c)
  /\ BudgetSpent(StepsAfterPass(c))
  /\ history' = Append(history, [turn |-> c, item |-> "response"])
  /\ RejectPendingSteers
  /\ Finish(c, outcome)
  /\ UNCHANGED <<runtime, aborted, steer, target, via, promptVars>>

\* The pass returned with steps left: the turn waits one timer tick for steers
\* that are on their way.
ReturnWithBudget(c) ==
  /\ InModelCall(c)
  /\ ~BudgetSpent(StepsAfterPass(c))
  /\ started' = [started EXCEPT ![c] = StepsAfterPass(c)]
  /\ acceptingSteers' = (IF started[c] = base[c] THEN TRUE ELSE acceptingSteers)
  /\ steerHandler' = Unregistered(c)
  /\ history' = Append(history, [turn |-> c, item |-> "response"])
  /\ pc' = [pc EXCEPT ![c] = "tick"]
  /\ UNCHANGED <<runtime, running, controller, currentTurnId, outcome,
                 executionState, aborted, pendingSteers, base, left, retried, signal,
                 drained, report, steerVars, promptVars>>

\* The stored continuation was rejected: the same pass again, from the
\* transcript, with the number of steps computed before the first attempt.
RetryContinuation(c) ==
  /\ InModelCall(c)
  /\ c \notin retried
  /\ retried' = retried \cup {c}
  /\ steerHandler' = Unregistered(c)
  /\ Invoke(c, base[c])
  /\ UNCHANGED <<runtime, running, controller, acceptingSteers, currentTurnId, outcome,
                 executionState, aborted, pendingSteers, started, base, drained,
                 report, steerVars, promptVars, history>>

\* Mutant: a cancelled turn with queued steers is forgotten.
QueueIsEmpty == pendingSteers = <<>>
NothingToCommit == SessionAborted \/ pendingSteers = <<>>

\* After the tick: a cancelled turn drops what is queued, a turn nobody steered ends.
EndAfterTick(c) ==
  /\ pc[c] = "tick"
  /\ NothingToCommit
  /\ Finish(c, outcome)
  /\ UNCHANGED <<runtime, aborted, steerVars, promptVars, history>>

TakeLateSteers(c) ==
  /\ pc[c] = "tick"
  /\ ~SessionAborted
  /\ pendingSteers # <<>>
  /\ drained' = [drained EXCEPT ![c] = pendingSteers]
  /\ pendingSteers' = <<>>
  /\ pc' = [pc EXCEPT ![c] = "lateDrain"]
  /\ UNCHANGED <<runtime, sessionVars, aborted, started, base, left, retried, signal,
                 report, steerVars, promptVars, history>>

\* The late steers are committed; they get a pass of their own unless the turn
\* was cancelled meanwhile.
CommitLateSteers(c) ==
  /\ pc[c] = "lateDrain"
  /\ CommitSteers(c, drained[c])
  /\ IF SessionAborted
       THEN Finish(c, outcome)
       ELSE /\ acceptingSteers' = StepsFit(started[c])
            /\ drained' = [drained EXCEPT ![c] = <<>>]
            /\ BeginPass(c)
            /\ UNCHANGED <<running, controller, currentTurnId, outcome, steerHandler,
                           executionState, pendingSteers, started, report>>
  /\ UNCHANGED <<runtime, aborted, steerVars, promptVars>>

\* Anything in the try block throws: content that cannot be built, a model
\* error, an abort. A failed model call may leave a partial response.
FailTurn(c) ==
  /\ pc[c] \in {"building", "draining", "lateDrain"} \/ InModelCall(c)
  /\ \E out \in {"cancelled", "error"} :
       /\ SessionAborted => out = "cancelled"
       /\ Finish(c, out)
  /\ \/ UNCHANGED history
     \/ /\ pc[c] = "model"
        /\ history' = Append(history, [turn |-> c, item |-> "response"])
  /\ UNCHANGED <<runtime, aborted, steerVars, promptVars>>

-----------------------------------------------------------------------------
(* Prompts and cancellation *)

\* askUser and approveCommand: a tool of the model call needs the user.
AskUser(c, p) ==
  /\ InModelCall(c)
  /\ left[c] < PassSteps(base[c])
  /\ signal[c] \notin aborted
  /\ prompt[p] = "unused"
  /\ prompt' = [prompt EXCEPT ![p] = "pending"]
  /\ asker' = [asker EXCEPT ![p] = c]
  /\ UNCHANGED <<runtime, sessionVars, aborted, pendingSteers, pc, turnVars,
                 steerVars, history>>

\* handleAskResponse with a non-empty answer, handleApprovalResponse.
AnswerPrompt(p) ==
  /\ prompt[p] = "pending"
  /\ prompt' = [prompt EXCEPT ![p] = "settled"]
  /\ UNCHANGED <<runtime, sessionVars, aborted, pendingSteers, pc, turnVars,
                 steerVars, asker, history>>

\* Mutant: cancel aborts the turn and leaves the prompts standing.
KeepAllPending == prompt' = prompt

RejectAllPending ==
  prompt' = [p \in Prompts |-> IF prompt[p] = "pending" THEN "settled" ELSE prompt[p]]

Cancel ==
  /\ running
  /\ aborted' = aborted \cup ({controller} \ {None})
  /\ RejectAllPending
  /\ UNCHANGED <<runtime, sessionVars, pendingSteers, pc, turnVars, steerVars, asker,
                 history>>

-----------------------------------------------------------------------------
(* sendSteerMessage *)

\* The checks before the first await; t is the turn the client names.
MaySteer(t) == running /\ t = currentTurnId /\ acceptingSteers

\* One of the checks fails, or that of the uploaded files, or the queue is full.
RefuseSteer(s) ==
  /\ steer[s] \in {"idle", "validating"}
  /\ steer' = [steer EXCEPT ![s] = "refused"]
  /\ target' = [target EXCEPT ![s] = None]
  /\ UNCHANGED <<runtime, sessionVars, aborted, pendingSteers, pc, turnVars,
                 via, notified, promptVars, history>>

ValidateSteerUploads(s, t) ==
  /\ steer[s] = "idle"
  /\ s \in Uploads
  /\ MaySteer(t)
  /\ steer' = [steer EXCEPT ![s] = "validating"]
  /\ target' = [target EXCEPT ![s] = t]
  /\ UNCHANGED <<runtime, sessionVars, aborted, pendingSteers, pc, turnVars, via,
                 notified, promptVars, history>>

\* Past the await nothing but the handler and the room in the queue is looked at.
PassesChecks(s, t) ==
  \/ steer[s] = "idle" /\ s \notin Uploads /\ MaySteer(t)
  \/ steer[s] = "validating" /\ t = target[s]

\* No handler: the steer waits for the next step boundary. The client is told
\* steer_accepted with the turn id read before the await.
QueueSteer(s, t) ==
  /\ PassesChecks(s, t)
  /\ steerHandler = None
  /\ Len(pendingSteers) < MaxPending
  /\ pendingSteers' = Append(pendingSteers, s)
  /\ steer' = [steer EXCEPT ![s] = "accepted"]
  /\ target' = [target EXCEPT ![s] = t]
  /\ UNCHANGED <<runtime, sessionVars, aborted, pc, turnVars, via, notified,
                 promptVars, history>>

HandSteerToRuntime(s, t) ==
  /\ PassesChecks(s, t)
  /\ steerHandler # None
  /\ steer' = [steer EXCEPT ![s] = "live"]
  /\ target' = [target EXCEPT ![s] = t]
  /\ via' = [via EXCEPT ![s] = steerHandler]
  /\ UNCHANGED <<runtime, sessionVars, aborted, pendingSteers, pc, turnVars, notified,
                 promptVars, history>>

\* The Codex handler compares the turn id the steer names with the id the
\* app-server gave its own turn, and throws when they differ.
LiveSteer(s) ==
  /\ steer[s] = "live"
  /\ IF target[s] = CodexTurn[via[s]]
       THEN /\ steer' = [steer EXCEPT ![s] = "accepted"]
            /\ CommitSteers(target[s], <<s>>)
       ELSE /\ steer' = [steer EXCEPT ![s] = "refused"]
            /\ UNCHANGED history
  /\ UNCHANGED <<runtime, sessionVars, aborted, pendingSteers, pc, turnVars, target,
                 via, notified, promptVars>>

-----------------------------------------------------------------------------

\* What the server does by itself once a call is in: its awaits resolve, and
\* the provider's calls end, by themselves or because they are aborted.
CallStep(c) ==
  \/ StartTurn(c)
  \/ BuildUserMessageContent(c)
  \/ StartStep(c)
  \/ CommitDrained(c)
  \/ ReturnAtBudget(c)
  \/ ReturnWithBudget(c)
  \/ EndAfterTick(c)
  \/ TakeLateSteers(c)
  \/ CommitLateSteers(c)
  \/ FailTurn(c)

TurnEvent(c) ==
  \/ RefuseUserMessage(c)
  \/ ValidateUploads(c)
  \/ RegisterSteerHandler(c)
  \/ RetryContinuation(c)
  \/ \E p \in Prompts : AskUser(c, p)

SteerEvent(s) ==
  \/ RefuseSteer(s)
  \/ LiveSteer(s)
  \/ \E t \in Calls :
       ValidateSteerUploads(s, t) \/ QueueSteer(s, t) \/ HandSteerToRuntime(s, t)

Next ==
  \/ \E c \in Calls : CallStep(c) \/ TurnEvent(c)
  \/ \E s \in Steers : SteerEvent(s)
  \/ \E p \in Prompts : AnswerPrompt(p)
  \/ Cancel

Spec == Init /\ [][Next]_vars

\* No fairness for the user, who may never answer a prompt, cancel or steer.
FairSpec == Spec /\ \A c \in Calls : WF_vars(CallStep(c))

-----------------------------------------------------------------------------
(* Properties *)

ActiveCalls == {c \in Calls : pc[c] \in Active}

(***************************************************************************)
(* Turn execution is single-threaded per session: two turns never run at   *)
(* once, whatever messages arrive while one runs.                          *)
(***************************************************************************)
SingleThreadedTurns == \A c, d \in ActiveCalls : c = d

(***************************************************************************)
(* What the rest of the server sees of the session is the turn that runs:  *)
(* it is busy, that turn is the one steers and cancel reach, and a child   *)
(* agent is settled exactly when none runs.                                *)
(***************************************************************************)
SessionShowsTheTurn ==
  /\ running <=> ActiveCalls # {}
  /\ executionState = "running" <=> running
  /\ \A c \in ActiveCalls : currentTurnId = c /\ controller = c
  /\ ~running => currentTurnId = None /\ controller = None
  /\ \A c \in ActiveCalls : pc[c] # "building" => signal[c] = c

(***************************************************************************)
(* A session takes steers only for a turn that still has a step to spend   *)
(* on them.                                                                *)
(***************************************************************************)
SteeringLeavesAStep ==
  acceptingSteers => \E c \in ActiveCalls : started[c] < MaxSteps

InHistory(s) == \E i \in 1..Len(history) : history[i].item = s

(***************************************************************************)
(* A steer whose acceptance did not wait for files ends up in the turn it  *)
(* was accepted for or nowhere, and at most once.                          *)
(***************************************************************************)
SteerStaysInItsTurn ==
  \A s \in Steers \ Uploads : \A i, j \in 1..Len(history) :
    history[i].item = s =>
      /\ history[i].turn = target[s]
      /\ history[j].item = s => i = j

(***************************************************************************)
(* A turn that completes, and was not cancelled, leaves no accepted steer  *)
(* unaccounted for: each is in the transcript or was rejected with an      *)
(* error the client sees.                                                  *)
(***************************************************************************)
CompletedTurnSettlesItsSteers ==
  \A c \in Calls : report[c] = "completed" /\ c \notin aborted =>
    \A s \in Steers \ Uploads :
      steer[s] = "accepted" /\ target[s] = c => InHistory(s) \/ s \in notified

Before(seq, a, b) == \E i, j \in 1..Len(seq) : i < j /\ seq[i] = a /\ seq[j] = b

\* The accepted steers, those in the transcript first.
AcceptedInOrder ==
  [i \in 1..Len(history) |-> history[i].item]
    \o (IF currentTurnId = None THEN <<>> ELSE drained[currentTurnId])
    \o pendingSteers

(***************************************************************************)
(* Steers reach the transcript in the order their acceptance was told,     *)
(* through the queue and every batch that is drained from it.              *)
(***************************************************************************)
SteersKeepTheirOrder ==
  [][\A r, s \in Steers :
       Before(AcceptedInOrder, r, s) => ~Before(AcceptedInOrder', s, r)]_vars

(***************************************************************************)
(* A prompt of a looping runtime stands only while the turn that put it    *)
(* runs, uncancelled: cancel leaves no prompt, and no turn ends before its *)
(* prompts are settled.                                                    *)
(***************************************************************************)
PromptHasItsTurn ==
  runtime = "loop" =>
    \A p \in Prompts : prompt[p] = "pending" =>
      asker[p] \in ActiveCalls \ aborted

(***************************************************************************)
(* A cancelled turn ends, even one that was waiting for an answer, as long *)
(* as turns run one at a time: a second one takes its controller away.     *)
(***************************************************************************)
CancelledTurnEnds ==
  []SingleThreadedTurns =>
    \A c \in Calls : c \in aborted /\ pc[c] \in Active ~> pc[c] = "done"

(***************************************************************************)
(* A turn ends by itself, unless it waits for the user, as long as turns   *)
(* run one at a time.                                                      *)
(***************************************************************************)
TurnEndsOrAsks ==
  []SingleThreadedTurns =>
    \A c \in Calls : pc[c] \in Active ~> pc[c] = "done" \/ AsksUser(c)

(***************************************************************************)
(* The transcript is that of TurnLog: only the current turn writes to it,  *)
(* and a new turn starts only when there is none.                          *)
(***************************************************************************)
TL == INSTANCE TurnLog WITH
        open <- currentTurnId,
        closed <- {c \in Calls : pc[c] = "done"},
        log <- history
TurnLogSpec == TL!Spec
=============================================================================
