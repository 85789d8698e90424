------------------------------ MODULE Research ------------------------------
(***************************************************************************)
(* One research of the research service: its row in the database, the      *)
(* runtime state the service keeps of it while it is worked on, the runs   *)
(* that read the stream of a remote interaction into it, the calls clients *)
(* make on it, and a client that follows it.                               *)
(*                                                                         *)
(* A step is what a handler does up to an await that reaches the event     *)
(* loop: a write (which waits for the write lock of the database, where    *)
(* the waiting writers are not served in their order), a request to the    *)
(* provider, a look-up of a citation, the reading of an uploaded file.     *)
(***************************************************************************)
EXTENDS Naturals, Sequences

CONSTANTS
  Calls,        \* the calls that may be under way at a time
  MaxRuns,      \* bound on the runs, each of which creates an interaction
  MaxObjs,      \* bound on the runtime states made for the research
  Budget,       \* bound on the calls after start and the persist timers that fire, together
  MaxRestarts,  \* bound on the restarts of the server
  Starts,       \* how it may be started: with plan approval or not, with files or not
  Chunks,       \* content events of an interaction
  Cited         \* those whose text carries citations

ASSUME ResearchAssumption ==
  /\ {MaxRuns, MaxObjs, Budget, MaxRestarts, Chunks} \subseteq Nat
  /\ Cited \subseteq 1..Chunks
  /\ Starts \subseteq [planning : BOOLEAN, files : BOOLEAN]
  /\ Calls \cap (0..MaxRuns) = {}

VARIABLES
  obj,       \* the ResearchRuntimeState objects made so far
  cur,       \* the one in the map of states, or 0
  db,        \* the row of the research
  proc,      \* the runs and the calls: where each is, and what it holds
  late,      \* the write of a persist timer that has fired
  runs,      \* runs started
  spent,     \* how much of the budget is
  init,      \* initPromise of this server: "no", "resuming", "done"
  restarts,
  sub,       \* the runtime state the client is subscribed to, or 0
  view,      \* what the client was last told
  store,     \* a file search store of the research exists at the provider
  putBack    \* some call put back a record older than the one it replaced

stateVars == <<obj, cur>>
clientVars == <<sub, view>>
boundVars == <<runs, spent, init, restarts>>
vars == <<stateVars, db, proc, late, boundVars, clientVars, store, putBack>>

\* Run 0 goes on, after a restart, with the interaction of the row.
Runs == 0..MaxRuns
Procs == Runs \cup Calls

Status == {"pending", "running", "completed", "failed", "cancelled"}

\* An event of an interaction: 0 starts it, Chunks + 1 completes it.
Events == (1..MaxRuns) \X (0..Chunks + 1)
NoEvent == <<0, 0>>

Record ==
  [status : Status, inter : 0..MaxRuns, last : Events \cup {NoEvent}, text : Seq(Events),
   sources : {"none", "opaque", "resolved"}, plan : BOOLEAN, store : BOOLEAN,
   edited : BOOLEAN]
NoRecord == [status |-> "none"]

NewRecord ==
  [status |-> "pending", inter |-> 0, last |-> NoEvent, text |-> <<>>, sources |-> "none",
   plan |-> FALSE, store |-> FALSE, edited |-> FALSE]

\* What the client shows of a record.
Shown(rec) == [status |-> rec.status, text |-> rec.text]

Idle == [pc |-> "idle", op |-> "none", o |-> 0, rec |-> NoRecord, w |-> NoRecord,
         at |-> 0, next |-> 0, planning |-> FALSE, files |-> FALSE, back |-> "idle"]

Init ==
  /\ obj = <<>>
  /\ cur = 0
  /\ db = NoRecord
  /\ proc = [p \in Procs |-> Idle]
  /\ late = NoRecord
  /\ runs = 0
  /\ spent = 0
  /\ init = "done"
  /\ restarts = 0
  /\ sub = 0
  /\ view = Shown(NewRecord)
  /\ store = FALSE
  /\ putBack = FALSE

Spend == spent < Budget /\ spent' = spent + 1

-----------------------------------------------------------------------------
(* Runtime states and their records *)

Terminal(status) == status \in {"completed", "failed", "cancelled"}

\* shouldCleanupTerminalState
Settled(rec) == Terminal(rec.status) /\ ~rec.plan

\* getOrCreateState: the record that is handed in replaces the one there.
StateOf(rec) ==
  IF cur # 0 THEN [obj EXCEPT ![cur].rec = rec]
  ELSE Append(obj, [rec |-> rec, cancel |-> FALSE, planning |-> FALSE, stream |-> FALSE, timer |-> FALSE])
StateId == IF cur # 0 THEN cur ELSE Len(obj) + 1
MayHaveState == cur # 0 \/ Len(obj) < MaxObjs

\* What the service knows of the research: its state, or else its row.
Known == IF cur # 0 THEN obj[cur].rec ELSE db

Replaces(rec) == putBack' = (putBack \/ Known # rec)

Patched(objs, o, rec) == [objs EXCEPT ![o].rec = rec]

\* updateRecord and schedulePersist
Scheduled(objs, o, rec) == [objs EXCEPT ![o].rec = rec, ![o].timer = TRUE]

\* flushPersistNow: the timer is cleared and the record, as it is, is to be written.
Flushed(objs, o) == [objs EXCEPT ![o].timer = FALSE]

\* The write p waits for gets the lock; p goes on in the same step. Only start
\* needs the moment in between, see Inserted.
Lands(p) == db' = proc[p].w

\* Mutant: what changed is not told.
NotTold(objs, o) == UNCHANGED view

\* broadcast of the record, or of what changed of it, to the subscribers
Told(objs, o) == view' = IF sub = o THEN Shown(objs[o].rec) ELSE view

\* What is left of a run or of a call that goes on at pc, or is over.
GoesOn(entry, pc) == IF pc = "idle" THEN Idle ELSE [entry EXCEPT !.pc = pc, !.back = "idle", !.w = NoRecord]

\* cleanupTerminalState, up to its first await: the store at the provider is
\* deleted first, then the state is taken from the map and its subscribers with it.
CleanUp(p, objs, o, entry, back) ==
  IF cur = o /\ objs[o].rec.store
    THEN /\ proc' = [proc EXCEPT ![p] = [entry EXCEPT !.pc = "dropping", !.back = back, !.w = NoRecord]]
         /\ obj' = objs
         /\ UNCHANGED <<cur, sub>>
    ELSE /\ proc' = [proc EXCEPT ![p] = GoesOn(entry, back)]
         /\ obj' = IF cur = o THEN Flushed(objs, o) ELSE objs
         /\ cur' = IF cur = o THEN 0 ELSE cur
         /\ sub' = IF sub = o /\ cur = o THEN 0 ELSE sub

-----------------------------------------------------------------------------
(* Writes *)

\* The persist timer fires.
TimerFires(o) ==
  /\ obj[o].timer
  /\ late = NoRecord
  /\ Spend
  /\ late' = obj[o].rec
  /\ obj' = Flushed(obj, o)
  /\ UNCHANGED <<cur, db, proc, runs, init, restarts, clientVars, store, putBack>>

LateWriteLands ==
  /\ late # NoRecord
  /\ db' = late
  /\ late' = NoRecord
  /\ UNCHANGED <<stateVars, proc, boundVars, clientVars, store, putBack>>

-----------------------------------------------------------------------------
(* executeResearch *)

\* The run is to write the status "running" before it creates its interaction.
Begins(entry, objs, o) ==
  LET rec == [objs[o].rec EXCEPT !.status = "running"] IN
  [entry EXCEPT !.pc = "saveRun", !.w = rec]
BeganState(objs, o) == Flushed(Patched(objs, o, [objs[o].rec EXCEPT !.status = "running"]), o)

\* streamPromise = executeResearch(...), up to its first await. A run that finds
\* the research cancelled returns at once, and its promise stays in the state.
Execute(c, objs, o, planning, files) ==
  LET started == [objs EXCEPT ![o].planning = planning, ![o].stream = TRUE]
      rec == objs[o].rec
      entry == [Idle EXCEPT !.o = o, !.at = runs + 1]
      returns == objs[o].cancel \/ (~files /\ rec.status = "cancelled")
  IN /\ runs' = runs + 1
     /\ obj' = IF returns \/ files THEN started ELSE BeganState(started, o)
     /\ proc' = [proc EXCEPT
          ![c] = Idle,
          ![runs + 1] = IF returns THEN (IF Settled(rec) THEN [entry EXCEPT !.pc = "leaving"] ELSE Idle)
                        ELSE IF files THEN [entry EXCEPT !.pc = "prepare"]
                        ELSE Begins(entry, started, o)]

\* finally: a settled research is cleaned up, once its uploads are deleted.
Return(r, objs, o) ==
  LET left == [objs EXCEPT ![o].stream = FALSE] IN
  /\ obj' = left
  /\ proc' = [proc EXCEPT ![r] = IF r # 0 /\ Settled(left[o].rec) THEN [@ EXCEPT !.pc = "leaving"] ELSE Idle]

Leaves(r) ==
  /\ proc[r].pc = "leaving"
  /\ CleanUp(r, obj, proc[r].o, proc[r], "idle")
  /\ UNCHANGED <<db, late, boundVars, view, store, putBack>>

Cancelled(o) == obj[o].cancel \/ obj[o].rec.status = "cancelled"

\* Mutant: the files of a cancelled research are not recorded.
ForgetStore(rec) == rec

\* updateRecord with the files and the store that were prepared
WithStore(rec) == [rec EXCEPT !.store = TRUE]

\* prepareResearchFiles: the files of the research are uploaded to a store.
FilesPrepared(r) ==
  LET o == proc[r].o
      rec == WithStore(obj[o].rec)
      objs == Patched(obj, o, rec)
  IN /\ proc[r].pc = "prepare"
     /\ store' = TRUE
     /\ IF Cancelled(o)
          THEN Return(r, objs, o)
          ELSE /\ obj' = Flushed(objs, o)
               /\ proc' = [proc EXCEPT ![r].pc = "saveFiles", ![r].w = rec]
     /\ UNCHANGED <<cur, db, late, boundVars, clientVars, putBack>>

FilesSaved(r) ==
  LET o == proc[r].o IN
  /\ proc[r].pc = "saveFiles" /\ Lands(r)
  /\ Told(obj, o)
  /\ IF Cancelled(o)
       THEN Return(r, obj, o)
       ELSE /\ obj' = BeganState(obj, o)
            /\ proc' = [proc EXCEPT ![r] = Begins(@, obj, o)]
  /\ UNCHANGED <<cur, late, boundVars, sub, store, putBack>>

RunSaved(r) ==
  /\ proc[r].pc = "saveRun" /\ Lands(r)
  /\ proc' = [proc EXCEPT ![r].pc = "create", ![r].w = NoRecord]
  /\ Told(obj, proc[r].o)
  /\ UNCHANGED <<stateVars, late, boundVars, sub, store, putBack>>

\* createResearchInteractionStream: nothing is tested between the write and it.
InteractionCreated(r) ==
  /\ proc[r].pc = "create"
  /\ proc' = [proc EXCEPT ![r].pc = "read", ![r].next = 0]
  /\ UNCHANGED <<stateVars, db, late, boundVars, clientVars, store, putBack>>

\* catch: no key, files that cannot be uploaded, no stream, an error event.
RunFails(r) ==
  LET o == proc[r].o
      rec == [obj[o].rec EXCEPT !.status = IF obj[o].cancel THEN "cancelled" ELSE "failed"]
  IN /\ r # 0
     /\ proc[r].pc \in {"prepare", "create", "read"}
     /\ obj' = Flushed(Patched(obj, o, rec), o)
     /\ proc' = [proc EXCEPT ![r].pc = "failing", ![r].w = rec]
     /\ UNCHANGED <<cur, db, late, boundVars, clientVars, store, putBack>>

FailureSaved(r) ==
  LET o == proc[r].o IN
  /\ r # 0
  /\ proc[r].pc = "failing" /\ Lands(r)
  /\ Told(obj, o)
  /\ Return(r, obj, o)
  /\ UNCHANGED <<cur, late, boundVars, sub, store, putBack>>

-----------------------------------------------------------------------------
(* handleInteractionEvent *)

\* The next event of the stream, and the state it is handled in.
Reads(r) == proc[r].pc = "read" /\ proc[r].next <= Chunks + 1
EventOf(r) == <<proc[r].at, proc[r].next>>
Seen(r) == [obj[proc[r].o].rec EXCEPT !.last = EventOf(r)]

\* interaction.start and interaction.status_update
StartEvent(r) ==
  LET o == proc[r].o
      rec == IF Cancelled(o) THEN Seen(r) ELSE [Seen(r) EXCEPT !.inter = proc[r].at, !.status = "running"]
      objs == Scheduled(obj, o, rec)
  IN /\ Reads(r) /\ proc[r].next = 0
     /\ obj' = objs
     /\ proc' = [proc EXCEPT ![r].next = 1]
     /\ IF Cancelled(o) THEN UNCHANGED view ELSE Told(objs, o)
     /\ UNCHANGED <<cur, db, late, boundVars, sub, store, putBack>>

\* appendTextDelta
WithText(rec, e) == [rec EXCEPT !.text = Append(@, e)]

\* Content is dropped once the research was asked to cancel; the text of an event
\* is appended at once, its citations after they have been looked up.
ContentEvent(r) ==
  LET o == proc[r].o
      k == proc[r].next
      objs == Scheduled(obj, o, WithText(Seen(r), EventOf(r)))
  IN /\ Reads(r) /\ k \in 1..Chunks
     /\ IF obj[o].cancel
          THEN /\ proc' = [proc EXCEPT ![r].next = k + 1]
               /\ UNCHANGED <<obj, view>>
          ELSE /\ obj' = objs
               /\ proc' = [proc EXCEPT ![r].next = k + 1, ![r].pc = IF k \in Cited THEN "cite" ELSE "read"]
               /\ Told(objs, o)
     /\ UNCHANGED <<cur, db, late, boundVars, sub, store, putBack>>

\* upsertSources: the look-up answered, or left the opaque address as it was.
SourcesFound(r) ==
  /\ proc[r].pc = "cite"
  /\ \E s \in {"opaque", "resolved"} :
       LET o == proc[r].o
           rec == [obj[o].rec EXCEPT !.sources = IF @ = "none" THEN s ELSE @]
       IN obj' = Scheduled(obj, o, rec)
  /\ proc' = [proc EXCEPT ![r].pc = "read"]
  /\ UNCHANGED <<cur, db, late, boundVars, clientVars, store, putBack>>

\* Mutant: the provider's word for it is kept.
RawOutcomes == {"completed", "incomplete"}

\* normalizeInteractionStatus: "incomplete" counts as failed.
Outcomes == {"completed", "failed"}

\* The record an interaction that completed leaves.
CompletedRecord(r, outcome) ==
  [Seen(r) EXCEPT !.status = outcome, !.inter = proc[r].at,
                  !.plan = @ \/ (obj[proc[r].o].planning /\ outcome = "completed")]

\* Mutant: an answer that comes after the cancellation counts.
CancelIgnored(o) == FALSE

\* What was cancelled before it completed stays cancelled.
CancelledBefore(o) == Cancelled(o)

CompleteEvent(r) ==
  LET o == proc[r].o IN
  /\ Reads(r) /\ proc[r].next = Chunks + 1
  /\ \E outcome \in Outcomes :
       LET rec == IF CancelledBefore(o) THEN [Seen(r) EXCEPT !.status = "cancelled"]
                  ELSE CompletedRecord(r, outcome)
           objs == [obj EXCEPT ![o].rec = rec, ![o].planning = FALSE]
           entry == [proc[r] EXCEPT !.next = Chunks + 2,
                                    !.op = IF Settled(rec) \/ CancelledBefore(o) THEN "settled" ELSE "none"]
       IN IF ~CancelledBefore(o) /\ Settled(rec) /\ rec.store
            THEN /\ obj' = Scheduled(objs, o, rec)
                 /\ proc' = [proc EXCEPT ![r] = [entry EXCEPT !.pc = "dropFirst"]]
            ELSE /\ obj' = Flushed(objs, o)
                 /\ proc' = [proc EXCEPT ![r] = [entry EXCEPT !.pc = "completing", !.w = rec]]
  /\ UNCHANGED <<cur, db, late, boundVars, clientVars, store, putBack>>

\* clearTerminalFileSearchStore, then the write
CompleteDropped(r) ==
  LET o == proc[r].o
      rec == [obj[o].rec EXCEPT !.store = FALSE]
  IN /\ proc[r].pc = "dropFirst"
     /\ store' = FALSE
     /\ obj' = Flushed(Patched(obj, o, rec), o)
     /\ proc' = [proc EXCEPT ![r].pc = "completing", ![r].w = rec]
     /\ UNCHANGED <<cur, db, late, boundVars, clientVars, putBack>>

\* The subscribers are told, then a settled research is cleaned up; the stream is
\* still to be read to its end.
CompleteSaved(r) ==
  LET o == proc[r].o
      entry == [proc[r] EXCEPT !.op = "none"]
  IN /\ proc[r].pc = "completing" /\ Lands(r)
     /\ Told(obj, o)
     /\ IF proc[r].op = "settled"
          THEN CleanUp(r, obj, o, entry, "read")
          ELSE /\ proc' = [proc EXCEPT ![r] = GoesOn(entry, "read")]
               /\ UNCHANGED <<stateVars, sub>>
     /\ UNCHANGED <<late, boundVars, store, putBack>>

\* The stream ends, after its last event or, when it broke off, before.
StreamEnds(r) ==
  /\ proc[r].pc = "read"
  /\ Return(r, obj, proc[r].o)
  /\ UNCHANGED <<cur, db, late, boundVars, clientVars, store, putBack>>

-----------------------------------------------------------------------------
(* cleanupTerminalState, from its first await on *)

\* The store is deleted and the record without it written.
StoreDropped(p) ==
  LET o == proc[p].o
      rec == [obj[o].rec EXCEPT !.store = FALSE]
  IN /\ proc[p].pc = "dropping"
     /\ store' = FALSE
     /\ obj' = Patched(obj, o, rec)
     /\ proc' = [proc EXCEPT ![p].pc = "dropped", ![p].w = rec]
     /\ UNCHANGED <<cur, db, late, boundVars, clientVars, putBack>>

StateRemoved(p) ==
  LET o == proc[p].o IN
  /\ proc[p].pc = "dropped" /\ Lands(p)
  /\ obj' = Flushed(obj, o)
  /\ cur' = IF cur = o THEN 0 ELSE cur
  /\ sub' = IF sub = o THEN 0 ELSE sub
  /\ proc' = [proc EXCEPT ![p] = GoesOn(@, @.back)]
  /\ init' = IF p = 0 THEN "done" ELSE init
  /\ UNCHANGED <<late, runs, spent, restarts, view, store, putBack>>

-----------------------------------------------------------------------------
(* The calls of clients *)

\* A call is taken up; all but start and cancel wait for init.
Called(c) ==
  /\ proc[c] = Idle
  /\ Spend

\* start: the row is inserted before the state is made.
Start(c, how) ==
  /\ proc[c] = Idle
  /\ Known = NoRecord /\ init = "done" /\ runs < MaxRuns
  /\ \A p \in Procs : proc[p].op # "start"
  /\ proc' = [proc EXCEPT ![c] = [Idle EXCEPT !.pc = "inserting", !.op = "start", !.planning = how.planning,
                                             !.files = how.files, !.w = NewRecord]]
  /\ UNCHANGED <<stateVars, db, late, boundVars, clientVars, store, putBack>>

RowInserted(c) ==
  /\ proc[c].pc = "inserting"
  /\ Lands(c)
  /\ proc' = [proc EXCEPT ![c].pc = "inserted", ![c].w = NoRecord]
  /\ UNCHANGED <<stateVars, late, boundVars, clientVars, store, putBack>>

\* The lock is released before upsertResearch returns: the row may be found, and
\* the research cancelled, before its state is made.
Inserted(c) ==
  /\ proc[c].pc = "inserted"
  /\ MayHaveState
  /\ Replaces(NewRecord)
  /\ Told(StateOf(NewRecord), StateId)
  /\ cur' = StateId
  /\ Execute(c, StateOf(NewRecord), StateId, proc[c].planning, proc[c].files)
  /\ UNCHANGED <<db, late, spent, init, restarts, sub, store>>

\* What rename, approvePlan, refinePlan, attachUploadedFile and subscribe do with
\* the record get gave them, up to their first await.
Edited(op, rec) ==
  IF op \in {"rename", "attach"} THEN [rec EXCEPT !.edited = TRUE]
    ELSE [rec EXCEPT !.plan = FALSE, !.status = "pending", !.text = <<>>, !.sources = "none"]

\* getOrCreateState, updateRecord, flushPersistNow
PutAndFlush(c, entry, rec) ==
  LET changed == Edited(entry.op, rec) IN
  /\ MayHaveState
  /\ Replaces(rec)
  /\ obj' = Flushed(Patched(StateOf(rec), StateId, changed), StateId)
  /\ cur' = StateId
  /\ proc' = [proc EXCEPT ![c] = [entry EXCEPT !.pc = "saving", !.o = StateId, !.rec = NoRecord, !.w = changed]]
  /\ UNCHANGED clientVars

Refuse(c) ==
  /\ proc' = [proc EXCEPT ![c] = Idle]
  /\ UNCHANGED <<stateVars, clientVars, putBack>>

Proceed(c, entry, rec) ==
  \/ entry.op = "get" /\ Refuse(c)
  \/ /\ entry.op = "subscribe"
     /\ MayHaveState
     /\ Replaces(rec)
     /\ obj' = StateOf(rec) /\ cur' = StateId
     /\ sub' = StateId /\ view' = Shown(rec)
     /\ proc' = [proc EXCEPT ![c] = Idle]
  \/ entry.op = "rename" /\ PutAndFlush(c, entry, rec)
  \/ /\ entry.op \in {"approve", "refine"}
     /\ IF rec.plan /\ rec.inter # 0 THEN PutAndFlush(c, entry, rec) ELSE Refuse(c)
  \/ /\ entry.op = "attach"
     /\ IF Terminal(rec.status)
          THEN Refuse(c)
          ELSE /\ proc' = [proc EXCEPT ![c] = [entry EXCEPT !.pc = "loading", !.rec = rec]]
               /\ UNCHANGED <<stateVars, clientVars, putBack>>

Ops == {"get", "subscribe", "rename", "approve", "refine", "attach"}

\* get: the record is the state's or the row; an opaque citation is looked up.
Call(c, op) ==
  /\ Called(c)
  /\ init = "done"
  /\ Known # NoRecord
  /\ LET entry == [Idle EXCEPT !.op = op, !.rec = Known] IN
     IF Known.sources = "opaque"
       THEN /\ proc' = [proc EXCEPT ![c] = [entry EXCEPT !.pc = "reading"]]
            /\ UNCHANGED <<stateVars, clientVars, putBack>>
       ELSE Proceed(c, [entry EXCEPT !.rec = NoRecord], Known)
  /\ UNCHANGED <<db, late, runs, init, restarts, store>>

\* resolveRecordForRead: the record of a state that is there takes precedence over
\* the one that was read.
Newest(rec) == IF cur # 0 THEN obj[cur].rec ELSE rec

\* The look-up of get leaves the addresses as they are.
NothingResolved(c) ==
  /\ proc[c].pc = "reading"
  /\ Proceed(c, [proc[c] EXCEPT !.rec = NoRecord], Newest(proc[c].rec))
  /\ UNCHANGED <<db, late, boundVars, store>>

\* It finds the addresses: the record is written with them.
Resolved(c) ==
  LET rec == Newest(proc[c].rec)
      found == [rec EXCEPT !.sources = "resolved"]
  IN /\ proc[c].pc = "reading"
     /\ rec.sources = "opaque"
     /\ obj' = IF cur # 0 THEN Patched(obj, cur, found) ELSE obj
     /\ Replaces(rec)
     /\ proc' = [proc EXCEPT ![c].pc = "merging", ![c].rec = found, ![c].w = found]
     /\ UNCHANGED <<cur, db, late, boundVars, clientVars, store>>

Merged(c) ==
  /\ proc[c].pc = "merging" /\ Lands(c)
  /\ Proceed(c, [proc[c] EXCEPT !.rec = NoRecord, !.w = NoRecord], proc[c].rec)
  /\ UNCHANGED <<late, boundVars, store>>

\* readPendingUpload
UploadRead(c) ==
  /\ proc[c].pc = "loading"
  /\ PutAndFlush(c, proc[c], proc[c].rec)
  /\ UNCHANGED <<db, late, boundVars, store>>

\* The change is stored: the subscribers are told, and an approved plan is executed.
Saved(c) ==
  LET o == proc[c].o IN
  /\ proc[c].pc = "saving" /\ Lands(c)
  /\ Told(obj, o)
  /\ IF proc[c].op \in {"approve", "refine"}
       THEN runs < MaxRuns /\ Execute(c, obj, o, proc[c].op = "refine", FALSE)
       ELSE /\ proc' = [proc EXCEPT ![c] = Idle]
            /\ UNCHANGED <<obj, runs>>
  /\ UNCHANGED <<cur, late, spent, init, restarts, sub, store, putBack>>

\* cancel, up to the request to the provider
CancelState(objs, o) == [objs EXCEPT ![o].cancel = TRUE]
CancelledState(objs, o) == Flushed(Patched(objs, o, [objs[o].rec EXCEPT !.status = "cancelled"]), o)
Cancelling(entry, objs, o) ==
  [entry EXCEPT !.pc = "cancelling", !.w = [objs[o].rec EXCEPT !.status = "cancelled"]]

Cancel(c) ==
  LET objs == CancelState(StateOf(Known), StateId)
      entry == [Idle EXCEPT !.op = "cancel", !.o = StateId]
  IN /\ Called(c)
     /\ Known # NoRecord
     /\ MayHaveState
     /\ cur' = StateId
     /\ \/ /\ Settled(Known)
           /\ obj' = StateOf(Known)
           /\ UNCHANGED proc
        \/ /\ ~Settled(Known) /\ Known.inter # 0
           /\ obj' = objs
           /\ proc' = [proc EXCEPT ![c] = [entry EXCEPT !.pc = "asking"]]
        \/ /\ ~Settled(Known) /\ Known.inter = 0
           /\ obj' = CancelledState(objs, StateId)
           /\ proc' = [proc EXCEPT ![c] = Cancelling(entry, objs, StateId)]
     /\ UNCHANGED <<db, late, runs, init, restarts, clientVars, store, putBack>>

\* The provider answered, or not: the research is cancelled in either case.
CancelAsked(c) ==
  LET o == proc[c].o IN
  /\ proc[c].pc = "asking"
  /\ obj' = CancelledState(obj, o)
  /\ proc' = [proc EXCEPT ![c] = Cancelling(@, obj, o)]
  /\ UNCHANGED <<cur, db, late, boundVars, clientVars, store, putBack>>

\* The subscribers are told; with no run on it the state is cleaned up here.
CancelSaved(c) ==
  LET o == proc[c].o IN
  /\ proc[c].pc = "cancelling" /\ Lands(c)
  /\ Told(obj, o)
  /\ IF obj[o].stream
       THEN proc' = [proc EXCEPT ![c] = Idle] /\ UNCHANGED <<stateVars, sub>>
       ELSE CleanUp(c, obj, o, proc[c], "idle")
  /\ UNCHANGED <<late, boundVars, store, putBack>>

Unsubscribe ==
  /\ sub # 0
  /\ sub' = 0 /\ view' = Shown(NewRecord)
  /\ UNCHANGED <<stateVars, db, proc, late, boundVars, store, putBack>>

-----------------------------------------------------------------------------
(* A restart, and resumeInFlight *)

\* What waits for the lock is lost; what has landed is not.
Restart ==
  /\ restarts < MaxRestarts /\ UNCHANGED spent
  /\ db # NoRecord
  /\ restarts' = restarts + 1
  /\ cur' = 0 /\ sub' = 0 /\ view' = Shown(NewRecord)
  /\ obj' = [o \in DOMAIN obj |-> [obj[o] EXCEPT !.timer = FALSE]]
  /\ proc' = [p \in Procs |-> Idle]
  /\ late' = NoRecord
  /\ init' = "no"
  /\ UNCHANGED <<db, runs, store, putBack>>

\* A research that was pending or running is failed when no interaction is known,
\* and resumed from the interaction of the row otherwise.
Resume ==
  LET failed == [db EXCEPT !.status = "failed"]
      entry == [Idle EXCEPT !.o = StateId, !.at = db.inter]
  IN /\ init = "no"
     /\ cur = 0
     /\ IF db.status \notin {"pending", "running"}
          THEN init' = "done" /\ UNCHANGED <<stateVars, proc>>
          ELSE /\ init' = "resuming"
               /\ MayHaveState
               /\ cur' = StateId
               /\ IF db.inter = 0
                    THEN /\ obj' = StateOf(failed)
                         /\ proc' = [proc EXCEPT ![0] = [entry EXCEPT !.pc = "failing", !.w = failed]]
                    ELSE /\ obj' = StateOf(db)
                         /\ proc' = [proc EXCEPT ![0] = [entry EXCEPT !.pc = "resuming"]]
     /\ UNCHANGED <<db, late, runs, spent, restarts, clientVars, store, putBack>>

\* Mutant: the event of the cursor is sent again.
ResumedFrom(rec) == rec.last[2]

\* The stream goes on after lastEventId.
ResumedAt(rec) == rec.last[2] + 1

StreamResumed ==
  LET o == proc[0].o IN
  /\ proc[0].pc = "resuming"
  /\ proc' = [proc EXCEPT ![0].pc = "read", ![0].next = ResumedAt(obj[o].rec)]
  /\ obj' = [obj EXCEPT ![o].stream = TRUE]
  /\ init' = "done"
  /\ UNCHANGED <<cur, db, late, runs, spent, restarts, clientVars, store, putBack>>

\* The stream cannot be resumed, or breaks: failed, unless it was cancelled.
ResumedRunFails ==
  LET o == proc[0].o
      failed == [obj[o].rec EXCEPT !.status = "failed"]
  IN /\ proc[0].pc \in {"resuming", "read"}
     /\ IF Cancelled(o)
          THEN /\ obj' = [obj EXCEPT ![o].stream = FALSE]
               /\ proc' = [proc EXCEPT ![0] = Idle]
               /\ init' = "done"
          ELSE /\ obj' = Flushed(Patched(obj, o, failed), o)
               /\ proc' = [proc EXCEPT ![0].pc = "failing", ![0].w = failed]
               /\ UNCHANGED init
     /\ UNCHANGED <<cur, db, late, runs, spent, restarts, clientVars, store, putBack>>

\* No subscriber is told of it.
ResumedFailureSaved ==
  LET o == proc[0].o IN
  /\ proc[0].pc = "failing" /\ Lands(0)
  /\ CleanUp(0, [obj EXCEPT ![o].stream = FALSE], o, proc[0], "idle")
  /\ init' = IF proc'[0] = Idle THEN "done" ELSE init
  /\ UNCHANGED <<late, runs, spent, restarts, view, store, putBack>>

-----------------------------------------------------------------------------
RunStep(r) ==
  \/ FilesPrepared(r) \/ FilesSaved(r) \/ RunSaved(r) \/ InteractionCreated(r)
  \/ RunFails(r) \/ FailureSaved(r) \/ Leaves(r)
  \/ StartEvent(r) \/ ContentEvent(r) \/ SourcesFound(r)
  \/ CompleteEvent(r) \/ CompleteDropped(r) \/ CompleteSaved(r) \/ StreamEnds(r)

CallStep(c) ==
  \/ \E how \in Starts : Start(c, how)
  \/ RowInserted(c) \/ Inserted(c)
  \/ \E op \in Ops : Call(c, op)
  \/ NothingResolved(c) \/ Resolved(c) \/ Merged(c) \/ UploadRead(c) \/ Saved(c)
  \/ Cancel(c) \/ CancelAsked(c) \/ CancelSaved(c)

Next ==
  \/ \E r \in Runs : RunStep(r)
  \/ \E c \in Calls : CallStep(c)
  \/ \E p \in Procs : StoreDropped(p) \/ StateRemoved(p)
  \/ \E o \in DOMAIN obj : TimerFires(o)
  \/ LateWriteLands
  \/ Unsubscribe
  \/ Restart \/ Resume \/ StreamResumed \/ ResumedRunFails \/ ResumedFailureSaved

Spec == Init /\ [][Next]_vars
-----------------------------------------------------------------------------
PCs == {"idle", "inserting", "inserted", "reading", "merging", "loading", "saving", "asking", "cancelling",
        "prepare", "saveFiles", "saveRun", "create", "read", "cite", "dropFirst", "completing",
        "failing", "leaving", "dropping", "dropped", "resuming"}

\* The states, the records, the places of the runs and calls and the counters are
\* of their types; in particular a row has one of the five documented statuses.
TypeOK ==
  /\ cur \in 0..Len(obj) /\ sub \in 0..Len(obj) /\ Len(obj) <= MaxObjs
  /\ \A o \in DOMAIN obj :
       obj[o] \in [rec : Record, cancel : BOOLEAN, planning : BOOLEAN, stream : BOOLEAN, timer : BOOLEAN]
  /\ db \in Record \cup {NoRecord} /\ late \in Record \cup {NoRecord}
  /\ \A p \in Procs : /\ proc[p].pc \in PCs
                       /\ proc[p].o \in 0..Len(obj)
                       /\ {proc[p].rec, proc[p].w} \subseteq Record \cup {NoRecord}
  /\ runs \in 0..MaxRuns /\ spent \in 0..Budget /\ restarts \in 0..MaxRestarts
  /\ init \in {"no", "resuming", "done"}
  /\ view \in [status : Status, text : Seq(Events)]
  /\ store \in BOOLEAN /\ putBack \in BOOLEAN

\* The text an interaction gives up to one of its events.
TextUpTo(e) == [k \in 1..(IF e[2] > Chunks THEN Chunks ELSE e[2]) |-> <<e[1], k>>]

\* The text is all that came up to the last event, and a completed report all there
\* is; the text of an approved plan is cleared before its research begins.
Whole(rec) ==
  \/ rec.status = "cancelled"
  \/ /\ rec.text = TextUpTo(rec.last)
     /\ rec.status = "completed" => rec.last[2] = Chunks + 1
  \/ /\ rec.text = <<>> /\ rec.last[2] = Chunks + 1
     /\ rec.status \in {"pending", "running", "failed"}

\* Whatever was written last, in whatever order the writes got the lock, and after
\* a resumption too: the stored report has no gap and nothing twice, so that the
\* stream can go on after the stored event. A call that puts back an older record
\* breaks this (executeResearch, resumeInFlight; see attachUploadedFile).
StoredReportIsWhole == ~putBack /\ db # NoRecord => Whole(db)

Flushing(o) ==
  \E p \in Procs : /\ proc[p].o = o
                   /\ proc[p].pc \in {"saving", "cancelling", "saveFiles", "saveRun", "dropFirst", "completing",
                                     "failing", "dropping", "dropped"}

\* A subscriber that applies what it is told shows the status and the text of the
\* state, whatever calls overlapped, unless a change is still being stored (broadcast).
ViewFollowsRecord == sub # 0 /\ ~Flushing(sub) => view = Shown(obj[sub].rec)

\* A file search store that exists at the provider is named by the record, so that
\* its clean-up finds it, also when the research is cancelled while the files are
\* being prepared (executeResearch). A restart may forget it.
NoStoreIsForgotten == store /\ ~putBack /\ restarts = 0 => cur # 0 /\ obj[cur].rec.store

\* A cancelled research stays cancelled, whatever its interaction still sends; only
\* the plan of one that was waiting for approval can be taken up again (cancel,
\* handleInteractionEvent).
CancelledStaysCancelled ==
  [][\A o \in DOMAIN obj :
       obj[o].rec.status = "cancelled" /\ obj'[o].rec.status # "cancelled" => putBack' \/ obj[o].rec.plan]_vars

\* What a mere read writes back, the resolved addresses, does not undo a research
\* that has ended and been stored meanwhile (get, resolveRecordForRead).
ReadsKeepNewerState ==
  [][\A c \in Calls : proc[c].op = "get" /\ Merged(c) /\ Settled(db) => Settled(db')]_vars
=============================================================================
