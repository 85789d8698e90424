---------------------------- MODULE Persistence ----------------------------
(***************************************************************************)
(* How a session reaches the database: every change asks for a flush; one  *)
(* flush at a time writes the session's row, then the snapshot its clients *)
(* are shown, and starts again while changes came in meanwhile. Either     *)
(* write may fail, the process may die between any two steps, and another  *)
(* session may delete this one.                                            *)
(*                                                                         *)
(* The contents of a session are its number of changes so far. Each write  *)
(* is a step of its own: it waits for the write lock first.                *)
(***************************************************************************)
EXTENDS Naturals

CONSTANT MaxChanges  \* bound on the changes

ASSUME MaxChangesAssumption == MaxChanges \in Nat

VARIABLES
  live,          \* the session is loaded in a server process
  version,       \* the changes made to it
  pending,       \* pendingReasons is not empty
  stage,         \* where the flush is; flushQueued is stage # "idle"
  captured,      \* the version the flush took
  writing,       \* the row or snapshot being written, with its lastEventSeq
  record,        \* the row: lastEventSeq and version; lastEventSeq 0: no row
  snapshot,      \* the stored snapshot, likewise
  persistedSeq,  \* persistedLastEventSeq
  told,          \* the highest version a failed flush had taken: its error
                 \* was emitted
  closing,       \* closeForHistory: "no", "waiting" for the flush, "done"
  closed,        \* the version that closed the session
  deletion       \* "no", "requested", "confirmed"

memoryVars == <<live, version>>
flushVars == <<pending, stage, captured, writing>>
dbVars == <<record, snapshot>>
closeVars == <<closing, closed>>
vars == <<memoryVars, flushVars, dbVars, persistedSeq, told, closeVars, deletion>>

Stored == [seq : Nat, version : Nat]
Nothing == [seq |-> 0, version |-> 0]

TypeOK ==
  /\ live \in BOOLEAN
  /\ version \in Nat
  /\ pending \in BOOLEAN
  /\ stage \in {"idle", "queued", "row", "between", "snapshot"}
  /\ captured \in Nat
  /\ writing \in Stored
  /\ record \in Stored
  /\ snapshot \in Stored
  /\ persistedSeq \in Nat
  /\ told \in Nat
  /\ closing \in {"no", "waiting", "done"}
  /\ closed \in Nat
  /\ deletion \in {"no", "requested", "confirmed"}

Init ==
  /\ live = TRUE
  /\ version = 0
  /\ pending = FALSE
  /\ stage = "idle"
  /\ captured = 0
  /\ writing = Nothing
  /\ record = Nothing
  /\ snapshot = Nothing
  /\ persistedSeq = 0
  /\ told = 0
  /\ closing = "no"
  /\ closed = 0
  /\ deletion = "no"

-----------------------------------------------------------------------------
(* queuePersistSessionSnapshot, by a change and by closeForHistory *)

\* Mutant: a change made during a flush is taken to be part of it.
QueueFlushUnlessBusy ==
  /\ pending' = (pending \/ stage = "idle")
  /\ stage' = (IF stage = "idle" THEN "queued" ELSE stage)

QueueFlush ==
  /\ pending' = TRUE
  /\ stage' = (IF stage = "idle" THEN "queued" ELSE stage)

MakeChange ==
  /\ live
  /\ version < MaxChanges
  /\ version' = version + 1
  /\ QueueFlush
  /\ UNCHANGED <<live, captured, writing, dbVars, persistedSeq, told, deletion>>

Change == MakeChange /\ UNCHANGED closeVars

\* waitForIdle awaits the promise the queue is at now.
CloseForHistory ==
  /\ MakeChange
  /\ closing = "no"
  /\ closing' = "waiting"
  /\ closed' = version'

-----------------------------------------------------------------------------
(* The flush *)

BeginFlush ==
  /\ stage = "queued"
  /\ captured' = version
  /\ pending' = FALSE
  /\ stage' = "row"
  /\ UNCHANGED <<memoryVars, writing, dbVars, persistedSeq, told, closeVars, deletion>>

\* persistSessionMutation: one transaction numbers the event and writes the row.
WriteRow ==
  /\ stage = "row"
  /\ record' = [seq |-> record.seq + 1, version |-> captured]
  /\ writing' = record'
  /\ stage' = "between"
  /\ UNCHANGED <<memoryVars, pending, captured, snapshot, persistedSeq, told,
                 closeVars, deletion>>

\* The snapshot is what the clients are shown now, which may be later than the row.
BuildSnapshot ==
  /\ stage = "between"
  /\ writing' = [seq |-> writing.seq, version |-> version]
  /\ stage' = "snapshot"
  /\ UNCHANGED <<memoryVars, pending, captured, dbVars, persistedSeq, told,
                 closeVars, deletion>>

\* Mutant: one pass, whatever came in meanwhile.
NextStageOnce == "idle"
NextStage == IF pending THEN "queued" ELSE "idle"

Answered == IF closing = "waiting" THEN "done" ELSE closing

\* Mutant: the loop resolves what awaits it after its first pass.
AnsweredEachPass == Answered
AnsweredWhenQuiet == IF NextStage = "idle" THEN Answered ELSE closing

\* A snapshot needs its row: the foreign key.
WriteSnapshot ==
  /\ stage = "snapshot"
  /\ record.seq > 0
  /\ snapshot' = writing
  /\ persistedSeq' = writing.seq
  /\ stage' = NextStage
  /\ closing' = AnsweredWhenQuiet
  /\ UNCHANGED <<memoryVars, pending, captured, writing, record, told, closed, deletion>>

\* Either write throws: the error is told, and what came in meanwhile is queued
\* again, behind a promise nobody awaits yet.
FailFlush ==
  /\ stage \in {"row", "snapshot"}
  /\ told' = captured
  /\ stage' = NextStage
  /\ closing' = Answered
  /\ UNCHANGED <<memoryVars, pending, captured, writing, dbVars, persistedSeq,
                 closed, deletion>>

-----------------------------------------------------------------------------
(* Deletion by another session, crash and restart *)

\* The session is disposed of. A turn of it that runs is only cancelled, and
\* asks for flushes when it ends.
RequestDeletion ==
  /\ deletion = "no"
  /\ deletion' = "requested"
  /\ UNCHANGED <<memoryVars, flushVars, dbVars, persistedSeq, told, closeVars>>

DeleteSession ==
  /\ deletion = "requested"
  /\ record' = Nothing
  /\ snapshot' = Nothing
  /\ deletion' = "confirmed"
  /\ UNCHANGED <<memoryVars, flushVars, persistedSeq, told, closeVars>>

\* Mutant: the session resumes with what its clients were shown.
ResumeFromSnapshot == snapshot.version
ResumeFromRow == record.version

\* The process dies, and the session is loaded again if there is a row of it.
CrashAndResume ==
  /\ live
  /\ live' = (record.seq > 0)
  /\ version' = ResumeFromRow
  /\ pending' = FALSE
  /\ stage' = "idle"
  /\ captured' = 0
  /\ writing' = Nothing
  /\ persistedSeq' = record.seq
  /\ told' = 0
  /\ closing' = "no"
  /\ closed' = 0
  /\ deletion' = (IF deletion = "requested" THEN "no" ELSE deletion)
  /\ UNCHANGED dbVars

FlushStep == BeginFlush \/ WriteRow \/ BuildSnapshot \/ WriteSnapshot \/ FailFlush

Next ==
  \/ Change
  \/ CloseForHistory
  \/ FlushStep
  \/ RequestDeletion
  \/ DeleteSession
  \/ CrashAndResume

Spec == Init /\ [][Next]_vars

\* The flush is awaited by nobody but the event loop: each write returns or throws.
FairSpec == Spec /\ WF_vars(FlushStep)

-----------------------------------------------------------------------------
(* loadInitialSessionSnapshot *)

\* Mutant: any snapshot will do.
SnapshotIsThere == snapshot.seq > 0
SnapshotIsCurrent == snapshot.seq > 0 /\ snapshot.seq >= record.seq

\* Without a current one the feed is rebuilt from the messages in the row.
FeedOnResume == IF SnapshotIsCurrent THEN snapshot.version ELSE record.version

-----------------------------------------------------------------------------
(* Properties *)

(***************************************************************************)
(* When a session has nothing left to flush, its last change is stored, or *)
(* the user was told that storing it failed.                               *)
(***************************************************************************)
QuietMeansStored ==
  live /\ stage = "idle" /\ deletion = "no" =>
    version = record.version \/ version = told

(***************************************************************************)
(* A session resumed after a crash, whenever it came, shows at least what  *)
(* is in the transcript the model will be given.                           *)
(***************************************************************************)
ResumeShowsTheTranscript == FeedOnResume >= record.version

(***************************************************************************)
(* closeForHistory returns when the closed session is stored, unless a     *)
(* flush failed and the user was told.                                     *)
(***************************************************************************)
CloseWaitsForItsFlush ==
  closing = "done" /\ deletion = "no" => record.version >= closed \/ told > 0

(***************************************************************************)
(* A session whose deletion was confirmed does not come back.              *)
(***************************************************************************)
DeletedStaysDeleted == deletion = "confirmed" => record.seq = 0

(***************************************************************************)
(* No change is lost in silence: it is stored in the end, with or without  *)
(* later ones, or reported, unless the process dies or the session is      *)
(* deleted.                                                                *)
(***************************************************************************)
ChangeIsStoredOrTold ==
  \A v \in 1..MaxChanges :
    live /\ version = v ~>
      record.version >= v \/ told >= v \/ version < v \/ deletion # "no"

(***************************************************************************)
(* The store moves forward through states the session was in, and a crash  *)
(* loses only what was not stored: DurableSession.                         *)
(***************************************************************************)
DS == INSTANCE DurableSession WITH memory <- version, stored <- record.version
DurableSpec == DS!Spec
=============================================================================
