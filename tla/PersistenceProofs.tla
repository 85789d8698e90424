------------------------- MODULE PersistenceProofs -------------------------
(***************************************************************************)
(* What Persistence guarantees, whatever the number of changes: its types, *)
(* its safety invariants, and that it implements DurableSession.           *)
(***************************************************************************)
EXTENDS Persistence, TLAPS

Flushing == stage \in {"row", "between", "snapshot"}

\* What the flush took, and what it may still have missed.
FlushIsCurrent ==
  /\ captured <= version
  /\ stage = "idle" => ~pending
  /\ stage # "idle" => version > 0
  /\ Flushing => captured > 0
  /\ Flushing /\ ~pending => captured = version

\* The row is behind the flush until it is written by it.
RowFollowsFlush ==
  /\ record.version <= version
  /\ stage = "row" => record.version <= captured
  /\ stage \in {"between", "snapshot"} /\ deletion = "no" => record.version = captured

\* A snapshot on its way belongs to the row, unless that was deleted.
SnapshotFollowsRow ==
  /\ writing.seq > 0 /\ stage \in {"between", "snapshot"} => writing.version <= version
  /\ stage \in {"between", "snapshot"} =>
       \/ record.seq = 0
       \/ writing.seq = record.seq /\ record.version <= writing.version
  /\ record.seq = 0 => record.version = 0
  /\ snapshot.seq <= record.seq
  /\ snapshot.seq = record.seq => record.version <= snapshot.version

\* closeForHistory waits for a flush that has its change.
CloseIsFlushed ==
  /\ closed <= version
  /\ closing = "waiting" => stage # "idle"
  /\ closing = "waiting" /\ Flushing /\ ~pending => closed <= captured

IInv ==
  /\ TypeOK
  /\ FlushIsCurrent
  /\ RowFollowsFlush
  /\ SnapshotFollowsRow
  /\ CloseIsFlushed
  /\ QuietMeansStored
  /\ CloseWaitsForItsFlush

-----------------------------------------------------------------------------
LEMMA NothingIsStored == Nothing \in Stored
BY DEF Nothing, Stored

(* The session starts idle, with nothing stored. *)
LEMMA InitTyped == Init => TypeOK
<1> SUFFICES ASSUME Init PROVE TypeOK
  OBVIOUS
<1>1. writing \in Stored /\ record \in Stored /\ snapshot \in Stored
  BY NothingIsStored DEF Init
<1> QED
  BY <1>1 DEF Init, TypeOK

(* Every variable keeps its type. *)
LEMMA TypeStep == TypeOK /\ [Next]_vars => TypeOK'
<1> SUFFICES ASSUME TypeOK, [Next]_vars PROVE TypeOK'
  OBVIOUS
<1> USE DEF TypeOK, Stored, Nothing
<1>1. CASE Change
  BY <1>1 DEF Change, MakeChange, QueueFlush, dbVars, closeVars
<1>2. CASE CloseForHistory
  BY <1>2 DEF CloseForHistory, MakeChange, QueueFlush, dbVars
<1>3. CASE BeginFlush
  BY <1>3 DEF BeginFlush, memoryVars, dbVars, closeVars
<1>4. CASE WriteRow
  BY <1>4 DEF WriteRow, memoryVars, closeVars
<1>5. CASE BuildSnapshot
  BY <1>5 DEF BuildSnapshot, memoryVars, dbVars, closeVars
<1>6. CASE WriteSnapshot
  BY <1>6 DEF WriteSnapshot, NextStage, Answered, AnsweredWhenQuiet, memoryVars
<1>7. CASE FailFlush
  BY <1>7 DEF FailFlush, NextStage, Answered, memoryVars, dbVars
<1>8. CASE RequestDeletion
  BY <1>8 DEF RequestDeletion, memoryVars, flushVars, dbVars, closeVars
<1>9. CASE DeleteSession
  BY <1>9 DEF DeleteSession, memoryVars, flushVars, closeVars
<1>10. CASE CrashAndResume
  <2>1. writing' \in Stored
    BY <1>10, NothingIsStored DEF CrashAndResume
  <2>2. /\ live' \in BOOLEAN
        /\ version' \in Nat
        /\ persistedSeq' \in Nat
    BY <1>10 DEF CrashAndResume, ResumeFromRow
  <2> QED
    BY <1>10, <2>1, <2>2 DEF CrashAndResume, dbVars
<1>11. CASE UNCHANGED vars
  BY <1>11 DEF vars, memoryVars, flushVars, dbVars, closeVars
<1> QED
  BY <1>1, <1>2, <1>3, <1>4, <1>5, <1>6, <1>7, <1>8, <1>9, <1>10, <1>11
  DEF Next, FlushStep

(***************************************************************************)
(* queuePersistSessionSnapshot and closeForHistory keep every variable in  *)
(* its type.                                                               *)
(***************************************************************************)
THEOREM TypeCorrect == Spec => []TypeOK
BY InitTyped, TypeStep, PTL DEF Spec

-----------------------------------------------------------------------------
LEMMA InitHolds == Init => IInv
BY InitTyped DEF Init, IInv, Nothing, Flushing, FlushIsCurrent, RowFollowsFlush,
       SnapshotFollowsRow, CloseIsFlushed, QuietMeansStored, CloseWaitsForItsFlush

(* Each step keeps the invariant. *)
LEMMA StepHolds == IInv /\ [Next]_vars => IInv'
<1> SUFFICES ASSUME IInv, [Next]_vars PROVE IInv'
  OBVIOUS
<1> USE DEF IInv
<1>0. TypeOK'
  BY TypeStep
<1> USE <1>0 DEF TypeOK, Stored, Nothing, Flushing, FlushIsCurrent, RowFollowsFlush,
                 SnapshotFollowsRow, CloseIsFlushed, QuietMeansStored,
                 CloseWaitsForItsFlush
<1>1. CASE Change
  BY <1>1 DEF Change, MakeChange, QueueFlush, dbVars, closeVars
<1>2. CASE CloseForHistory
  BY <1>2 DEF CloseForHistory, MakeChange, QueueFlush, dbVars
<1>3. CASE BeginFlush
  BY <1>3 DEF BeginFlush, memoryVars, dbVars, closeVars
<1>4. CASE WriteRow
  BY <1>4 DEF WriteRow, memoryVars, closeVars
<1>5. CASE BuildSnapshot
  BY <1>5 DEF BuildSnapshot, memoryVars, dbVars, closeVars
<1>6. CASE WriteSnapshot
  BY <1>6 DEF WriteSnapshot, NextStage, Answered, AnsweredWhenQuiet, memoryVars
<1>7. CASE FailFlush
  BY <1>7 DEF FailFlush, NextStage, Answered, memoryVars, dbVars
<1>8. CASE RequestDeletion
  BY <1>8 DEF RequestDeletion, memoryVars, flushVars, dbVars, closeVars
<1>9. CASE DeleteSession
  BY <1>9 DEF DeleteSession, memoryVars, flushVars, closeVars
<1>10. CASE CrashAndResume
  BY <1>10 DEF CrashAndResume, ResumeFromRow, dbVars
<1>11. CASE UNCHANGED vars
  BY <1>11 DEF vars, memoryVars, flushVars, dbVars, closeVars
<1> QED
  BY <1>1, <1>2, <1>3, <1>4, <1>5, <1>6, <1>7, <1>8, <1>9, <1>10, <1>11
  DEF Next, FlushStep

LEMMA IInvHolds == Spec => []IInv
BY InitHolds, StepHolds, PTL DEF Spec

(***************************************************************************)
(* When nothing is left to flush, the last change is in the row or its     *)
(* failure was reported, however many changes came in during the flushes.  *)
(***************************************************************************)
THEOREM QuietSessionsAreStored == Spec => []QuietMeansStored
<1>1. IInv => QuietMeansStored
  BY DEF IInv
<1> QED
  BY <1>1, IInvHolds, PTL

(***************************************************************************)
(* loadInitialSessionSnapshot never prefers a snapshot older than the row. *)
(***************************************************************************)
THEOREM ResumedFeedIsCurrent == Spec => []ResumeShowsTheTranscript
<1>1. IInv => ResumeShowsTheTranscript
  BY DEF IInv, TypeOK, Stored, SnapshotFollowsRow, ResumeShowsTheTranscript,
         FeedOnResume, SnapshotIsCurrent
<1> QED
  BY <1>1, IInvHolds, PTL

(***************************************************************************)
(* closeForHistory's waitForIdle waits for a flush that has the closing    *)
(* change, though the queue may already be at an earlier one.              *)
(***************************************************************************)
THEOREM CloseIsStored == Spec => []CloseWaitsForItsFlush
<1>1. IInv => CloseWaitsForItsFlush
  BY DEF IInv
<1> QED
  BY <1>1, IInvHolds, PTL

-----------------------------------------------------------------------------
(* A step of the persistence manager is a step of the durable session. *)
LEMMA DurableStep == IInv /\ [Next]_vars => [DS!Next]_(DS!vars)
<1> SUFFICES ASSUME IInv, [Next]_vars PROVE [DS!Next]_(DS!vars)
  OBVIOUS
<1> USE DEF IInv, TypeOK, Stored, Nothing, DS!vars
<1>1. CASE Change \/ CloseForHistory
  <2>1. DS!Change
    BY <1>1 DEF Change, CloseForHistory, MakeChange, dbVars, DS!Change
  <2> QED
    BY <2>1 DEF DS!Next
<1>2. CASE WriteRow
  <2>1. record'.version = captured
    BY <1>2 DEF WriteRow
  <2>2. captured \in record.version..version
    BY <1>2 DEF WriteRow, FlushIsCurrent, RowFollowsFlush
  <2>3. DS!Save
    BY <1>2, <2>1, <2>2 DEF WriteRow, memoryVars, DS!Save
  <2> QED
    BY <2>3 DEF DS!Next
<1>3. CASE DeleteSession
  <2>1. DS!Delete
    BY <1>3 DEF DeleteSession, memoryVars, DS!Delete
  <2> QED
    BY <2>1 DEF DS!Next
<1>4. CASE CrashAndResume
  <2>1. DS!Crash
    BY <1>4 DEF CrashAndResume, ResumeFromRow, dbVars, DS!Crash
  <2> QED
    BY <2>1 DEF DS!Next
<1>5. CASE BeginFlush \/ BuildSnapshot \/ WriteSnapshot \/ FailFlush \/ RequestDeletion
  BY <1>5 DEF BeginFlush, BuildSnapshot, WriteSnapshot, FailFlush, RequestDeletion,
              memoryVars, dbVars
<1>6. CASE UNCHANGED vars
  BY <1>6 DEF vars, memoryVars, dbVars
<1> QED
  BY <1>1, <1>2, <1>3, <1>4, <1>5, <1>6 DEF Next, FlushStep

(***************************************************************************)
(* The two writes of a flush, their failures, deletions and crashes        *)
(* implement a store that holds a past state of the session, only moves    *)
(* forward until the deletion, and loses nothing else in a crash.          *)
(***************************************************************************)
THEOREM ImplementsDurableSession == Spec => DurableSpec
<1>1. Init => DS!Init
  BY DEF Init, Nothing, DS!Init
<1> QED
  BY <1>1, IInvHolds, DurableStep, PTL DEF Spec, DurableSpec, DS!Spec
=============================================================================
