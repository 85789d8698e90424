-------------------------- MODULE WriteLockProofs --------------------------
(***************************************************************************)
(* Proofs about WriteLock, for any number of writers and processes: its    *)
(* types, and that recovery by one writer never lets two of them in.       *)
(***************************************************************************)
EXTENDS WriteLock, FiniteSetTheorems, TLAPS

-----------------------------------------------------------------------------
(* Types *)

LEMMA InitTyped == Init => TypeOK
BY DEF Init, TypeOK

LEMMA NextTyped == TypeOK /\ [Next]_vars => TypeOK'
<1> SUFFICES ASSUME TypeOK, [Next]_vars PROVE TypeOK'
  OBVIOUS
<1> USE ProcessAssumption DEF TypeOK, Acquiring, Holding, lockVars, callVars, At, Goto
<1>1. ASSUME NEW o \in Ops, Begin(o) PROVE TypeOK'
  BY <1>1 DEF Begin
<1>2. ASSUME NEW o \in Ops, OpStep(o) PROVE TypeOK'
  <2>1. CASE MakeLockDir(o) \/ FindLockHeld(o) \/ FailToWriteOwner(o)
    BY <2>1 DEF MakeLockDir, FindLockHeld, FailToWriteOwner
  <2>2. CASE WriteOwner(o)
    BY <2>2 DEF WriteOwner
  <2>3. CASE JudgeOwner(o) \/ MissOwner(o) \/ JudgeDir(o) \/ MissDir(o)
    BY <2>3 DEF JudgeOwner, MissOwner, JudgeDir, MissDir
  <2>4. CASE RemoveStaleLock(o) \/ Release(o)
    BY <2>4 DEF RemoveStaleLock, Release, RemoveLockDir
  <2>5. CASE WaitOrTimeOut(o) \/ Wake(o) \/ EndWrite(o)
    BY <2>5 DEF WaitOrTimeOut, Wake, EndWrite
  <2>6. QED
    BY <1>2, <2>1, <2>2, <2>3, <2>4, <2>5 DEF OpStep
<1>3. ASSUME NEW o \in Ops, Heartbeat(o) PROVE TypeOK'
  BY <1>3 DEF Heartbeat
<1>4. ASSUME NEW o \in Ops, OpenOwner(o) PROVE TypeOK'
  BY <1>4 DEF OpenOwner, LockDirExists
<1>5. ASSUME NEW o \in Ops, WriteHeartbeat(o) PROVE TypeOK'
  <2>1. /\ owner' \in {owner, ProcessOf[o]}
        /\ aged' \subseteq aged
        /\ beat' = [beat EXCEPT ![o] = "none"]
        /\ UNCHANGED <<dir, pc, waited, recovered, crashed>>
    BY <1>5 DEF WriteHeartbeat
  <2>2. QED
    BY <2>1
<1>6. CASE ThirtySecondsPass
  <2>1. /\ aged' \subseteq {"dir", "owner"}
        /\ waited' \subseteq Ops
        /\ UNCHANGED <<dir, owner, pc, recovered, beat, crashed>>
    BY <1>6 DEF ThirtySecondsPass
  <2>2. QED
    BY <2>1
<1>7. ASSUME NEW p \in Processes, Crash(p) PROVE TypeOK'
  BY <1>7 DEF Crash
<1>8. CASE UNCHANGED vars
  BY <1>8 DEF vars
<1>9. QED
  BY <1>1, <1>2, <1>3, <1>4, <1>5, <1>6, <1>7, <1>8 DEF Next, HeartbeatStep

(***************************************************************************)
(* The lock directory, its owner file, the calls and their heartbeats are  *)
(* of their types.                                                         *)
(***************************************************************************)
THEOREM TypeCorrect == Spec => []TypeOK
<1>1. QED
  BY InitTyped, NextTyped, PTL DEF Spec

-----------------------------------------------------------------------------
(* Recovery by one writer *)

\* What the processes are like that LoneRecoveryExcludes speaks of: nobody holds the
\* lock longer than it takes to be stale, and those that send heartbeats live.
LeasesHold == ~LongWrites /\ \A b \in Bootstraps : b \in Ops /\ ProcessOf[b] \notin MayCrash

Lone == \A o, q \in recovered : o = q

\* The file names a living process: that of the writer, or one whose heartbeat was late.
Living(o) == {None, ProcessOf[o]} \cup {ProcessOf[b] : b \in Bootstraps}

\* The lock of a writer that is inside is its own, and nobody can take it to be stale.
InsideOwns == \A o \in Ops : Inside(o) => dir = o /\ aged = {} /\ owner \in Living(o)

\* Who is about to remove a lock, and alone in that, removes one that was left behind.
RemovesDeadLock ==
  \A o \in Ops : pc[o] = "removing" /\ recovered \subseteq {o} =>
    dir # None /\ \A q \in Ops : ~Inside(q)

LockInv ==
  /\ TypeOK
  /\ IsFiniteSet(recovered)
  /\ owner # None => dir # None
  /\ \A o \in Ops : beat[o] # "none" => o \in Bootstraps
  /\ Lone => InsideOwns /\ RemovesDeadLock

LEMMA InitLock == Init => LockInv
<1>1. ASSUME Init PROVE TypeOK
  BY <1>1, InitTyped
<1>2. IsFiniteSet({})
  BY FS_EmptySet
<1>3. QED
  BY <1>1, <1>2 DEF Init, LockInv, InsideOwns, RemovesDeadLock, Inside, Holding

\* A step that leaves the lock, the recoveries and the heartbeats alone, and lets
\* nobody in, and lets nobody but o decide to remove the lock.
LEMMA CallMoves ==
  ASSUME LockInv, TypeOK', UNCHANGED <<lockVars, recovered, beat, crashed>>,
         \A q \in Ops : Inside(q)' => Inside(q),
         \A q \in Ops : pc'[q] = "removing" /\ pc[q] # "removing" =>
           (Lone => dir # None /\ \A x \in Ops : ~Inside(x))
  PROVE  LockInv'
<1>1. Lone' = Lone /\ UNCHANGED <<dir, owner, aged>>
  BY DEF Lone, lockVars
<1>2. ASSUME Lone PROVE InsideOwns'
  BY <1>1, <1>2 DEF LockInv, InsideOwns, Living
<1>3. ASSUME Lone PROVE RemovesDeadLock'
  BY <1>1, <1>3 DEF LockInv, RemovesDeadLock
<1>4. QED
  BY <1>1, <1>2, <1>3 DEF LockInv

\* The owner of the lock of somebody inside is alive and not old.
LEMMA InsideIsFresh ==
  ASSUME LeasesHold, LockInv, Lone, NEW o \in Ops, Inside(o)
  PROVE  dir = o /\ ~OwnerIsStale /\ aged = {}
<1>1. dir = o /\ aged = {} /\ owner \in Living(o)
  BY DEF LockInv, InsideOwns
<1>2. None \notin crashed
  BY OwnerAssumption, ProcessAssumption DEF LockInv, TypeOK
<1>3. QED
  BY <1>1, <1>2 DEF LeasesHold, Living, LockInv, TypeOK, OwnerIsStale, Inside

LEMMA NextLock ==
  ASSUME LeasesHold, LockInv, [Next]_vars
  PROVE  LockInv'
<1>1. TypeOK /\ TypeOK'
  BY NextTyped DEF LockInv
<1>2. ASSUME NEW o \in Ops,
             \/ Begin(o) \/ FindLockHeld(o) \/ FailToWriteOwner(o) \/ MissOwner(o)
             \/ WaitOrTimeOut(o) \/ Wake(o) \/ EndWrite(o)
      PROVE  LockInv'
  <2>1. /\ UNCHANGED <<lockVars, recovered, beat, crashed>>
        /\ \A q \in Ops : Inside(q)' => Inside(q)
        /\ \A q \in Ops : pc'[q] = "removing" => pc[q] = "removing"
    BY <1>1, <1>2 DEF TypeOK, Begin, FindLockHeld, FailToWriteOwner, MissOwner, WaitOrTimeOut,
         Wake, EndWrite, At, Goto, Inside, Holding
  <2>2. QED
    BY <1>1, <2>1, CallMoves
<1>3. ASSUME NEW o \in Ops, JudgeOwner(o) \/ JudgeDir(o)
      PROVE  LockInv'
  <2>1. /\ UNCHANGED <<lockVars, recovered, beat, crashed>>
        /\ \A q \in Ops : Inside(q)' => Inside(q)
        /\ dir # None
        /\ OwnerIsStale \/ aged # {}
    BY <1>1, <1>3 DEF TypeOK, LockInv, JudgeOwner, JudgeDir, At, Goto, Inside, Holding
  <2>2. Lone => \A q \in Ops : ~Inside(q)
    BY <2>1, InsideIsFresh
  <2>3. QED
    BY <1>1, <2>1, <2>2, CallMoves
<1>4. ASSUME NEW o \in Ops, MakeLockDir(o)
      PROVE  LockInv'
  <2>1. /\ dir = None /\ dir' = o /\ owner' = None /\ aged' = {} /\ pc[o] = "mkdir"
        /\ \A q \in Ops : q # o => pc'[q] = pc[q]
        /\ pc'[o] = "made"
        /\ UNCHANGED <<recovered, beat, crashed>>
    BY <1>1, <1>4 DEF TypeOK, MakeLockDir, LockIsFree, At, Goto
  <2>2. Lone => \A q \in Ops : ~Inside(q) /\ ~(pc[q] = "removing" /\ recovered \subseteq {q})
    BY <2>1, OwnerAssumption DEF LockInv, InsideOwns, RemovesDeadLock
  <2>3. Lone' => InsideOwns'
    BY <2>1, <2>2 DEF Lone, InsideOwns, Inside, Living
  <2>4. Lone' => RemovesDeadLock'
    BY <2>1, <2>2 DEF Lone, RemovesDeadLock
  <2>5. QED
    BY <1>1, <2>1, <2>3, <2>4, OwnerAssumption DEF LockInv
<1>5. ASSUME NEW o \in Ops, WriteOwner(o)
      PROVE  LockInv'
  <2>1. /\ UNCHANGED <<dir, recovered, beat, crashed>> /\ dir # None
        /\ owner' = ProcessOf[o] /\ aged' \subseteq aged
        /\ Inside(o)
        /\ \A q \in Ops : Inside(q)' => Inside(q)
        /\ \A q \in Ops : pc'[q] = "removing" => pc[q] = "removing"
    BY <1>1, <1>5 DEF TypeOK, WriteOwner, At, Goto, Inside, Holding
  <2>2. Lone' => InsideOwns'
    BY <2>1 DEF LockInv, Lone, InsideOwns, Living
  <2>3. Lone' => RemovesDeadLock'
    BY <2>1 DEF LockInv, Lone, RemovesDeadLock
  <2>4. QED
    BY <1>1, <2>1, <2>2, <2>3 DEF LockInv
<1>6. ASSUME NEW o \in Ops, MissDir(o)
      PROVE  LockInv'
  <2>1. /\ UNCHANGED <<lockVars, beat, crashed>> /\ recovered' = recovered \cup {o}
        /\ \A q \in Ops : Inside(q)' => Inside(q)
        /\ \A q \in Ops : pc'[q] = "removing" => q # o
    BY <1>1, <1>6 DEF TypeOK, MissDir, At, Goto, Inside, Holding
  <2>2. Lone' => Lone
    BY <2>1 DEF Lone
  <2>3. Lone' => InsideOwns'
    BY <2>1, <2>2 DEF LockInv, lockVars, InsideOwns, Living
  <2>4. RemovesDeadLock'
    BY <2>1 DEF RemovesDeadLock
  <2>5. IsFiniteSet(recovered')
    BY <2>1, FS_AddElement DEF LockInv
  <2>6. QED
    BY <1>1, <2>1, <2>3, <2>4, <2>5 DEF LockInv, lockVars
<1>7. ASSUME NEW o \in Ops, RemoveStaleLock(o)
      PROVE  LockInv'
  <2>1. /\ UNCHANGED <<beat, crashed>> /\ recovered' = recovered \cup {o} /\ owner' = None
        /\ pc[o] = "removing"
        /\ \A q \in Ops : Inside(q)' => Inside(q)
        /\ \A q \in Ops : pc'[q] = "removing" => q # o
    BY <1>1, <1>7 DEF TypeOK, RemoveStaleLock, RemoveLockDir, At, Goto, Inside, Holding
  <2>2. Lone' => Lone /\ recovered \subseteq {o}
    BY <2>1 DEF Lone
  <2>3. Lone' => InsideOwns'
    BY <2>1, <2>2 DEF LockInv, RemovesDeadLock, InsideOwns
  <2>4. RemovesDeadLock'
    BY <2>1 DEF RemovesDeadLock
  <2>5. IsFiniteSet(recovered')
    BY <2>1, FS_AddElement DEF LockInv
  <2>6. QED
    BY <1>1, <2>1, <2>3, <2>4, <2>5 DEF LockInv
<1>8. ASSUME NEW o \in Ops, Release(o)
      PROVE  LockInv'
  <2>1. /\ UNCHANGED <<recovered, beat, crashed>> /\ owner' = None
        /\ Inside(o) /\ ~Inside(o)'
        /\ \A q \in Ops : Inside(q)' => Inside(q)
        /\ \A q \in Ops : pc'[q] = "removing" => pc[q] = "removing"
    BY <1>1, <1>8 DEF TypeOK, Release, RemoveLockDir, At, Goto, Inside, Holding
  <2>2. Lone' => InsideOwns'
    BY <2>1 DEF LockInv, Lone, InsideOwns
  <2>3. Lone' => RemovesDeadLock'
    BY <2>1 DEF LockInv, Lone, RemovesDeadLock
  <2>4. QED
    BY <1>1, <2>1, <2>2, <2>3 DEF LockInv
<1>9. ASSUME NEW o \in Ops, Heartbeat(o) \/ OpenOwner(o) \/ WriteHeartbeat(o)
      PROVE  LockInv'
  <2>1. /\ UNCHANGED <<dir, callVars, crashed>> /\ aged' \subseteq aged
        /\ \/ owner' \in {owner, None}
           \/ dir # None /\ o \in Bootstraps /\ owner' = ProcessOf[o]
    BY <1>1, <1>9, BeatAssumption, OwnerAssumption
       DEF TypeOK, LockInv, Heartbeat, OpenOwner, WriteHeartbeat, lockVars
  <2>2. \A q \in Ops : beat'[q] # "none" => q \in Bootstraps
    BY <1>1, <1>9 DEF TypeOK, LockInv, Heartbeat, OpenOwner, WriteHeartbeat, LockDirExists
  <2>3. Lone' => InsideOwns'
    BY <2>1 DEF LockInv, Lone, InsideOwns, Inside, Living, callVars
  <2>4. Lone' => RemovesDeadLock'
    BY <2>1 DEF LockInv, Lone, RemovesDeadLock, Inside, callVars
  <2>5. QED
    BY <1>1, <2>1, <2>2, <2>3, <2>4 DEF LockInv, callVars
<1>10. CASE ThirtySecondsPass
  <2>1. /\ UNCHANGED <<dir, owner, pc, recovered, beat, crashed>>
        /\ \A q \in Ops : ~Inside(q)
    BY <1>10 DEF ThirtySecondsPass, LeasesHold
  <2>2. InsideOwns' /\ (Lone' => RemovesDeadLock')
    BY <2>1 DEF InsideOwns, Inside, LockInv, Lone, RemovesDeadLock
  <2>3. QED
    BY <1>1, <2>1, <2>2 DEF LockInv
<1>11. ASSUME NEW p \in Processes, Crash(p)
       PROVE  LockInv'
  <2>1. /\ UNCHANGED <<lockVars, callVars, beat>>
        /\ \A q \in Ops : Inside(q)' => Inside(q)
    BY <1>11 DEF Crash, Inside, callVars
  <2>2. Lone' => InsideOwns' /\ RemovesDeadLock'
    BY <2>1 DEF LockInv, Lone, InsideOwns, RemovesDeadLock, Living, lockVars, callVars
  <2>3. QED
    BY <1>1, <2>1, <2>2 DEF LockInv, lockVars, callVars
<1>12. CASE UNCHANGED vars
  <2>1. UNCHANGED <<lockVars, callVars, beat, crashed>>
    BY <1>12 DEF vars
  <2>2. QED
    BY <1>1, <2>1, CallMoves DEF callVars, Inside
<1>13. QED
  BY <1>2, <1>3, <1>4, <1>5, <1>6, <1>7, <1>8, <1>9, <1>10, <1>11, <1>12
     DEF Next, OpStep, HeartbeatStep

(***************************************************************************)
(* With leases that hold, as long as one writer at most took a lock to be  *)
(* stale, two writers are never inside together.                           *)
(***************************************************************************)
THEOREM LoneRecovery ==
  ASSUME LeasesHold
  PROVE  Spec => []LoneRecoveryExcludes
<1>1. LockInv /\ [Next]_vars => LockInv'
  BY NextLock
<1>2. ASSUME LockInv PROVE LoneRecoveryExcludes
  <2>1. ASSUME Cardinality(recovered) <= 1 PROVE Lone
    <3>1. Cardinality(recovered) \in Nat /\ IsFiniteSet(recovered)
      BY <1>2, FS_CardinalityType DEF LockInv
    <3>2. recovered = {} \/ \E r : recovered = {r}
      BY <2>1, <3>1, FS_EmptySet, FS_Singleton
    <3>3. QED
      BY <3>2 DEF Lone
  <2>2. ASSUME Lone PROVE MutualExclusion
    BY <1>2, <2>2 DEF LockInv, InsideOwns, MutualExclusion, At, Inside, Holding
  <2>3. QED
    BY <2>1, <2>2 DEF LoneRecoveryExcludes
<1>3. QED
  BY <1>1, <1>2, InitLock, PTL DEF Spec
=============================================================================
