----------------------------- MODULE WriteLock -----------------------------
(***************************************************************************)
(* The lock every write of the session database takes: a directory made    *)
(* with mkdir, a file in it that names the owning process, and the rules   *)
(* by which a waiting writer decides that the owner is gone. Several       *)
(* server processes share one database, and one process runs several       *)
(* writers. A step is one file-system call, with the computation up to     *)
(* the next one; removing the directory with its file is one step.         *)
(***************************************************************************)
EXTENDS Naturals, FiniteSets

CONSTANTS
  Ops,          \* the calls of runExclusive
  Processes,    \* the server processes
  ProcessOf,    \* the process of a call
  Bootstraps,   \* the calls whose callback awaits: only they see heartbeats
  MayCrash,     \* the processes that may die
  LongWrites,   \* whether a writer may hold the lock longer than staleLockMs
  None

ASSUME ProcessAssumption == ProcessOf \in [Ops -> Processes] /\ MayCrash \subseteq Processes
ASSUME OwnerAssumption == None \notin Ops /\ None \notin Processes
ASSUME BeatAssumption == Ops \cap {"none", "due"} = {}

VARIABLES
  dir,        \* the call that made the lock directory there is, or None
  owner,      \* the process owner.json names; None when missing or torn
  aged,       \* which of {"dir", "owner"} is older than staleLockMs
  pc,         \* where each call is
  waited,     \* the calls that have waited acquireTimeoutMs
  recovered,  \* the calls with staleRecoveries > 0
  beat,       \* a heartbeat's write: "none", "due", or the call whose directory
              \* held the file it opened
  crashed     \* the processes that died

lockVars == <<dir, owner, aged>>
callVars == <<pc, waited, recovered>>
vars == <<lockVars, callVars, beat, crashed>>

Acquiring == {"mkdir", "checking", "dating", "removing", "sleeping"}
Holding == {"made", "writing", "releasing"}

TypeOK ==
  /\ dir \in Ops \cup {None}
  /\ owner \in Processes \cup {None}
  /\ aged \subseteq {"dir", "owner"}
  /\ pc \in [Ops -> Acquiring \cup Holding \cup {"idle", "done", "failed"}]
  /\ waited \subseteq Ops
  /\ recovered \subseteq Ops
  /\ beat \in [Ops -> Ops \cup {"none", "due"}]
  /\ crashed \subseteq MayCrash

Init ==
  /\ dir = None
  /\ owner = None
  /\ aged = {}
  /\ pc = [o \in Ops |-> "idle"]
  /\ waited = {}
  /\ recovered = {}
  /\ beat = [o \in Ops |-> "none"]
  /\ crashed = {}

At(o, where) == pc[o] = where /\ ProcessOf[o] \notin crashed
Goto(o, where) == pc' = [pc EXCEPT ![o] = where]

-----------------------------------------------------------------------------
(* acquire *)

Begin(o) ==
  /\ At(o, "idle")
  /\ Goto(o, "mkdir")
  /\ UNCHANGED <<lockVars, waited, recovered, beat, crashed>>

\* Mutant: mkdir with recursive, which succeeds on a directory that exists.
LockIsFreeRecursive == TRUE
LockIsFree == dir = None

MakeLockDir(o) ==
  /\ At(o, "mkdir")
  /\ LockIsFree
  /\ dir' = o
  /\ owner' = None
  /\ aged' = {}
  /\ Goto(o, "made")
  /\ UNCHANGED <<waited, recovered, beat, crashed>>

\* EEXIST
FindLockHeld(o) ==
  /\ At(o, "mkdir")
  /\ ~LockIsFree
  /\ Goto(o, "checking")
  /\ UNCHANGED <<lockVars, waited, recovered, beat, crashed>>

WriteOwner(o) ==
  /\ At(o, "made")
  /\ dir # None
  /\ owner' = ProcessOf[o]
  /\ aged' = aged \ {"owner"}
  /\ Goto(o, "writing")
  /\ UNCHANGED <<dir, waited, recovered, beat, crashed>>

\* The disk is full, or the directory is gone: acquire throws, and what it made
\* stays behind.
FailToWriteOwner(o) ==
  /\ At(o, "made")
  /\ Goto(o, "failed")
  /\ UNCHANGED <<lockVars, waited, recovered, beat, crashed>>

-----------------------------------------------------------------------------
(* cleanupStaleLock: what it reads decides, and it removes one step later *)

OwnerIsStale == "owner" \in aged \/ owner \in crashed

JudgeOwner(o) ==
  /\ At(o, "checking")
  /\ owner # None
  /\ OwnerIsStale
  /\ Goto(o, "removing")
  /\ UNCHANGED <<lockVars, waited, recovered, beat, crashed>>

MissOwner(o) ==
  /\ At(o, "checking")
  /\ owner = None
  /\ Goto(o, "dating")
  /\ UNCHANGED <<lockVars, waited, recovered, beat, crashed>>

\* No owner to read: the age of the directory decides.
JudgeDir(o) ==
  /\ At(o, "dating")
  /\ dir # None
  /\ "dir" \in aged
  /\ Goto(o, "removing")
  /\ UNCHANGED <<lockVars, waited, recovered, beat, crashed>>

\* The directory went away while it was looked at.
MissDir(o) ==
  /\ At(o, "dating")
  /\ dir = None
  /\ recovered' = recovered \cup {o}
  /\ Goto(o, "mkdir")
  /\ UNCHANGED <<lockVars, waited, beat, crashed>>

\* Mutant: the removal fails unnoticed.
KeepLockDir == UNCHANGED lockVars
RemoveLockDir == dir' = None /\ owner' = None /\ aged' = {}

RemoveStaleLock(o) ==
  /\ At(o, "removing")
  /\ RemoveLockDir
  /\ recovered' = recovered \cup {o}
  /\ Goto(o, "mkdir")
  /\ UNCHANGED <<waited, beat, crashed>>

\* The lock is held: sleep, or throw when acquireTimeoutMs is over.
WaitOrTimeOut(o) ==
  /\ \/ At(o, "checking") /\ owner # None /\ ~OwnerIsStale
     \/ At(o, "dating") /\ dir # None /\ "dir" \notin aged
  /\ Goto(o, IF o \in waited THEN "failed" ELSE "sleeping")
  /\ UNCHANGED <<lockVars, waited, recovered, beat, crashed>>

Wake(o) ==
  /\ At(o, "sleeping")
  /\ Goto(o, "mkdir")
  /\ UNCHANGED <<lockVars, waited, recovered, beat, crashed>>

-----------------------------------------------------------------------------
(* The write, its heartbeats, and release *)

\* The callback settles, the heartbeat is stopped and the owner read back: the
\* lock is left alone when another process owns it.
EndWrite(o) ==
  /\ At(o, "writing")
  /\ Goto(o, IF owner \in {None, ProcessOf[o]} THEN "releasing" ELSE "done")
  /\ UNCHANGED <<lockVars, waited, recovered, beat, crashed>>

Release(o) ==
  /\ At(o, "releasing")
  /\ RemoveLockDir
  /\ Goto(o, "done")
  /\ UNCHANGED <<waited, recovered, beat, crashed>>

\* The interval fires. Nothing waits for its write, which may still be under way
\* when the lock was released.
Heartbeat(o) ==
  /\ o \in Bootstraps
  /\ At(o, "writing")
  /\ beat[o] = "none"
  /\ beat' = [beat EXCEPT ![o] = "due"]
  /\ UNCHANGED <<lockVars, callVars, crashed>>

\* Mutant: the directory is taken for granted.
LockDirAssumed == TRUE
LockDirExists == dir # None

\* writeFile truncates owner.json, by path, before it writes it; ENOENT is ignored.
OpenOwner(o) ==
  /\ beat[o] = "due"
  /\ ProcessOf[o] \notin crashed
  /\ IF LockDirExists
       THEN beat' = [beat EXCEPT ![o] = dir] /\ owner' = None
       ELSE beat' = [beat EXCEPT ![o] = "none"] /\ UNCHANGED owner
  /\ UNCHANGED <<dir, aged, callVars, crashed>>

\* The contents go to the file that was opened, even if it is no longer there.
WriteHeartbeat(o) ==
  /\ beat[o] \in Ops
  /\ ProcessOf[o] \notin crashed
  /\ IF dir = beat[o]
       THEN owner' = ProcessOf[o] /\ aged' = aged \ {"owner"}
       ELSE UNCHANGED <<owner, aged>>
  /\ beat' = [beat EXCEPT ![o] = "none"]
  /\ UNCHANGED <<dir, callVars, crashed>>

-----------------------------------------------------------------------------
(* Time and crashes *)

Inside(o) == pc[o] \in Holding /\ ProcessOf[o] \notin crashed

Beating == \E o \in Bootstraps : At(o, "writing")

\* staleLockMs and acquireTimeoutMs are both 30 s. A heartbeat keeps the owner
\* young; nothing touches the directory.
ThirtySecondsPass ==
  /\ LongWrites \/ ~\E o \in Ops : Inside(o)
  /\ waited' = waited \cup {o \in Ops : pc[o] \in Acquiring}
  /\ aged' = (IF dir = None THEN {}
              ELSE IF Beating THEN aged \cup {"dir"} ELSE {"dir", "owner"})
  /\ UNCHANGED <<dir, owner, pc, recovered, beat, crashed>>

Crash(p) ==
  /\ p \in MayCrash \ crashed
  /\ crashed' = crashed \cup {p}
  /\ UNCHANGED <<lockVars, callVars, beat>>

OpStep(o) ==
  \/ MakeLockDir(o) \/ FindLockHeld(o) \/ WriteOwner(o) \/ FailToWriteOwner(o)
  \/ JudgeOwner(o) \/ MissOwner(o) \/ JudgeDir(o) \/ MissDir(o)
  \/ RemoveStaleLock(o) \/ WaitOrTimeOut(o) \/ Wake(o)
  \/ EndWrite(o) \/ Release(o)

HeartbeatStep(o) == OpenOwner(o) \/ WriteHeartbeat(o)

Next ==
  \/ \E o \in Ops : Begin(o) \/ OpStep(o) \/ Heartbeat(o) \/ HeartbeatStep(o)
  \/ ThirtySecondsPass
  \/ \E p \in Processes : Crash(p)

Spec == Init /\ [][Next]_vars

\* The callbacks are synchronous database writes, and time passes.
FairSpec ==
  /\ Spec
  /\ \A o \in Ops : WF_vars(OpStep(o)) /\ WF_vars(HeartbeatStep(o))
  /\ WF_vars(ThirtySecondsPass)

-----------------------------------------------------------------------------
(* Properties *)

(***************************************************************************)
(* A writer waits for the writer that is inside.                           *)
(***************************************************************************)
MutualExclusion ==
  \A o, q \in Ops : At(o, "writing") /\ At(q, "writing") => o = q

(***************************************************************************)
(* Recovery by one writer is safe: as long as at most one writer ever took *)
(* a lock to be stale, no writer outlives staleLockMs and no process that  *)
(* sends heartbeats dies, two writers are never inside together, whatever  *)
(* else crashes, fails to write its name or beats after its release.       *)
(***************************************************************************)
LoneRecoveryExcludes == Cardinality(recovered) <= 1 => MutualExclusion

(***************************************************************************)
(* A writer that is waiting for the lock gets it or fails, even when the   *)
(* owner of the lock died or left it behind.                               *)
(***************************************************************************)
WritersEnd ==
  \A o \in Ops :
    pc[o] \in Acquiring ~>
      pc[o] \in {"writing", "done", "failed"} \/ ProcessOf[o] \in crashed
=============================================================================
