---------------------------- MODULE ResearchProofs --------------------------
(***************************************************************************)
(* Research for every set of calls and every bound: its types, that the    *)
(* subscriber has seen the record in the map, that a store which exists is *)
(* named by the record in the map, that the stored report is whole, and    *)
(* that a cancelled research stays cancelled.                              *)
(*                                                                         *)
(* All five follow from one inductive invariant, Inv.  Its parts need each *)
(* other: what a record may name depends on the interactions that have     *)
(* begun (Typed); that a run completes a cancelled research as cancelled   *)
(* needs the flag its stream was aborted with (Asked); that a report is    *)
(* whole needs that each state has one run amid it (Reported), and that no *)
(* store is forgotten needs that the run which prepares the files works on *)
(* the state in the map (Stores).  A step writes at most one state and     *)
(* moves at most two entries: RunMove, CallMove, ExecMove and QuietMove    *)
(* say what such a step must do to preserve Inv, and every action of the   *)
(* model is shown to be one of them.                                       *)
(***************************************************************************)
EXTENDS Research, SequenceTheorems, TLAPS
-----------------------------------------------------------------------------
(* Records, runtime states and the entries of runs and calls *)

\* A runtime state (ResearchRuntimeState).
Object == [rec : Record, cancel : BOOLEAN, planning : BOOLEAN, stream : BOOLEAN, timer : BOOLEAN]

\* The calls that start a run on a state which exists.
Steering == {"approve", "refine"}

\* What an entry may be for.
Operations == Ops \cup {"none", "start", "settled", "cancel"}

\* An entry of a run or of a call.
Entry ==
  [pc : PCs, op : Operations, o : Nat, rec : Record \cup {NoRecord}, w : Record \cup {NoRecord},
   at : Nat, next : 0..Chunks + 2, planning : BOOLEAN, files : BOOLEAN, back : {"idle", "read"}]

\* Where a run or a call has no runtime state to work on.
Detached == {"idle", "inserting", "inserted", "reading", "merging", "loading"}

\* Where it has a record to write, holds one it has read, or drops a store.
Writing == {"inserting", "merging", "saving", "cancelling", "saveFiles", "saveRun", "completing", "failing",
            "dropped"}
Holding == {"reading", "merging", "loading"}
Dropping == {"dropping", "dropped"}

\* Where a call may be.
CallPCs == Detached \cup {"saving", "asking", "cancelling"} \cup Dropping

\* Where a run works, and where it may be.
Working == {"prepare", "saveFiles", "saveRun", "create", "read", "cite", "dropFirst", "completing", "resuming"}
RunPCs == {"idle", "failing", "leaving"} \cup Working \cup Dropping

\* A run that is still to read its stream, or to read on.
On(e) == e.pc \in Working \/ (e.pc \in Dropping /\ e.back = "read")

\* One that has read the last event.
Over(e) == e.pc \in {"dropFirst", "completing"} \/ (e.pc \in Dropping /\ e.back = "read")

\* The interactions a record may name: a run that still prepares its files has
\* created none.
Preparing == \E r \in Runs : proc[r].pc = "prepare"
Begun == IF Preparing THEN 0 ELSE runs

\* The records there may be when n interactions have begun.
Rec(n) == {rec \in Record : rec.inter <= n /\ (n = 0 => ~rec.store /\ ~rec.plan)}

\* One of them, or none.
RecOr(n) == Rec(n) \cup {NoRecord}

\* q2 is q but for the state o, which may be new.
Wrote(q, q2, o, rec, cancel, stream) ==
  /\ q2 \in Seq(Object) /\ o \in 1..Len(q2)
  /\ Len(q2) = Len(q) \/ (Len(q2) = Len(q) + 1 /\ o = Len(q2))
  /\ \A j \in 1..Len(q) : j # o => q2[j] = q[j]
  /\ q2[o].rec = rec /\ q2[o].cancel = cancel /\ q2[o].stream = stream

-----------------------------------------------------------------------------
(* Types *)

\* The states.
Objects == obj \in Seq(Object) /\ Len(obj) <= MaxObjs /\ \A o \in 1..Len(obj) : obj[o].rec \in Rec(Begun)

\* The map, the row and the subscriber.
Fields ==
  /\ cur \in 0..Len(obj) /\ sub \in 0..Len(obj)
  /\ db \in RecOr(Begun) /\ late \in RecOr(Begun)
  /\ view \in [status : Status, text : Seq(Events)]
  /\ store \in BOOLEAN /\ putBack \in BOOLEAN

\* The bounded counters.
Counters ==
  /\ runs \in 0..MaxRuns /\ spent \in 0..Budget /\ restarts \in 0..MaxRestarts
  /\ init \in {"no", "resuming", "done"}

\* What an entry holds, and where its owner may be.
Shaped(p, e) ==
  /\ e.rec \in RecOr(Begun) /\ e.w \in RecOr(Begun)
  /\ e.o <= Len(obj) /\ (e.pc \notin Detached => e.o # 0)
  /\ e.pc \in Writing => e.w # NoRecord
  /\ e.pc \in Holding => e.rec # NoRecord
  /\ p \in Runs => e.pc \in RunPCs
  /\ p \in Calls => e.pc \in CallPCs /\ e.back = "idle"
  /\ p \in Runs /\ On(e) => e.at \in 1..runs
  /\ Over(e) => e.next = Chunks + 2
  /\ e.pc = "loading" => e.op = "attach"

\* When it may be there.
Timed(p, e) ==
  /\ e.pc \in {"inserting", "inserted"} <=> e.op = "start"
  /\ e.op = "start" => runs = 0 /\ MaxRuns # 0 /\ restarts = 0
  /\ Begun = 0 => ~(e.pc = "saving" /\ e.op \in Steering) /\ e.pc \notin Dropping
  /\ p \in Runs /\ p > runs => e = Idle
  /\ e.pc = "prepare" => runs = 1 /\ p = 1 /\ restarts = 0
  /\ p = 0 /\ restarts = 0 => e = Idle
  /\ db = NoRecord => e.pc \in {"idle", "inserting"}

\* The entry of p.
EntryOK(p) == Shaped(p, proc[p]) /\ Timed(p, proc[p])

\* The entries, of which one inserts the row at most.
Entries ==
  /\ proc \in [Procs -> Entry]
  /\ \A p \in Procs : EntryOK(p)
  /\ \A p, q \in Procs : proc[p].op = "start" /\ proc[q].op = "start" => p = q

\* Until the row is there nothing has happened but its insertion, and until a
\* restart there is nothing to resume.
Early ==
  /\ db = NoRecord => cur = 0 /\ runs = 0 /\ restarts = 0
  /\ restarts = 0 => init = "done"

\* The types.
Typed == Objects /\ Fields /\ Counters /\ Entries /\ Early

-----------------------------------------------------------------------------
(* The invariants *)

\* A run goes on with a cancelled research only after it was asked to cancel, and
\* the flag stays set while the provider is asked.
Asked ==
  /\ \A r \in Runs :
       On(proc[r]) /\ obj[proc[r].o].rec.status = "cancelled" => obj[proc[r].o].cancel \/ putBack
  /\ \A c \in Calls : proc[c].pc = "asking" => obj[proc[c].o].cancel

\* The subscriber follows the state in the map.
Followed == (sub # 0 => sub = cur) /\ ViewFollowsRecord

\* The run that prepares files works on the state in the map, which nobody removes.
Stores ==
  /\ \A r \in Runs : proc[r].pc = "prepare" => proc[r].o = cur /\ obj[cur].stream
  /\ \A p \in Procs : proc[p].pc = "dropped" => ~store
  /\ NoStoreIsForgotten

\* A plan waits for approval at the end of its interaction; a report is whole, and
\* the interaction it stopped in is the one to be resumed.
Sound(rec) ==
  /\ rec.plan => rec.last[2] = Chunks + 1 /\ Terminal(rec.status)
  /\ \/ rec.status = "cancelled"
     \/ /\ rec.text = TextUpTo(rec.last)
        /\ rec.status = "completed" => rec.last[2] = Chunks + 1
        /\ rec.last[2] \in 1..Chunks => rec.inter = rec.last[1]
     \/ /\ rec.text = <<>> /\ rec.last[2] = Chunks + 1
        /\ rec.status \in {"pending", "running", "failed"}

\* The same of a record that may be absent.
SoundOr(rec) == rec # NoRecord => Sound(rec)

\* A run that has events to read, or is about to be started on an approved plan.
Mid(e) ==
  \/ e.pc \in {"prepare", "saveFiles", "saveRun", "create", "cite", "resuming"}
  \/ e.pc = "read" /\ e.next <= Chunks + 1
  \/ e.pc = "saving" /\ e.op \in Steering

\* It has put into the record what it has read, and nobody else has.
Coupled(e, x) ==
  /\ ~x.rec.plan /\ x.rec.status # "completed"
  /\ e.pc \in {"prepare", "saveFiles", "saveRun", "create", "saving"} => x.rec.text = <<>>
  /\ e.pc \in {"read", "cite"} /\ e.next = 0 => x.rec.text = <<>>
  /\ e.pc \in {"read", "cite"} /\ e.next # 0 /\ ~x.cancel =>
       x.rec.text = TextUpTo(<<e.at, e.next - 1>>) /\ x.rec.inter = e.at
  /\ e.pc = "resuming" /\ x.rec.last[2] <= Chunks =>
       x.rec.text = TextUpTo(<<e.at, x.rec.last[2]>>) /\ x.rec.inter = e.at
  /\ e.pc = "cite" => e.next \in 1..Chunks + 1

\* Every record there is, in a state, stored or held by a run or a call, is sound.
AllSound ==
  /\ \A o \in 1..Len(obj) : Sound(obj[o].rec)
  /\ SoundOr(db) /\ SoundOr(late)
  /\ \A p \in Procs : SoundOr(proc[p].rec) /\ SoundOr(proc[p].w)

\* Until a stale record was put back every record is sound, and each state has one run amid it.
Reported ==
  ~putBack => /\ AllSound
              /\ \A p \in Procs : Mid(proc[p]) => Coupled(proc[p], obj[proc[p].o])
              /\ \A p, q \in Procs : Mid(proc[p]) /\ Mid(proc[q]) /\ proc[p].o = proc[q].o => p = q

\* The inductive invariant.
Inv == Typed /\ Asked /\ Followed /\ Stores /\ Reported

\* Where a run or a call has flushed the state it works on, and is still to show it.
FlushPCs ==
  {"saving", "cancelling", "saveFiles", "saveRun", "dropFirst", "completing", "failing", "dropping", "dropped"}

\* No other run or call is amid the state o.
Sole(p, o) == \A q \in Procs : q # p /\ Mid(proc[q]) => proc[q].o # o

\* What those who are amid a state rely on is still there.
Alike(x, rec, cancel) ==
  /\ rec.plan = x.rec.plan /\ rec.text = x.rec.text /\ rec.last = x.rec.last /\ rec.inter = x.rec.inter
  /\ rec.status = x.rec.status \/ rec.status # "completed"
  /\ x.cancel => cancel

\* A cancelled research is taken up again by the approval of its plan only.
StaysCancelled ==
  \A o \in DOMAIN obj :
    obj[o].rec.status = "cancelled" /\ obj'[o].rec.status # "cancelled" => putBack' \/ obj[o].rec.plan

\* The entry of p becomes e, and no other changes.
Moves(p, e) == p \in Procs /\ e \in Entry /\ proc' = [proc EXCEPT ![p] = e]

\* A step of the run r that leaves the entry e, and the record rec in the state o.
RunTypes(r, e, o, rec, c, s) ==
  /\ r \in Runs /\ proc[r].pc # "idle" /\ Moves(r, e) /\ o = proc[r].o
  /\ Wrote(obj, obj', o, rec, c, s) /\ rec \in Rec(Begun')
  /\ runs' = runs /\ restarts' = restarts /\ putBack' = putBack /\ spent' = spent /\ late' = late
  /\ init' = init \/ (init' = "done" /\ restarts # 0)
  /\ e = Idle \/ (e.o = o /\ e.op # "start")
  /\ e.pc \in RunPCs /\ e.pc # "prepare" /\ (Over(e) => e.next = Chunks + 2)
  /\ e.rec \in RecOr(Begun') /\ e.w \in RecOr(Begun') /\ (e.pc \in Writing => e.w # NoRecord)
  /\ e.pc \in Dropping => rec.store \/ proc[r].pc \in Dropping
  /\ db' = db \/ (proc[r].pc \in Writing /\ db' = proc[r].w)
  /\ store' \in BOOLEAN
  /\ \/ cur' = cur /\ sub' = sub
     \/ cur = o /\ cur' = 0 /\ sub' = 0

\* What it does to a cancellation, and what the subscriber sees of it.
RunShows(r, e, o, rec, c) ==
  /\ On(e) => On(proc[r]) /\ e.at = proc[r].at
  /\ obj[o].cancel => c
  /\ rec.status = "cancelled" => c \/ obj[o].rec.status = "cancelled"
  /\ obj[o].rec.status = "cancelled" /\ rec.status # "cancelled" => putBack \/ obj[o].rec.plan
  /\ sub # o => view' = view
  /\ view' \in {view, Shown(rec), Shown(obj[o].rec)}
  /\ sub' = o => \/ e.pc \in FlushPCs /\ e.o = o
                 \/ view' = Shown(rec)
                 \/ view' = view /\ Shown(rec) = Shown(obj[o].rec) /\ proc[r].pc \notin FlushPCs

\* What it does to the store, and to the report.
RunKeeps(r, e, o, rec, c) ==
  /\ e.pc = "dropped" => ~store'
  /\ store' => store \/ proc[r].pc = "prepare"
  /\ restarts = 0 /\ ~putBack /\ store' => \/ o = cur' /\ rec.store
                                           \/ store /\ cur' = cur /\ o # cur
  /\ ~putBack => /\ Sound(rec) /\ SoundOr(e.rec) /\ SoundOr(e.w)
                 /\ Mid(e) => Mid(proc[r]) /\ Coupled(e, obj'[o])
                 /\ Mid(proc[r]) \/ Alike(obj[o], rec, c)

\* Its entry moves to pc with the write w, the next event n and the operation op.
Became(p, e, pc, w, n, op) ==
  /\ Moves(p, e) /\ e.pc = pc /\ e.w = w /\ e.next = n /\ e.op = op
  /\ e.o = proc[p].o /\ e.rec = proc[p].rec /\ e.at = proc[p].at /\ e.back = proc[p].back

\* The record of an interaction that started, and of one that completed.
WithInter(rec, i, s) == [rec EXCEPT !.inter = i, !.status = s]
WithPlan(rec, s, i, b) == [rec EXCEPT !.status = s, !.inter = i, !.plan = b]

\* The record when the interaction of the run r has completed, and its state.
Completion(r, o, outcome) ==
  IF CancelledBefore(o) THEN [Seen(r) EXCEPT !.status = "cancelled"] ELSE CompletedRecord(r, outcome)

\* The states q when the record of o is set and its planning ends.
NoPlanning(q, o, rec) == [q EXCEPT ![o].rec = rec, ![o].planning = FALSE]

\* A run that has returned is over, or is to clean up.
Returned(r, e) ==
  /\ Moves(r, e)
  /\ e = Idle \/ (e.pc = "leaving" /\ e.o = proc[r].o /\ e.op = proc[r].op /\ e.rec = proc[r].rec /\ e.w = proc[r].w)

\* The counters, the late write and what a run leaves to the calls.
Steady ==
  /\ runs' = runs /\ restarts' = restarts /\ putBack' = putBack /\ spent' = spent /\ late' = late
  /\ init' = init \/ (init' = "done" /\ restarts # 0)

\* One that cleans up is dropping the store of its state, or goes on with what is
\* left for it to do.
Cleaned(p, e, back) ==
  /\ Moves(p, e)
  /\ \/ e = Idle
     \/ /\ e.o = proc[p].o /\ e.op # "start" /\ e.rec = proc[p].rec /\ e.w = NoRecord
        /\ e.at = proc[p].at /\ e.next = proc[p].next
        /\ \/ e.pc = "dropping" /\ e.back = back
           \/ e.pc = "read" /\ back = "read"

\* The state o stays in the map with its subscribers, or leaves it with them.
Unmapped(o) ==
  \/ cur' = cur /\ sub' = sub
  \/ cur = o /\ cur' = 0 /\ sub' = 0 /\ (restarts = 0 /\ ~putBack => ~store)

\* A step in which the run r cleans up the state o, and what is still to do is back.
RunCleans(r, e, back, o, rec, c, s) ==
  /\ r \in Runs /\ proc[r].pc \notin {"idle", "prepare"} /\ o = proc[r].o /\ Cleaned(r, e, back)
  /\ back = "read" => On(proc[r]) /\ proc[r].next = Chunks + 2
  /\ Wrote(obj, obj', o, rec, c, s) /\ rec = obj[o].rec /\ c = obj[o].cancel
  /\ Steady /\ store' = store /\ Unmapped(o)
  /\ db' = db \/ (proc[r].pc \in Writing /\ db' = proc[r].w)
  /\ e.pc = "dropping" => rec.store
  /\ \/ view' = IF sub = o THEN Shown(rec) ELSE view
     \/ view' = view /\ (e.pc = "dropping" \/ sub' # o)

\* The entry e of the call p works on no state.
Apart(p, e) ==
  /\ e.pc \in Detached /\ e.o <= Len(obj) /\ e.back = "idle"
  /\ e.rec \in RecOr(Begun) /\ e.w \in RecOr(Begun)
  /\ e.pc \in Writing => e.w # NoRecord
  /\ e.pc \in Holding => e.rec # NoRecord
  /\ e.pc \in {"inserting", "inserted"} <=> e.op = "start"
  /\ e.pc = "loading" => e.op = "attach"
  /\ e.op = "start" => \/ proc[p].op = "start"
                       \/ runs = 0 /\ MaxRuns # 0 /\ restarts = 0 /\ \A q \in Procs : proc[q].op # "start"
  /\ db' = NoRecord => e.pc \in {"idle", "inserting"}

\* A step of the call p that leaves the entry e, and the record rec in the state o.
CallTypes(p, e, o, rec, c, s) ==
  /\ p \in Calls /\ Moves(p, e)
  /\ Wrote(obj, obj', o, rec, c, s) /\ Len(obj') <= MaxObjs /\ rec \in Rec(Begun)
  /\ runs' = runs /\ restarts' = restarts /\ init' = init /\ late' = late /\ spent' \in 0..Budget
  /\ store' \in BOOLEAN /\ putBack' \in BOOLEAN /\ (putBack => putBack')
  /\ db # NoRecord /\ (db' = db \/ (proc[p].pc \in Writing /\ db' = proc[p].w))
  /\ e.o <= Len(obj') /\ (e.pc \notin Detached => e.o # 0)
  /\ e.op # "start" /\ e.pc \in CallPCs \ {"inserting", "inserted", "loading"} /\ e.back = "idle"
  /\ e.rec \in RecOr(Begun) /\ e.w \in RecOr(Begun)
  /\ e.pc \in Writing => e.w # NoRecord
  /\ e.pc \in Holding => e.rec # NoRecord
  /\ Begun = 0 => ~(e.pc = "saving" /\ e.op \in Steering) /\ e.pc \notin Dropping
  /\ cur' \in 0..Len(obj') /\ sub' \in 0..Len(obj') /\ view' \in {view, Shown(rec)}

\* What it does to a cancellation, and what the subscriber sees of it.
CallShows(p, e, o, rec, c) ==
  /\ o <= Len(obj) /\ obj[o].cancel => c
  /\ o <= Len(obj) /\ rec.status = "cancelled" => c \/ putBack' \/ obj[o].rec.status = "cancelled"
  /\ e.pc = "asking" => e.o = o /\ c
  /\ o <= Len(obj) /\ obj[o].rec.status = "cancelled" /\ rec.status # "cancelled" => putBack' \/ obj[o].rec.plan
  /\ \/ sub' = o /\ cur' = o /\ view' = Shown(rec)
     \/ /\ sub' = 0 \/ (sub' = sub /\ cur' = cur)
        /\ sub' # 0 /\ sub' # o => view' = view
        /\ sub' = o => \/ e.pc \in FlushPCs /\ e.o = o
                       \/ view' = Shown(rec)
                       \/ view' = view /\ Shown(rec) = Shown(obj[o].rec) /\ proc[p].pc \notin FlushPCs
        /\ proc[p].pc \in FlushPCs => proc[p].o = o

\* What it does to the store, and to the report.
CallKeeps(p, e, o, rec, c, s) ==
  /\ Preparing => cur' = cur /\ (o = cur => s \/ s = obj[cur].stream)
  /\ e.pc = "dropped" => ~store'
  /\ store' => store
  /\ restarts = 0 /\ ~putBack' /\ store' => \/ o = cur' /\ rec.store
                                            \/ store /\ cur' = cur /\ o # cur
  /\ ~putBack' => /\ Sound(rec) /\ SoundOr(e.rec) /\ SoundOr(e.w)
                  /\ Mid(e) => e.o = o /\ Coupled(e, obj'[o]) /\ Sole(p, o)
                  /\ Sole(p, o) \/ (o <= Len(obj) /\ Alike(obj[o], rec, c))

\* A step that leaves the states as they are: it moves no entry, or that of a call
\* which works on none.
Quiet(p, e) ==
  /\ Moves(p, e) /\ obj' = obj /\ cur' = cur
  /\ runs' = runs /\ restarts' = restarts /\ init' = init /\ store' = store /\ spent' \in 0..Budget
  /\ putBack' \in BOOLEAN /\ (putBack => putBack')
  /\ \/ sub' = sub /\ view' = view
     \/ sub' = 0 /\ view' \in [status : Status, text : Seq(Events)]
  /\ late' \in RecOr(Begun) /\ db' \in RecOr(Begun) /\ (db' # NoRecord \/ db' = db)
  /\ ~putBack' => SoundOr(late') /\ SoundOr(db') /\ SoundOr(e.rec) /\ SoundOr(e.w)
  /\ e = proc[p] \/ (p \in Calls /\ proc[p].pc \notin FlushPCs /\ Apart(p, e))

\* The state in the map, made if there is none, with the record rec: q are the states then.
Put(q, rec, o, c, s) ==
  /\ Wrote(obj, q, o, rec, c, s) /\ Len(q) <= MaxObjs /\ o = StateId /\ o # 0
  /\ cur # 0 => o = cur /\ o <= Len(obj) /\ c = obj[cur].cancel /\ s = obj[cur].stream
  /\ cur = 0 => o > Len(obj) /\ ~c /\ ~s

\* The call c goes on with the record rec it has got, and has the entry to go on with.
Proceeding(c, entry, rec) ==
  /\ c \in Calls /\ proc[c].pc \in {"idle", "reading", "merging", "loading"}
  /\ entry \in Entry /\ entry.o <= Len(obj) /\ entry.back = "idle" /\ entry.w \in RecOr(Begun)
  /\ rec \in Rec(Begun) /\ (~putBack => Sound(rec) /\ SoundOr(entry.w))
  /\ db # NoRecord /\ (db' = db \/ (proc[c].pc \in Writing /\ db' = proc[c].w))
  /\ runs' = runs /\ restarts' = restarts /\ init' = init /\ late' = late /\ spent' \in 0..Budget /\ store' = store

\* The entry of a call that holds the record rec while it reads a file.
Held(entry, rec) == [entry EXCEPT !.pc = "loading", !.rec = rec]

\* The entry of a call that is taken up, at pc, and with no record but that it is handed.
Opened(op, rec) == [Idle EXCEPT !.op = op, !.rec = rec]
At(entry, pc) == [entry EXCEPT !.pc = pc]
Freed(entry) == [entry EXCEPT !.rec = NoRecord]
FreedWrite(entry) == [entry EXCEPT !.rec = NoRecord, !.w = NoRecord]
Holds(entry, pc, rec) == [entry EXCEPT !.pc = pc, !.rec = rec, !.w = rec]

\* A step of the call p that cancels: it leaves the entry e, and rec in the state o.
Cancels(p, e, o, rec, c, s) ==
  /\ p \in Calls /\ Moves(p, e) /\ Wrote(obj, obj', o, rec, c, s) /\ Len(obj') <= MaxObjs /\ rec \in Rec(Begun)
  /\ runs' = runs /\ restarts' = restarts /\ init' = init /\ late' = late /\ spent' \in 0..Budget
  /\ db # NoRecord /\ db' = db /\ sub' = sub /\ view' = view /\ store' = store /\ putBack' = putBack
  /\ e = Idle \/ (/\ e.pc \in {"asking", "cancelling"} /\ e.op # "start" /\ e.o = o /\ e.back = "idle"
                  /\ e.rec \in RecOr(Begun) /\ e.w \in RecOr(Begun) /\ (e.pc = "cancelling" => e.w # NoRecord)
                  /\ (~putBack => SoundOr(e.rec) /\ SoundOr(e.w)) /\ c)

\* The record rec is that of x, or x cancelled.
CancelOf(rec, x) ==
  /\ rec.text = x.text /\ rec.last = x.last /\ rec.plan = x.plan /\ rec.inter = x.inter /\ rec.store = x.store
  /\ rec.status = x.status \/ rec.status = "cancelled"

\* The entry of a cancellation on the state o.
CancelEntry(o) == [Idle EXCEPT !.op = "cancel", !.o = o]

\* A cancelled record.
CancelledRec(rec) == [rec EXCEPT !.status = "cancelled"]

\* A step in which the call p starts the run x on the state o: p is over, x has the
\* entry e, and rec is the record of o.
ExecTypes(p, x, e, o, rec, c, s) ==
  /\ p \in Calls /\ x = runs + 1 /\ x \in Runs /\ e \in Entry /\ proc' = [proc EXCEPT ![p] = Idle, ![x] = e]
  /\ Wrote(obj, obj', o, rec, c, s) /\ Len(obj') <= MaxObjs /\ rec \in Rec(Begun)
  /\ runs' = runs + 1 /\ restarts' = restarts /\ init' = init /\ late' = late /\ spent' = spent /\ store' = store
  /\ putBack' \in BOOLEAN /\ (putBack => putBack')
  /\ db # NoRecord /\ (db' = db \/ (proc[p].pc \in Writing /\ db' = proc[p].w))
  /\ runs = 0 \/ Begun # 0
  /\ \A q \in Procs : q # p => proc[q].op # "start"
  /\ \/ e = Idle
     \/ /\ e.o = o /\ e.at = x /\ e.op = "none" /\ e.back = "idle" /\ e.rec = NoRecord
        /\ \/ e.pc = "saveRun" /\ e.w = rec
           \/ e.pc \in {"leaving", "prepare"} /\ e.w = NoRecord
  /\ e.pc = "prepare" => runs = 0 /\ restarts = 0 /\ cur' = o /\ s
  /\ cur' \in 0..Len(obj') /\ sub' = sub
  /\ view' \in [status : Status, text : Seq(Events)]

\* What it does to a cancellation, to the view, to the store and to the report.
ExecKeeps(p, x, e, o, rec, c, s) ==
  /\ e.pc \in {"saveRun", "prepare"} => rec.status \notin {"cancelled", "completed"}
  /\ o <= Len(obj) /\ obj[o].cancel => c
  /\ o <= Len(obj) /\ rec.status = "cancelled" => c \/ putBack' \/ obj[o].rec.status = "cancelled"
  /\ o <= Len(obj) /\ obj[o].rec.status = "cancelled" /\ rec.status # "cancelled" => putBack' \/ obj[o].rec.plan
  /\ cur' = cur \/ (sub = 0 /\ cur = 0)
  /\ sub # o => view' = view
  /\ sub = o => e.pc = "saveRun" \/ view' = Shown(rec)
  /\ proc[p].pc \in FlushPCs => proc[p].o = o
  /\ restarts = 0 /\ ~putBack' /\ store' => \/ o = cur' /\ rec.store
                                            \/ store /\ cur' = cur /\ o # cur
  /\ ~putBack' => /\ Sound(rec) /\ Sole(p, o)
                  /\ Mid(e) => ~rec.plan /\ rec.text = <<>>

\* The entry of a run that is being started on the state o, and the states then.
Fresh(o) == [Idle EXCEPT !.o = o, !.at = runs + 1]
Started(q, o, b) == [q EXCEPT ![o].planning = b, ![o].stream = TRUE]

\* The record of a run that begins; whether it returns at once, and its entry.
Running(rec) == [rec EXCEPT !.status = "running"]
ReturnsAtOnce(q, o, f) == q[o].cancel \/ (~f /\ q[o].rec.status = "cancelled")
ExecEntry(q, o, b, f) ==
  IF ReturnsAtOnce(q, o, f) THEN (IF Settled(q[o].rec) THEN At(Fresh(o), "leaving") ELSE Idle)
  ELSE IF f THEN At(Fresh(o), "prepare")
  ELSE Begins(Fresh(o), Started(q, o, b), o)

\* What executeResearch, up to its first await, leaves of the states q.
Executed(x, q, o, f, e, rec, c, s) ==
  /\ rec \in Rec(Begun) /\ rec.text = q[o].rec.text /\ rec.last = q[o].rec.last /\ rec.plan = q[o].rec.plan
  /\ rec.store = q[o].rec.store /\ rec.inter = q[o].rec.inter
  /\ Wrote(q, obj', o, rec, c, s) /\ c = q[o].cancel /\ s
  /\ e \in Entry
  /\ \/ e = Idle
     \/ /\ e.o = o /\ e.at = x /\ e.op = "none" /\ e.back = "idle" /\ e.rec = NoRecord
        /\ \/ e.pc = "saveRun" /\ e.w = rec
           \/ e.pc \in {"leaving", "prepare"} /\ e.w = NoRecord
  /\ e.pc = "prepare" => f
  /\ e.pc = "saveRun" => rec.status = "running" /\ ~f /\ q[o].rec.status # "cancelled"
  /\ e.pc # "saveRun" => rec = q[o].rec

\* The states hold the records they held, and are as they were but for their timers.
Untimed ==
  /\ obj' \in Seq(Object) /\ Len(obj') = Len(obj)
  /\ \A j \in 1..Len(obj) : /\ obj'[j].rec = obj[j].rec /\ obj'[j].cancel = obj[j].cancel
                            /\ obj'[j].stream = obj[j].stream

\* The entry of the run that resumes the interaction i on the state o.
Resuming(o, i) == [Idle EXCEPT !.o = o, !.at = i]

\* The entry at pc, with the write w.
AtWith(entry, pc, w) == [entry EXCEPT !.pc = pc, !.w = w]

\* The record of a run that failed.
Failed(rec) == [rec EXCEPT !.status = "failed"]

-----------------------------------------------------------------------------
(* Records and states *)

\* The bounds are naturals, and no call is a run.
LEMMA Bounds ==
  /\ MaxRuns \in Nat /\ MaxObjs \in Nat /\ Budget \in Nat /\ MaxRestarts \in Nat /\ Chunks \in Nat
  /\ \A c \in Calls : c \notin Runs
BY ResearchAssumption DEF Runs

\* No record is the absent one.
LEMMA NoRecordIs == NoRecord \notin Record /\ \A n : NoRecord \notin Rec(n)
BY DEF NoRecord, Record, Status, Rec

\* Every content event of every interaction is one, and an event is an interaction and an index in it.
LEMMA EventIs ==
  /\ \A a \in 1..MaxRuns, k \in 0..Chunks + 1 : <<a, k>> \in Events
  /\ \A e \in Events \cup {NoEvent} : e[1] \in Nat /\ e[2] \in 0..Chunks + 1 /\ e = <<e[1], e[2]>>
BY Bounds DEF Events, NoEvent

\* The fields of a record.
LEMMA RecordFields ==
  ASSUME NEW rec \in Record
  PROVE  /\ rec.status \in Status /\ rec.inter \in 0..MaxRuns /\ rec.last \in Events \cup {NoEvent}
         /\ rec.text \in Seq(Events) /\ rec.sources \in {"none", "opaque", "resolved"}
         /\ rec.plan \in BOOLEAN /\ rec.store \in BOOLEAN /\ rec.edited \in BOOLEAN
BY DEF Record

\* What start inserts (NewRecord) names no interaction and holds no text.
LEMMA NewRecordIs ==
  ASSUME NEW n \in Nat
  PROVE  /\ NewRecord \in Rec(n) /\ NewRecord # NoRecord
         /\ NewRecord.status = "pending" /\ ~NewRecord.plan /\ ~NewRecord.store
         /\ NewRecord.text = <<>> /\ NewRecord.last = NoEvent /\ NewRecord.inter = 0
BY Bounds DEF NewRecord, NoRecord, Rec, Record, Status, NoEvent

\* Setting the status of a record leaves the rest of it.
LEMMA StatusSet ==
  ASSUME NEW n \in Nat, NEW rec \in Rec(n), NEW s \in Status, NEW y, y = [rec EXCEPT !.status = s]
  PROVE  /\ y \in Rec(n) /\ y.status = s /\ y.text = rec.text /\ y.last = rec.last /\ y.plan = rec.plan
         /\ y.store = rec.store /\ y.inter = rec.inter
BY DEF Rec, Record

\* Setting the file search store of a record leaves the rest of it.
LEMMA StoreSet ==
  ASSUME NEW n \in Nat, NEW rec \in Rec(n), NEW s \in BOOLEAN, NEW y, y = [rec EXCEPT !.store = s], s => n # 0
  PROVE  /\ y \in Rec(n) /\ y.status = rec.status /\ y.text = rec.text /\ y.last = rec.last
         /\ y.plan = rec.plan /\ y.store = s /\ y.inter = rec.inter
BY DEF Rec, Record

\* A record that may be there after m interactions may be there after more.
LEMMA RecGrows ==
  ASSUME NEW m \in Nat, NEW n \in Nat, m <= n
  PROVE  Rec(m) \subseteq Rec(n) /\ RecOr(m) \subseteq RecOr(n)
<1>1. ASSUME NEW rec \in Rec(m) PROVE rec \in Rec(n)
  <2>1. rec \in Record /\ rec.inter <= m /\ rec.inter \in Nat /\ (m = 0 => ~rec.store /\ ~rec.plan)
    BY Bounds DEF Rec, Record
  <2>2. PICK i \in Nat : i = rec.inter
    BY <2>1
  <2>3. i <= n /\ (n = 0 => m = 0)
    BY <2>1, <2>2
  <2>4. QED
    BY <2>1, <2>2, <2>3 DEF Rec
<1>2. QED
  BY <1>1 DEF RecOr

\* Replacing a state writes that state and no other.
LEMMA Setting ==
  ASSUME NEW q \in Seq(Object), NEW o \in 1..Len(q), NEW x \in Object
  PROVE  Wrote(q, [q EXCEPT ![o] = x], o, x.rec, x.cancel, x.stream)
<1>1. /\ [q EXCEPT ![o] = x] \in Seq(Object) /\ Len([q EXCEPT ![o] = x]) = Len(q)
      /\ \A j \in 1..Len(q) : [q EXCEPT ![o] = x][j] = IF j = o THEN x ELSE q[j]
  BY ExceptSeq
<1>2. QED
  BY <1>1, ZenonT(40) DEF Wrote

\* Two writes to the same state are one write.
LEMMA Then ==
  ASSUME NEW q \in Seq(Object), NEW q2, NEW q3, NEW o, NEW a, NEW b, NEW c, NEW d, NEW e, NEW f,
         Wrote(q, q2, o, a, b, c), Wrote(q2, q3, o, d, e, f)
  PROVE  Wrote(q, q3, o, d, e, f)
BY DEF Wrote

\* patchRecord (Patched) writes the record of one state.
LEMMA PatchedDoes ==
  ASSUME NEW q \in Seq(Object), NEW o \in 1..Len(q), NEW rec \in Record
  PROVE  Wrote(q, Patched(q, o, rec), o, rec, q[o].cancel, q[o].stream)
<1>1. q[o] \in Object
  OBVIOUS
<1>2. PICK x : x = [q[o] EXCEPT !.rec = rec]
  OBVIOUS
<1>3. x \in Object /\ x.rec = rec /\ x.cancel = q[o].cancel /\ x.stream = q[o].stream
  BY <1>1, <1>2 DEF Object
<1>4. Patched(q, o, rec) = [q EXCEPT ![o] = x]
  BY <1>2 DEF Patched
<1>5. Wrote(q, [q EXCEPT ![o] = x], o, x.rec, x.cancel, x.stream)
  BY <1>3, Setting
<1>6. QED
  BY <1>3, <1>4, <1>5

\* Flushing a state leaves its record and its flags.
LEMMA FlushedDoes ==
  ASSUME NEW q \in Seq(Object), NEW o \in 1..Len(q)
  PROVE  Wrote(q, Flushed(q, o), o, q[o].rec, q[o].cancel, q[o].stream)
<1>1. q[o] \in Object
  OBVIOUS
<1>2. PICK x : x = [q[o] EXCEPT !.timer = FALSE]
  OBVIOUS
<1>3. x \in Object /\ x.rec = q[o].rec /\ x.cancel = q[o].cancel /\ x.stream = q[o].stream
  BY <1>1, <1>2 DEF Object
<1>4. Flushed(q, o) = [q EXCEPT ![o] = x]
  BY <1>2 DEF Flushed
<1>5. Wrote(q, [q EXCEPT ![o] = x], o, x.rec, x.cancel, x.stream)
  BY <1>3, Setting
<1>6. QED
  BY <1>3, <1>4, <1>5

\* Scheduling a write changes the record of one state.
LEMMA ScheduledDoes ==
  ASSUME NEW q \in Seq(Object), NEW o \in 1..Len(q), NEW rec \in Record
  PROVE  Wrote(q, Scheduled(q, o, rec), o, rec, q[o].cancel, q[o].stream)
<1>1. q[o] \in Object
  OBVIOUS
<1>2. PICK x : x = [q[o] EXCEPT !.rec = rec, !.timer = TRUE]
  OBVIOUS
<1>3. x \in Object /\ x.rec = rec /\ x.cancel = q[o].cancel /\ x.stream = q[o].stream
  BY <1>1, <1>2 DEF Object
<1>4. Scheduled(q, o, rec) = [q EXCEPT ![o] = x]
  BY <1>1, <1>2 DEF Scheduled
<1>5. Wrote(q, [q EXCEPT ![o] = x], o, x.rec, x.cancel, x.stream)
  BY <1>3, Setting
<1>6. QED
  BY <1>3, <1>4, <1>5

\* A record is not the absent one.
LEMMA RecIsOr ==
  ASSUME NEW n, NEW rec \in Rec(n)
  PROVE  rec \in RecOr(n) /\ rec # NoRecord
BY NoRecordIs DEF RecOr

\* getOrCreateState (StateOf) writes the state in the map, or appends a new one with its flags off.
LEMMA StateOfDoes ==
  ASSUME obj \in Seq(Object), cur \in 0..Len(obj), NEW rec \in Record
  PROVE  /\ Wrote(obj, StateOf(rec), StateId, rec, cur # 0 /\ obj[cur].cancel, cur # 0 /\ obj[cur].stream)
         /\ StateId # 0 /\ (cur # 0 => StateId = cur) /\ (cur = 0 => StateId = Len(obj) + 1)
         /\ MayHaveState /\ Len(obj) <= MaxObjs => Len(StateOf(rec)) <= MaxObjs
<1>1. CASE cur # 0
  <2>1. cur \in 1..Len(obj)
    BY <1>1
  <2>2. StateOf(rec) = Patched(obj, cur, rec) /\ StateId = cur
    BY <1>1 DEF StateOf, StateId, Patched
  <2>3. Wrote(obj, StateOf(rec), cur, rec, obj[cur].cancel, obj[cur].stream)
    BY <2>1, <2>2, PatchedDoes
  <2>4. obj[cur].cancel \in BOOLEAN /\ obj[cur].stream \in BOOLEAN
    <3>1. obj[cur] \in Object
      BY <2>1
    <3>2. QED
      BY <3>1 DEF Object
  <2>5. Len(StateOf(rec)) = Len(obj)
    <3>1. Len(obj) \in Nat /\ (Len(StateOf(rec)) = Len(obj) \/ cur = Len(obj) + 1)
      BY <2>3 DEF Wrote
    <3>2. QED
      BY <2>1, <3>1
  <2>6. Wrote(obj, StateOf(rec), StateId, rec, cur # 0 /\ obj[cur].cancel, cur # 0 /\ obj[cur].stream)
    BY <1>1, <2>2, <2>3, <2>4 DEF Wrote
  <2>7. QED
    BY <1>1, <2>2, <2>5, <2>6
<1>2. CASE cur = 0
  <2>1. PICK x : x = [rec |-> rec, cancel |-> FALSE, planning |-> FALSE, stream |-> FALSE, timer |-> FALSE]
    OBVIOUS
  <2>2. x \in Object /\ x.rec = rec /\ ~x.cancel /\ ~x.stream
    BY <2>1 DEF Object
  <2>3. StateOf(rec) = Append(obj, x) /\ StateId = Len(obj) + 1
    BY <1>2, <2>1 DEF StateOf, StateId
  <2>4. /\ Append(obj, x) \in Seq(Object) /\ Len(Append(obj, x)) = Len(obj) + 1
        /\ \A j \in 1..Len(obj) : Append(obj, x)[j] = obj[j]
        /\ Append(obj, x)[Len(obj) + 1] = x
    BY <2>2
  <2>5. x.cancel = FALSE /\ x.stream = FALSE
    BY <2>1
  <2>6. MayHaveState => Len(obj) < MaxObjs
    BY <1>2 DEF MayHaveState
  <2>7. Wrote(obj, StateOf(rec), StateId, rec, FALSE, FALSE)
    BY <2>2, <2>3, <2>4, <2>5 DEF Wrote
  <2>8. (cur # 0 /\ obj[cur].cancel) = FALSE /\ (cur # 0 /\ obj[cur].stream) = FALSE
    BY <1>2
  <2>9. Len(obj) \in Nat /\ (MayHaveState => Len(StateOf(rec)) <= MaxObjs)
    BY <2>3, <2>4, <2>6, Bounds
  <2>10. Wrote(obj, StateOf(rec), StateId, rec, cur # 0 /\ obj[cur].cancel, cur # 0 /\ obj[cur].stream)
    BY <2>7, <2>8, Zenon
  <2>11. QED
    BY <1>2, <2>3, <2>9, <2>10
<1>3. QED
  BY <1>1, <1>2

\* Aborting a state sets its flag and leaves its record.
LEMMA CancelStateDoes ==
  ASSUME NEW q \in Seq(Object), NEW o \in 1..Len(q)
  PROVE  Wrote(q, CancelState(q, o), o, q[o].rec, TRUE, q[o].stream)
<1>1. q[o] \in Object
  OBVIOUS
<1>2. PICK x : x = [q[o] EXCEPT !.cancel = TRUE]
  OBVIOUS
<1>3. x \in Object /\ x.rec = q[o].rec /\ x.cancel = TRUE /\ x.stream = q[o].stream
  BY <1>1, <1>2 DEF Object
<1>4. CancelState(q, o) = [q EXCEPT ![o] = x]
  BY <1>2 DEF CancelState
<1>5. Wrote(q, [q EXCEPT ![o] = x], o, x.rec, x.cancel, x.stream)
  BY <1>3, Setting
<1>6. QED
  BY <1>3, <1>4, <1>5

\* A state whose stream is set, and maybe its planning.
LEMMA StreamSet ==
  ASSUME NEW q \in Seq(Object), NEW o \in 1..Len(q), NEW s \in BOOLEAN
  PROVE  Wrote(q, [q EXCEPT ![o].stream = s], o, q[o].rec, q[o].cancel, s)
<1>1. q[o] \in Object
  OBVIOUS
<1>2. PICK x : x = [q[o] EXCEPT !.stream = s]
  OBVIOUS
<1>3. x \in Object /\ x.rec = q[o].rec /\ x.cancel = q[o].cancel /\ x.stream = s
  BY <1>1, <1>2 DEF Object
<1>4. [q EXCEPT ![o].stream = s] = [q EXCEPT ![o] = x]
  BY <1>2
<1>5. Wrote(q, [q EXCEPT ![o] = x], o, x.rec, x.cancel, x.stream)
  BY <1>3, Setting
<1>6. QED
  BY <1>3, <1>4, <1>5

\* Starting a run on a state leaves its record.
LEMMA StartedDoes ==
  ASSUME NEW q \in Seq(Object), NEW o \in 1..Len(q), NEW b \in BOOLEAN
  PROVE  Wrote(q, [q EXCEPT ![o].planning = b, ![o].stream = TRUE], o, q[o].rec, q[o].cancel, TRUE)
<1>1. q[o] \in Object
  OBVIOUS
<1>2. PICK x : x = [q[o] EXCEPT !.planning = b, !.stream = TRUE]
  OBVIOUS
<1>3. x \in Object /\ x.rec = q[o].rec /\ x.cancel = q[o].cancel /\ x.stream = TRUE
  BY <1>1, <1>2 DEF Object
<1>4. [q EXCEPT ![o].planning = b, ![o].stream = TRUE] = [q EXCEPT ![o] = x]
  BY <1>1, <1>2
<1>5. Wrote(q, [q EXCEPT ![o] = x], o, x.rec, x.cancel, x.stream)
  BY <1>3, Setting
<1>6. QED
  BY <1>3, <1>4, <1>5

\* Setting the record of a state and ending its planning leaves its other flags.
LEMMA RecPlanningSet ==
  ASSUME NEW q \in Seq(Object), NEW o \in 1..Len(q), NEW rec \in Record
  PROVE  Wrote(q, [q EXCEPT ![o].rec = rec, ![o].planning = FALSE], o, rec, q[o].cancel, q[o].stream)
<1>1. q[o] \in Object
  OBVIOUS
<1>2. PICK x : x = [q[o] EXCEPT !.rec = rec, !.planning = FALSE]
  OBVIOUS
<1>3. x \in Object /\ x.rec = rec /\ x.cancel = q[o].cancel /\ x.stream = q[o].stream
  BY <1>1, <1>2 DEF Object
<1>4. [q EXCEPT ![o].rec = rec, ![o].planning = FALSE] = [q EXCEPT ![o] = x]
  BY <1>1, <1>2
<1>5. Wrote(q, [q EXCEPT ![o] = x], o, x.rec, x.cancel, x.stream)
  BY <1>3, Setting
<1>6. QED
  BY <1>3, <1>4, <1>5

\* A run that begins sets the status of its record to running.
LEMMA BeganDoes ==
  ASSUME NEW n \in Nat, NEW q \in Seq(Object), NEW o \in 1..Len(q), q[o].rec \in Rec(n), NEW rec,
         rec = [q[o].rec EXCEPT !.status = "running"]
  PROVE  Wrote(q, BeganState(q, o), o, rec, q[o].cancel, q[o].stream)
<1>1. "running" \in Status
  BY DEF Status
<1>2. rec \in Record
  BY <1>1, StatusSet DEF Rec
<1>. DEFINE q2 == Patched(q, o, rec)
<1>3. BeganState(q, o) = Flushed(q2, o)
  BY DEF BeganState
<1>4. Wrote(q, q2, o, rec, q[o].cancel, q[o].stream)
  BY <1>2, PatchedDoes
<1>. HIDE DEF q2
<1>5. Wrote(q2, Flushed(q2, o), o, q2[o].rec, q2[o].cancel, q2[o].stream)
  BY <1>4, FlushedDoes DEF Wrote
<1>6. QED
  BY <1>3, <1>4, <1>5, Then DEF Wrote

\* A cancellation sets the status of the record to cancelled.
LEMMA CancelledDoes ==
  ASSUME NEW n \in Nat, NEW q \in Seq(Object), NEW o \in 1..Len(q), q[o].rec \in Rec(n), NEW rec,
         rec = [q[o].rec EXCEPT !.status = "cancelled"]
  PROVE  Wrote(q, CancelledState(q, o), o, rec, q[o].cancel, q[o].stream)
<1>1. "cancelled" \in Status
  BY DEF Status
<1>2. rec \in Record
  BY <1>1, StatusSet DEF Rec
<1>. DEFINE q2 == Patched(q, o, rec)
<1>3. CancelledState(q, o) = Flushed(q2, o)
  BY DEF CancelledState
<1>4. Wrote(q, q2, o, rec, q[o].cancel, q[o].stream)
  BY <1>2, PatchedDoes
<1>. HIDE DEF q2
<1>5. Wrote(q2, Flushed(q2, o), o, q2[o].rec, q2[o].cancel, q2[o].stream)
  BY <1>4, FlushedDoes DEF Wrote
<1>6. QED
  BY <1>3, <1>4, <1>5, Then DEF Wrote

\* A record that is patched and flushed is in its state.
LEMMA PutDoes ==
  ASSUME NEW q \in Seq(Object), NEW o \in 1..Len(q), NEW rec \in Record
  PROVE  Wrote(q, Flushed(Patched(q, o, rec), o), o, rec, q[o].cancel, q[o].stream)
<1>. DEFINE q2 == Patched(q, o, rec)
<1>1. Wrote(q, q2, o, rec, q[o].cancel, q[o].stream)
  BY PatchedDoes
<1>. HIDE DEF q2
<1>2. Wrote(q2, Flushed(q2, o), o, q2[o].rec, q2[o].cancel, q2[o].stream)
  BY <1>1, FlushedDoes DEF Wrote
<1>3. Flushed(Patched(q, o, rec), o) = Flushed(q2, o)
  BY DEF q2
<1>4. QED
  BY <1>1, <1>2, <1>3, Then DEF Wrote

-----------------------------------------------------------------------------
(* Entries, and what keeps the types *)

\* The runs are numbered from 0, the resumed one, and no call is among them.
LEMMA RunsAre == Runs = 0..MaxRuns /\ Procs = Runs \cup Calls /\ Runs \cap Calls = {} /\ Runs \subseteq Nat
BY ResearchAssumption DEF Runs, Procs

\* While a run prepares its files no interaction has begun.
LEMMA BegunIs ==
  ASSUME runs \in Nat
  PROVE  /\ Begun \in Nat /\ Begun <= runs /\ (Begun = runs \/ Begun = 0)
         /\ \A r \in Runs : proc[r].pc = "prepare" => Begun = 0
         /\ (\A r \in Runs : proc[r].pc # "prepare") => Begun = runs
BY DEF Begun, Preparing

\* The entry of a run or a call that does nothing.
LEMMA IdleIs ==
  /\ Idle \in Entry /\ Idle.pc = "idle" /\ Idle.op = "none" /\ Idle.o = 0 /\ Idle.rec = NoRecord
  /\ Idle.w = NoRecord /\ Idle.back = "idle" /\ ~On(Idle) /\ ~Over(Idle) /\ Idle.at = 0 /\ Idle.next = 0
BY Bounds DEF Idle, Entry, PCs, Operations, On, Over, Working, Dropping

\* It may be there at any time.
LEMMA IdleOK ==
  ASSUME Len(obj) \in Nat, NEW p \in Procs
  PROVE  Shaped(p, Idle) /\ Timed(p, Idle)
BY IdleIs DEF Shaped, Timed, RecOr, Detached, Writing, Holding, RunPCs, CallPCs, Dropping

\* The fields of an entry.
LEMMA EntryFields ==
  ASSUME NEW e \in Entry
  PROVE  /\ e.pc \in PCs /\ e.op \in Operations /\ e.o \in Nat /\ e.rec \in Record \cup {NoRecord}
         /\ e.w \in Record \cup {NoRecord} /\ e.at \in Nat /\ e.next \in 0..Chunks + 2
         /\ e.planning \in BOOLEAN /\ e.files \in BOOLEAN /\ e.back \in {"idle", "read"}
BY DEF Entry

\* The types hold after a step that leaves the entries it does not move, and does not take back an
\* interaction or the row.
LEMMA TypedStep ==
  ASSUME Typed, Objects', Fields', Counters', Early', proc' \in [Procs -> Entry],
         Len(obj) <= Len(obj'), Begun <= Begun', runs <= runs', db' # NoRecord \/ db' = db,
         runs' = runs \/ ((runs = 0 \/ Begun # 0) /\ \A p \in Procs : proc'[p].op # "start"),
         restarts' = restarts \/ \A p \in Procs : proc'[p] = Idle,
         \A p \in Procs : proc'[p] = proc[p] \/ EntryOK(p)',
         \A p, q \in Procs : proc'[p].op = "start" /\ proc'[q].op = "start" => p = q
  PROVE  Typed'
<1>1. /\ Begun \in Nat /\ Begun' \in Nat /\ runs \in Nat /\ runs' \in Nat /\ restarts \in Nat
      /\ Len(obj) \in Nat /\ Len(obj') \in Nat /\ (Begun # 0 => Begun = runs)
      /\ \A r \in Runs : proc[r].pc = "prepare" => Begun = 0
  <2>1. runs \in Nat /\ runs' \in Nat /\ restarts \in Nat
    BY Bounds DEF Typed, Counters
  <2>2. Len(obj) \in Nat /\ Len(obj') \in Nat
    BY DEF Typed, Objects
  <2>3. Begun' \in Nat
    BY <2>1 DEF Begun
  <2>4. QED
    BY <2>1, <2>2, <2>3, BegunIs
<1>2. RecOr(Begun) \subseteq RecOr(Begun')
  BY <1>1, RecGrows
<1>3. ASSUME NEW p \in Procs, proc'[p] = proc[p]
      PROVE  EntryOK(p)'
  <2>1. PICK e \in Entry : e = proc[p]
    BY DEF Typed, Entries
  <2>2. Shaped(p, e) /\ Timed(p, e)
    BY <2>1 DEF Typed, Entries, EntryOK
  <2>3. SUFFICES Shaped(p, e)' /\ Timed(p, e)'
    BY <1>3, <2>1 DEF EntryOK, Shaped, Timed
  <2>4. CASE restarts' # restarts
    <3>1. e = Idle
      BY <1>3, <2>1, <2>4
    <3>2. QED
      BY <1>1, <3>1, IdleIs DEF Shaped, Timed, RecOr, Detached, Writing, Holding, RunPCs, CallPCs, Dropping
  <2>5. CASE restarts' = restarts
    <3>1. e.o \in Nat /\ e.at \in Nat
      BY EntryFields
    <3>2. Shaped(p, e)'
      BY <1>1, <1>2, <2>2, <3>1 DEF Shaped
    <3>3. CASE runs' = runs
      <4>1. Timed(p, e)'
        BY <1>1, <2>2, <2>5, <3>3 DEF Timed
      <4>2. QED
        BY <3>2, <4>1
    <3>4. CASE runs' # runs
      <4>1. e.op # "start"
        BY <1>3, <2>1, <3>4
      <4>2. e.pc # "prepare"
        <5>1. CASE p \in Runs
          BY <1>1, <2>1, <2>2, <3>4, <5>1 DEF Timed
        <5>2. CASE p \in Calls
          BY <2>2, <5>2 DEF Shaped, CallPCs, Detached, Dropping
        <5>3. QED
          BY <5>1, <5>2, RunsAre
      <4>3. p \in Runs /\ p > runs' => p > runs
        BY <1>1, RunsAre
      <4>4. Timed(p, e)'
        BY <1>1, <2>2, <2>5, <4>1, <4>2, <4>3 DEF Timed
      <4>5. QED
        BY <3>2, <4>4
    <3>5. QED
      BY <3>3, <3>4
  <2>6. QED
    BY <2>4, <2>5
<1>4. Entries'
  BY <1>3 DEF Entries
<1>5. QED
  BY <1>4 DEF Typed

\* The counters and indices of a typed state are naturals.
LEMMA TypedNats ==
  ASSUME Typed
  PROVE  /\ Begun \in Nat /\ runs \in Nat /\ restarts \in Nat /\ Len(obj) \in Nat /\ cur \in Nat /\ sub \in Nat
         /\ Begun <= runs /\ (Begun = runs \/ Begun = 0)
         /\ \A r \in Runs : proc[r].pc = "prepare" => Begun = 0
         /\ (\A r \in Runs : proc[r].pc # "prepare") => Begun = runs
<1>1. runs \in Nat /\ restarts \in Nat
  BY Bounds DEF Typed, Counters
<1>2. Len(obj) \in Nat
  BY DEF Typed, Objects
<1>3. cur \in Nat /\ sub \in Nat
  BY <1>2 DEF Typed, Fields
<1>4. QED
  BY <1>1, <1>2, <1>3, BegunIs

\* A step that moves one entry leaves the others.
LEMMA Moved ==
  ASSUME Typed, NEW p, NEW e, Moves(p, e)
  PROVE  /\ proc' \in [Procs -> Entry] /\ proc'[p] = e
         /\ \A q \in Procs : q # p => proc'[q] = proc[q]
BY DEF Moves, Typed, Entries

\* A step that does not start to prepare files takes back no interaction.
LEMMA BegunGrows ==
  ASSUME Typed, NEW p, NEW e, Moves(p, e), runs' = runs, e.pc = "prepare" => proc[p].pc = "prepare"
  PROVE  Begun' \in Nat /\ Begun <= Begun'
         /\ ((e.pc = "prepare" <=> proc[p].pc = "prepare") => Begun' = Begun)
         /\ Rec(Begun) \subseteq Rec(Begun') /\ RecOr(Begun) \subseteq RecOr(Begun')
<1>1. p \in Procs /\ proc'[p] = e /\ (\A q \in Procs : q # p => proc'[q] = proc[q]) /\ Runs \subseteq Procs
  BY Moved, RunsAre DEF Moves
<1>2. Preparing' => Preparing
  BY <1>1 DEF Preparing
<1>3. (e.pc = "prepare" <=> proc[p].pc = "prepare") => (Preparing' <=> Preparing)
  BY <1>1 DEF Preparing
<1>4. runs \in Nat /\ runs' \in Nat
  BY TypedNats
<1>5. /\ Begun' \in Nat /\ Begun <= Begun' /\ Begun \in Nat
      /\ ((e.pc = "prepare" <=> proc[p].pc = "prepare") => Begun' = Begun)
  BY <1>2, <1>3, <1>4 DEF Begun
<1>6. QED
  BY <1>5, RecGrows

\* A step that writes one state leaves the states well typed.
LEMMA WroteOK ==
  ASSUME Typed, NEW o, NEW rec, NEW c, NEW s, Wrote(obj, obj', o, rec, c, s), Begun <= Begun', Begun' \in Nat,
         rec \in Rec(Begun'), Len(obj') <= MaxObjs
  PROVE  /\ Objects' /\ Len(obj') \in Nat /\ Len(obj) <= Len(obj') /\ o \in 1..Len(obj')
         /\ obj'[o].rec = rec /\ obj'[o].cancel = c /\ obj'[o].stream = s
         /\ \A j \in 1..Len(obj) : j # o => obj'[j] = obj[j]
         /\ \A j \in 1..Len(obj') : j # o => j \in 1..Len(obj) /\ obj'[j] = obj[j]
<1>1. /\ obj' \in Seq(Object) /\ o \in 1..Len(obj')
      /\ Len(obj') = Len(obj) \/ (Len(obj') = Len(obj) + 1 /\ o = Len(obj'))
      /\ \A j \in 1..Len(obj) : j # o => obj'[j] = obj[j]
      /\ obj'[o].rec = rec /\ obj'[o].cancel = c /\ obj'[o].stream = s
  BY DEF Wrote
<1>2. Len(obj) \in Nat /\ Len(obj') \in Nat
  BY <1>1 DEF Typed, Objects
<1>3. \A j \in 1..Len(obj') : j # o => j \in 1..Len(obj) /\ obj'[j] = obj[j]
  BY <1>1, <1>2
<1>4. Rec(Begun) \subseteq Rec(Begun')
  BY RecGrows, TypedNats
<1>5. \A j \in 1..Len(obj') : obj'[j].rec \in Rec(Begun')
  BY <1>1, <1>3, <1>4 DEF Typed, Objects
<1>6. QED
  BY <1>1, <1>2, <1>3, <1>5 DEF Objects

\* The types hold after a step that moves one entry to one that may be there.
LEMMA TypedMove ==
  ASSUME Typed, NEW p, NEW e, Moves(p, e), runs' = runs, restarts' = restarts,
         e.pc = "prepare" => proc[p].pc = "prepare",
         Objects', Len(obj) <= Len(obj'), Fields', Counters', Early', db' # NoRecord \/ db' = db,
         Shaped(p, e)', Timed(p, e)', e.op = "start" => proc[p].op = "start" \/ \A q \in Procs : proc[q].op # "start"
  PROVE  Typed'
<1>1. Begun <= Begun' /\ runs <= runs'
  BY BegunGrows, TypedNats
<1>2. EntryOK(p)'
  BY Moved DEF EntryOK, Shaped, Timed
<1>3. \A q \in Procs : proc'[q] = proc[q] \/ EntryOK(q)'
  BY <1>2, Moved
<1>4. \A q1, q2 \in Procs : proc'[q1].op = "start" /\ proc'[q2].op = "start" => q1 = q2
  <2>1. \A q1, q2 \in Procs : proc[q1].op = "start" /\ proc[q2].op = "start" => q1 = q2
    BY DEF Typed, Entries
  <2>2. proc'[p] = e /\ p \in Procs /\ \A q \in Procs : q # p => proc'[q] = proc[q]
    BY Moved DEF Moves
  <2>3. QED
    BY <2>1, <2>2
<1>5. proc' \in [Procs -> Entry]
  BY Moved
<1>6. QED
  BY <1>1, <1>3, <1>4, <1>5, TypedStep

\* A run or a call at a point where it works on a state has one.
LEMMA Attached ==
  ASSUME Typed, NEW p \in Procs, proc[p].pc \notin Detached
  PROVE  proc[p].o \in 1..Len(obj) /\ obj[proc[p].o] \in Object /\ obj[proc[p].o].rec \in Rec(Begun)
<1>1. proc[p].o \in Nat /\ proc[p].o # 0 /\ proc[p].o <= Len(obj)
  BY EntryFields DEF Typed, Entries, EntryOK, Shaped
<1>2. Len(obj) \in Nat /\ obj \in Seq(Object) /\ \A o \in 1..Len(obj) : obj[o].rec \in Rec(Begun)
  BY DEF Typed, Objects
<1>3. proc[p].o \in 1..Len(obj)
  BY <1>1, <1>2
<1>4. QED
  BY <1>2, <1>3

\* A run that is to read on, or amid a state, works on one.
LEMMA OnAttached ==
  ASSUME NEW e
  PROVE  /\ On(e) => e.pc \notin Detached
         /\ Mid(e) => e.pc \notin Detached
BY DEF On, Mid, Working, Dropping, Detached

-----------------------------------------------------------------------------
(* What keeps the other parts *)

\* Asked holds after a step that keeps the flag it finds, and cancels a record of a running run only with
\* it.
LEMMA AskedMove ==
  ASSUME Typed, Asked, NEW p, NEW e, Moves(p, e), NEW o, NEW rec, NEW c, NEW s,
         Wrote(obj, obj', o, rec, c, s), putBack => putBack',
         o <= Len(obj) /\ obj[o].cancel => c,
         o <= Len(obj) /\ rec.status = "cancelled" => c \/ putBack' \/ obj[o].rec.status = "cancelled",
         p \in Runs /\ On(e) => \/ On(proc[p]) /\ e.o = proc[p].o
                                \/ e.o = o /\ rec.status # "cancelled",
         e.pc = "asking" => e.o = o /\ c
  PROVE  Asked'
<1>1. /\ obj'[o].rec = rec /\ (obj'[o].cancel <=> c)
      /\ \A j \in 1..Len(obj) : j # o => obj'[j] = obj[j]
  BY DEF Wrote
<1>2. ASSUME NEW r \in Runs, On(proc[r]), NEW j, j = proc[r].o, obj'[j].rec.status = "cancelled"
      PROVE  obj'[j].cancel \/ putBack'
  <2>1. j \in 1..Len(obj) /\ Len(obj) \in Nat
    BY <1>2, OnAttached, Attached, TypedNats, RunsAre
  <2>2. obj[j].rec.status = "cancelled" => obj[j].cancel \/ putBack
    BY <1>2 DEF Asked
  <2>3. CASE j # o
    BY <1>1, <1>2, <2>1, <2>2, <2>3
  <2>4. CASE j = o
    BY <1>1, <1>2, <2>1, <2>2, <2>4
  <2>5. QED
    BY <2>3, <2>4
<1>3. proc'[p] = e /\ \A q \in Procs : q # p => proc'[q] = proc[q]
  BY Moved
<1>4. ASSUME NEW r \in Runs, On(proc'[r]), obj'[proc'[r].o].rec.status = "cancelled"
      PROVE  obj'[proc'[r].o].cancel \/ putBack'
  <2>1. CASE r # p
    BY <1>2, <1>3, <1>4, <2>1, RunsAre
  <2>2. CASE r = p
    BY <1>1, <1>2, <1>3, <1>4, <2>2
  <2>3. QED
    BY <2>1, <2>2
<1>5. ASSUME NEW q \in Calls, proc'[q].pc = "asking" PROVE obj'[proc'[q].o].cancel
  <2>1. CASE q # p
    <3>1. proc[q].pc = "asking" /\ proc'[q] = proc[q] /\ q \in Procs
      BY <1>3, <1>5, <2>1, RunsAre
    <3>2. PICK j : j = proc[q].o
      OBVIOUS
    <3>3. obj[j].cancel /\ j \in 1..Len(obj)
      BY <3>1, <3>2, Attached DEF Asked, Detached
    <3>4. j <= Len(obj)
      BY <3>3, TypedNats
    <3>5. obj'[j].cancel
      BY <1>1, <3>3, <3>4
    <3>6. QED
      BY <3>1, <3>2, <3>5
  <2>2. CASE q = p
    BY <1>1, <1>3, <1>5, <2>2
  <2>3. QED
    BY <2>1, <2>2
<1>6. QED
  BY <1>4, <1>5 DEF Asked, On

\* Followed holds after a step that shows the subscriber what it writes, or is still to flush it.
LEMMA FollowMove ==
  ASSUME Followed, NEW p, NEW e, Typed, Moves(p, e), NEW o, NEW rec, NEW c, NEW s,
         Wrote(obj, obj', o, rec, c, s), sub \in 0..Len(obj),
         sub' = 0 \/ (sub' = sub /\ cur' = cur),
         sub' # 0 /\ sub' # o => view' = view,
         sub' = o => \/ e.pc \in FlushPCs /\ e.o = o
                     \/ view' = Shown(rec)
                     \/ view' = view /\ Shown(rec) = Shown(obj[o].rec) /\ proc[p].pc \notin FlushPCs,
         proc[p].pc \in FlushPCs => proc[p].o = o
  PROVE  Followed'
<1>1. /\ obj'[o].rec = rec /\ \A j \in 1..Len(obj) : j # o => obj'[j] = obj[j]
  BY DEF Wrote
<1>2. proc'[p] = e /\ (\A q \in Procs : q # p => proc'[q] = proc[q]) /\ p \in Procs
  BY Moved DEF Moves
<1>3. sub' # 0 => sub' = cur'
  BY DEF Followed
<1>4. ASSUME sub' # 0, ~(\E q \in Procs : proc'[q].o = sub' /\ proc'[q].pc \in FlushPCs)
      PROVE  view' = Shown(obj'[sub'].rec)
  <2>1. sub' = sub /\ sub \in 1..Len(obj)
    BY <1>4, TypedNats
  <2>2. ASSUME ~(\E q \in Procs : proc[q].o = sub /\ proc[q].pc \in FlushPCs)
        PROVE  view = Shown(obj[sub].rec)
    BY <1>4, <2>1, <2>2 DEF Followed, ViewFollowsRecord, Flushing, FlushPCs
  <2>3. CASE sub' = o
    BY <1>1, <1>2, <1>4, <2>1, <2>2, <2>3
  <2>4. CASE sub' # o
    BY <1>1, <1>2, <1>4, <2>1, <2>2, <2>4
  <2>5. QED
    BY <2>3, <2>4
<1>5. QED
  BY <1>3, <1>4 DEF Followed, ViewFollowsRecord, Flushing, FlushPCs

\* Stores holds after a step that keeps the store in the record of the mapped state.
LEMMA StoresMove ==
  ASSUME Typed, Stores, NEW p, NEW e, Moves(p, e), NEW o, NEW rec, NEW c, NEW s,
         Wrote(obj, obj', o, rec, c, s), restarts' = restarts, putBack => putBack',
         e.pc = "prepare" => proc[p].pc = "prepare" /\ e.o = proc[p].o,
         Preparing => (e.pc # "prepare" /\ proc[p].pc = "prepare") \/ (cur' = cur /\ (o = cur => s \/ s = obj[cur].stream)),
         e.pc = "dropped" => ~store',
         store' => store \/ Preparing,
         restarts = 0 /\ ~putBack' /\ store' => \/ o = cur' /\ rec.store
                                                \/ store /\ cur' = cur /\ o # cur
  PROVE  Stores'
<1>1. /\ obj'[o].rec = rec /\ obj'[o].stream = s
      /\ \A j \in 1..Len(obj) : j # o => obj'[j] = obj[j]
      /\ obj' \in Seq(Object) /\ o \in 1..Len(obj')
  BY DEF Wrote
<1>2. proc'[p] = e /\ (\A q \in Procs : q # p => proc'[q] = proc[q]) /\ p \in Procs
  BY Moved DEF Moves
<1>3. ASSUME NEW r \in Runs, proc'[r].pc = "prepare"
      PROVE  proc'[r].o = cur' /\ obj'[cur'].stream
  <2>1. proc[r].pc = "prepare" /\ proc'[r].o = proc[r].o
    BY <1>2, <1>3, RunsAre
  <2>2. proc[r].o = cur /\ obj[cur].stream /\ r \in Procs
    BY <2>1, RunsAre DEF Stores
  <2>3. cur \in 1..Len(obj)
    BY <2>1, <2>2, Attached DEF Detached
  <2>4. e.pc # "prepare" => p # r
    BY <1>2, <1>3
  <2>5. ASSUME NEW q \in Procs, proc[q].pc = "prepare" PROVE q = r
    <3>1. (proc[q].pc = "prepare" => q = 1) /\ (proc[r].pc = "prepare" => r = 1)
      BY <2>2 DEF Typed, Entries, EntryOK, Timed
    <3>2. QED
      BY <2>1, <2>5, <3>1
  <2>6. cur' = cur /\ (o = cur => s \/ s = obj[cur].stream)
    BY <1>2, <2>1, <2>4, <2>5 DEF Preparing
  <2>7. QED
    BY <1>1, <2>1, <2>2, <2>3, <2>6
<1>4. ASSUME NEW q \in Procs, proc'[q].pc = "dropped" PROVE ~store'
  <2>1. CASE q = p
    BY <1>2, <1>4, <2>1
  <2>2. CASE q # p
    <3>1. proc[q].pc = "dropped" /\ ~store
      BY <1>2, <1>4, <2>2 DEF Stores
    <3>2. Begun # 0
      BY <3>1 DEF Typed, Entries, EntryOK, Timed, Dropping
    <3>3. ~Preparing
      BY <3>2 DEF Begun
    <3>4. QED
      BY <3>1, <3>3
  <2>3. QED
    BY <2>1, <2>2
<1>5. ASSUME store', ~putBack', restarts' = 0
      PROVE  cur' # 0 /\ obj'[cur'].rec.store
  <2>1. CASE o = cur' /\ rec.store
    BY <1>1, <2>1
  <2>2. CASE store /\ cur' = cur /\ o # cur
    <3>1. cur # 0 /\ obj[cur].rec.store
      BY <1>5, <2>2 DEF Stores, NoStoreIsForgotten
    <3>2. cur \in 1..Len(obj)
      BY <3>1, TypedNats DEF Typed, Fields
    <3>3. QED
      BY <1>1, <2>2, <3>1, <3>2
  <2>3. QED
    BY <1>5, <2>1, <2>2
<1>6. QED
  BY <1>3, <1>4, <1>5 DEF Stores, NoStoreIsForgotten

\* Reported holds after a step that writes a sound record, and leaves alone what another run relies on.
LEMMA ReportMove ==
  ASSUME Typed, Reported, NEW p, NEW e, Moves(p, e), NEW o, NEW rec, NEW c, NEW s,
         Wrote(obj, obj', o, rec, c, s), Len(obj) \in Nat,
         ASSUME ~putBack'
         PROVE  /\ ~putBack
                /\ Sound(rec) /\ SoundOr(db') /\ SoundOr(late') /\ SoundOr(e.rec) /\ SoundOr(e.w)
                /\ Mid(e) => e.o = o /\ Coupled(e, obj'[o]) /\ Sole(p, o)
                /\ Sole(p, o) \/ (o <= Len(obj) /\ Alike(obj[o], rec, c))
  PROVE  Reported'
<1>1. /\ obj'[o].rec = rec /\ (obj'[o].cancel <=> c)
      /\ \A j \in 1..Len(obj) : j # o => obj'[j] = obj[j]
      /\ \A j \in 1..Len(obj') : j # o => j \in 1..Len(obj)
  BY DEF Wrote
<1>2. proc'[p] = e /\ (\A q \in Procs : q # p => proc'[q] = proc[q]) /\ p \in Procs
  BY Moved, ZenonT(40) DEF Moves
<1>3. SUFFICES ASSUME ~putBack'
               PROVE  /\ AllSound'
                      /\ \A q \in Procs : Mid(proc'[q]) => Coupled(proc'[q], obj'[proc'[q].o])
                      /\ \A q1, q2 \in Procs : Mid(proc'[q1]) /\ Mid(proc'[q2]) /\ proc'[q1].o = proc'[q2].o => q1 = q2
  BY ZenonT(40) DEF Reported, Mid, Coupled
<1>4. /\ ~putBack
      /\ Sound(rec) /\ SoundOr(db') /\ SoundOr(late') /\ SoundOr(e.rec) /\ SoundOr(e.w)
      /\ Mid(e) => e.o = o /\ Coupled(e, obj'[o]) /\ Sole(p, o)
      /\ Sole(p, o) \/ (o <= Len(obj) /\ Alike(obj[o], rec, c))
  BY <1>3
<1>5. /\ AllSound
      /\ \A q \in Procs : Mid(proc[q]) => Coupled(proc[q], obj[proc[q].o])
      /\ \A q1, q2 \in Procs : Mid(proc[q1]) /\ Mid(proc[q2]) /\ proc[q1].o = proc[q2].o => q1 = q2
  BY <1>4, SMTT(40) DEF Reported
<1>6. AllSound'
  <2>1. \A j \in 1..Len(obj') : Sound(obj'[j].rec)
    BY <1>1, <1>4, <1>5 DEF AllSound
  <2>2. \A q \in Procs : SoundOr(proc'[q].rec) /\ SoundOr(proc'[q].w)
    BY <1>2, <1>4, <1>5 DEF AllSound
  <2>3. QED
    BY <1>4, <2>1, <2>2 DEF AllSound, Sound, SoundOr
<1>7. ASSUME NEW q \in Procs, q # p, Mid(proc[q])
      PROVE  Coupled(proc[q], obj'[proc[q].o])
  <2>1. Coupled(proc[q], obj[proc[q].o]) /\ proc[q].o \in 1..Len(obj)
    BY <1>5, <1>7, OnAttached, Attached
  <2>2. CASE proc[q].o # o
    BY <1>1, <2>1, <2>2
  <2>3. CASE proc[q].o = o
    <3>1. Alike(obj[o], rec, c)
      BY <1>4, <1>7, <2>3 DEF Sole
    <3>2. Coupled(proc[q], obj[o])
      BY <2>1, <2>3
    <3>3. Coupled(proc[q], obj'[o])
      BY <1>1, <3>1, <3>2 DEF Coupled, Alike
    <3>4. QED
      BY <2>3, <3>3
  <2>4. QED
    BY <2>2, <2>3
<1>8. \A q \in Procs : Mid(proc'[q]) => Coupled(proc'[q], obj'[proc'[q].o])
  BY <1>2, <1>4, <1>7
<1>9. \A q1, q2 \in Procs : Mid(proc'[q1]) /\ Mid(proc'[q2]) /\ proc'[q1].o = proc'[q2].o => q1 = q2
  BY <1>2, <1>4, <1>5 DEF Sole
<1>10. QED
  BY <1>6, <1>8, <1>9

-----------------------------------------------------------------------------
(* The steps of the runs *)

\* What the types say of a run that is not idle.
LEMMA RunIs ==
  ASSUME Typed, NEW r \in Runs, proc[r].pc # "idle"
  PROVE  /\ r \in Procs /\ proc[r] \in Entry /\ proc[r].o \in 1..Len(obj) /\ r <= runs
         /\ obj[proc[r].o] \in Object /\ obj[proc[r].o].rec \in Rec(Begun) /\ obj \in Seq(Object)
         /\ db # NoRecord /\ proc[r].op # "start" /\ proc[r].pc \in RunPCs
         /\ Preparing => proc[r].pc = "prepare"
         /\ proc[r].pc # "prepare" => Begun = runs
         /\ r = 0 => restarts # 0
         /\ proc[r].rec \in RecOr(Begun) /\ proc[r].w \in RecOr(Begun)
         /\ proc[r].pc \in Writing => proc[r].w \in Rec(Begun)
         /\ On(proc[r]) => proc[r].at \in 1..runs
<1>1. r \in Procs /\ proc[r] \in Entry /\ EntryOK(r)
  BY RunsAre DEF Typed, Entries
<1>2. proc[r].pc \in RunPCs /\ proc[r].pc \notin Detached
  BY <1>1 DEF EntryOK, Shaped, RunPCs, Working, Dropping, Detached
<1>3. /\ proc[r].o \in 1..Len(obj) /\ obj[proc[r].o] \in Object /\ obj[proc[r].o].rec \in Rec(Begun)
      /\ obj \in Seq(Object)
  BY <1>1, <1>2, Attached DEF Typed, Objects
<1>4. proc[r] # Idle
  BY IdleIs
<1>5. r <= runs /\ (r = 0 => restarts # 0) /\ db # NoRecord /\ proc[r].op # "start"
  <2>1. Timed(r, proc[r]) /\ r \in Nat /\ runs \in Nat
    BY <1>1, RunsAre, TypedNats DEF EntryOK
  <2>2. ~(r > runs) /\ (r = 0 => restarts # 0)
    BY <1>4, <2>1 DEF Timed
  <2>3. db # NoRecord /\ proc[r].op # "start"
    BY <1>2, <2>1 DEF Timed, Detached
  <2>4. QED
    BY <2>1, <2>2, <2>3
<1>6. Preparing => proc[r].pc = "prepare"
  <2>1. SUFFICES ASSUME NEW q \in Runs, proc[q].pc = "prepare" PROVE proc[r].pc = "prepare"
    BY DEF Preparing
  <2>2. q = 1 /\ runs = 1 /\ restarts = 0
    BY <2>1, RunsAre DEF Typed, Entries, EntryOK, Timed
  <2>3. r = 1
    BY <1>5, <2>2, RunsAre
  <2>4. QED
    BY <2>1, <2>2, <2>3
<1>7. proc[r].pc # "prepare" => Begun = runs
  BY <1>6 DEF Begun
<1>8. /\ proc[r].rec \in RecOr(Begun) /\ proc[r].w \in RecOr(Begun)
      /\ proc[r].pc \in Writing => proc[r].w # NoRecord
      /\ On(proc[r]) => proc[r].at \in 1..runs
  BY <1>1 DEF EntryOK, Shaped
<1>9. QED
  BY <1>1, <1>2, <1>3, <1>5, <1>6, <1>7, <1>8 DEF RecOr

\* A step of a run that has the types, shows what it writes and keeps the report preserves the invariant.
LEMMA RunMove ==
  ASSUME Inv, NEW r, NEW e, NEW o, NEW rec, NEW c, NEW s, RunTypes(r, e, o, rec, c, s),
         RunShows(r, e, o, rec, c), RunKeeps(r, e, o, rec, c)
  PROVE  Inv' /\ StaysCancelled
<1>1. /\ Typed /\ Asked /\ Followed /\ Stores /\ Reported
  BY DEF Inv
<1>. USE DEF RunTypes
<1>2. /\ r \in Procs /\ proc[r] \in Entry /\ o \in 1..Len(obj) /\ r <= runs /\ obj \in Seq(Object)
      /\ db # NoRecord
      /\ Preparing => proc[r].pc = "prepare"
      /\ r = 0 => restarts # 0
      /\ proc[r].pc \in Writing => proc[r].w \in Rec(Begun)
      /\ On(proc[r]) => proc[r].at \in 1..runs
      /\ Len(obj) \in Nat
  BY <1>1, RunIs, TypedNats
<1>3. /\ Begun' \in Nat /\ Begun <= Begun' /\ Rec(Begun) \subseteq Rec(Begun') /\ RecOr(Begun) \subseteq RecOr(Begun')
  BY <1>1, BegunGrows
<1>4. Len(obj') = Len(obj) /\ Len(obj') <= MaxObjs
  <2>1. Len(obj') = Len(obj) \/ (Len(obj') = Len(obj) + 1 /\ o = Len(obj'))
    BY DEF Wrote
  <2>2. Len(obj) <= MaxObjs
    BY <1>1 DEF Typed, Objects
  <2>3. QED
    BY <1>2, <2>1, <2>2
<1>5. /\ Objects' /\ obj'[o].rec = rec /\ \A j \in 1..Len(obj) : j # o => obj'[j] = obj[j]
  BY <1>1, <1>3, <1>4, WroteOK
<1>6. db' \in RecOr(Begun') /\ db' # NoRecord
  <2>1. db \in RecOr(Begun)
    BY <1>1 DEF Typed, Fields
  <2>2. CASE db' = db
    BY <1>2, <1>3, <2>1, <2>2
  <2>3. CASE proc[r].pc \in Writing /\ db' = proc[r].w
    <3>1. db' \in Rec(Begun')
      BY <1>2, <1>3, <2>3
    <3>2. QED
      BY <3>1, RecIsOr
  <2>4. QED
    BY <2>2, <2>3
<1>7. Fields'
  <2>1. Fields
    BY <1>1 DEF Typed
  <2>2. cur' \in 0..Len(obj') /\ sub' \in 0..Len(obj')
    BY <1>2, <1>4, <2>1 DEF Fields
  <2>3. late' \in RecOr(Begun')
    BY <1>3, <2>1 DEF Fields
  <2>4. Shown(rec) \in [status : Status, text : Seq(Events)]
    BY RecordFields DEF Shown, Rec
  <2>5. view' \in [status : Status, text : Seq(Events)]
    <3>1. obj[o].rec \in Record
      BY <1>1, RunIs DEF Rec
    <3>2. Shown(obj[o].rec) \in [status : Status, text : Seq(Events)]
      BY <3>1, RecordFields DEF Shown
    <3>3. QED
      BY <2>1, <2>4, <3>2 DEF Fields, RunShows
  <2>6. putBack' \in BOOLEAN
    BY <2>1 DEF Fields
  <2>7. QED
    BY <1>6, <2>2, <2>3, <2>5, <2>6 DEF Fields
<1>8. Counters' /\ Early'
  BY <1>1, <1>6 DEF Typed, Counters, Early
<1>9. Begun' = runs
  <2>1. \A q \in Runs : proc[q].pc = "prepare" => q = 1
    BY <1>1, RunsAre DEF Typed, Entries, EntryOK, Timed
  <2>2. proc[r].pc # "prepare" => Begun = runs
    BY <1>1, RunIs
  <2>3. ~Preparing'
    <3>1. ASSUME NEW q \in Runs, proc'[q].pc = "prepare" PROVE FALSE
      <4>1. q # r
        BY <1>1, <3>1, Moved
      <4>2. proc[q].pc = "prepare"
        BY <1>1, <3>1, <4>1, Moved, RunsAre
      <4>3. proc[r].pc = "prepare"
        BY <1>2, <4>2 DEF Preparing
      <4>4. q = 1 /\ r = 1
        BY <2>1, <4>2, <4>3
      <4>5. QED
        BY <4>1, <4>4
    <3>2. QED
      BY <3>1 DEF Preparing
  <2>4. Begun' = runs
    BY <2>3 DEF Begun
  <2>5. QED
    BY <2>4
<1>10. Shaped(r, e)' /\ Timed(r, e)'
  <2>1. r \in Nat /\ r \notin Calls /\ runs \in Nat
    BY <1>1, RunsAre, TypedNats
  <2>2. e.pc \in Dropping => Begun' # 0
    <3>1. proc[r].pc \in Dropping => Begun # 0
      BY <1>1, <1>2 DEF Typed, Entries, EntryOK, Timed
    <3>2. rec.store => Begun' # 0
      BY DEF Rec
    <3>3. QED
      BY <1>3, <3>1, <3>2, TypedNats, <1>1
  <2>3. CASE e = Idle
    BY <1>1, <1>2, <1>4, <2>3, IdleIs DEF Shaped, Timed, RecOr, Detached, Writing, Holding, RunPCs, CallPCs, Dropping
  <2>4. CASE e.o = o /\ e.op # "start" /\ e # Idle
    <3>1. Shaped(r, e)'
      BY <1>2, <1>4, <2>1, <2>4 DEF Shaped, RunPCs, Holding, Working, Dropping, RunShows
    <3>2. Timed(r, e)'
      BY <1>2, <1>6, <2>1, <2>2, <2>4 DEF Timed, RunPCs, Working, Dropping
    <3>3. QED
      BY <3>1, <3>2
  <2>5. QED
    BY <2>3, <2>4
<1>11. Typed'
  <2>1. e.op # "start" /\ e.pc # "prepare" /\ Len(obj) <= Len(obj')
    BY <1>2, <1>4, IdleIs
  <2>2. QED
    BY <1>1, <1>5, <1>6, <1>7, <1>8, <1>10, <2>1, TypedMove
<1>12. Asked'
  <2>1. On(e) => On(proc[r]) /\ e.o = proc[r].o
    BY IdleIs DEF RunShows
  <2>2. e.pc # "asking"
    BY DEF RunPCs, Working, Dropping
  <2>3. QED
    BY <1>1, <1>2, <2>1, <2>2, AskedMove DEF RunShows
<1>13. Followed'
  <2>1. sub' = 0 \/ (sub' = sub /\ cur' = cur)
    OBVIOUS
  <2>2. sub' # 0 /\ sub' # o => view' = view
    BY DEF RunShows
  <2>3. sub \in 0..Len(obj)
    BY <1>1 DEF Typed, Fields
  <2>4. QED
    BY <1>1, <1>2, <2>1, <2>2, <2>3, FollowMove DEF RunShows
<1>14. Stores'
  <2>1. Preparing => (e.pc # "prepare" /\ proc[r].pc = "prepare") \/ (cur' = cur /\ (o = cur => s \/ s = obj[cur].stream))
    BY <1>2
  <2>2. store' => store \/ Preparing
    BY DEF Preparing, RunKeeps
  <2>3. QED
    BY <1>1, <2>1, <2>2, StoresMove DEF RunKeeps
<1>15. Reported'
  <2>1. ASSUME ~putBack'
        PROVE  /\ ~putBack
               /\ Sound(rec) /\ SoundOr(db') /\ SoundOr(late') /\ SoundOr(e.rec) /\ SoundOr(e.w)
               /\ Mid(e) => e.o = o /\ Coupled(e, obj'[o]) /\ Sole(r, o)
               /\ Sole(r, o) \/ (o <= Len(obj) /\ Alike(obj[o], rec, c))
    <3>1. ~putBack
      BY <2>1
    <3>2. /\ Sound(rec) /\ SoundOr(e.rec) /\ SoundOr(e.w)
          /\ Mid(e) => Mid(proc[r]) /\ Coupled(e, obj'[o])
          /\ Mid(proc[r]) \/ Alike(obj[o], rec, c)
      BY <3>1 DEF RunKeeps
    <3>3. SoundOr(db') /\ SoundOr(late')
      BY <1>1, <1>2, <3>1 DEF Reported, AllSound
    <3>4. Mid(proc[r]) => Sole(r, o)
      BY <1>1, <1>2, <3>1 DEF Reported, Sole
    <3>5. Mid(e) => e.o = o
      BY IdleIs DEF Mid
    <3>6. QED
      BY <1>2, <3>1, <3>2, <3>3, <3>4, <3>5
  <2>2. QED
    BY <1>1, <1>2, <2>1, ReportMove
<1>16. StaysCancelled
  BY <1>2, <1>5 DEF StaysCancelled, RunShows
<1>17. QED
  BY <1>11, <1>12, <1>13, <1>14, <1>15, <1>16 DEF Inv

\* A step that sets only where a run or a call is.
LEMMA PcMoves ==
  ASSUME Typed, NEW p \in Procs, NEW pc \in PCs,
         proc' = [proc EXCEPT ![p].pc = pc]
  PROVE  \E e : Became(p, e, pc, proc[p].w, proc[p].next, proc[p].op)
<1>1. proc[p] \in Entry /\ proc \in [Procs -> Entry]
  BY DEF Typed, Entries
<1>2. PICK e : e = [proc[p] EXCEPT !.pc = pc]
  OBVIOUS
<1>3. /\ e \in Entry /\ e.pc = pc /\ e.o = proc[p].o /\ e.op = proc[p].op /\ e.rec = proc[p].rec
      /\ e.w = proc[p].w /\ e.at = proc[p].at /\ e.next = proc[p].next /\ e.back = proc[p].back
  BY <1>1, <1>2 DEF Entry
<1>4. Moves(p, e)
  BY <1>1, <1>2, <1>3 DEF Moves
<1>5. QED
  BY <1>3, <1>4 DEF Became

\* A step that sets where it is and what it writes.
LEMMA PcWriteMoves ==
  ASSUME Typed, NEW p \in Procs, NEW pc \in PCs, NEW w \in Record \cup {NoRecord},
         proc' = [proc EXCEPT ![p].pc = pc, ![p].w = w]
  PROVE  \E e : Became(p, e, pc, w, proc[p].next, proc[p].op)
<1>1. proc[p] \in Entry /\ proc \in [Procs -> Entry]
  BY DEF Typed, Entries
<1>2. PICK e : e = [proc[p] EXCEPT !.pc = pc, !.w = w]
  OBVIOUS
<1>3. /\ e \in Entry /\ e.pc = pc /\ e.o = proc[p].o /\ e.op = proc[p].op /\ e.rec = proc[p].rec
      /\ e.w = w /\ e.at = proc[p].at /\ e.next = proc[p].next /\ e.back = proc[p].back
  BY <1>1, <1>2 DEF Entry
<1>4. Moves(p, e)
  BY <1>1, <1>2, <1>3 DEF Moves
<1>5. QED
  BY <1>3, <1>4 DEF Became

\* A step that sets where it is and its next event.
LEMMA PcNextMoves ==
  ASSUME Typed, NEW p \in Procs, NEW pc \in PCs, NEW n \in 0..Chunks + 2,
         proc' = [proc EXCEPT ![p].pc = pc, ![p].next = n]
  PROVE  \E e : Became(p, e, pc, proc[p].w, n, proc[p].op)
<1>1. proc[p] \in Entry /\ proc \in [Procs -> Entry]
  BY DEF Typed, Entries
<1>2. PICK e : e = [proc[p] EXCEPT !.pc = pc, !.next = n]
  OBVIOUS
<1>3. /\ e \in Entry /\ e.pc = pc /\ e.o = proc[p].o /\ e.op = proc[p].op /\ e.rec = proc[p].rec
      /\ e.w = proc[p].w /\ e.at = proc[p].at /\ e.next = n /\ e.back = proc[p].back
  BY <1>1, <1>2 DEF Entry
<1>4. Moves(p, e)
  BY <1>1, <1>2, <1>3 DEF Moves
<1>5. QED
  BY <1>3, <1>4 DEF Became

\* The same, written in the other order.
LEMMA NextPcMoves ==
  ASSUME Typed, NEW p \in Procs, NEW pc \in PCs, NEW n \in 0..Chunks + 2,
         proc' = [proc EXCEPT ![p].next = n, ![p].pc = pc]
  PROVE  \E e : Became(p, e, pc, proc[p].w, n, proc[p].op)
<1>1. proc[p] \in Entry /\ proc \in [Procs -> Entry]
  BY DEF Typed, Entries
<1>2. PICK e : e = [proc[p] EXCEPT !.next = n, !.pc = pc]
  OBVIOUS
<1>3. /\ e \in Entry /\ e.pc = pc /\ e.o = proc[p].o /\ e.op = proc[p].op /\ e.rec = proc[p].rec
      /\ e.w = proc[p].w /\ e.at = proc[p].at /\ e.next = n /\ e.back = proc[p].back
  BY <1>1, <1>2 DEF Entry
<1>4. Moves(p, e)
  BY <1>1, <1>2, <1>3 DEF Moves
<1>5. QED
  BY <1>3, <1>4 DEF Became

\* A step that sets its next event only.
LEMMA NextMoves ==
  ASSUME Typed, NEW p \in Procs, NEW n \in 0..Chunks + 2,
         proc' = [proc EXCEPT ![p].next = n]
  PROVE  \E e : Became(p, e, proc[p].pc, proc[p].w, n, proc[p].op)
<1>1. proc[p] \in Entry /\ proc \in [Procs -> Entry]
  BY DEF Typed, Entries
<1>2. PICK e : e = [proc[p] EXCEPT !.next = n]
  OBVIOUS
<1>3. /\ e \in Entry /\ e.pc = proc[p].pc /\ e.o = proc[p].o /\ e.op = proc[p].op /\ e.rec = proc[p].rec
      /\ e.w = proc[p].w /\ e.at = proc[p].at /\ e.next = n /\ e.back = proc[p].back
  BY <1>1, <1>2 DEF Entry
<1>4. Moves(p, e)
  BY <1>1, <1>2, <1>3 DEF Moves
<1>5. QED
  BY <1>3, <1>4 DEF Became

\* Leaving the states is a write of the record one of them has.
LEMMA SameObjects ==
  ASSUME NEW q \in Seq(Object), NEW o \in 1..Len(q)
  PROVE  Wrote(q, q, o, q[o].rec, q[o].cancel, q[o].stream)
BY DEF Wrote

\* Until a record was put back every record is sound, and a run amid a state is coupled with it.
LEMMA SoundNow ==
  ASSUME Inv, ~putBack, NEW p \in Procs
  PROVE  /\ SoundOr(proc[p].rec) /\ SoundOr(proc[p].w) /\ SoundOr(db) /\ SoundOr(late)
         /\ \A o \in 1..Len(obj) : Sound(obj[o].rec)
         /\ Mid(proc[p]) => Coupled(proc[p], obj[proc[p].o])
BY DEF Inv, Reported, AllSound

\* Until a restart the store that exists is named by the state in the map.
LEMMA StoreKept ==
  ASSUME Inv
  PROVE  /\ restarts = 0 /\ ~putBack /\ store => cur \in 1..Len(obj) /\ obj[cur].rec.store
         /\ \A p \in Procs : proc[p].pc = "dropped" => ~store
         /\ store \in BOOLEAN
<1>1. cur \in 0..Len(obj) /\ store \in BOOLEAN /\ Len(obj) \in Nat
  BY TypedNats DEF Inv, Typed, Fields
<1>2. QED
  BY <1>1 DEF Inv, Stores, NoStoreIsForgotten

\* A step that leaves the store and the map leaves the store named.
LEMMA StoreStays ==
  ASSUME Inv, cur' = cur, store' = store, NEW o, NEW rec, rec.store <=> obj[o].rec.store
  PROVE  restarts = 0 /\ ~putBack /\ store' => \/ o = cur' /\ rec.store
                                               \/ store /\ cur' = cur /\ o # cur
<1>1. SUFFICES ASSUME restarts = 0, ~putBack, store', o = cur PROVE rec.store
  BY StoreKept
<1>2. store
  BY <1>1
<1>3. obj[cur].rec.store
  BY <1>1, <1>2, StoreKept
<1>4. QED
  BY <1>1, <1>3

\* RunSaved preserves the invariant.
LEMMA RunSavedKeeps ==
  ASSUME Inv, NEW r \in Runs, RunSaved(r)
  PROVE  Inv' /\ StaysCancelled
<1>1. /\ proc[r].pc = "saveRun" /\ db' = proc[r].w
      /\ view' = IF sub = proc[r].o THEN Shown(obj[proc[r].o].rec) ELSE view
      /\ obj' = obj /\ cur' = cur /\ sub' = sub /\ store' = store /\ init' = init
      /\ runs' = runs /\ restarts' = restarts /\ putBack' = putBack /\ spent' = spent /\ late' = late
  BY DEF RunSaved, Lands, Told, stateVars, boundVars
<1>2. PICK o, rec, c, s : o = proc[r].o /\ rec = obj[o].rec /\ c = obj[o].cancel /\ s = obj[o].stream
  OBVIOUS
<1>3. Typed
  BY DEF Inv
<1>4. /\ r \in Procs /\ o \in 1..Len(obj) /\ obj[o] \in Object /\ rec \in Rec(Begun) /\ obj \in Seq(Object)
      /\ proc[r].op # "start" /\ proc[r].rec \in RecOr(Begun)
  BY <1>1, <1>2, <1>3, RunIs
<1>5. PICK e, pc, w : Became(r, e, pc, w, proc[r].next, proc[r].op) /\ pc = "create" /\ w = NoRecord
  <2>1. PICK pc \in PCs, w \in Record \cup {NoRecord} : pc = "create" /\ w = NoRecord
    BY DEF PCs
  <2>2. proc' = [proc EXCEPT ![r].pc = pc, ![r].w = w]
    BY <2>1 DEF RunSaved
  <2>3. \E e : Became(r, e, pc, w, proc[r].next, proc[r].op)
    BY <1>3, <1>4, <2>2, PcWriteMoves
  <2>4. QED
    BY <2>1, <2>3
<1>6. Wrote(obj, obj', o, rec, c, s)
  BY <1>1, <1>2, <1>4, SameObjects
<1>. USE DEF Became
<1>7. /\ Rec(Begun) \subseteq Rec(Begun') /\ RecOr(Begun) \subseteq RecOr(Begun')
  BY <1>1, <1>3, <1>5, BegunGrows
<1>8. e.pc \in RunPCs /\ e.pc \notin Writing /\ e.pc \notin Dropping /\ On(proc[r]) /\ proc[r].pc \in Writing
  BY <1>1, <1>5 DEF RunPCs, Working, Writing, On, Dropping
<1>9. RunTypes(r, e, o, rec, c, s)
  BY <1>1, <1>2, <1>4, <1>5, <1>6, <1>7, <1>8, StoreKept DEF RunTypes, Over, RecOr
<1>10. RunShows(r, e, o, rec, c)
  BY <1>1, <1>2, <1>5, <1>8 DEF RunShows
<1>11. RunKeeps(r, e, o, rec, c)
  <2>1. ~putBack => /\ Sound(rec) /\ SoundOr(e.rec) /\ SoundOr(e.w)
                    /\ Mid(e) => Mid(proc[r]) /\ Coupled(e, obj'[o])
                    /\ Mid(proc[r])
    BY <1>1, <1>2, <1>4, <1>5, SoundNow DEF SoundOr, Mid, Coupled
  <2>2. restarts = 0 /\ ~putBack /\ store' => \/ o = cur' /\ rec.store
                                              \/ store /\ cur' = cur /\ o # cur
    BY <1>1, <1>2, StoreStays
  <2>3. QED
    BY <1>1, <1>5, <2>1, <2>2, SMTT(40) DEF RunKeeps
<1>12. QED
  BY <1>9, <1>10, <1>11, RunMove

\* InteractionCreated preserves the invariant.
LEMMA InteractionCreatedKeeps ==
  ASSUME Inv, NEW r \in Runs, InteractionCreated(r)
  PROVE  Inv' /\ StaysCancelled
<1>1. /\ proc[r].pc = "create" /\ db' = db /\ view' = view
      /\ obj' = obj /\ cur' = cur /\ sub' = sub /\ store' = store /\ init' = init
      /\ runs' = runs /\ restarts' = restarts /\ putBack' = putBack /\ spent' = spent /\ late' = late
  BY DEF InteractionCreated, stateVars, boundVars, clientVars
<1>2. PICK o, rec, c, s : o = proc[r].o /\ rec = obj[o].rec /\ c = obj[o].cancel /\ s = obj[o].stream
  OBVIOUS
<1>3. Typed
  BY DEF Inv
<1>4. /\ r \in Procs /\ o \in 1..Len(obj) /\ obj[o] \in Object /\ rec \in Rec(Begun) /\ obj \in Seq(Object)
      /\ proc[r].op # "start" /\ proc[r].rec \in RecOr(Begun) /\ proc[r].w \in RecOr(Begun)
  BY <1>1, <1>2, <1>3, RunIs
<1>5. PICK e, pc, n : Became(r, e, pc, proc[r].w, n, proc[r].op) /\ pc = "read" /\ n = 0
  <2>1. PICK pc \in PCs, n \in 0..Chunks + 2 : pc = "read" /\ n = 0
    BY Bounds DEF PCs
  <2>2. proc' = [proc EXCEPT ![r].pc = pc, ![r].next = n]
    BY <2>1 DEF InteractionCreated
  <2>3. \E e : Became(r, e, pc, proc[r].w, n, proc[r].op)
    BY <1>3, <1>4, <2>2, PcNextMoves
  <2>4. QED
    BY <2>1, <2>3
<1>6. Wrote(obj, obj', o, rec, c, s)
  BY <1>1, <1>2, <1>4, SameObjects
<1>. USE DEF Became
<1>7. /\ Rec(Begun) \subseteq Rec(Begun') /\ RecOr(Begun) \subseteq RecOr(Begun')
  BY <1>1, <1>3, <1>5, BegunGrows
<1>8. e.pc \in RunPCs /\ e.pc \notin Writing /\ e.pc \notin Dropping /\ On(proc[r]) /\ proc[r].pc \notin FlushPCs
  BY <1>1, <1>5 DEF RunPCs, Working, Writing, On, Dropping, FlushPCs
<1>9. RunTypes(r, e, o, rec, c, s)
  BY <1>1, <1>2, <1>4, <1>5, <1>6, <1>7, <1>8, StoreKept DEF RunTypes, Over
<1>10. RunShows(r, e, o, rec, c)
  BY <1>1, <1>2, <1>5, <1>8 DEF RunShows
<1>11. RunKeeps(r, e, o, rec, c)
  <2>1. ~putBack => /\ Sound(rec) /\ SoundOr(e.rec) /\ SoundOr(e.w)
                    /\ Mid(e) => Mid(proc[r]) /\ Coupled(e, obj'[o])
                    /\ Mid(proc[r])
    BY <1>1, <1>2, <1>4, <1>5, SoundNow DEF Mid, Coupled
  <2>2. restarts = 0 /\ ~putBack /\ store' => \/ o = cur' /\ rec.store
                                              \/ store /\ cur' = cur /\ o # cur
    BY <1>1, <1>2, StoreStays
  <2>3. QED
    BY <1>1, <1>5, <2>1, <2>2, SMTT(40) DEF RunKeeps
<1>12. QED
  BY <1>9, <1>10, <1>11, RunMove

\* The text up to an event is the text up to the one before it and the event.
LEMMA TextIs ==
  ASSUME NEW a \in Nat, NEW k \in 0..Chunks + 1
  PROVE  /\ k = 0 => TextUpTo(<<a, k>>) = <<>>
         /\ k \in 1..Chunks => Append(TextUpTo(<<a, k - 1>>), <<a, k>>) = TextUpTo(<<a, k>>)
         /\ TextUpTo(<<a, Chunks + 1>>) = TextUpTo(<<a, Chunks>>)
<1>1. TextUpTo(<<a, Chunks + 1>>) = TextUpTo(<<a, Chunks>>)
  BY Bounds DEF TextUpTo
<1>2. k = 0 => TextUpTo(<<a, k>>) = <<>>
  BY Bounds DEF TextUpTo
<1>3. ASSUME k \in 1..Chunks
      PROVE  Append(TextUpTo(<<a, k - 1>>), <<a, k>>) = TextUpTo(<<a, k>>)
  <2>1. PICK q : q = TextUpTo(<<a, k - 1>>)
    OBVIOUS
  <2>2. q = [j \in 1..(k - 1) |-> <<a, j>>]
    BY <1>3, <2>1, Bounds DEF TextUpTo
  <2>3. k - 1 \in Nat /\ k \in Nat
    BY <1>3, Bounds
  <2>4. q \in Seq(Nat \X Nat)
    BY <2>2, <2>3
  <2>5. Len(q) = k - 1
    BY <2>2, <2>3
  <2>6. PICK q2 : q2 = Append(q, <<a, k>>)
    OBVIOUS
  <2>7. /\ q2 \in Seq(Nat \X Nat) /\ Len(q2) = k
        /\ \A j \in 1..k : q2[j] = IF j = k THEN <<a, k>> ELSE q[j]
    BY <2>3, <2>4, <2>5, <2>6
  <2>8. PICK q3 : q3 = TextUpTo(<<a, k>>)
    OBVIOUS
  <2>9. q3 = [j \in 1..k |-> <<a, j>>]
    BY <1>3, <2>8, Bounds DEF TextUpTo
  <2>10. q3 \in Seq(Nat \X Nat) /\ Len(q3) = k
    BY <2>3, <2>9
  <2>11. ASSUME NEW j \in 1..k PROVE q2[j] = q3[j]
    <3>1. q3[j] = <<a, j>>
      BY <2>9
    <3>2. j # k => j \in 1..(k - 1) /\ q[j] = <<a, j>>
      BY <2>2, <2>3
    <3>3. q2[j] = IF j = k THEN <<a, k>> ELSE q[j]
      BY <2>7
    <3>4. QED
      BY <3>1, <3>2, <3>3
  <2>12. q2 = q3
    BY <2>7, <2>10, <2>11, SeqEqual
  <2>13. QED
    BY <2>1, <2>6, <2>8, <2>12
<1>4. QED
  BY <1>1, <1>2, <1>3

\* Setting the last event of a record leaves the rest of it.
LEMMA LastSet ==
  ASSUME NEW n \in Nat, NEW rec \in Rec(n), NEW v \in Events, NEW y, y = [rec EXCEPT !.last = v]
  PROVE  /\ y \in Rec(n) /\ y.status = rec.status /\ y.text = rec.text /\ y.last = v /\ y.plan = rec.plan
         /\ y.store = rec.store /\ y.inter = rec.inter
BY DEF Rec, Record

\* Appending to the text of a record leaves the rest of it.
LEMMA TextSet ==
  ASSUME NEW n \in Nat, NEW rec \in Rec(n), NEW v \in Events, NEW y, y = WithText(rec, v)
  PROVE  /\ y \in Rec(n) /\ y.status = rec.status /\ y.text = Append(rec.text, v) /\ y.last = rec.last
         /\ y.plan = rec.plan /\ y.store = rec.store /\ y.inter = rec.inter
<1>1. rec.text \in Seq(Events) /\ rec \in Record
  BY DEF Rec, Record
<1>2. PICK t : t = Append(rec.text, v)
  OBVIOUS
<1>3. t \in Seq(Events)
  BY <1>1, <1>2
<1>4. y = [rec EXCEPT !.text = t]
  BY <1>2 DEF WithText
<1>5. QED
  BY <1>1, <1>2, <1>3, <1>4 DEF Rec, Record

\* Setting the sources of a record leaves the rest of it.
LEMMA SourcesSet ==
  ASSUME NEW n \in Nat, NEW rec \in Rec(n), NEW v \in {"none", "opaque", "resolved"}, NEW y,
         y = [rec EXCEPT !.sources = v]
  PROVE  /\ y \in Rec(n) /\ y.status = rec.status /\ y.text = rec.text /\ y.last = rec.last /\ y.plan = rec.plan
         /\ y.store = rec.store /\ y.inter = rec.inter
BY DEF Rec, Record

\* Setting the interaction and the status of a record leaves the rest of it.
LEMMA InterSet ==
  ASSUME NEW n \in Nat, NEW rec \in Rec(n), NEW i \in 1..n, n <= MaxRuns, NEW s \in Status, NEW y,
         y = WithInter(rec, i, s)
  PROVE  /\ y \in Rec(n) /\ y.status = s /\ y.text = rec.text /\ y.last = rec.last /\ y.plan = rec.plan
         /\ y.store = rec.store /\ y.inter = i
<1>1. i \in 0..MaxRuns /\ i <= n /\ n # 0
  BY Bounds
<1>2. QED
  BY <1>1 DEF WithInter, Rec, Record

\* Setting what a completion sets leaves the rest of a record.
LEMMA CompletedSet ==
  ASSUME NEW n \in Nat, NEW rec \in Rec(n), NEW i \in 1..n, n <= MaxRuns, NEW s \in Status, NEW b \in BOOLEAN, NEW y,
         y = WithPlan(rec, s, i, b)
  PROVE  /\ y \in Rec(n) /\ y.status = s /\ y.text = rec.text /\ y.last = rec.last /\ (y.plan <=> b)
         /\ y.store = rec.store /\ y.inter = i
<1>1. i \in 0..MaxRuns /\ i <= n /\ n # 0
  BY Bounds
<1>2. QED
  BY <1>1 DEF WithPlan, Rec, Record

\* What a run that has an event to read may take for granted.
LEMMA Reading ==
  ASSUME Typed, NEW r \in Runs, Reads(r)
  PROVE  /\ EventOf(r) \in Events /\ EventOf(r) = <<proc[r].at, proc[r].next>>
         /\ EventOf(r)[1] = proc[r].at /\ EventOf(r)[2] = proc[r].next
         /\ proc[r].at \in 1..Begun /\ proc[r].at \in Nat /\ Begun <= MaxRuns /\ Begun = runs
         /\ proc[r].next \in 0..Chunks + 1
         /\ On(proc[r]) /\ Mid(proc[r]) /\ proc[r].pc = "read" /\ proc[r].pc \notin FlushPCs
<1>1. proc[r].pc = "read" /\ proc[r].next <= Chunks + 1
  BY DEF Reads
<1>2. On(proc[r]) /\ Mid(proc[r]) /\ proc[r].pc \notin FlushPCs
  BY <1>1 DEF On, Working, Mid, FlushPCs
<1>3. proc[r].at \in 1..runs /\ Begun = runs /\ proc[r] \in Entry
  BY <1>1, <1>2, RunIs
<1>4. runs \in 0..MaxRuns
  BY DEF Typed, Counters
<1>5. proc[r].next \in 0..Chunks + 1 /\ proc[r].at \in 1..MaxRuns /\ runs <= MaxRuns /\ proc[r].at \in Nat
  <2>1. proc[r].next \in 0..Chunks + 2
    BY <1>3, EntryFields
  <2>2. QED
    BY <1>1, <1>3, <1>4, <2>1, Bounds
<1>6. EventOf(r) \in Events
  BY <1>5, EventIs DEF EventOf
<1>7. QED
  BY <1>1, <1>2, <1>3, <1>5, <1>6 DEF EventOf

\* The record of a run that has seen an event is its record but for the last event.
LEMMA SeenIs ==
  ASSUME Typed, NEW r \in Runs, Reads(r), NEW o, o = proc[r].o
  PROVE  /\ Seen(r) \in Rec(Begun) /\ Seen(r).status = obj[o].rec.status /\ Seen(r).text = obj[o].rec.text
         /\ Seen(r).last = EventOf(r) /\ Seen(r).plan = obj[o].rec.plan /\ Seen(r).store = obj[o].rec.store
         /\ Seen(r).inter = obj[o].rec.inter
<1>1. obj[o].rec \in Rec(Begun) /\ Begun \in Nat
  BY Reading, RunIs, TypedNats
<1>2. Seen(r) = [obj[o].rec EXCEPT !.last = EventOf(r)]
  BY DEF Seen
<1>3. QED
  BY <1>1, <1>2, Reading, LastSet

\* A record that may be there is one.
LEMMA RecIsRecord ==
  ASSUME NEW n, NEW rec \in Rec(n)
  PROVE  rec \in Record /\ rec \in Record \cup {NoRecord}
BY DEF Rec

\* StartEvent preserves the invariant.
LEMMA StartEventKeeps ==
  ASSUME Inv, NEW r \in Runs, StartEvent(r)
  PROVE  Inv' /\ StaysCancelled
<1>1. /\ Reads(r) /\ proc[r].next = 0 /\ db' = db
      /\ cur' = cur /\ sub' = sub /\ store' = store /\ init' = init
      /\ runs' = runs /\ restarts' = restarts /\ putBack' = putBack /\ spent' = spent /\ late' = late
  BY DEF StartEvent, boundVars
<1>2. PICK o, c, s : o = proc[r].o /\ c = obj[o].cancel /\ s = obj[o].stream
  OBVIOUS
<1>3. PICK rec : rec = IF Cancelled(o) THEN Seen(r) ELSE [Seen(r) EXCEPT !.inter = proc[r].at, !.status = "running"]
  OBVIOUS
<1>4. obj' = Scheduled(obj, o, rec)
  BY <1>2, <1>3 DEF StartEvent
<1>5. IF Cancelled(o) THEN view' = view ELSE view' = IF sub = o THEN Shown(obj'[o].rec) ELSE view
  BY <1>2, <1>3, <1>4 DEF StartEvent, Told
<1>6. Typed /\ Begun \in Nat
  BY TypedNats DEF Inv
<1>7. /\ r \in Procs /\ o \in 1..Len(obj) /\ obj[o] \in Object /\ obj[o].rec \in Rec(Begun) /\ obj \in Seq(Object)
      /\ proc[r].op # "start" /\ proc[r].rec \in RecOr(Begun) /\ proc[r].w \in RecOr(Begun) /\ proc[r].pc # "idle"
  <2>1. proc[r].pc # "idle"
    BY <1>1, <1>6, Reading
  <2>2. QED
    BY <1>2, <1>6, <2>1, RunIs
<1>8. /\ rec \in Rec(Begun) /\ rec.text = obj[o].rec.text /\ rec.last = <<proc[r].at, 0>> /\ rec.last[2] = 0
      /\ rec.plan = obj[o].rec.plan /\ rec.store = obj[o].rec.store
      /\ Cancelled(o) => rec.status = obj[o].rec.status
      /\ ~Cancelled(o) => rec.status = "running" /\ rec.inter = proc[r].at
  <2>1. /\ Seen(r) \in Rec(Begun) /\ Seen(r).status = obj[o].rec.status /\ Seen(r).text = obj[o].rec.text
        /\ Seen(r).last = <<proc[r].at, 0>> /\ Seen(r).last[2] = 0
        /\ Seen(r).plan = obj[o].rec.plan /\ Seen(r).store = obj[o].rec.store
    BY <1>1, <1>2, <1>6, SeenIs, Reading
  <2>2. CASE Cancelled(o)
    BY <1>3, <2>1, <2>2
  <2>3. CASE ~Cancelled(o)
    <3>1. PICK i \in 1..Begun, st \in Status : i = proc[r].at /\ st = "running"
      BY <1>1, <1>6, Reading DEF Status
    <3>. DEFINE sn == Seen(r)
    <3>2. rec = WithInter(sn, i, st)
      BY <1>3, <2>3, <3>1 DEF WithInter
    <3>3. Begun <= MaxRuns
      BY <1>1, <1>6, <3>1, Reading
    <3>4. sn \in Rec(Begun)
      BY <2>1
    <3>. HIDE DEF sn
    <3>5. /\ rec \in Rec(Begun) /\ rec.status = st /\ rec.text = sn.text /\ rec.last = sn.last /\ rec.plan = sn.plan
          /\ rec.store = sn.store /\ rec.inter = i
      BY <1>6, <3>2, <3>3, <3>4, InterSet
    <3>6. QED
      BY <2>1, <2>3, <3>1, <3>5 DEF sn
  <2>4. QED
    BY <2>2, <2>3
<1>9. Wrote(obj, obj', o, rec, c, s)
  BY <1>2, <1>4, <1>7, <1>8, ScheduledDoes, RecIsRecord
<1>10. obj'[o].rec = rec /\ obj'[o].cancel = c
  BY <1>9 DEF Wrote
<1>11. PICK e, n : Became(r, e, proc[r].pc, proc[r].w, n, proc[r].op) /\ n = 1
  <2>1. PICK n \in 0..Chunks + 2 : n = 1
    BY Bounds
  <2>2. proc' = [proc EXCEPT ![r].next = n]
    BY <2>1 DEF StartEvent
  <2>3. \E e : Became(r, e, proc[r].pc, proc[r].w, n, proc[r].op)
    BY <1>6, <1>7, <2>2, NextMoves
  <2>4. QED
    BY <2>1, <2>3
<1>. USE DEF Became
<1>12. /\ Rec(Begun) \subseteq Rec(Begun') /\ RecOr(Begun) \subseteq RecOr(Begun')
  <2>1. e.pc # "prepare"
    BY <1>1, <1>6, <1>11, Reading
  <2>2. QED
    BY <1>1, <1>6, <1>11, <2>1, BegunGrows
<1>13. /\ proc[r].pc = "read" /\ On(proc[r]) /\ Mid(proc[r]) /\ proc[r].pc \notin FlushPCs
       /\ e.pc \in RunPCs /\ e.pc \notin Writing /\ e.pc \notin Dropping
  BY <1>1, <1>6, <1>11, Reading DEF RunPCs, Working, Writing, On, Dropping, FlushPCs
<1>14. obj[o].rec.status = "cancelled" => c \/ putBack
  BY <1>2, <1>13 DEF Inv, Asked
<1>15. RunTypes(r, e, o, rec, c, s)
  BY <1>1, <1>2, <1>6, <1>7, <1>8, <1>9, <1>11, <1>12, <1>13, StoreKept DEF RunTypes, Over
<1>16. RunShows(r, e, o, rec, c)
  <2>1. Cancelled(o) <=> c \/ obj[o].rec.status = "cancelled"
    BY <1>2 DEF Cancelled
  <2>2. Cancelled(o) => Shown(rec) = Shown(obj[o].rec)
    BY <1>8 DEF Shown
  <2>3. /\ sub # o => view' = view
        /\ view' = view \/ view' = Shown(rec)
        /\ sub' = o => \/ view' = Shown(rec)
                       \/ view' = view /\ Shown(rec) = Shown(obj[o].rec) /\ proc[r].pc \notin FlushPCs
    BY <1>1, <1>5, <1>10, <1>13, <2>2
  <2>4. QED
    BY <1>2, <1>8, <1>11, <1>13, <1>14, <2>1, <2>3 DEF RunShows, On
<1>17. RunKeeps(r, e, o, rec, c)
  <2>1. ASSUME ~putBack
        PROVE  /\ Sound(rec) /\ SoundOr(e.rec) /\ SoundOr(e.w)
               /\ Mid(e) => Mid(proc[r]) /\ Coupled(e, obj'[o])
               /\ Mid(proc[r])
    <3>1. /\ ~obj[o].rec.plan /\ obj[o].rec.status # "completed" /\ obj[o].rec.text = <<>>
      BY <1>1, <1>2, <1>7, <1>13, <2>1, SoundNow DEF Coupled
    <3>2. rec.text = TextUpTo(<<proc[r].at, 0>>)
      BY <1>1, <1>6, <1>8, <3>1, TextIs, Reading
    <3>3. SoundOr(e.rec) /\ SoundOr(e.w)
      BY <1>7, <1>11, <2>1, SoundNow
    <3>4. rec.status # "completed"
      BY <1>8, <3>1
    <3>5. Sound(rec)
      BY <1>8, <3>1, <3>2, <3>4, Bounds DEF Sound
    <3>6. ~c => ~Cancelled(o)
      BY <1>2, <1>14, <2>1 DEF Cancelled
    <3>7. e.pc = "read" /\ e.next = 1 /\ e.at = proc[r].at
      BY <1>11, <1>13
    <3>8. Coupled(e, obj'[o])
      BY <1>8, <1>10, <3>1, <3>2, <3>4, <3>6, <3>7 DEF Coupled
    <3>9. QED
      BY <1>13, <3>3, <3>5, <3>8, SMTT(40)
  <2>2. restarts = 0 /\ ~putBack /\ store' => \/ o = cur' /\ rec.store
                                              \/ store /\ cur' = cur /\ o # cur
    BY <1>1, <1>8, StoreStays
  <2>3. QED
    BY <1>1, <1>11, <1>13, <2>1, <2>2 DEF RunKeeps
<1>18. QED
  BY <1>15, <1>16, <1>17, RunMove

\* A content event after an abort is dropped: it preserves the invariant.
LEMMA ContentDroppedKeeps ==
  ASSUME Inv, NEW r \in Runs, ContentEvent(r), obj[proc[r].o].cancel
  PROVE  Inv' /\ StaysCancelled
<1>1. /\ Reads(r) /\ proc[r].next \in 1..Chunks /\ db' = db /\ obj' = obj /\ view' = view
      /\ cur' = cur /\ sub' = sub /\ store' = store /\ init' = init
      /\ runs' = runs /\ restarts' = restarts /\ putBack' = putBack /\ spent' = spent /\ late' = late
  BY DEF ContentEvent, boundVars
<1>2. PICK o, rec, c, s : o = proc[r].o /\ rec = obj[o].rec /\ c = obj[o].cancel /\ s = obj[o].stream
  OBVIOUS
<1>3. Typed
  BY DEF Inv
<1>4. /\ proc[r].pc = "read" /\ On(proc[r]) /\ Mid(proc[r]) /\ proc[r].pc \notin FlushPCs
  BY <1>1, <1>3, Reading
<1>5. /\ r \in Procs /\ o \in 1..Len(obj) /\ obj[o] \in Object /\ rec \in Rec(Begun) /\ obj \in Seq(Object)
      /\ proc[r].op # "start" /\ proc[r].rec \in RecOr(Begun) /\ proc[r].w \in RecOr(Begun)
  BY <1>2, <1>3, <1>4, RunIs
<1>6. PICK e, n : Became(r, e, proc[r].pc, proc[r].w, n, proc[r].op) /\ n = proc[r].next + 1
  <2>1. PICK n \in 0..Chunks + 2 : n = proc[r].next + 1
    BY <1>1, Bounds
  <2>2. proc' = [proc EXCEPT ![r].next = n]
    BY <2>1 DEF ContentEvent
  <2>3. \E e : Became(r, e, proc[r].pc, proc[r].w, n, proc[r].op)
    BY <1>3, <1>5, <2>2, NextMoves
  <2>4. QED
    BY <2>1, <2>3
<1>7. Wrote(obj, obj', o, rec, c, s)
  BY <1>1, <1>2, <1>5, SameObjects
<1>. USE DEF Became
<1>8. /\ Rec(Begun) \subseteq Rec(Begun') /\ RecOr(Begun) \subseteq RecOr(Begun')
  BY <1>1, <1>3, <1>6, BegunGrows
<1>9. e.pc \in RunPCs /\ e.pc \notin Writing /\ e.pc \notin Dropping
  BY <1>4, <1>6 DEF RunPCs, Working, Writing, Dropping
<1>10. RunTypes(r, e, o, rec, c, s)
  BY <1>1, <1>2, <1>4, <1>5, <1>6, <1>7, <1>8, <1>9, StoreKept DEF RunTypes, Over
<1>11. RunShows(r, e, o, rec, c)
  BY <1>1, <1>2, <1>4, <1>6 DEF RunShows
<1>12. RunKeeps(r, e, o, rec, c)
  <2>1. ASSUME ~putBack
        PROVE  /\ Sound(rec) /\ SoundOr(e.rec) /\ SoundOr(e.w)
               /\ Mid(e) => Mid(proc[r]) /\ Coupled(e, obj'[o])
               /\ Mid(proc[r])
    <3>1. /\ Sound(obj[o].rec) /\ Coupled(proc[r], obj[o]) /\ SoundOr(e.rec) /\ SoundOr(e.w)
      BY <1>2, <1>4, <1>5, <1>6, <2>1, SoundNow
    <3>2. e.pc = "read" /\ e.next # 0 /\ obj[o].cancel /\ obj'[o] = obj[o]
      BY <1>1, <1>2, <1>4, <1>6, Bounds
    <3>3. Coupled(e, obj'[o])
      BY <3>1, <3>2 DEF Coupled
    <3>4. QED
      BY <1>2, <1>4, <3>1, <3>3
  <2>2. restarts = 0 /\ ~putBack /\ store' => \/ o = cur' /\ rec.store
                                              \/ store /\ cur' = cur /\ o # cur
    BY <1>1, <1>2, StoreStays
  <2>3. QED
    BY <1>1, <1>4, <1>6, <2>1, <2>2 DEF RunKeeps
<1>13. QED
  BY <1>10, <1>11, <1>12, RunMove

\* A content event that is put into the record preserves the invariant.
LEMMA ContentKeptKeeps ==
  ASSUME Inv, NEW r \in Runs, ContentEvent(r), ~obj[proc[r].o].cancel
  PROVE  Inv' /\ StaysCancelled
<1>1. /\ Reads(r) /\ proc[r].next \in 1..Chunks /\ db' = db
      /\ cur' = cur /\ sub' = sub /\ store' = store /\ init' = init
      /\ runs' = runs /\ restarts' = restarts /\ putBack' = putBack /\ spent' = spent /\ late' = late
  BY DEF ContentEvent, boundVars
<1>2. PICK o, c, s : o = proc[r].o /\ c = obj[o].cancel /\ s = obj[o].stream
  OBVIOUS
<1>3. PICK rec : rec = WithText(Seen(r), EventOf(r))
  OBVIOUS
<1>4. obj' = Scheduled(obj, o, rec) /\ view' = IF sub = o THEN Shown(obj'[o].rec) ELSE view
  BY <1>2, <1>3 DEF ContentEvent, Told
<1>5. Typed /\ Begun \in Nat
  BY TypedNats DEF Inv
<1>6. /\ proc[r].pc = "read" /\ On(proc[r]) /\ Mid(proc[r]) /\ proc[r].pc \notin FlushPCs
      /\ EventOf(r) \in Events /\ EventOf(r) = <<proc[r].at, proc[r].next>> /\ EventOf(r)[1] = proc[r].at
      /\ EventOf(r)[2] = proc[r].next /\ proc[r].at \in Nat
  BY <1>1, <1>5, Reading
<1>7. /\ r \in Procs /\ o \in 1..Len(obj) /\ obj[o] \in Object /\ obj[o].rec \in Rec(Begun) /\ obj \in Seq(Object)
      /\ proc[r].op # "start" /\ proc[r].rec \in RecOr(Begun) /\ proc[r].w \in RecOr(Begun) /\ proc[r].pc # "idle"
  BY <1>2, <1>5, <1>6, RunIs
<1>8. /\ rec \in Rec(Begun) /\ rec.text = Append(obj[o].rec.text, EventOf(r)) /\ rec.last = EventOf(r)
      /\ rec.plan = obj[o].rec.plan /\ rec.store = obj[o].rec.store
      /\ rec.status = obj[o].rec.status /\ rec.inter = obj[o].rec.inter
  <2>1. PICK sn, v : sn = Seen(r) /\ v = EventOf(r)
    OBVIOUS
  <2>2. /\ sn \in Rec(Begun) /\ sn.text = obj[o].rec.text /\ sn.last = v
        /\ sn.plan = obj[o].rec.plan /\ sn.store = obj[o].rec.store
        /\ sn.status = obj[o].rec.status /\ sn.inter = obj[o].rec.inter
    BY <1>1, <1>2, <1>5, <2>1, SeenIs
  <2>3. rec = WithText(sn, v) /\ v \in Events
    BY <1>3, <1>6, <2>1
  <2>4. sn \in Rec(Begun) /\ Begun \in Nat
    BY <1>5, <2>2
  <2>5. /\ rec \in Rec(Begun) /\ rec.status = sn.status /\ rec.text = Append(sn.text, v) /\ rec.last = sn.last
        /\ rec.plan = sn.plan /\ rec.store = sn.store /\ rec.inter = sn.inter
    BY <2>3, <2>4, TextSet
  <2>6. QED
    BY <2>1, <2>2, <2>5
<1>9. Wrote(obj, obj', o, rec, c, s)
  BY <1>2, <1>4, <1>7, <1>8, ScheduledDoes, RecIsRecord
<1>10. obj'[o].rec = rec /\ obj'[o].cancel = c
  BY <1>9 DEF Wrote
<1>11. PICK e, n, pc : Became(r, e, pc, proc[r].w, n, proc[r].op) /\ n = proc[r].next + 1 /\ pc \in {"cite", "read"}
  <2>1. PICK n \in 0..Chunks + 2 : n = proc[r].next + 1
    BY <1>1, Bounds
  <2>2. PICK pc \in PCs : pc = IF proc[r].next \in Cited THEN "cite" ELSE "read"
    BY DEF PCs
  <2>3. proc' = [proc EXCEPT ![r].next = n, ![r].pc = pc]
    BY <2>1, <2>2 DEF ContentEvent
  <2>4. \E e : Became(r, e, pc, proc[r].w, n, proc[r].op)
    BY <1>5, <1>7, <2>3, NextPcMoves
  <2>5. pc \in {"cite", "read"}
    BY <2>2
  <2>6. QED
    BY <2>1, <2>4, <2>5
<1>. USE DEF Became
<1>12. /\ e.pc \in RunPCs /\ e.pc \notin Writing /\ e.pc \notin Dropping /\ e.pc # "prepare"
  BY <1>11 DEF RunPCs, Working, Writing, On, Dropping
<1>13. /\ Rec(Begun) \subseteq Rec(Begun') /\ RecOr(Begun) \subseteq RecOr(Begun')
  BY <1>1, <1>5, <1>11, <1>12, BegunGrows
<1>14. obj[o].rec.status = "cancelled" => c \/ putBack
  BY <1>2, <1>6 DEF Inv, Asked
<1>15. RunTypes(r, e, o, rec, c, s)
  BY <1>1, <1>2, <1>5, <1>7, <1>8, <1>9, <1>11, <1>12, <1>13, StoreKept DEF RunTypes, Over
<1>16. RunShows(r, e, o, rec, c)
  <2>1. /\ sub # o => view' = view
        /\ view' = view \/ view' = Shown(rec)
        /\ sub' = o => view' = Shown(rec)
    BY <1>1, <1>4, <1>10
  <2>2. QED
    BY <1>2, <1>6, <1>8, <1>11, <2>1, ZenonT(40) DEF RunShows
<1>17. RunKeeps(r, e, o, rec, c)
  <2>1. ASSUME ~putBack
        PROVE  /\ Sound(rec) /\ SoundOr(e.rec) /\ SoundOr(e.w)
               /\ Mid(e) => Mid(proc[r]) /\ Coupled(e, obj'[o])
               /\ Mid(proc[r])
    <3>1. obj[o].cancel = FALSE /\ proc[r].next # 0
      BY <1>1, <1>2, Bounds, SMTT(40)
    <3>2. /\ ~obj[o].rec.plan /\ obj[o].rec.status # "completed" /\ obj[o].rec.inter = proc[r].at
          /\ obj[o].rec.text = TextUpTo(<<proc[r].at, proc[r].next - 1>>)
      BY <1>2, <1>6, <1>7, <2>1, <3>1, SoundNow DEF Coupled
    <3>3. rec.text = TextUpTo(<<proc[r].at, proc[r].next>>) /\ rec.text = TextUpTo(rec.last)
      <4>1. proc[r].next \in 0..Chunks + 1
        BY <1>1, Bounds
      <4>2. Append(TextUpTo(<<proc[r].at, proc[r].next - 1>>), <<proc[r].at, proc[r].next>>)
              = TextUpTo(<<proc[r].at, proc[r].next>>)
        BY <1>1, <1>6, <4>1, TextIs
      <4>3. QED
        BY <1>6, <1>8, <3>2, <4>2
    <3>4. SoundOr(e.rec) /\ SoundOr(e.w)
      BY <1>7, <1>11, <2>1, SoundNow
    <3>5. Sound(rec)
      BY <1>6, <1>8, <3>2, <3>3 DEF Sound
    <3>6. e.next - 1 = proc[r].next /\ e.at = proc[r].at /\ e.next \in 1..Chunks + 1 /\ e.next # 0
      BY <1>1, <1>11, Bounds
    <3>7. Coupled(e, obj'[o])
      BY <1>8, <1>10, <1>11, <3>2, <3>3, <3>6 DEF Coupled
    <3>8. QED
      BY <1>6, <3>4, <3>5, <3>7
  <2>2. restarts = 0 /\ ~putBack /\ store' => \/ o = cur' /\ rec.store
                                              \/ store /\ cur' = cur /\ o # cur
    BY <1>1, <1>8, StoreStays
  <2>3. QED
    BY <1>1, <1>11, <1>12, <2>1, <2>2 DEF RunKeeps, Dropping
<1>18. QED
  BY <1>15, <1>16, <1>17, RunMove

\* SourcesFound preserves the invariant.
LEMMA SourcesFoundKeeps ==
  ASSUME Inv, NEW r \in Runs, SourcesFound(r)
  PROVE  Inv' /\ StaysCancelled
<1>1. /\ proc[r].pc = "cite" /\ db' = db /\ view' = view
      /\ cur' = cur /\ sub' = sub /\ store' = store /\ init' = init
      /\ runs' = runs /\ restarts' = restarts /\ putBack' = putBack /\ spent' = spent /\ late' = late
  BY DEF SourcesFound, boundVars, clientVars
<1>2. PICK o, c, s : o = proc[r].o /\ c = obj[o].cancel /\ s = obj[o].stream
  OBVIOUS
<1>3. Typed /\ Begun \in Nat
  BY TypedNats DEF Inv
<1>4. /\ r \in Procs /\ o \in 1..Len(obj) /\ obj[o] \in Object /\ obj[o].rec \in Rec(Begun) /\ obj \in Seq(Object)
      /\ proc[r].op # "start" /\ proc[r].rec \in RecOr(Begun) /\ proc[r].w \in RecOr(Begun)
  BY <1>1, <1>2, <1>3, RunIs
<1>5. \E v \in {"none", "opaque", "resolved"} : obj' = Scheduled(obj, o, [obj[o].rec EXCEPT !.sources = v])
  <2>1. PICK v0 \in {"opaque", "resolved"} :
          obj' = Scheduled(obj, o, [obj[o].rec EXCEPT !.sources = IF @ = "none" THEN v0 ELSE @])
    BY <1>2 DEF SourcesFound
  <2>2. obj[o].rec.sources \in {"none", "opaque", "resolved"}
    BY <1>4 DEF Rec, Record
  <2>3. PICK v \in {"none", "opaque", "resolved"} : v = IF obj[o].rec.sources = "none" THEN v0 ELSE obj[o].rec.sources
    BY <2>2
  <2>4. obj' = Scheduled(obj, o, [obj[o].rec EXCEPT !.sources = v])
    BY <2>1, <2>3
  <2>5. QED
    BY <2>4, SMTT(40)
<1>6. PICK rec : /\ obj' = Scheduled(obj, o, rec)
                 /\ rec \in Rec(Begun) /\ rec.status = obj[o].rec.status /\ rec.text = obj[o].rec.text
                 /\ rec.last = obj[o].rec.last /\ rec.plan = obj[o].rec.plan
                 /\ rec.store = obj[o].rec.store /\ rec.inter = obj[o].rec.inter
  <2>1. PICK v \in {"none", "opaque", "resolved"} : obj' = Scheduled(obj, o, [obj[o].rec EXCEPT !.sources = v])
    BY <1>5
  <2>2. PICK rec : rec = [obj[o].rec EXCEPT !.sources = v]
    OBVIOUS
  <2>3. obj' = Scheduled(obj, o, rec)
    BY <2>1, <2>2
  <2>4. /\ rec \in Rec(Begun) /\ rec.status = obj[o].rec.status /\ rec.text = obj[o].rec.text
        /\ rec.last = obj[o].rec.last /\ rec.plan = obj[o].rec.plan
        /\ rec.store = obj[o].rec.store /\ rec.inter = obj[o].rec.inter
    BY <1>3, <1>4, <2>2, SourcesSet
  <2>5. QED
    BY <2>3, <2>4
<1>7. Wrote(obj, obj', o, rec, c, s)
  BY <1>2, <1>4, <1>6, ScheduledDoes, RecIsRecord
<1>8. obj'[o].rec = rec /\ obj'[o].cancel = c
  BY <1>7 DEF Wrote
<1>9. PICK e, pc : Became(r, e, pc, proc[r].w, proc[r].next, proc[r].op) /\ pc = "read"
  <2>1. PICK pc \in PCs : pc = "read"
    BY DEF PCs
  <2>2. proc' = [proc EXCEPT ![r].pc = pc]
    BY <2>1 DEF SourcesFound
  <2>3. \E e : Became(r, e, pc, proc[r].w, proc[r].next, proc[r].op)
    BY <1>3, <1>4, <2>2, PcMoves
  <2>4. QED
    BY <2>1, <2>3
<1>. USE DEF Became
<1>10. /\ Rec(Begun) \subseteq Rec(Begun') /\ RecOr(Begun) \subseteq RecOr(Begun')
  BY <1>1, <1>3, <1>9, BegunGrows
<1>11. /\ e.pc \in RunPCs /\ e.pc \notin Writing /\ e.pc \notin Dropping
       /\ On(proc[r]) /\ Mid(proc[r]) /\ proc[r].pc \notin FlushPCs
  BY <1>1, <1>9 DEF RunPCs, Working, Writing, On, Dropping, Mid, FlushPCs
<1>12. RunTypes(r, e, o, rec, c, s)
  BY <1>1, <1>2, <1>4, <1>6, <1>7, <1>9, <1>10, <1>11, StoreKept DEF RunTypes, Over
<1>13. RunShows(r, e, o, rec, c)
  BY <1>1, <1>2, <1>6, <1>9, <1>11 DEF RunShows, Shown
<1>14. RunKeeps(r, e, o, rec, c)
  <2>1. ASSUME ~putBack
        PROVE  /\ Sound(rec) /\ SoundOr(e.rec) /\ SoundOr(e.w)
               /\ Mid(e) => Mid(proc[r]) /\ Coupled(e, obj'[o])
               /\ Mid(proc[r])
    <3>1. /\ Sound(obj[o].rec) /\ Coupled(proc[r], obj[o]) /\ SoundOr(e.rec) /\ SoundOr(e.w)
      BY <1>2, <1>4, <1>9, <1>11, <2>1, SoundNow
    <3>2. Sound(rec)
      BY <1>6, <3>1 DEF Sound
    <3>3. Coupled(e, obj'[o])
      BY <1>1, <1>2, <1>6, <1>8, <1>9, <3>1 DEF Coupled
    <3>4. QED
      BY <1>11, <3>1, <3>2, <3>3
  <2>2. restarts = 0 /\ ~putBack /\ store' => \/ o = cur' /\ rec.store
                                              \/ store /\ cur' = cur /\ o # cur
    BY <1>1, <1>6, StoreStays
  <2>3. QED
    BY <1>1, <1>9, <2>1, <2>2 DEF RunKeeps
<1>15. QED
  BY <1>12, <1>13, <1>14, RunMove

\* A step of a run that completes, and is to save its record.
LEMMA CompletingMoves ==
  ASSUME Typed, NEW p \in Procs, NEW pc \in PCs, NEW w \in Record \cup {NoRecord}, NEW n \in 0..Chunks + 2,
         NEW op \in Operations,
         proc' = [proc EXCEPT ![p] = [[proc[p] EXCEPT !.next = n, !.op = op] EXCEPT !.pc = pc, !.w = w]]
  PROVE  \E e : Became(p, e, pc, w, n, op)
<1>1. proc[p] \in Entry /\ proc \in [Procs -> Entry]
  BY DEF Typed, Entries
<1>2. PICK e : e = [[proc[p] EXCEPT !.next = n, !.op = op] EXCEPT !.pc = pc, !.w = w]
  OBVIOUS
<1>3. /\ e \in Entry /\ e.pc = pc /\ e.o = proc[p].o /\ e.op = op /\ e.rec = proc[p].rec
      /\ e.w = w /\ e.at = proc[p].at /\ e.next = n /\ e.back = proc[p].back
  BY <1>1, <1>2 DEF Entry
<1>4. Moves(p, e)
  BY <1>1, <1>2, <1>3 DEF Moves
<1>5. QED
  BY <1>3, <1>4 DEF Became

\* A step of a run that completes, and is to drop its store first.
LEMMA DropFirstMoves ==
  ASSUME Typed, NEW p \in Procs, NEW pc \in PCs, NEW n \in 0..Chunks + 2, NEW op \in Operations,
         proc' = [proc EXCEPT ![p] = [[proc[p] EXCEPT !.next = n, !.op = op] EXCEPT !.pc = pc]]
  PROVE  \E e : Became(p, e, pc, proc[p].w, n, op)
<1>1. proc[p] \in Entry /\ proc \in [Procs -> Entry]
  BY DEF Typed, Entries
<1>2. PICK e : e = [[proc[p] EXCEPT !.next = n, !.op = op] EXCEPT !.pc = pc]
  OBVIOUS
<1>3. /\ e \in Entry /\ e.pc = pc /\ e.o = proc[p].o /\ e.op = op /\ e.rec = proc[p].rec
      /\ e.w = proc[p].w /\ e.at = proc[p].at /\ e.next = n /\ e.back = proc[p].back
  BY <1>1, <1>2 DEF Entry
<1>4. Moves(p, e)
  BY <1>1, <1>2, <1>3 DEF Moves
<1>5. QED
  BY <1>3, <1>4 DEF Became

\* The record of a completion is in its state after it is scheduled or flushed.
LEMMA RecPlanningThen ==
  ASSUME NEW q \in Seq(Object), NEW o \in 1..Len(q), NEW rec \in Record, NEW q2,
         q2 = NoPlanning(q, o, rec)
  PROVE  /\ Wrote(q, Scheduled(q2, o, rec), o, rec, q[o].cancel, q[o].stream)
         /\ Wrote(q, Flushed(q2, o), o, rec, q[o].cancel, q[o].stream)
<1>1. Wrote(q, q2, o, rec, q[o].cancel, q[o].stream)
  BY RecPlanningSet DEF NoPlanning
<1>2. q2 \in Seq(Object) /\ o \in 1..Len(q2) /\ q2[o].rec = rec /\ q2[o].cancel = q[o].cancel /\ q2[o].stream = q[o].stream
  BY <1>1 DEF Wrote
<1>3. Wrote(q2, Flushed(q2, o), o, rec, q[o].cancel, q[o].stream)
  BY <1>2, FlushedDoes
<1>4. Wrote(q2, Scheduled(q2, o, rec), o, rec, q[o].cancel, q[o].stream)
  BY <1>2, ScheduledDoes
<1>5. QED
  BY <1>1, <1>3, <1>4, Then

\* The record a completion leaves: a cancelled research stays cancelled.
LEMMA CompletedRecordIs ==
  ASSUME Inv, NEW r \in Runs, Reads(r), proc[r].next = Chunks + 1, NEW o, o = proc[r].o, NEW outcome \in Outcomes,
         NEW rec, rec = Completion(r, o, outcome)
  PROVE  /\ rec \in Rec(Begun) /\ rec.store = obj[o].rec.store
         /\ rec.status = "cancelled" => obj[o].cancel \/ obj[o].rec.status = "cancelled"
         /\ obj[o].rec.status = "cancelled" => rec.status = "cancelled"
         /\ ~putBack => Sound(rec)
<1>1. Typed /\ Begun \in Nat
  BY TypedNats DEF Inv
<1>2. PICK sn, a : sn = Seen(r) /\ a = proc[r].at
  OBVIOUS
<1>3. /\ sn \in Rec(Begun) /\ sn.status = obj[o].rec.status /\ sn.text = obj[o].rec.text
      /\ sn.last = <<a, Chunks + 1>> /\ sn.last[2] = Chunks + 1 /\ sn.plan = obj[o].rec.plan
      /\ sn.store = obj[o].rec.store /\ sn.inter = obj[o].rec.inter
  BY <1>1, <1>2, SeenIs, Reading
<1>4. /\ a \in 1..Begun /\ a \in Nat /\ Begun <= MaxRuns /\ proc[r].pc = "read" /\ Mid(proc[r]) /\ On(proc[r])
      /\ r \in Procs
  BY <1>1, <1>2, Reading, RunsAre
<1>5. /\ obj[o] \in Object
  BY <1>1, <1>4, RunIs
<1>6. ASSUME ~putBack
      PROVE  /\ ~obj[o].rec.plan
             /\ ~obj[o].cancel => obj[o].rec.text = TextUpTo(<<a, Chunks>>)
  <2>1. Coupled(proc[r], obj[o])
    BY <1>4, <1>6, SoundNow
  <2>2. proc[r].next # 0 /\ proc[r].next - 1 = Chunks
    BY Bounds
  <2>3. ~obj[o].cancel => obj[o].rec.text = TextUpTo(<<proc[r].at, proc[r].next - 1>>)
    BY <1>4, <2>1, <2>2 DEF Coupled
  <2>4. QED
    BY <1>2, <2>1, <2>2, <2>3 DEF Coupled
<1>7. CASE CancelledBefore(o)
  <2>1. PICK st \in Status : st = "cancelled"
    BY DEF Status
  <2>2. rec = [sn EXCEPT !.status = st]
    BY <1>2, <1>7, <2>1 DEF Completion
  <2>3. /\ rec \in Rec(Begun) /\ rec.status = st /\ rec.text = sn.text /\ rec.last = sn.last /\ rec.plan = sn.plan
        /\ rec.store = sn.store /\ rec.inter = sn.inter
    <3>1. sn \in Rec(Begun)
      BY <1>3
    <3>2. QED
      BY <1>1, <2>2, <3>1, StatusSet
  <2>4. obj[o].cancel \/ obj[o].rec.status = "cancelled"
    BY <1>7 DEF CancelledBefore, Cancelled
  <2>5. ~putBack => Sound(rec)
    BY <1>3, <1>6, <2>1, <2>3 DEF Sound
  <2>6. QED
    BY <1>3, <2>1, <2>3, <2>4, <2>5
<1>8. CASE ~CancelledBefore(o)
  <2>1. ~obj[o].cancel /\ obj[o].rec.status # "cancelled"
    BY <1>8 DEF CancelledBefore, Cancelled
  <2>2. PICK b : b = (sn.plan \/ (obj[o].planning /\ outcome = "completed"))
    OBVIOUS
  <2>3. b \in BOOLEAN
    BY <2>2
  <2>4. rec = WithPlan(sn, outcome, a, b)
    BY <1>2, <1>8, <2>2 DEF Completion, CompletedRecord, WithPlan
  <2>5. outcome \in Status /\ outcome \in {"completed", "failed"}
    BY DEF Outcomes, Status
  <2>6. /\ rec \in Rec(Begun) /\ rec.status = outcome /\ rec.text = sn.text /\ rec.last = sn.last /\ (rec.plan <=> b)
        /\ rec.store = sn.store /\ rec.inter = a
    <3>1. sn \in Rec(Begun)
      BY <1>3
    <3>2. QED
      BY <1>1, <1>4, <2>3, <2>4, <2>5, <3>1, CompletedSet
  <2>7. ASSUME ~putBack PROVE Sound(rec)
    <3>1. 0 \in 0..Chunks + 1
      BY Bounds
    <3>2. TextUpTo(<<a, Chunks + 1>>) = TextUpTo(<<a, Chunks>>)
      BY <1>4, <3>1, TextIs
    <3>3. rec.text = TextUpTo(rec.last)
      BY <1>3, <1>6, <2>1, <2>6, <2>7, <3>2
    <3>4. Chunks + 1 \notin 1..Chunks
      BY Bounds
    <3>5. QED
      BY <1>3, <2>5, <2>6, <3>3, <3>4 DEF Sound, Terminal
  <2>8. QED
    BY <1>3, <2>1, <2>5, <2>6, <2>7
<1>9. QED
  BY <1>7, <1>8

\* CompleteEvent preserves the invariant.
LEMMA CompleteEventKeeps ==
  ASSUME Inv, NEW r \in Runs, CompleteEvent(r)
  PROVE  Inv' /\ StaysCancelled
<1>1. /\ Reads(r) /\ proc[r].next = Chunks + 1 /\ db' = db /\ view' = view
      /\ cur' = cur /\ sub' = sub /\ store' = store /\ init' = init
      /\ runs' = runs /\ restarts' = restarts /\ putBack' = putBack /\ spent' = spent /\ late' = late
  BY DEF CompleteEvent, boundVars, clientVars
<1>2. PICK o, c, s : o = proc[r].o /\ c = obj[o].cancel /\ s = obj[o].stream
  OBVIOUS
<1>3. Typed /\ Begun \in Nat
  BY TypedNats DEF Inv
<1>4. /\ proc[r].pc = "read" /\ On(proc[r]) /\ Mid(proc[r])
  BY <1>1, <1>3, Reading
<1>5. /\ r \in Procs /\ o \in 1..Len(obj) /\ obj[o] \in Object /\ obj[o].rec \in Rec(Begun) /\ obj \in Seq(Object)
      /\ proc[r].op # "start" /\ proc[r].rec \in RecOr(Begun) /\ proc[r].w \in RecOr(Begun)
  BY <1>2, <1>3, <1>4, RunIs
<1>6. PICK rec, e, pc, w, op :
        /\ rec \in Rec(Begun) /\ rec.store = obj[o].rec.store
        /\ rec.status = "cancelled" => obj[o].cancel \/ obj[o].rec.status = "cancelled"
        /\ obj[o].rec.status = "cancelled" => rec.status = "cancelled"
        /\ ~putBack => Sound(rec)
        /\ Wrote(obj, obj', o, rec, c, s)
        /\ Became(r, e, pc, w, Chunks + 2, op) /\ op \in {"settled", "none"}
        /\ \/ pc = "dropFirst" /\ w = proc[r].w
           \/ pc = "completing" /\ w = rec
  <2>1. PICK outcome \in Outcomes :
          LET rec == IF CancelledBefore(o) THEN [Seen(r) EXCEPT !.status = "cancelled"]
                     ELSE CompletedRecord(r, outcome)
              objs == [obj EXCEPT ![o].rec = rec, ![o].planning = FALSE]
              entry == [proc[r] EXCEPT !.next = Chunks + 2,
                                       !.op = IF Settled(rec) \/ CancelledBefore(o) THEN "settled" ELSE "none"]
          IN IF ~CancelledBefore(o) /\ Settled(rec) /\ rec.store
               THEN /\ obj' = Scheduled(objs, o, rec)
                    /\ proc' = [proc EXCEPT ![r] = [entry EXCEPT !.pc = "dropFirst"]]
               ELSE /\ obj' = Flushed(objs, o)
                    /\ proc' = [proc EXCEPT ![r] = [entry EXCEPT !.pc = "completing", !.w = rec]]
    BY <1>2, ZenonT(40) DEF CompleteEvent
  <2>2. PICK rec : rec = Completion(r, o, outcome)
    OBVIOUS
  <2>3. PICK q2 : q2 = NoPlanning(obj, o, rec)
    OBVIOUS
  <2>4. PICK op \in Operations : op \in {"settled", "none"}
                                 /\ op = IF Settled(rec) \/ CancelledBefore(o) THEN "settled" ELSE "none"
    BY DEF Operations
  <2>5. PICK n \in 0..Chunks + 2 : n = Chunks + 2
    BY Bounds
  <2>6. IF ~CancelledBefore(o) /\ Settled(rec) /\ rec.store
          THEN /\ obj' = Scheduled(q2, o, rec)
               /\ proc' = [proc EXCEPT ![r] = [[proc[r] EXCEPT !.next = n, !.op = op] EXCEPT !.pc = "dropFirst"]]
          ELSE /\ obj' = Flushed(q2, o)
               /\ proc' = [proc EXCEPT ![r] = [[proc[r] EXCEPT !.next = n, !.op = op] EXCEPT !.pc = "completing", !.w = rec]]
    BY <2>1, <2>2, <2>3, <2>4, <2>5, Zenon DEF Completion, NoPlanning
  <2>7. /\ rec \in Rec(Begun) /\ rec.store = obj[o].rec.store
        /\ rec.status = "cancelled" => obj[o].cancel \/ obj[o].rec.status = "cancelled"
        /\ obj[o].rec.status = "cancelled" => rec.status = "cancelled"
        /\ ~putBack => Sound(rec)
    BY <1>1, <1>2, <2>2, CompletedRecordIs
  <2>8. Wrote(obj, obj', o, rec, c, s)
    BY <1>2, <1>5, <2>3, <2>6, <2>7, RecPlanningThen, RecIsRecord
  <2>9. \E e, pc, w : /\ Became(r, e, pc, w, n, op)
                      /\ \/ pc = "dropFirst" /\ w = proc[r].w
                         \/ pc = "completing" /\ w = rec
    <3>1. CASE ~CancelledBefore(o) /\ Settled(rec) /\ rec.store
      <4>1. PICK pc \in PCs : pc = "dropFirst"
        BY DEF PCs
      <4>2. proc' = [proc EXCEPT ![r] = [[proc[r] EXCEPT !.next = n, !.op = op] EXCEPT !.pc = pc]]
        BY <2>6, <3>1, <4>1
      <4>3. \E e : Became(r, e, pc, proc[r].w, n, op)
        BY <1>3, <1>5, <4>2, DropFirstMoves
      <4>4. QED
        BY <4>1, <4>3
    <3>2. CASE ~(~CancelledBefore(o) /\ Settled(rec) /\ rec.store)
      <4>1. PICK pc \in PCs : pc = "completing"
        BY DEF PCs
      <4>2. proc' = [proc EXCEPT ![r] = [[proc[r] EXCEPT !.next = n, !.op = op] EXCEPT !.pc = pc, !.w = rec]]
        BY <2>6, <3>2, <4>1
      <4>3. \E e : Became(r, e, pc, rec, n, op)
        BY <1>3, <1>5, <2>7, <4>2, RecIsRecord, CompletingMoves
      <4>4. QED
        BY <4>1, <4>3
    <3>3. QED
      BY <3>1, <3>2
  <2>10. QED
    BY <2>4, <2>5, <2>7, <2>8, <2>9, SMTT(40)
<1>. USE DEF Became
<1>7. /\ e.pc \in RunPCs /\ e.pc \notin Dropping /\ e.pc # "prepare" /\ e.pc \in FlushPCs /\ ~Mid(e)
  BY <1>6 DEF RunPCs, Working, Dropping, FlushPCs, Mid
<1>8. /\ Rec(Begun) \subseteq Rec(Begun') /\ RecOr(Begun) \subseteq RecOr(Begun')
  BY <1>1, <1>3, <1>6, <1>7, BegunGrows
<1>9. rec \in RecOr(Begun) /\ rec # NoRecord
  BY <1>6, RecIsOr
<1>10. obj[o].rec.status = "cancelled" => c \/ putBack
  BY <1>2, <1>4 DEF Inv, Asked
<1>11. RunTypes(r, e, o, rec, c, s)
  BY <1>1, <1>2, <1>4, <1>5, <1>6, <1>7, <1>8, <1>9, StoreKept DEF RunTypes, Writing
<1>12. RunShows(r, e, o, rec, c)
  BY <1>1, <1>2, <1>4, <1>6, <1>7 DEF RunShows
<1>13. RunKeeps(r, e, o, rec, c)
  <2>1. ASSUME ~putBack
        PROVE  Sound(rec) /\ SoundOr(e.rec) /\ SoundOr(e.w)
    BY <1>5, <1>6, <2>1, SoundNow DEF SoundOr
  <2>2. restarts = 0 /\ ~putBack /\ store' => \/ o = cur' /\ rec.store
                                              \/ store /\ cur' = cur /\ o # cur
    BY <1>1, <1>6, StoreStays
  <2>3. QED
    BY <1>1, <1>4, <1>7, <2>1, <2>2 DEF RunKeeps, Dropping
<1>14. QED
  BY <1>11, <1>12, <1>13, RunMove

\* RunFails preserves the invariant.
LEMMA RunFailsKeeps ==
  ASSUME Inv, NEW r \in Runs, RunFails(r)
  PROVE  Inv' /\ StaysCancelled
<1>1. /\ proc[r].pc \in {"prepare", "create", "read"} /\ db' = db /\ view' = view
      /\ cur' = cur /\ sub' = sub /\ store' = store /\ init' = init
      /\ runs' = runs /\ restarts' = restarts /\ putBack' = putBack /\ spent' = spent /\ late' = late
  BY DEF RunFails, boundVars, clientVars
<1>2. PICK o, c, s : o = proc[r].o /\ c = obj[o].cancel /\ s = obj[o].stream
  OBVIOUS
<1>3. Typed /\ Begun \in Nat
  BY TypedNats DEF Inv
<1>4. /\ r \in Procs /\ o \in 1..Len(obj) /\ obj[o] \in Object /\ obj[o].rec \in Rec(Begun) /\ obj \in Seq(Object)
      /\ proc[r].op # "start" /\ proc[r].rec \in RecOr(Begun)
  BY <1>1, <1>2, <1>3, RunIs
<1>5. PICK st \in Status : st \in {"cancelled", "failed"} /\ (st = "cancelled" <=> c)
                           /\ st = IF obj[o].cancel THEN "cancelled" ELSE "failed"
  BY <1>2 DEF Status
<1>6. PICK rec : rec = [obj[o].rec EXCEPT !.status = st]
  OBVIOUS
<1>7. /\ rec \in Rec(Begun) /\ rec.status = st /\ rec.text = obj[o].rec.text /\ rec.last = obj[o].rec.last
      /\ rec.plan = obj[o].rec.plan /\ rec.store = obj[o].rec.store /\ rec.inter = obj[o].rec.inter
  BY <1>3, <1>4, <1>6, StatusSet
<1>8. obj' = Flushed(Patched(obj, o, rec), o) /\ proc' = [proc EXCEPT ![r].pc = "failing", ![r].w = rec]
  BY <1>2, <1>5, <1>6 DEF RunFails
<1>9. Wrote(obj, obj', o, rec, c, s)
  BY <1>2, <1>4, <1>7, <1>8, PutDoes, RecIsRecord
<1>10. PICK e, pc : Became(r, e, pc, rec, proc[r].next, proc[r].op) /\ pc = "failing"
  <2>1. PICK pc \in PCs : pc = "failing"
    BY DEF PCs
  <2>2. proc' = [proc EXCEPT ![r].pc = pc, ![r].w = rec]
    BY <1>8, <2>1
  <2>3. \E e : Became(r, e, pc, rec, proc[r].next, proc[r].op)
    BY <1>3, <1>4, <1>7, <2>2, RecIsRecord, PcWriteMoves
  <2>4. QED
    BY <2>1, <2>3
<1>. USE DEF Became
<1>11. /\ Rec(Begun) \subseteq Rec(Begun') /\ RecOr(Begun) \subseteq RecOr(Begun')
  BY <1>1, <1>3, <1>10, BegunGrows
<1>12. /\ e.pc \in RunPCs /\ e.pc \notin Dropping /\ e.pc \in FlushPCs /\ ~Mid(e) /\ ~On(e) /\ On(proc[r])
  BY <1>1, <1>10 DEF RunPCs, Dropping, FlushPCs, Mid, On, Working
<1>13. rec \in RecOr(Begun) /\ rec # NoRecord
  BY <1>7, RecIsOr
<1>14. obj[o].rec.status = "cancelled" => c \/ putBack
  BY <1>2, <1>12 DEF Inv, Asked
<1>15. RunTypes(r, e, o, rec, c, s)
  BY <1>1, <1>2, <1>4, <1>7, <1>9, <1>10, <1>11, <1>12, <1>13, StoreKept DEF RunTypes, Over
<1>16. RunShows(r, e, o, rec, c)
  BY <1>1, <1>2, <1>5, <1>7, <1>10, <1>12, <1>14 DEF RunShows
<1>17. RunKeeps(r, e, o, rec, c)
  <2>1. ASSUME ~putBack
        PROVE  Sound(rec) /\ SoundOr(e.rec) /\ SoundOr(e.w)
    <3>1. Sound(obj[o].rec) /\ SoundOr(proc[r].rec)
      BY <1>4, <2>1, SoundNow
    <3>2. Sound(rec)
      BY <1>5, <1>7, <1>14, <2>1, <3>1 DEF Sound, Terminal
    <3>3. QED
      BY <1>10, <3>1, <3>2 DEF SoundOr
  <2>2. restarts = 0 /\ ~putBack /\ store' => \/ o = cur' /\ rec.store
                                              \/ store /\ cur' = cur /\ o # cur
    BY <1>1, <1>7, StoreStays
  <2>3. Alike(obj[o], rec, c)
    BY <1>2, <1>5, <1>7 DEF Alike
  <2>4. QED
    BY <1>1, <1>10, <1>12, <2>1, <2>2, <2>3 DEF RunKeeps, Dropping
<1>18. QED
  BY <1>15, <1>16, <1>17, RunMove

\* CompleteDropped preserves the invariant.
LEMMA CompleteDroppedKeeps ==
  ASSUME Inv, NEW r \in Runs, CompleteDropped(r)
  PROVE  Inv' /\ StaysCancelled
<1>1. /\ proc[r].pc = "dropFirst" /\ db' = db /\ view' = view
      /\ cur' = cur /\ sub' = sub /\ store' = FALSE /\ init' = init
      /\ runs' = runs /\ restarts' = restarts /\ putBack' = putBack /\ spent' = spent /\ late' = late
  BY DEF CompleteDropped, boundVars, clientVars
<1>2. PICK o, c, s : o = proc[r].o /\ c = obj[o].cancel /\ s = obj[o].stream
  OBVIOUS
<1>3. Typed /\ Begun \in Nat
  BY TypedNats DEF Inv
<1>4. /\ r \in Procs /\ o \in 1..Len(obj) /\ obj[o] \in Object /\ obj[o].rec \in Rec(Begun) /\ obj \in Seq(Object)
      /\ proc[r].op # "start" /\ proc[r].rec \in RecOr(Begun)
  BY <1>1, <1>2, <1>3, RunIs
<1>5. proc[r].next = Chunks + 2
  BY <1>1, <1>3, <1>4 DEF Typed, Entries, EntryOK, Shaped, Over
<1>6. PICK b \in BOOLEAN : b = FALSE
  OBVIOUS
<1>7. PICK rec : rec = [obj[o].rec EXCEPT !.store = b]
  OBVIOUS
<1>8. /\ rec \in Rec(Begun) /\ rec.status = obj[o].rec.status /\ rec.text = obj[o].rec.text
      /\ rec.last = obj[o].rec.last /\ rec.plan = obj[o].rec.plan /\ rec.inter = obj[o].rec.inter
  BY <1>6, <1>3, <1>4, <1>7, StoreSet, SMTT(40)
<1>9. obj' = Flushed(Patched(obj, o, rec), o) /\ proc' = [proc EXCEPT ![r].pc = "completing", ![r].w = rec]
  BY <1>6, <1>2, <1>7 DEF CompleteDropped
<1>10. Wrote(obj, obj', o, rec, c, s)
  BY <1>2, <1>4, <1>8, <1>9, PutDoes, RecIsRecord
<1>11. PICK e, pc : Became(r, e, pc, rec, proc[r].next, proc[r].op) /\ pc = "completing"
  <2>1. PICK pc \in PCs : pc = "completing"
    BY DEF PCs
  <2>2. proc' = [proc EXCEPT ![r].pc = pc, ![r].w = rec]
    BY <1>9, <2>1
  <2>3. \E e : Became(r, e, pc, rec, proc[r].next, proc[r].op)
    BY <1>3, <1>4, <1>8, <2>2, RecIsRecord, PcWriteMoves
  <2>4. QED
    BY <2>1, <2>3
<1>. USE DEF Became
<1>12. /\ Rec(Begun) \subseteq Rec(Begun') /\ RecOr(Begun) \subseteq RecOr(Begun')
  BY <1>1, <1>3, <1>11, BegunGrows
<1>13. /\ e.pc \in RunPCs /\ e.pc \notin Dropping /\ e.pc \in FlushPCs /\ ~Mid(e) /\ On(proc[r])
  BY <1>1, <1>11 DEF RunPCs, Dropping, FlushPCs, Mid, On, Working
<1>14. rec \in RecOr(Begun) /\ rec # NoRecord
  BY <1>8, RecIsOr
<1>15. RunTypes(r, e, o, rec, c, s)
  BY <1>1, <1>2, <1>4, <1>5, <1>8, <1>10, <1>11, <1>12, <1>13, <1>14 DEF RunTypes, Over
<1>16. RunShows(r, e, o, rec, c)
  BY <1>1, <1>2, <1>8, <1>11, <1>13 DEF RunShows
<1>17. RunKeeps(r, e, o, rec, c)
  <2>1. ASSUME ~putBack
        PROVE  Sound(rec) /\ SoundOr(e.rec) /\ SoundOr(e.w)
    <3>1. Sound(obj[o].rec) /\ SoundOr(proc[r].rec)
      BY <1>4, <2>1, SoundNow
    <3>2. Sound(rec)
      BY <1>8, <3>1 DEF Sound
    <3>3. QED
      BY <1>11, <3>1, <3>2 DEF SoundOr
  <2>2. Alike(obj[o], rec, c)
    BY <1>2, <1>8 DEF Alike
  <2>3. QED
    BY <1>1, <1>11, <1>13, <2>1, <2>2 DEF RunKeeps, Dropping
<1>18. QED
  BY <1>15, <1>16, <1>17, RunMove

\* StoreDropped of a run preserves the invariant.
LEMMA RunStoreDroppedKeeps ==
  ASSUME Inv, NEW r \in Runs, StoreDropped(r)
  PROVE  Inv' /\ StaysCancelled
<1>1. /\ proc[r].pc = "dropping" /\ db' = db /\ view' = view
      /\ cur' = cur /\ sub' = sub /\ store' = FALSE /\ init' = init
      /\ runs' = runs /\ restarts' = restarts /\ putBack' = putBack /\ spent' = spent /\ late' = late
  BY DEF StoreDropped, boundVars, clientVars
<1>2. PICK o, c, s : o = proc[r].o /\ c = obj[o].cancel /\ s = obj[o].stream
  OBVIOUS
<1>3. Typed /\ Begun \in Nat
  BY TypedNats DEF Inv
<1>4. /\ r \in Procs /\ o \in 1..Len(obj) /\ obj[o] \in Object /\ obj[o].rec \in Rec(Begun) /\ obj \in Seq(Object)
      /\ proc[r].op # "start" /\ proc[r].rec \in RecOr(Begun)
  BY <1>1, <1>2, <1>3, RunIs
<1>5. proc[r].back = "read" => proc[r].next = Chunks + 2
  BY <1>1, <1>3, <1>4, SMTT(40) DEF Typed, Entries, EntryOK, Shaped, Over, Dropping
<1>6. PICK b \in BOOLEAN : b = FALSE
  OBVIOUS
<1>7. PICK rec : rec = [obj[o].rec EXCEPT !.store = b]
  OBVIOUS
<1>8. /\ rec \in Rec(Begun) /\ rec.status = obj[o].rec.status /\ rec.text = obj[o].rec.text
      /\ rec.last = obj[o].rec.last /\ rec.plan = obj[o].rec.plan /\ rec.inter = obj[o].rec.inter
  BY <1>6, <1>3, <1>4, <1>7, StoreSet
<1>9. obj' = Patched(obj, o, rec) /\ proc' = [proc EXCEPT ![r].pc = "dropped", ![r].w = rec]
  BY <1>6, <1>2, <1>7 DEF StoreDropped
<1>10. Wrote(obj, obj', o, rec, c, s)
  BY <1>2, <1>4, <1>8, <1>9, PatchedDoes, RecIsRecord
<1>11. PICK e, pc : Became(r, e, pc, rec, proc[r].next, proc[r].op) /\ pc = "dropped"
  <2>1. PICK pc \in PCs : pc = "dropped"
    BY DEF PCs
  <2>2. proc' = [proc EXCEPT ![r].pc = pc, ![r].w = rec]
    BY <1>9, <2>1
  <2>3. \E e : Became(r, e, pc, rec, proc[r].next, proc[r].op)
    BY <1>3, <1>4, <1>8, <2>2, RecIsRecord, PcWriteMoves
  <2>4. QED
    BY <2>1, <2>3
<1>. USE DEF Became
<1>12. /\ Rec(Begun) \subseteq Rec(Begun') /\ RecOr(Begun) \subseteq RecOr(Begun')
  BY <1>1, <1>3, <1>11, BegunGrows
<1>13. /\ e.pc \in RunPCs /\ proc[r].pc \in Dropping /\ e.pc \in FlushPCs /\ ~Mid(e) /\ (On(e) => On(proc[r]))
  BY <1>1, <1>11 DEF RunPCs, Dropping, FlushPCs, Mid, On, Working
<1>14. rec \in RecOr(Begun) /\ rec # NoRecord
  BY <1>8, RecIsOr
<1>15. RunTypes(r, e, o, rec, c, s)
  BY <1>1, <1>2, <1>4, <1>5, <1>8, <1>10, <1>11, <1>12, <1>13, <1>14 DEF RunTypes, Over
<1>16. RunShows(r, e, o, rec, c)
  BY <1>1, <1>2, <1>8, <1>11, <1>13 DEF RunShows
<1>17. RunKeeps(r, e, o, rec, c)
  <2>1. ASSUME ~putBack
        PROVE  Sound(rec) /\ SoundOr(e.rec) /\ SoundOr(e.w)
    <3>1. Sound(obj[o].rec) /\ SoundOr(proc[r].rec)
      BY <1>4, <2>1, SoundNow
    <3>2. Sound(rec)
      BY <1>8, <3>1 DEF Sound
    <3>3. QED
      BY <1>11, <3>1, <3>2 DEF SoundOr
  <2>2. Alike(obj[o], rec, c)
    BY <1>2, <1>8 DEF Alike
  <2>3. QED
    BY <1>1, <1>11, <1>13, <2>1, <2>2 DEF RunKeeps, Dropping
<1>18. QED
  BY <1>15, <1>16, <1>17, RunMove

\* When the files are prepared the first interaction has begun, on the state in the map.
LEMMA Prepared ==
  ASSUME Inv, NEW r \in Runs, proc[r].pc = "prepare", NEW e, Moves(r, e), e.pc # "prepare", runs' = runs
  PROVE  Begun' = 1 /\ proc[r].o = cur /\ cur \in 1..Len(obj) /\ restarts = 0 /\ Begun = 0
<1>1. Typed /\ Stores /\ r \in Procs
  BY RunsAre DEF Inv
<1>2. /\ proc'[r] = e /\ (\A q \in Procs : q # r => proc'[q] = proc[q]) /\ Runs \subseteq Procs
  BY <1>1, Moved, RunsAre
<1>3. \A q \in Runs : proc[q].pc = "prepare" => runs = 1 /\ q = 1 /\ restarts = 0
  BY <1>1, <1>2 DEF Typed, Entries, EntryOK, Timed
<1>4. ~Preparing'
  BY <1>2, <1>3 DEF Preparing
<1>5. Begun' = 1
  BY <1>3, <1>4 DEF Begun
<1>6. proc[r].o = cur
  BY <1>1 DEF Stores
<1>7. proc[r].o \in 1..Len(obj)
  BY <1>1, RunIs
<1>8. Begun = 0
  BY <1>1, TypedNats
<1>9. QED
  BY <1>3, <1>5, <1>6, <1>7, <1>8

\* FilesPrepared of a research that is not cancelled preserves the invariant.
LEMMA FilesReadyKeeps ==
  ASSUME Inv, NEW r \in Runs, FilesPrepared(r), ~Cancelled(proc[r].o)
  PROVE  Inv' /\ StaysCancelled
<1>1. /\ proc[r].pc = "prepare" /\ db' = db /\ view' = view
      /\ cur' = cur /\ sub' = sub /\ store' = TRUE /\ init' = init
      /\ runs' = runs /\ restarts' = restarts /\ putBack' = putBack /\ spent' = spent /\ late' = late
  BY DEF FilesPrepared, boundVars, clientVars
<1>2. PICK o, c, s : o = proc[r].o /\ c = obj[o].cancel /\ s = obj[o].stream
  OBVIOUS
<1>3. Typed /\ Begun \in Nat
  BY TypedNats DEF Inv
<1>4. /\ r \in Procs /\ o \in 1..Len(obj) /\ obj[o] \in Object /\ obj[o].rec \in Rec(Begun) /\ obj \in Seq(Object)
      /\ proc[r].op # "start" /\ proc[r].rec \in RecOr(Begun)
  BY <1>1, <1>2, <1>3, RunIs
<1>5. PICK b \in BOOLEAN : b = TRUE
  OBVIOUS
<1>6. PICK rec : rec = [obj[o].rec EXCEPT !.store = b]
  OBVIOUS
<1>7. obj' = Flushed(Patched(obj, o, rec), o) /\ proc' = [proc EXCEPT ![r].pc = "saveFiles", ![r].w = rec]
  BY <1>2, <1>5, <1>6 DEF FilesPrepared, WithStore
<1>8. obj[o].rec \in Rec(1) /\ 1 \in Nat /\ 1 # 0
  <2>1. Rec(Begun) \subseteq Rec(1)
    <3>1. Begun <= 1
      BY <1>1, <1>3, TypedNats
    <3>2. QED
      BY <1>3, <3>1, RecGrows
  <2>2. QED
    BY <1>4, <2>1
<1>9. /\ rec \in Rec(1) /\ rec.status = obj[o].rec.status /\ rec.text = obj[o].rec.text /\ (rec.store <=> b)
      /\ rec.last = obj[o].rec.last /\ rec.plan = obj[o].rec.plan /\ rec.inter = obj[o].rec.inter
  <2>1. PICK m \in Nat : m = 1
    OBVIOUS
  <2>2. obj[o].rec \in Rec(m) /\ m # 0
    BY <1>8, <2>1
  <2>3. /\ rec \in Rec(m) /\ rec.status = obj[o].rec.status /\ rec.text = obj[o].rec.text /\ rec.last = obj[o].rec.last
        /\ rec.plan = obj[o].rec.plan /\ rec.store = b /\ rec.inter = obj[o].rec.inter
    BY <1>6, <2>2, StoreSet
  <2>4. QED
    BY <2>1, <2>3
<1>10. Wrote(obj, obj', o, rec, c, s)
  BY <1>2, <1>4, <1>7, <1>9, PutDoes, RecIsRecord
<1>11. PICK e, pc : Became(r, e, pc, rec, proc[r].next, proc[r].op) /\ pc = "saveFiles"
  <2>1. PICK pc \in PCs : pc = "saveFiles"
    BY DEF PCs
  <2>2. proc' = [proc EXCEPT ![r].pc = pc, ![r].w = rec]
    BY <1>7, <2>1
  <2>3. \E e : Became(r, e, pc, rec, proc[r].next, proc[r].op)
    BY <1>3, <1>4, <1>9, <2>2, RecIsRecord, PcWriteMoves
  <2>4. QED
    BY <2>1, <2>3
<1>. USE DEF Became
<1>12. /\ Rec(Begun) \subseteq Rec(Begun') /\ RecOr(Begun) \subseteq RecOr(Begun')
  BY <1>1, <1>3, <1>11, BegunGrows
<1>13. rec \in Rec(Begun') /\ o = cur
  BY <1>1, <1>2, <1>9, <1>11, Prepared
<1>14. /\ e.pc \in RunPCs /\ e.pc \notin Dropping /\ e.pc \in FlushPCs /\ Mid(e) /\ Mid(proc[r]) /\ On(proc[r])
  BY <1>1, <1>11 DEF RunPCs, Dropping, FlushPCs, Mid, On, Working
<1>15. rec \in RecOr(Begun') /\ rec # NoRecord
  BY <1>13, RecIsOr
<1>16. RunTypes(r, e, o, rec, c, s)
  BY <1>1, <1>2, <1>4, <1>10, <1>11, <1>12, <1>13, <1>14, <1>15 DEF RunTypes, Over
<1>17. RunShows(r, e, o, rec, c)
  BY <1>1, <1>2, <1>9, <1>11, <1>14 DEF RunShows
<1>18. RunKeeps(r, e, o, rec, c)
  <2>1. ASSUME ~putBack
        PROVE  Sound(rec) /\ SoundOr(e.rec) /\ SoundOr(e.w) /\ Coupled(e, obj'[o])
    <3>1. Sound(obj[o].rec) /\ SoundOr(proc[r].rec) /\ Coupled(proc[r], obj[o])
      BY <1>2, <1>4, <1>14, <2>1, SoundNow
    <3>2. Sound(rec)
      BY <1>9, <3>1 DEF Sound
    <3>3. obj'[o].rec = rec /\ e.pc = "saveFiles"
      BY <1>10, <1>11 DEF Wrote
    <3>4. Coupled(e, obj'[o])
      BY <1>1, <1>9, <3>1, <3>3 DEF Coupled
    <3>5. QED
      BY <1>11, <3>1, <3>2, <3>4 DEF SoundOr
  <2>2. o = cur' /\ rec.store
    BY <1>1, <1>5, <1>9, <1>13
  <2>3. QED
    BY <1>1, <1>11, <1>14, <2>1, <2>2 DEF RunKeeps
<1>19. QED
  BY <1>16, <1>17, <1>18, RunMove

\* A step that sets where a run is and what it writes at once.
LEMMA BeginsMoves ==
  ASSUME Typed, NEW p \in Procs, NEW pc \in PCs, NEW w \in Record \cup {NoRecord},
         proc' = [proc EXCEPT ![p] = [proc[p] EXCEPT !.pc = pc, !.w = w]]
  PROVE  \E e : Became(p, e, pc, w, proc[p].next, proc[p].op)
<1>1. proc[p] \in Entry /\ proc \in [Procs -> Entry]
  BY DEF Typed, Entries
<1>2. PICK e : e = [proc[p] EXCEPT !.pc = pc, !.w = w]
  OBVIOUS
<1>3. /\ e \in Entry /\ e.pc = pc /\ e.o = proc[p].o /\ e.op = proc[p].op /\ e.rec = proc[p].rec
      /\ e.w = w /\ e.at = proc[p].at /\ e.next = proc[p].next /\ e.back = proc[p].back
  BY <1>1, <1>2 DEF Entry
<1>4. Moves(p, e)
  BY <1>1, <1>2, <1>3 DEF Moves
<1>5. QED
  BY <1>3, <1>4 DEF Became

\* FilesSaved of a research that is not cancelled preserves the invariant.
LEMMA RunBeginsKeeps ==
  ASSUME Inv, NEW r \in Runs, FilesSaved(r), ~Cancelled(proc[r].o)
  PROVE  Inv' /\ StaysCancelled
<1>1. /\ proc[r].pc = "saveFiles" /\ db' = proc[r].w
      /\ view' = IF sub = proc[r].o THEN Shown(obj[proc[r].o].rec) ELSE view
      /\ cur' = cur /\ sub' = sub /\ store' = store /\ init' = init
      /\ runs' = runs /\ restarts' = restarts /\ putBack' = putBack /\ spent' = spent /\ late' = late
  BY DEF FilesSaved, Lands, Told, boundVars
<1>2. PICK o, c, s : o = proc[r].o /\ c = obj[o].cancel /\ s = obj[o].stream
  OBVIOUS
<1>3. Typed /\ Begun \in Nat
  BY TypedNats DEF Inv
<1>4. /\ r \in Procs /\ o \in 1..Len(obj) /\ obj[o] \in Object /\ obj[o].rec \in Rec(Begun) /\ obj \in Seq(Object)
      /\ proc[r].op # "start" /\ proc[r].rec \in RecOr(Begun)
  BY <1>1, <1>2, <1>3, RunIs
<1>5. PICK st \in Status : st = "running"
  BY DEF Status
<1>6. PICK rec : rec = [obj[o].rec EXCEPT !.status = st]
  OBVIOUS
<1>7. /\ rec \in Rec(Begun) /\ rec.status = st /\ rec.text = obj[o].rec.text /\ rec.last = obj[o].rec.last
      /\ rec.plan = obj[o].rec.plan /\ rec.store = obj[o].rec.store /\ rec.inter = obj[o].rec.inter
  BY <1>3, <1>4, <1>6, StatusSet
<1>8. obj' = BeganState(obj, o) /\ proc' = [proc EXCEPT ![r] = [proc[r] EXCEPT !.pc = "saveRun", !.w = rec]]
  BY <1>2, <1>5, <1>6 DEF FilesSaved, Begins
<1>9. Wrote(obj, obj', o, rec, c, s)
  <2>1. rec = [obj[o].rec EXCEPT !.status = "running"]
    BY <1>5, <1>6
  <2>2. QED
    BY <1>2, <1>3, <1>4, <1>8, <2>1, BeganDoes
<1>10. PICK e, pc : Became(r, e, pc, rec, proc[r].next, proc[r].op) /\ pc = "saveRun"
  <2>1. PICK pc \in PCs : pc = "saveRun"
    BY DEF PCs
  <2>2. proc' = [proc EXCEPT ![r] = [proc[r] EXCEPT !.pc = pc, !.w = rec]]
    BY <1>8, <2>1
  <2>3. \E e : Became(r, e, pc, rec, proc[r].next, proc[r].op)
    BY <1>3, <1>4, <1>7, <2>2, RecIsRecord, BeginsMoves
  <2>4. QED
    BY <2>1, <2>3
<1>. USE DEF Became
<1>11. /\ Rec(Begun) \subseteq Rec(Begun') /\ RecOr(Begun) \subseteq RecOr(Begun')
  BY <1>1, <1>3, <1>10, BegunGrows
<1>12. /\ e.pc \in RunPCs /\ e.pc \notin Dropping /\ e.pc \in FlushPCs /\ Mid(e) /\ Mid(proc[r]) /\ On(proc[r])
       /\ proc[r].pc \in Writing
  BY <1>1, <1>10 DEF RunPCs, Dropping, FlushPCs, Mid, On, Working, Writing
<1>13. rec \in RecOr(Begun) /\ rec # NoRecord
  BY <1>7, RecIsOr
<1>14. ~obj[o].cancel /\ obj[o].rec.status # "cancelled"
  BY <1>2 DEF Cancelled
<1>15. RunTypes(r, e, o, rec, c, s)
  BY <1>1, <1>2, <1>4, <1>7, <1>9, <1>10, <1>11, <1>12, <1>13, StoreKept DEF RunTypes, Over
<1>16. RunShows(r, e, o, rec, c)
  BY <1>1, <1>2, <1>5, <1>7, <1>10, <1>12, <1>14 DEF RunShows
<1>17. RunKeeps(r, e, o, rec, c)
  <2>1. ASSUME ~putBack
        PROVE  Sound(rec) /\ SoundOr(e.rec) /\ SoundOr(e.w) /\ Coupled(e, obj'[o])
    <3>1. Sound(obj[o].rec) /\ SoundOr(proc[r].rec) /\ Coupled(proc[r], obj[o])
      BY <1>2, <1>4, <1>12, <2>1, SoundNow
    <3>2. Sound(rec)
      BY <1>5, <1>7, <1>14, <3>1 DEF Sound, Coupled
    <3>3. obj'[o].rec = rec
      BY <1>9 DEF Wrote
    <3>4. Coupled(e, obj'[o])
      BY <1>1, <1>5, <1>7, <1>10, <3>1, <3>3 DEF Coupled
    <3>5. QED
      BY <1>10, <3>1, <3>2, <3>4 DEF SoundOr
  <2>2. restarts = 0 /\ ~putBack /\ store' => \/ o = cur' /\ rec.store
                                              \/ store /\ cur' = cur /\ o # cur
    BY <1>1, <1>7, StoreStays
  <2>3. QED
    BY <1>1, <1>10, <1>12, <2>1, <2>2 DEF RunKeeps
<1>18. QED
  BY <1>15, <1>16, <1>17, RunMove

\* A run that returns is over or is to clean up, and its stream is gone.
LEMMA ReturnDoes ==
  ASSUME Typed, NEW r \in Runs, NEW q \in Seq(Object), NEW o \in 1..Len(q), Return(r, q, o)
  PROVE  /\ \E e : Returned(r, e)
         /\ Wrote(q, obj', o, q[o].rec, q[o].cancel, FALSE)
<1>1. PICK left : left = [q EXCEPT ![o].stream = FALSE]
  OBVIOUS
<1>2. /\ obj' = left
      /\ proc' = [proc EXCEPT ![r] = IF r # 0 /\ Settled(left[o].rec) THEN [@ EXCEPT !.pc = "leaving"] ELSE Idle]
  BY <1>1 DEF Return
<1>3. Wrote(q, obj', o, q[o].rec, q[o].cancel, FALSE)
  <2>1. PICK s \in BOOLEAN : s = FALSE
    OBVIOUS
  <2>2. obj' = [q EXCEPT ![o].stream = s]
    BY <1>1, <1>2, <2>1
  <2>3. Wrote(q, obj', o, q[o].rec, q[o].cancel, s)
    BY <2>2, StreamSet
  <2>4. QED
    BY <2>1, <2>3
<1>4. r \in Procs /\ proc[r] \in Entry /\ proc \in [Procs -> Entry]
  BY RunsAre DEF Typed, Entries
<1>5. CASE r # 0 /\ Settled(left[o].rec)
  <2>1. PICK pc \in PCs : pc = "leaving"
    BY DEF PCs
  <2>2. PICK e : e = [proc[r] EXCEPT !.pc = pc]
    OBVIOUS
  <2>3. /\ e \in Entry /\ e.pc = pc /\ e.o = proc[r].o /\ e.op = proc[r].op /\ e.rec = proc[r].rec /\ e.w = proc[r].w
    BY <1>4, <2>2 DEF Entry
  <2>4. proc' = [proc EXCEPT ![r] = e]
    BY <1>2, <1>4, <1>5, <2>1, <2>2
  <2>5. Returned(r, e)
    BY <1>4, <2>1, <2>3, <2>4 DEF Returned, Moves
  <2>6. QED
    BY <1>3, <2>5
<1>6. CASE ~(r # 0 /\ Settled(left[o].rec))
  <2>1. PICK e : e = Idle
    OBVIOUS
  <2>2. proc' = [proc EXCEPT ![r] = e]
    BY <1>2, <1>6, <2>1
  <2>3. Returned(r, e)
    BY <1>4, <2>1, <2>2, IdleIs DEF Returned, Moves
  <2>4. QED
    BY <1>3, <2>3
<1>7. QED
  BY <1>5, <1>6

\* Return preserves the invariant.
LEMMA ReturnKeeps ==
  ASSUME Inv, NEW r \in Runs, proc[r].pc # "idle", NEW o, o = proc[r].o, NEW e, Returned(r, e), NEW rec, NEW c, NEW s,
         Wrote(obj, obj', o, rec, c, s), c = obj[o].cancel, rec \in Rec(Begun'),
         rec.status = obj[o].rec.status, rec.text = obj[o].rec.text, rec.last = obj[o].rec.last,
         rec.plan = obj[o].rec.plan, rec.inter = obj[o].rec.inter,
         Steady, cur' = cur, sub' = sub,
         db' = db \/ (proc[r].pc \in Writing /\ db' = proc[r].w),
         \/ view' = view /\ proc[r].pc \notin FlushPCs
         \/ view' = IF sub = o THEN Shown(rec) ELSE view,
         store' \in BOOLEAN, store' => store \/ proc[r].pc = "prepare",
         restarts = 0 /\ ~putBack /\ store' => \/ o = cur' /\ rec.store
                                               \/ store /\ cur' = cur /\ o # cur
  PROVE  Inv' /\ StaysCancelled
<1>1. Typed /\ Moves(r, e) /\ o \in 1..Len(obj) /\ proc[r].op # "start" /\ r \in Procs
      /\ proc[r].rec \in RecOr(Begun) /\ proc[r].w \in RecOr(Begun)
  BY RunIs DEF Inv, Returned
<1>2. e.pc \in {"idle", "leaving"} /\ e.op # "start" /\ ~On(e) /\ ~Mid(e) /\ ~Over(e) /\ e.pc \notin Writing
      /\ e.pc \notin Dropping /\ e.pc \in RunPCs /\ e.pc # "prepare"
  <2>1. e.pc \in {"idle", "leaving"} /\ e.op # "start"
    BY <1>1, IdleIs DEF Returned
  <2>2. QED
    BY <2>1 DEF On, Mid, Over, Working, Dropping, Writing, RunPCs
<1>3. /\ Rec(Begun) \subseteq Rec(Begun') /\ RecOr(Begun) \subseteq RecOr(Begun')
  BY <1>1, <1>2, BegunGrows DEF Steady
<1>4. e.rec \in RecOr(Begun') /\ e.w \in RecOr(Begun')
  <2>1. Idle.rec \in RecOr(Begun') /\ Idle.w \in RecOr(Begun')
    BY IdleIs DEF RecOr
  <2>2. QED
    BY <1>1, <1>3, <2>1 DEF Returned
<1>5. RunTypes(r, e, o, rec, c, s)
  BY <1>1, <1>2, <1>3, <1>4 DEF RunTypes, Returned, Steady
<1>6. obj[o].rec.status = rec.status /\ Shown(rec) = Shown(obj[o].rec)
  BY DEF Shown
<1>7. RunShows(r, e, o, rec, c)
  BY <1>1, <1>2, <1>6 DEF RunShows
<1>8. RunKeeps(r, e, o, rec, c)
  <2>1. ASSUME ~putBack
        PROVE  Sound(rec) /\ SoundOr(e.rec) /\ SoundOr(e.w)
    <3>1. Sound(obj[o].rec) /\ SoundOr(proc[r].rec) /\ SoundOr(proc[r].w)
      BY <1>1, <2>1, SoundNow, SMTT(40)
    <3>2. Sound(rec)
      BY <3>1 DEF Sound
    <3>3. SoundOr(Idle.rec) /\ SoundOr(Idle.w)
      BY IdleIs DEF SoundOr
    <3>4. QED
      BY <3>1, <3>2, <3>3 DEF Returned
  <2>2. Alike(obj[o], rec, c)
    BY DEF Alike
  <2>3. e.pc # "dropped"
    BY <1>2
  <2>4. QED
    BY <1>2, <2>1, <2>2, <2>3 DEF RunKeeps
<1>9. QED
  BY <1>5, <1>7, <1>8, RunMove

\* StreamEnds preserves the invariant.
LEMMA StreamEndsKeeps ==
  ASSUME Inv, NEW r \in Runs, StreamEnds(r)
  PROVE  Inv' /\ StaysCancelled
<1>1. /\ proc[r].pc = "read" /\ db' = db /\ view' = view
      /\ cur' = cur /\ sub' = sub /\ store' = store /\ init' = init
      /\ runs' = runs /\ restarts' = restarts /\ putBack' = putBack /\ spent' = spent /\ late' = late
  BY DEF StreamEnds, boundVars, clientVars
<1>2. PICK o, rec, c, s : o = proc[r].o /\ rec = obj[o].rec /\ c = obj[o].cancel /\ s = FALSE
  OBVIOUS
<1>3. Typed
  BY DEF Inv
<1>4. /\ o \in 1..Len(obj) /\ rec \in Rec(Begun) /\ obj \in Seq(Object)
  BY <1>1, <1>2, <1>3, RunIs
<1>5. PICK e : Returned(r, e) /\ Wrote(obj, obj', o, rec, c, s)
  <2>1. Return(r, obj, o)
    BY <1>2 DEF StreamEnds
  <2>2. QED
    BY <1>2, <1>3, <1>4, <2>1, ReturnDoes
<1>6. rec \in Rec(Begun')
  <2>1. Moves(r, e) /\ e.pc # "prepare"
    BY <1>5, IdleIs DEF Returned
  <2>2. QED
    BY <1>1, <1>3, <1>4, <2>1, BegunGrows
<1>7. proc[r].pc \notin FlushPCs /\ proc[r].pc # "idle" /\ Steady
  BY <1>1 DEF FlushPCs, Steady
<1>8. restarts = 0 /\ ~putBack /\ store' => \/ o = cur' /\ rec.store
                                            \/ store /\ cur' = cur /\ o # cur
  BY <1>1, <1>2, StoreStays
<1>9. QED
  BY <1>1, <1>2, <1>5, <1>6, <1>7, <1>8, StoreKept, ReturnKeeps

\* FailureSaved preserves the invariant.
LEMMA FailureSavedKeeps ==
  ASSUME Inv, NEW r \in Runs, FailureSaved(r)
  PROVE  Inv' /\ StaysCancelled
<1>1. /\ proc[r].pc = "failing" /\ db' = proc[r].w /\ view' = IF sub = proc[r].o THEN Shown(obj[proc[r].o].rec) ELSE view
      /\ cur' = cur /\ sub' = sub /\ store' = store /\ init' = init
      /\ runs' = runs /\ restarts' = restarts /\ putBack' = putBack /\ spent' = spent /\ late' = late
  BY DEF FailureSaved, Lands, Told, boundVars
<1>2. PICK o, rec, c, s : o = proc[r].o /\ rec = obj[o].rec /\ c = obj[o].cancel /\ s = FALSE
  OBVIOUS
<1>3. Typed
  BY DEF Inv
<1>4. /\ o \in 1..Len(obj) /\ rec \in Rec(Begun) /\ obj \in Seq(Object)
  BY <1>1, <1>2, <1>3, RunIs
<1>5. PICK e : Returned(r, e) /\ Wrote(obj, obj', o, rec, c, s)
  <2>1. Return(r, obj, o)
    BY <1>2 DEF FailureSaved
  <2>2. QED
    BY <1>2, <1>3, <1>4, <2>1, ReturnDoes
<1>6. rec \in Rec(Begun')
  <2>1. Moves(r, e) /\ e.pc # "prepare"
    BY <1>5, IdleIs DEF Returned
  <2>2. QED
    BY <1>1, <1>3, <1>4, <2>1, BegunGrows
<1>7. proc[r].pc \in Writing /\ proc[r].pc # "idle" /\ Steady
  BY <1>1 DEF Writing, Steady
<1>8. restarts = 0 /\ ~putBack /\ store' => \/ o = cur' /\ rec.store
                                            \/ store /\ cur' = cur /\ o # cur
  BY <1>1, <1>2, StoreStays
<1>9. QED
  BY <1>1, <1>2, <1>5, <1>6, <1>7, <1>8, StoreKept, ReturnKeeps

\* FilesSaved of a cancelled research preserves the invariant.
LEMMA FilesLeftKeeps ==
  ASSUME Inv, NEW r \in Runs, FilesSaved(r), Cancelled(proc[r].o)
  PROVE  Inv' /\ StaysCancelled
<1>1. /\ proc[r].pc = "saveFiles" /\ db' = proc[r].w /\ view' = IF sub = proc[r].o THEN Shown(obj[proc[r].o].rec) ELSE view
      /\ cur' = cur /\ sub' = sub /\ store' = store /\ init' = init
      /\ runs' = runs /\ restarts' = restarts /\ putBack' = putBack /\ spent' = spent /\ late' = late
  BY DEF FilesSaved, Lands, Told, boundVars
<1>2. PICK o, rec, c, s : o = proc[r].o /\ rec = obj[o].rec /\ c = obj[o].cancel /\ s = FALSE
  OBVIOUS
<1>3. Typed
  BY DEF Inv
<1>4. /\ o \in 1..Len(obj) /\ rec \in Rec(Begun) /\ obj \in Seq(Object)
  BY <1>1, <1>2, <1>3, RunIs
<1>5. PICK e : Returned(r, e) /\ Wrote(obj, obj', o, rec, c, s)
  <2>1. Return(r, obj, o)
    BY <1>2 DEF FilesSaved
  <2>2. QED
    BY <1>2, <1>3, <1>4, <2>1, ReturnDoes
<1>6. rec \in Rec(Begun')
  <2>1. Moves(r, e) /\ e.pc # "prepare"
    BY <1>5, IdleIs DEF Returned
  <2>2. QED
    BY <1>1, <1>3, <1>4, <2>1, BegunGrows
<1>7. proc[r].pc \in Writing /\ proc[r].pc # "idle" /\ Steady
  BY <1>1 DEF Writing, Steady
<1>8. restarts = 0 /\ ~putBack /\ store' => \/ o = cur' /\ rec.store
                                            \/ store /\ cur' = cur /\ o # cur
  BY <1>1, <1>2, StoreStays
<1>9. QED
  BY <1>1, <1>2, <1>5, <1>6, <1>7, <1>8, StoreKept, ReturnKeeps

\* FilesPrepared of a cancelled research preserves the invariant.
LEMMA FilesForgottenKeeps ==
  ASSUME Inv, NEW r \in Runs, FilesPrepared(r), Cancelled(proc[r].o)
  PROVE  Inv' /\ StaysCancelled
<1>1. /\ proc[r].pc = "prepare" /\ db' = db /\ view' = view
      /\ cur' = cur /\ sub' = sub /\ store' = TRUE /\ init' = init
      /\ runs' = runs /\ restarts' = restarts /\ putBack' = putBack /\ spent' = spent /\ late' = late
  BY DEF FilesPrepared, boundVars, clientVars
<1>2. PICK o, c, s : o = proc[r].o /\ c = obj[o].cancel /\ s = FALSE
  OBVIOUS
<1>3. Typed /\ Begun \in Nat
  BY TypedNats DEF Inv
<1>4. /\ o \in 1..Len(obj) /\ obj[o].rec \in Rec(Begun) /\ obj \in Seq(Object)
  BY <1>1, <1>2, <1>3, RunIs
<1>5. PICK b \in BOOLEAN : b = TRUE
  OBVIOUS
<1>6. PICK rec : rec = [obj[o].rec EXCEPT !.store = b]
  OBVIOUS
<1>7. PICK m \in Nat : m = 1
  OBVIOUS
<1>8. obj[o].rec \in Rec(m) /\ m # 0
  <2>1. Begun <= m
    BY <1>1, <1>3, <1>7, TypedNats
  <2>2. QED
    BY <1>3, <1>4, <1>7, <2>1, RecGrows
<1>9. /\ rec \in Rec(m) /\ rec.status = obj[o].rec.status /\ rec.text = obj[o].rec.text /\ rec.last = obj[o].rec.last
      /\ rec.plan = obj[o].rec.plan /\ rec.store = b /\ rec.inter = obj[o].rec.inter
  BY <1>6, <1>8, StoreSet
<1>10. PICK q : q = Patched(obj, o, rec)
  OBVIOUS
<1>11. Wrote(obj, q, o, rec, c, obj[o].stream)
  BY <1>2, <1>4, <1>9, <1>10, PatchedDoes, RecIsRecord
<1>12. q \in Seq(Object) /\ o \in 1..Len(q) /\ q[o].rec = rec /\ q[o].cancel = c
  BY <1>11 DEF Wrote
<1>13. PICK e : Returned(r, e) /\ Wrote(q, obj', o, rec, c, s)
  <2>1. Return(r, q, o)
    BY <1>2, <1>5, <1>6, <1>10 DEF FilesPrepared, WithStore
  <2>2. QED
    BY <1>2, <1>3, <1>12, <2>1, ReturnDoes
<1>14. Wrote(obj, obj', o, rec, c, s)
  BY <1>4, <1>11, <1>13, Then
<1>15. rec \in Rec(Begun') /\ o = cur
  <2>1. Moves(r, e) /\ e.pc # "prepare"
    BY <1>13, IdleIs DEF Returned
  <2>2. QED
    BY <1>1, <1>2, <1>7, <1>9, <2>1, Prepared
<1>16. proc[r].pc \notin FlushPCs /\ proc[r].pc # "idle" /\ Steady
  BY <1>1 DEF FlushPCs, Steady
<1>17. restarts = 0 /\ ~putBack /\ store' => \/ o = cur' /\ rec.store
                                             \/ store /\ cur' = cur /\ o # cur
  BY <1>1, <1>5, <1>9, <1>15
<1>18. store' \in BOOLEAN
  BY <1>1
<1>19. QED
  BY <1>1, <1>2, <1>9, <1>13, <1>14, <1>15, <1>16, <1>17, <1>18, ReturnKeeps

\* A clean-up with nothing to drop goes on with what is left to do.
LEMMA GoesOnIs ==
  ASSUME NEW p \in Procs, NEW entry \in Entry, entry.o = proc[p].o, entry.op # "start", entry.rec = proc[p].rec,
         entry.at = proc[p].at, entry.next = proc[p].next, NEW back \in {"idle", "read"},
         NEW e, e = GoesOn(entry, back), proc' = [proc EXCEPT ![p] = e]
  PROVE  Cleaned(p, e, back) /\ e.pc # "dropping" /\ e.pc = back
<1>1. CASE back = "idle"
  <2>1. e = Idle
    BY <1>1 DEF GoesOn
  <2>2. QED
    BY <1>1, <2>1, IdleIs DEF Cleaned, Moves
<1>2. CASE back = "read"
  <2>1. PICK pc \in PCs, bk \in {"idle", "read"}, w \in Record \cup {NoRecord} : pc = "read" /\ bk = "idle" /\ w = NoRecord
    BY DEF PCs
  <2>2. e = [entry EXCEPT !.pc = pc, !.back = bk, !.w = w]
    BY <1>2, <2>1 DEF GoesOn
  <2>3. /\ e \in Entry /\ e.pc = pc /\ e.o = proc[p].o /\ e.op # "start" /\ e.rec = proc[p].rec /\ e.w = w
        /\ e.at = proc[p].at /\ e.next = proc[p].next
    BY <2>2, ZenonT(40) DEF Entry
  <2>4. QED
    BY <1>2, <2>1, <2>3 DEF Cleaned, Moves
<1>3. QED
  BY <1>1, <1>2

\* cleanUpResearchState (CleanUp) drops the store of its state, or takes the state out of the map.
LEMMA CleanUpDoes ==
  ASSUME Inv, NEW p \in Procs, NEW o, o = proc[p].o, o \in 1..Len(obj), NEW rec, rec = obj[o].rec,
         NEW entry \in Entry, entry.o = proc[p].o, entry.op # "start", entry.rec = proc[p].rec,
         entry.at = proc[p].at, entry.next = proc[p].next, NEW back \in {"idle", "read"},
         NEW q, NEW c, NEW s, Wrote(obj, q, o, rec, c, s), CleanUp(p, q, o, entry, back)
  PROVE  \E e : /\ Cleaned(p, e, back) /\ Wrote(obj, obj', o, rec, c, s) /\ Unmapped(o)
                /\ e.pc = "dropping" => rec.store
                /\ e.pc = "dropping" \/ sub' # o
<1>1. /\ q \in Seq(Object) /\ o \in 1..Len(q) /\ q[o].rec = rec /\ q[o].cancel = c /\ q[o].stream = s
  BY DEF Wrote
<1>2. Followed /\ Typed /\ o # 0 /\ obj \in Seq(Object)
  BY DEF Inv, Typed, Objects
<1>3. CASE cur = o /\ q[o].rec.store
  <2>1. PICK pc \in PCs, w \in Record \cup {NoRecord} : pc = "dropping" /\ w = NoRecord
    BY DEF PCs
  <2>2. PICK e : e = [entry EXCEPT !.pc = pc, !.back = back, !.w = w]
    OBVIOUS
  <2>3. /\ e \in Entry /\ e.pc = pc /\ e.o = proc[p].o /\ e.op # "start" /\ e.rec = proc[p].rec /\ e.w = w
        /\ e.at = proc[p].at /\ e.next = proc[p].next /\ e.back = back
    BY <2>2 DEF Entry
  <2>4. proc' = [proc EXCEPT ![p] = e] /\ obj' = q /\ cur' = cur /\ sub' = sub
    BY <1>3, <2>1, <2>2 DEF CleanUp
  <2>5. Cleaned(p, e, back)
    BY <2>1, <2>3, <2>4 DEF Cleaned, Moves
  <2>6. Unmapped(o)
    BY <2>4 DEF Unmapped
  <2>7. rec.store /\ e.pc = "dropping"
    BY <1>1, <1>3, <2>1, <2>3
  <2>8. QED
    BY <2>4, <2>5, <2>6, <2>7
<1>4. CASE ~(cur = o /\ q[o].rec.store)
  <2>1. PICK e : e = GoesOn(entry, back)
    OBVIOUS
  <2>2. proc' = [proc EXCEPT ![p] = e]
    BY <1>4, <2>1 DEF CleanUp
  <2>3. /\ obj' = IF cur = o THEN Flushed(q, o) ELSE q
        /\ cur' = IF cur = o THEN 0 ELSE cur
        /\ sub' = IF sub = o /\ cur = o THEN 0 ELSE sub
    BY <1>4 DEF CleanUp
  <2>4. Cleaned(p, e, back) /\ e.pc # "dropping"
    BY <2>1, <2>2, GoesOnIs
  <2>5. Wrote(obj, obj', o, rec, c, s)
    <3>1. Wrote(q, Flushed(q, o), o, q[o].rec, q[o].cancel, q[o].stream)
      BY <1>1, FlushedDoes
    <3>2. Wrote(obj, Flushed(q, o), o, rec, c, s)
      BY <1>1, <1>2, <3>1, Then
    <3>3. QED
      BY <2>3, <3>2
  <2>6. sub # 0 => sub = cur
    BY <1>2 DEF Followed
  <2>7. cur = o => (restarts = 0 /\ ~putBack => ~store)
    BY <1>1, <1>4, StoreKept
  <2>8. Unmapped(o) /\ sub' # o
    BY <1>2, <2>3, <2>6, <2>7 DEF Unmapped
  <2>9. QED
    BY <2>4, <2>5, <2>8
<1>5. QED
  BY <1>3, <1>4

\* A step in which a run cleans up preserves the invariant.
LEMMA CleanKeeps ==
  ASSUME Inv, NEW r, NEW e, NEW back, NEW o, NEW rec, NEW c, NEW s, RunCleans(r, e, back, o, rec, c, s)
  PROVE  Inv' /\ StaysCancelled
<1>. USE DEF RunCleans
<1>1. /\ Typed /\ Moves(r, e) /\ o \in 1..Len(obj) /\ proc[r].op # "start" /\ r \in Procs
      /\ proc[r].rec \in RecOr(Begun) /\ rec \in Rec(Begun) /\ store \in BOOLEAN
  BY RunIs, StoreKept DEF Inv, Cleaned
<1>2. e.pc \in {"idle", "dropping", "read"}
  BY IdleIs DEF Cleaned
<1>3. /\ e.pc \in RunPCs /\ e.pc # "prepare" /\ e.pc \notin Writing /\ e.pc # "dropped"
      /\ e.pc \in Dropping => e.pc = "dropping" /\ e.pc \in FlushPCs
  BY <1>2 DEF RunPCs, Working, Dropping, Writing, FlushPCs
<1>4. On(e) => On(proc[r]) /\ e.at = proc[r].at /\ e.next = Chunks + 2
  <2>1. On(e) => back = "read" /\ e # Idle
    BY <1>2, IdleIs DEF On, Working, Dropping, Cleaned
  <2>2. QED
    BY <2>1 DEF Cleaned
<1>5. Over(e) => On(e)
  BY DEF Over, On, Working
<1>6. ~Mid(e)
  <2>1. e.pc = "read" => e.next = Chunks + 2
    BY <1>4 DEF On, Working
  <2>2. e.pc = "read" => ~(e.next <= Chunks + 1)
    BY <2>1, Bounds
  <2>3. QED
    BY <1>2, <2>2 DEF Mid
<1>7. /\ Rec(Begun) \subseteq Rec(Begun') /\ RecOr(Begun) \subseteq RecOr(Begun')
  BY <1>1, <1>3, BegunGrows DEF Steady
<1>8. e.rec \in RecOr(Begun') /\ e.w \in RecOr(Begun')
  <2>1. NoRecord \in RecOr(Begun')
    BY DEF RecOr
  <2>2. QED
    BY <1>1, <1>7, <2>1, IdleIs DEF Cleaned
<1>9. e = Idle \/ (e.o = o /\ e.op # "start")
  BY DEF Cleaned
<1>10. RunTypes(r, e, o, rec, c, s)
  BY <1>1, <1>3, <1>4, <1>5, <1>7, <1>8, <1>9 DEF RunTypes, Steady, Unmapped
<1>11. RunShows(r, e, o, rec, c)
  <2>1. sub # o => view' = view
    OBVIOUS
  <2>2. sub' = o => sub = o
    BY <1>1 DEF Unmapped
  <2>3. sub' = o => (e.pc \in FlushPCs /\ e.o = o) \/ view' = Shown(rec)
    BY <1>3, <1>9, <2>2, IdleIs DEF Dropping
  <2>4. QED
    BY <1>4, <2>1, <2>3 DEF RunShows
<1>12. RunKeeps(r, e, o, rec, c)
  <2>1. ASSUME ~putBack
        PROVE  Sound(rec) /\ SoundOr(e.rec) /\ SoundOr(e.w)
    <3>1. Sound(obj[o].rec) /\ SoundOr(proc[r].rec)
      BY <1>1, <2>1, SoundNow
    <3>2. SoundOr(NoRecord)
      BY DEF SoundOr
    <3>3. QED
      BY <3>1, <3>2, IdleIs DEF Cleaned
  <2>2. Alike(obj[o], rec, c)
    BY DEF Alike
  <2>3. restarts = 0 /\ ~putBack /\ store' => \/ o = cur' /\ rec.store
                                              \/ store /\ cur' = cur /\ o # cur
    <3>1. CASE cur' = cur
      BY <3>1, StoreStays
    <3>2. CASE cur' # cur
      BY <3>2 DEF Unmapped
    <3>3. QED
      BY <3>1, <3>2
  <2>4. QED
    BY <1>3, <1>6, <2>1, <2>2, <2>3 DEF RunKeeps
<1>13. QED
  BY <1>10, <1>11, <1>12, RunMove

\* Leaves preserves the invariant.
LEMMA LeavesKeeps ==
  ASSUME Inv, NEW r \in Runs, Leaves(r)
  PROVE  Inv' /\ StaysCancelled
<1>1. /\ proc[r].pc = "leaving" /\ db' = db /\ view' = view /\ store' = store /\ init' = init
      /\ runs' = runs /\ restarts' = restarts /\ putBack' = putBack /\ spent' = spent /\ late' = late
  BY DEF Leaves, boundVars
<1>2. PICK o, rec, c, s : o = proc[r].o /\ rec = obj[o].rec /\ c = obj[o].cancel /\ s = obj[o].stream
  OBVIOUS
<1>3. Typed
  BY DEF Inv
<1>4. /\ r \in Procs /\ proc[r] \in Entry /\ o \in 1..Len(obj) /\ obj \in Seq(Object) /\ proc[r].op # "start"
  BY <1>1, <1>2, <1>3, RunIs
<1>5. PICK back \in {"idle", "read"} : back = "idle"
  OBVIOUS
<1>6. PICK e : /\ Cleaned(r, e, back) /\ Wrote(obj, obj', o, rec, c, s) /\ Unmapped(o)
               /\ e.pc = "dropping" => rec.store
               /\ e.pc = "dropping" \/ sub' # o
  <2>1. CleanUp(r, obj, o, proc[r], back)
    BY <1>2, <1>5 DEF Leaves
  <2>2. Wrote(obj, obj, o, rec, c, s)
    BY <1>2, <1>4, SameObjects
  <2>3. QED
    BY <1>2, <1>4, <1>5, <2>1, <2>2, CleanUpDoes, SMTT(40)
<1>7. proc[r].pc \notin {"idle", "prepare"} /\ back # "read" /\ Steady
  BY <1>1, <1>5 DEF Steady
<1>8. RunCleans(r, e, back, o, rec, c, s)
  BY <1>1, <1>2, <1>6, <1>7 DEF RunCleans
<1>9. QED
  BY <1>8, CleanKeeps

\* CompleteSaved preserves the invariant.
LEMMA CompleteSavedKeeps ==
  ASSUME Inv, NEW r \in Runs, CompleteSaved(r)
  PROVE  Inv' /\ StaysCancelled
<1>1. /\ proc[r].pc = "completing" /\ db' = proc[r].w /\ store' = store /\ init' = init
      /\ view' = IF sub = proc[r].o THEN Shown(obj[proc[r].o].rec) ELSE view
      /\ runs' = runs /\ restarts' = restarts /\ putBack' = putBack /\ spent' = spent /\ late' = late
  BY DEF CompleteSaved, Lands, Told, boundVars
<1>2. PICK o, rec, c, s : o = proc[r].o /\ rec = obj[o].rec /\ c = obj[o].cancel /\ s = obj[o].stream
  OBVIOUS
<1>3. Typed
  BY DEF Inv
<1>4. /\ r \in Procs /\ proc[r] \in Entry /\ o \in 1..Len(obj) /\ obj \in Seq(Object)
  BY <1>1, <1>2, <1>3, RunIs
<1>5. PICK back \in {"idle", "read"} : back = "read"
  OBVIOUS
<1>6. PICK entry : entry = [proc[r] EXCEPT !.op = "none"]
  OBVIOUS
<1>7. /\ entry \in Entry /\ entry.o = proc[r].o /\ entry.op # "start" /\ entry.rec = proc[r].rec
      /\ entry.at = proc[r].at /\ entry.next = proc[r].next
  BY <1>4, <1>6 DEF Entry, Operations
<1>8. Wrote(obj, obj, o, rec, c, s)
  BY <1>2, <1>4, SameObjects
<1>9. PICK e : /\ Cleaned(r, e, back) /\ Wrote(obj, obj', o, rec, c, s) /\ Unmapped(o)
               /\ e.pc = "dropping" => rec.store
  <2>1. CASE proc[r].op = "settled"
    <3>1. CleanUp(r, obj, o, entry, back)
      BY <1>2, <1>5, <1>6, <2>1 DEF CompleteSaved
    <3>2. QED
      BY <1>2, <1>4, <1>5, <1>7, <1>8, <3>1, CleanUpDoes, SMTT(40)
  <2>2. CASE proc[r].op # "settled"
    <3>1. PICK e : e = GoesOn(entry, back)
      OBVIOUS
    <3>2. proc' = [proc EXCEPT ![r] = e] /\ obj' = obj /\ cur' = cur /\ sub' = sub
      BY <1>5, <1>6, <2>2, <3>1 DEF CompleteSaved, stateVars
    <3>3. Cleaned(r, e, back) /\ e.pc # "dropping"
      BY <1>4, <1>7, <3>1, <3>2, GoesOnIs
    <3>4. Unmapped(o)
      BY <3>2 DEF Unmapped
    <3>5. QED
      BY <1>8, <3>2, <3>3, <3>4
  <2>3. QED
    BY <2>1, <2>2
<1>10. On(proc[r]) /\ proc[r].next = Chunks + 2
  BY <1>1, <1>3, <1>4 DEF On, Working, Typed, Entries, EntryOK, Shaped, Over
<1>11. proc[r].pc \notin {"idle", "prepare"} /\ proc[r].pc \in Writing /\ Steady
  BY <1>1 DEF Steady, Writing
<1>12. RunCleans(r, e, back, o, rec, c, s)
  BY <1>1, <1>2, <1>9, <1>10, <1>11 DEF RunCleans
<1>13. QED
  BY <1>12, CleanKeeps

\* ResumedFailureSaved preserves the invariant.
LEMMA ResumedFailureSavedKeeps ==
  ASSUME Inv, ResumedFailureSaved
  PROVE  Inv' /\ StaysCancelled
<1>1. PICK r \in Runs : r = 0
  BY Bounds DEF Runs
<1>2. /\ proc[r].pc = "failing" /\ db' = proc[r].w /\ view' = view /\ store' = store
      /\ runs' = runs /\ restarts' = restarts /\ putBack' = putBack /\ spent' = spent /\ late' = late
      /\ init' = "done" \/ init' = init
  BY <1>1 DEF ResumedFailureSaved, Lands
<1>3. PICK o, rec, c, s : o = proc[r].o /\ rec = obj[o].rec /\ c = obj[o].cancel /\ s = FALSE
  OBVIOUS
<1>4. Typed
  BY DEF Inv
<1>5. /\ r \in Procs /\ proc[r] \in Entry /\ o \in 1..Len(obj) /\ obj \in Seq(Object) /\ restarts # 0
      /\ proc[r].op # "start"
  BY <1>1, <1>2, <1>3, <1>4, RunIs
<1>6. PICK back \in {"idle", "read"} : back = "idle"
  OBVIOUS
<1>7. PICK b \in BOOLEAN : b = FALSE
  OBVIOUS
<1>8. PICK q : q = [obj EXCEPT ![o].stream = b]
  OBVIOUS
<1>9. Wrote(obj, q, o, rec, c, s)
  BY <1>7, <1>3, <1>5, <1>8, StreamSet
<1>10. PICK e : /\ Cleaned(r, e, back) /\ Wrote(obj, obj', o, rec, c, s) /\ Unmapped(o)
                /\ e.pc = "dropping" => rec.store
                /\ e.pc = "dropping" \/ sub' # o
  <2>1. CleanUp(r, q, o, proc[r], back)
    BY <1>1, <1>7, <1>3, <1>6, <1>8 DEF ResumedFailureSaved
  <2>2. QED
    BY <1>3, <1>5, <1>6, <1>9, <2>1, CleanUpDoes, SMTT(40)
<1>11. proc[r].pc \notin {"idle", "prepare"} /\ back # "read" /\ Steady /\ proc[r].pc \in Writing
  BY <1>2, <1>5, <1>6 DEF Steady, Writing
<1>12. RunCleans(r, e, back, o, rec, c, s)
  BY <1>2, <1>3, <1>10, <1>11 DEF RunCleans
<1>13. QED
  BY <1>12, CleanKeeps

\* StateRemoved of a run preserves the invariant.
LEMMA RunStateRemovedKeeps ==
  ASSUME Inv, NEW r \in Runs, StateRemoved(r)
  PROVE  Inv' /\ StaysCancelled
<1>1. /\ proc[r].pc = "dropped" /\ db' = proc[r].w /\ view' = view /\ store' = store
      /\ runs' = runs /\ restarts' = restarts /\ putBack' = putBack /\ spent' = spent /\ late' = late
      /\ init' = IF r = 0 THEN "done" ELSE init
      /\ cur' = IF cur = proc[r].o THEN 0 ELSE cur
      /\ sub' = IF sub = proc[r].o THEN 0 ELSE sub
      /\ obj' = Flushed(obj, proc[r].o)
  BY DEF StateRemoved, Lands
<1>2. PICK o, rec, c, s, back : o = proc[r].o /\ rec = obj[o].rec /\ c = obj[o].cancel /\ s = obj[o].stream
                                /\ back = proc[r].back
  OBVIOUS
<1>3. Typed /\ Followed
  BY DEF Inv
<1>4. /\ r \in Procs /\ proc[r] \in Entry /\ o \in 1..Len(obj) /\ obj \in Seq(Object) /\ (r = 0 => restarts # 0)
      /\ proc[r].op # "start" /\ back \in {"idle", "read"}
  BY <1>1, <1>2, <1>3, RunIs, EntryFields
<1>5. Wrote(obj, obj', o, rec, c, s)
  BY <1>1, <1>2, <1>4, FlushedDoes
<1>6. PICK e : Cleaned(r, e, back) /\ e.pc # "dropping"
  <2>1. PICK e : e = GoesOn(proc[r], back)
    OBVIOUS
  <2>2. proc' = [proc EXCEPT ![r] = e]
    BY <1>2, <2>1 DEF StateRemoved
  <2>3. QED
    BY <1>4, <2>1, <2>2, GoesOnIs, ZenonT(40)
<1>7. Unmapped(o) /\ sub' # o
  <2>1. ~store
    BY <1>1, <1>4, StoreKept
  <2>2. (sub # 0 => sub = cur) /\ o # 0
    BY <1>3, <1>4 DEF Followed
  <2>3. QED
    BY <1>1, <1>2, <2>1, <2>2 DEF Unmapped
<1>8. back = "read" => On(proc[r]) /\ proc[r].next = Chunks + 2
  BY <1>1, <1>2, <1>3, <1>4 DEF On, Dropping, Typed, Entries, EntryOK, Shaped, Over
<1>9. proc[r].pc \notin {"idle", "prepare"} /\ proc[r].pc \in Writing /\ Steady
  BY <1>1, <1>4 DEF Steady, Writing
<1>10. RunCleans(r, e, back, o, rec, c, s)
  BY <1>1, <1>2, <1>5, <1>6, <1>7, <1>8, <1>9 DEF RunCleans
<1>11. QED
  BY <1>10, CleanKeeps

\* StreamResumed preserves the invariant.
LEMMA StreamResumedKeeps ==
  ASSUME Inv, StreamResumed
  PROVE  Inv' /\ StaysCancelled
<1>1. PICK r \in Runs : r = 0
  BY Bounds DEF Runs
<1>2. /\ proc[r].pc = "resuming" /\ db' = db /\ view' = view /\ init' = "done"
      /\ cur' = cur /\ sub' = sub /\ store' = store
      /\ runs' = runs /\ restarts' = restarts /\ putBack' = putBack /\ spent' = spent /\ late' = late
  BY <1>1 DEF StreamResumed, clientVars
<1>3. PICK o, rec, c, s : o = proc[r].o /\ rec = obj[o].rec /\ c = obj[o].cancel /\ s = TRUE
  OBVIOUS
<1>4. Typed
  BY DEF Inv
<1>5. /\ r \in Procs /\ o \in 1..Len(obj) /\ obj[o] \in Object /\ rec \in Rec(Begun) /\ obj \in Seq(Object)
      /\ proc[r].op # "start" /\ proc[r].rec \in RecOr(Begun) /\ proc[r].w \in RecOr(Begun) /\ restarts # 0
  BY <1>1, <1>2, <1>3, <1>4, RunIs
<1>6. rec.last[2] \in 0..Chunks + 1
  BY <1>5, RecordFields, EventIs DEF Rec
<1>7. PICK e, pc, n : Became(r, e, pc, proc[r].w, n, proc[r].op) /\ pc = "read" /\ n = rec.last[2] + 1
  <2>1. PICK pc \in PCs, n \in 0..Chunks + 2 : pc = "read" /\ n = rec.last[2] + 1
    BY <1>6, Bounds DEF PCs
  <2>2. proc' = [proc EXCEPT ![r].pc = pc, ![r].next = n]
    BY <1>1, <1>3, <2>1 DEF StreamResumed, ResumedAt
  <2>3. \E e : Became(r, e, pc, proc[r].w, n, proc[r].op)
    BY <1>4, <1>5, <2>2, PcNextMoves
  <2>4. QED
    BY <2>1, <2>3
<1>8. Wrote(obj, obj', o, rec, c, s)
  <2>1. PICK b \in BOOLEAN : b = TRUE
    OBVIOUS
  <2>2. obj' = [obj EXCEPT ![o].stream = b]
    BY <1>1, <1>3, <2>1 DEF StreamResumed
  <2>3. Wrote(obj, obj', o, obj[o].rec, obj[o].cancel, b)
    BY <1>5, <2>2, StreamSet
  <2>4. QED
    BY <1>3, <2>1, <2>3
<1>. USE DEF Became
<1>9. /\ Rec(Begun) \subseteq Rec(Begun') /\ RecOr(Begun) \subseteq RecOr(Begun')
  BY <1>2, <1>4, <1>7, BegunGrows
<1>10. e.pc \in RunPCs /\ e.pc \notin Writing /\ e.pc \notin Dropping /\ On(proc[r]) /\ proc[r].pc \notin FlushPCs
       /\ Mid(proc[r])
  BY <1>2, <1>7 DEF RunPCs, Working, Writing, On, Dropping, FlushPCs, Mid
<1>11. RunTypes(r, e, o, rec, c, s)
  BY <1>2, <1>3, <1>5, <1>7, <1>8, <1>9, <1>10, StoreKept DEF RunTypes, Over
<1>12. RunShows(r, e, o, rec, c)
  BY <1>2, <1>3, <1>7, <1>10 DEF RunShows
<1>13. RunKeeps(r, e, o, rec, c)
  <2>1. ASSUME ~putBack
        PROVE  /\ Sound(rec) /\ SoundOr(e.rec) /\ SoundOr(e.w)
               /\ Mid(e) => Coupled(e, obj'[o])
    <3>1. Sound(obj[o].rec) /\ SoundOr(proc[r].rec) /\ SoundOr(proc[r].w) /\ Coupled(proc[r], obj[o])
      BY <1>3, <1>5, <1>10, <2>1, SoundNow
    <3>2. obj'[o].rec = rec /\ obj'[o].cancel = c
      BY <1>8 DEF Wrote
    <3>3. e.pc = "read" /\ e.at = proc[r].at /\ e.next # 0 /\ e.next - 1 = rec.last[2]
      BY <1>6, <1>7
    <3>4. Mid(e) => rec.last[2] <= Chunks
      BY <1>6, <1>7, Bounds, SMTT(40) DEF Mid
    <3>5. Mid(e) => Coupled(e, obj'[o])
      BY <1>2, <1>3, <3>1, <3>2, <3>3, <3>4 DEF Coupled
    <3>6. QED
      BY <1>3, <1>7, <3>1, <3>5
  <2>2. restarts = 0 /\ ~putBack /\ store' => \/ o = cur' /\ rec.store
                                              \/ store /\ cur' = cur /\ o # cur
    BY <1>2, <1>3, StoreStays
  <2>3. QED
    BY <1>2, <1>7, <1>10, <2>1, <2>2 DEF RunKeeps
<1>14. QED
  BY <1>11, <1>12, <1>13, RunMove

\* A resumed run that fails after it was cancelled preserves the invariant.
LEMMA ResumedRunEndsKeeps ==
  ASSUME Inv, ResumedRunFails, Cancelled(proc[0].o)
  PROVE  Inv' /\ StaysCancelled
<1>1. PICK r \in Runs : r = 0
  BY Bounds DEF Runs
<1>2. /\ proc[r].pc \in {"resuming", "read"} /\ db' = db /\ view' = view /\ init' = "done"
      /\ cur' = cur /\ sub' = sub /\ store' = store
      /\ runs' = runs /\ restarts' = restarts /\ putBack' = putBack /\ spent' = spent /\ late' = late
  BY <1>1 DEF ResumedRunFails, clientVars
<1>3. PICK o, rec, c, s : o = proc[r].o /\ rec = obj[o].rec /\ c = obj[o].cancel /\ s = FALSE
  OBVIOUS
<1>4. Typed
  BY DEF Inv
<1>5. /\ o \in 1..Len(obj) /\ rec \in Rec(Begun) /\ obj \in Seq(Object) /\ restarts # 0 /\ r \in Procs
  BY <1>1, <1>2, <1>3, <1>4, RunIs
<1>6. PICK e : e = Idle
  OBVIOUS
<1>7. Returned(r, e)
  BY <1>1, <1>5, <1>6, IdleIs DEF ResumedRunFails, Returned, Moves
<1>8. Wrote(obj, obj', o, rec, c, s)
  <2>1. PICK b \in BOOLEAN : b = FALSE
    OBVIOUS
  <2>2. obj' = [obj EXCEPT ![o].stream = b]
    BY <1>1, <1>3, <2>1 DEF ResumedRunFails
  <2>3. Wrote(obj, obj', o, obj[o].rec, obj[o].cancel, b)
    BY <1>5, <2>2, StreamSet
  <2>4. QED
    BY <1>3, <2>1, <2>3
<1>9. rec \in Rec(Begun')
  <2>1. Moves(r, e) /\ e.pc # "prepare"
    BY <1>7, IdleIs DEF Returned
  <2>2. QED
    BY <1>2, <1>4, <1>5, <2>1, BegunGrows
<1>10. proc[r].pc \notin FlushPCs /\ proc[r].pc # "idle" /\ Steady
  BY <1>2, <1>5 DEF FlushPCs, Steady
<1>11. restarts = 0 /\ ~putBack /\ store' => \/ o = cur' /\ rec.store
                                             \/ store /\ cur' = cur /\ o # cur
  BY <1>2, <1>3, StoreStays
<1>12. QED
  BY <1>2, <1>3, <1>7, <1>8, <1>9, <1>10, <1>11, StoreKept, ReturnKeeps

\* ResumedRunFails preserves the invariant.
LEMMA ResumedRunFailsKeeps ==
  ASSUME Inv, ResumedRunFails, ~Cancelled(proc[0].o)
  PROVE  Inv' /\ StaysCancelled
<1>1. PICK r \in Runs : r = 0
  BY Bounds DEF Runs
<1>2. /\ proc[r].pc \in {"resuming", "read"} /\ db' = db /\ view' = view
      /\ cur' = cur /\ sub' = sub /\ store' = store /\ init' = init
      /\ runs' = runs /\ restarts' = restarts /\ putBack' = putBack /\ spent' = spent /\ late' = late
  BY <1>1 DEF ResumedRunFails, clientVars
<1>3. PICK o, c, s : o = proc[r].o /\ c = obj[o].cancel /\ s = obj[o].stream
  OBVIOUS
<1>4. Typed /\ Begun \in Nat
  BY TypedNats DEF Inv
<1>5. /\ r \in Procs /\ o \in 1..Len(obj) /\ obj[o] \in Object /\ obj[o].rec \in Rec(Begun) /\ obj \in Seq(Object)
      /\ proc[r].op # "start" /\ proc[r].rec \in RecOr(Begun)
  BY <1>2, <1>3, <1>4, RunIs
<1>6. PICK st \in Status : st = "failed"
  BY DEF Status
<1>7. PICK rec : rec = [obj[o].rec EXCEPT !.status = st]
  OBVIOUS
<1>8. /\ rec \in Rec(Begun) /\ rec.status = st /\ rec.text = obj[o].rec.text /\ rec.last = obj[o].rec.last
      /\ rec.plan = obj[o].rec.plan /\ rec.store = obj[o].rec.store /\ rec.inter = obj[o].rec.inter
  BY <1>4, <1>5, <1>7, StatusSet
<1>9. obj' = Flushed(Patched(obj, o, rec), o) /\ proc' = [proc EXCEPT ![r].pc = "failing", ![r].w = rec]
  BY <1>1, <1>3, <1>6, <1>7 DEF ResumedRunFails
<1>10. Wrote(obj, obj', o, rec, c, s)
  BY <1>3, <1>5, <1>8, <1>9, PutDoes, RecIsRecord
<1>11. PICK e, pc : Became(r, e, pc, rec, proc[r].next, proc[r].op) /\ pc = "failing"
  <2>1. PICK pc \in PCs : pc = "failing"
    BY DEF PCs
  <2>2. proc' = [proc EXCEPT ![r].pc = pc, ![r].w = rec]
    BY <1>9, <2>1
  <2>3. \E e : Became(r, e, pc, rec, proc[r].next, proc[r].op)
    BY <1>4, <1>5, <1>8, <2>2, RecIsRecord, PcWriteMoves
  <2>4. QED
    BY <2>1, <2>3
<1>. USE DEF Became
<1>12. /\ Rec(Begun) \subseteq Rec(Begun') /\ RecOr(Begun) \subseteq RecOr(Begun')
  BY <1>2, <1>4, <1>11, BegunGrows
<1>13. /\ e.pc \in RunPCs /\ e.pc \notin Dropping /\ e.pc \in FlushPCs /\ ~Mid(e) /\ ~On(e) /\ On(proc[r])
  BY <1>2, <1>11 DEF RunPCs, Dropping, FlushPCs, Mid, On, Working
<1>14. rec \in RecOr(Begun) /\ rec # NoRecord
  BY <1>8, RecIsOr
<1>15. obj[o].rec.status # "cancelled"
  BY <1>1, <1>3 DEF Cancelled
<1>16. RunTypes(r, e, o, rec, c, s)
  BY <1>2, <1>3, <1>5, <1>8, <1>10, <1>11, <1>12, <1>13, <1>14, StoreKept DEF RunTypes, Over
<1>17. RunShows(r, e, o, rec, c)
  BY <1>2, <1>3, <1>6, <1>8, <1>11, <1>13, <1>15 DEF RunShows
<1>18. RunKeeps(r, e, o, rec, c)
  <2>1. ASSUME ~putBack
        PROVE  Sound(rec) /\ SoundOr(e.rec) /\ SoundOr(e.w)
    <3>1. Sound(obj[o].rec) /\ SoundOr(proc[r].rec)
      BY <1>5, <2>1, SoundNow
    <3>2. Sound(rec)
      BY <1>6, <1>8, <1>15, <3>1 DEF Sound, Terminal
    <3>3. QED
      BY <1>11, <3>1, <3>2 DEF SoundOr
  <2>2. restarts = 0 /\ ~putBack /\ store' => \/ o = cur' /\ rec.store
                                              \/ store /\ cur' = cur /\ o # cur
    BY <1>2, <1>8, StoreStays
  <2>3. Alike(obj[o], rec, c)
    BY <1>3, <1>6, <1>8 DEF Alike
  <2>4. QED
    BY <1>2, <1>11, <1>13, <2>1, <2>2, <2>3 DEF RunKeeps, Dropping
<1>19. QED
  BY <1>16, <1>17, <1>18, RunMove

\* RunStep preserves the invariant.
LEMMA RunStepKeeps ==
  ASSUME Inv, NEW r \in Runs, RunStep(r)
  PROVE  Inv' /\ StaysCancelled
<1>1. CASE FilesPrepared(r)
  BY <1>1, FilesReadyKeeps, FilesForgottenKeeps
<1>2. CASE FilesSaved(r)
  BY <1>2, RunBeginsKeeps, FilesLeftKeeps
<1>3. CASE RunSaved(r)
  BY <1>3, RunSavedKeeps
<1>4. CASE InteractionCreated(r)
  BY <1>4, InteractionCreatedKeeps
<1>5. CASE RunFails(r)
  BY <1>5, RunFailsKeeps
<1>6. CASE FailureSaved(r)
  BY <1>6, FailureSavedKeeps
<1>7. CASE Leaves(r)
  BY <1>7, LeavesKeeps
<1>8. CASE StartEvent(r)
  BY <1>8, StartEventKeeps
<1>9. CASE ContentEvent(r)
  BY <1>9, ContentDroppedKeeps, ContentKeptKeeps
<1>10. CASE SourcesFound(r)
  BY <1>10, SourcesFoundKeeps
<1>11. CASE CompleteEvent(r)
  BY <1>11, CompleteEventKeeps
<1>12. CASE CompleteDropped(r)
  BY <1>12, CompleteDroppedKeeps
<1>13. CASE CompleteSaved(r)
  BY <1>13, CompleteSavedKeeps
<1>14. CASE StreamEnds(r)
  BY <1>14, StreamEndsKeeps
<1>15. QED
  BY <1>1, <1>2, <1>3, <1>4, <1>5, <1>6, <1>7, <1>8, <1>9, <1>10, <1>11, <1>12, <1>13, <1>14 DEF RunStep

-----------------------------------------------------------------------------
(* The calls: reading, editing and subscribing *)

\* What the types say of a call.
LEMMA CallIs ==
  ASSUME Typed, NEW p \in Calls
  PROVE  /\ p \in Procs /\ p \notin Runs /\ proc[p] \in Entry /\ Shaped(p, proc[p]) /\ Timed(p, proc[p])
         /\ proc[p].pc \in CallPCs /\ proc[p].pc # "prepare" /\ proc[p].back = "idle"
         /\ proc[p].rec \in RecOr(Begun) /\ proc[p].w \in RecOr(Begun)
         /\ proc[p].pc \in Writing => proc[p].w \in Rec(Begun)
         /\ proc[p].pc \in Holding => proc[p].rec \in Rec(Begun)
         /\ proc[p].pc \notin {"idle", "inserting"} => db # NoRecord
         /\ proc[p].pc \notin {"inserting", "inserted"} => proc[p].op # "start"
         /\ obj \in Seq(Object) /\ Len(obj) \in Nat
<1>1. p \in Procs /\ p \notin Runs
  BY RunsAre
<1>2. proc[p] \in Entry /\ Shaped(p, proc[p]) /\ Timed(p, proc[p])
  BY <1>1 DEF Typed, Entries, EntryOK
<1>3. proc[p].pc \in CallPCs /\ proc[p].pc # "prepare" /\ proc[p].back = "idle"
  BY <1>2 DEF Shaped, CallPCs, Detached, Dropping
<1>4. /\ proc[p].rec \in RecOr(Begun) /\ proc[p].w \in RecOr(Begun)
      /\ proc[p].pc \in Writing => proc[p].w \in Rec(Begun)
      /\ proc[p].pc \in Holding => proc[p].rec \in Rec(Begun)
  BY <1>2 DEF Shaped, RecOr
<1>5. /\ proc[p].pc \notin {"idle", "inserting"} => db # NoRecord
      /\ proc[p].pc \notin {"inserting", "inserted"} => proc[p].op # "start"
  BY <1>2 DEF Timed
<1>6. QED
  BY <1>1, <1>2, <1>3, <1>4, <1>5, TypedNats DEF Typed, Objects

\* The types hold after a step of a call that has them.
LEMMA CallTyped ==
  ASSUME Inv, NEW p, NEW e, NEW o, NEW rec, NEW c, NEW s, CallTypes(p, e, o, rec, c, s)
  PROVE  Typed' /\ Begun' = Begun /\ o \in 1..Len(obj') /\ (db' \in RecOr(Begun) /\ db' # NoRecord)
<1>. USE DEF CallTypes
<1>1. Typed /\ Followed
  BY DEF Inv
<1>2. /\ p \in Procs /\ p \notin Runs /\ proc[p].pc # "prepare" /\ (proc[p].pc \in Writing => proc[p].w \in Rec(Begun))
      /\ obj \in Seq(Object) /\ Len(obj) \in Nat
  BY <1>1, CallIs
<1>3. e.pc # "prepare"
  BY DEF CallPCs, Detached, Dropping
<1>4. Begun' = Begun /\ Begun' \in Nat
  BY <1>1, <1>2, <1>3, BegunGrows
<1>5. Objects' /\ Len(obj') \in Nat /\ Len(obj) <= Len(obj') /\ o \in 1..Len(obj')
  <2>1. Begun <= Begun' /\ rec \in Rec(Begun')
    BY <1>4
  <2>2. QED
    BY <1>1, <1>4, <2>1, WroteOK
<1>6. db' \in RecOr(Begun) /\ db' # NoRecord
  <2>1. db \in RecOr(Begun)
    BY <1>1 DEF Typed, Fields
  <2>2. CASE db' = db
    BY <2>1, <2>2
  <2>3. CASE proc[p].pc \in Writing /\ db' = proc[p].w
    BY <1>2, <2>3, RecIsOr
  <2>4. QED
    BY <2>2, <2>3
<1>7. Fields'
  <2>1. Fields
    BY <1>1 DEF Typed
  <2>2. Shown(rec) \in [status : Status, text : Seq(Events)]
    BY RecordFields DEF Shown, Rec
  <2>3. view' \in [status : Status, text : Seq(Events)]
    BY <2>1, <2>2 DEF Fields
  <2>4. late' \in RecOr(Begun')
    BY <1>4, <2>1 DEF Fields
  <2>5. db' \in RecOr(Begun')
    BY <1>4, <1>6
  <2>6. QED
    BY <2>3, <2>4, <2>5 DEF Fields
<1>8. Counters' /\ Early'
  BY <1>1, <1>6 DEF Typed, Counters, Early
<1>9. Shaped(p, e)'
  <2>1. e.rec \in RecOr(Begun') /\ e.w \in RecOr(Begun')
    BY <1>4
  <2>2. e.pc \in CallPCs /\ ~Over(e)
    BY DEF Over, CallPCs, Detached, Dropping
  <2>3. QED
    BY <1>2, <2>1, <2>2 DEF Shaped
<1>10. Timed(p, e)'
  <2>1. Begun' = 0 => ~(e.pc = "saving" /\ e.op \in Steering) /\ e.pc \notin Dropping
    BY <1>4
  <2>2. p # 0
    BY <1>2, Bounds DEF Runs
  <2>3. QED
    BY <1>2, <1>3, <1>6, <2>1, <2>2 DEF Timed
<1>11. Typed'
  BY <1>1, <1>2, <1>3, <1>5, <1>6, <1>7, <1>8, <1>9, <1>10, TypedMove
<1>12. QED
  BY <1>4, <1>5, <1>6, <1>11

\* A step of a call that has the types, shows what it writes and keeps the report preserves the
\* invariant.
LEMMA CallMove ==
  ASSUME Inv, NEW p, NEW e, NEW o, NEW rec, NEW c, NEW s, CallTypes(p, e, o, rec, c, s),
         CallShows(p, e, o, rec, c), CallKeeps(p, e, o, rec, c, s)
  PROVE  Inv' /\ StaysCancelled
<1>1. Typed /\ Asked /\ Followed /\ Stores /\ Reported
  BY DEF Inv
<1>2. /\ Typed' /\ o \in 1..Len(obj') /\ Len(obj) \in Nat /\ p \in Calls /\ p \in Procs /\ p \notin Runs
      /\ proc[p].pc # "prepare"
      /\ proc[p].pc \in Writing => proc[p].w # NoRecord
  BY <1>1, CallTyped, CallIs, RecIsOr DEF CallTypes
<1>3. Moves(p, e) /\ Wrote(obj, obj', o, rec, c, s) /\ (putBack => putBack') /\ restarts' = restarts
  BY DEF CallTypes
<1>4. /\ obj'[o].rec = rec /\ \A j \in 1..Len(obj) : j # o => obj'[j] = obj[j]
  BY <1>3 DEF Wrote
<1>5. e.pc # "prepare"
  BY DEF CallTypes, CallPCs, Detached, Dropping
<1>6. Asked'
  BY <1>1, <1>2, <1>3, AskedMove DEF CallShows
<1>7. Followed'
  <2>1. CASE sub' = o /\ cur' = o /\ view' = Shown(rec)
    BY <1>4, <2>1 DEF Followed, ViewFollowsRecord
  <2>2. CASE ~(sub' = o /\ cur' = o /\ view' = Shown(rec))
    <3>1. sub \in 0..Len(obj)
      BY <1>1 DEF Typed, Fields
    <3>2. QED
      BY <1>1, <1>3, <2>2, <3>1, FollowMove DEF CallShows
  <2>3. QED
    BY <2>1, <2>2
<1>8. Stores'
  BY <1>1, <1>3, <1>5, StoresMove DEF CallKeeps
<1>9. Reported'
  <2>1. ASSUME ~putBack'
        PROVE  /\ ~putBack
               /\ Sound(rec) /\ SoundOr(db') /\ SoundOr(late') /\ SoundOr(e.rec) /\ SoundOr(e.w)
               /\ Mid(e) => e.o = o /\ Coupled(e, obj'[o]) /\ Sole(p, o)
               /\ Sole(p, o) \/ (o <= Len(obj) /\ Alike(obj[o], rec, c))
    <3>1. ~putBack
      BY <1>3, <2>1
    <3>2. SoundOr(db') /\ SoundOr(late')
      BY <1>1, <1>2, <3>1 DEF Reported, AllSound, CallTypes
    <3>3. QED
      BY <2>1, <3>1, <3>2 DEF CallKeeps
  <2>2. QED
    BY <1>1, <1>2, <1>3, <2>1, ReportMove
<1>10. StaysCancelled
  <2>1. ASSUME NEW j \in DOMAIN obj, obj[j].rec.status = "cancelled", obj'[j].rec.status # "cancelled"
        PROVE  putBack' \/ obj[j].rec.plan
    <3>1. j \in 1..Len(obj) /\ j <= Len(obj)
      BY <1>1, <1>2 DEF Typed, Objects
    <3>2. j = o
      BY <1>4, <2>1, <3>1
    <3>3. QED
      BY <1>4, <2>1, <3>1, <3>2 DEF CallShows
  <2>2. QED
    BY <2>1 DEF StaysCancelled
<1>11. QED
  BY <1>2, <1>6, <1>7, <1>8, <1>9, <1>10 DEF Inv

\* A step that leaves the states as they are preserves the invariant.
LEMMA QuietMove ==
  ASSUME Inv, NEW p, NEW e, Quiet(p, e)
  PROVE  Inv' /\ StaysCancelled
<1>. USE DEF Quiet
<1>1. Typed /\ Asked /\ Followed /\ Stores /\ Reported
  BY DEF Inv
<1>2. /\ proc' \in [Procs -> Entry] /\ proc'[p] = e /\ p \in Procs
      /\ \A q \in Procs : q # p => proc'[q] = proc[q]
  BY <1>1, Moved DEF Moves
<1>3. e # proc[p] => /\ p \in Calls /\ p \notin Runs /\ e.pc \in Detached /\ e.pc # "prepare"
                     /\ proc[p].pc \notin FlushPCs
  BY RunsAre DEF Apart, Detached
<1>4. Begun' = Begun
  <2>1. e # proc[p] => proc[p].pc # "prepare" /\ e.pc # "prepare"
    BY <1>1, <1>3, CallIs
  <2>2. e.pc = "prepare" <=> proc[p].pc = "prepare"
    BY <2>1
  <2>3. QED
    BY <1>1, <2>2, BegunGrows
<1>5. Begun \in Nat /\ runs \in Nat /\ Len(obj) \in Nat
  BY <1>1, TypedNats
<1>6. Objects' /\ Fields' /\ Counters' /\ Early'
  BY <1>1, <1>4 DEF Typed, Objects, Fields, Counters, Early
<1>7. ASSUME e # proc[p] PROVE EntryOK(p)'
  <2>1. p # 0 /\ Apart(p, e)
    BY <1>3, <1>7, Bounds DEF Runs
  <2>2. e.pc \notin Dropping /\ e.pc \in CallPCs /\ e.pc # "saving" /\ ~Over(e)
    BY <1>3, <1>7 DEF Over, CallPCs, Detached, Dropping
  <2>3. e.rec \in RecOr(Begun)' /\ e.w \in RecOr(Begun)'
    BY <1>4, <2>1 DEF Apart, RecOr
  <2>4. Shaped(p, e)'
    BY <1>3, <1>4, <1>7, <2>1, <2>2 DEF Shaped, Apart
  <2>5. proc[p].op = "start" => runs = 0 /\ MaxRuns # 0 /\ restarts = 0
    BY <1>1, <1>2 DEF Typed, Entries, EntryOK, Timed
  <2>6. Timed(p, e)'
    BY <1>3, <1>7, <2>1, <2>2, <2>5 DEF Timed, Apart
  <2>7. QED
    BY <1>2, <2>4, <2>6 DEF EntryOK, Shaped, Timed
<1>8. \A q1, q2 \in Procs : proc'[q1].op = "start" /\ proc'[q2].op = "start" => q1 = q2
  <2>1. \A q1, q2 \in Procs : proc[q1].op = "start" /\ proc[q2].op = "start" => q1 = q2
    BY <1>1 DEF Typed, Entries
  <2>2. e.op = "start" => proc[p].op = "start" \/ \A q \in Procs : proc[q].op # "start"
    BY DEF Apart
  <2>3. QED
    BY <1>2, <2>1, <2>2
<1>9. Typed'
  <2>1. \A q \in Procs : proc'[q] = proc[q] \/ EntryOK(q)'
    BY <1>2, <1>7
  <2>2. Begun <= Begun' /\ runs <= runs' /\ Len(obj) <= Len(obj')
    BY <1>4, <1>5
  <2>3. QED
    BY <1>1, <1>2, <1>6, <1>8, <2>1, <2>2, TypedStep
<1>10. Asked'
  <2>1. ASSUME NEW r \in Runs, On(proc'[r]), obj'[proc'[r].o].rec.status = "cancelled"
        PROVE  obj'[proc'[r].o].cancel \/ putBack'
    <3>1. proc'[r] = proc[r]
      BY <1>2, <1>3, RunsAre
    <3>2. QED
      BY <1>1, <2>1, <3>1 DEF Asked
  <2>2. ASSUME NEW q \in Calls, proc'[q].pc = "asking" PROVE obj'[proc'[q].o].cancel
    <3>1. e # proc[p] => e.pc # "asking"
      BY <1>3 DEF Detached
    <3>2. proc'[q] = proc[q]
      BY <1>2, <2>2, <3>1, RunsAre
    <3>3. QED
      BY <1>1, <2>2, <3>2 DEF Asked
  <2>3. QED
    BY <2>1, <2>2 DEF Asked, On
<1>11. Followed'
  <2>1. ASSUME sub' # 0, ~(\E q \in Procs : proc'[q].o = sub /\ proc'[q].pc \in FlushPCs)
        PROVE  view = Shown(obj[sub].rec)
    <3>1. ~(\E q \in Procs : proc[q].o = sub /\ proc[q].pc \in FlushPCs)
      BY <1>2, <1>3, <2>1
    <3>2. QED
      BY <1>1, <2>1, <3>1 DEF Followed, ViewFollowsRecord, Flushing, FlushPCs
  <2>2. QED
    BY <1>1, <2>1 DEF Followed, ViewFollowsRecord, Flushing, FlushPCs
<1>12. Stores'
  <2>1. ASSUME NEW r \in Runs, proc'[r].pc = "prepare" PROVE proc'[r].o = cur' /\ obj'[cur'].stream
    BY <1>1, <1>2, <1>3, <2>1, RunsAre DEF Stores
  <2>2. ASSUME NEW q \in Procs, proc'[q].pc = "dropped" PROVE ~store'
    <3>1. e # proc[p] => e.pc # "dropped"
      BY <1>3 DEF Detached
    <3>2. proc[q].pc = "dropped"
      BY <1>2, <2>2, <3>1
    <3>3. QED
      BY <1>1, <3>2 DEF Stores
  <2>3. QED
    BY <1>1, <2>1, <2>2 DEF Stores, NoStoreIsForgotten
<1>13. Reported'
  <2>1. SUFFICES ASSUME ~putBack'
                 PROVE  /\ AllSound'
                        /\ \A q \in Procs : Mid(proc'[q]) => Coupled(proc'[q], obj'[proc'[q].o])
                        /\ \A q1, q2 \in Procs : Mid(proc'[q1]) /\ Mid(proc'[q2]) /\ proc'[q1].o = proc'[q2].o => q1 = q2
    BY DEF Reported, Mid, Coupled
  <2>2. /\ AllSound
        /\ \A q \in Procs : Mid(proc[q]) => Coupled(proc[q], obj[proc[q].o])
        /\ \A q1, q2 \in Procs : Mid(proc[q1]) /\ Mid(proc[q2]) /\ proc[q1].o = proc[q2].o => q1 = q2
    BY <1>1, <2>1 DEF Reported
  <2>3. \A q \in Procs : Mid(proc'[q]) => proc'[q] = proc[q]
    BY <1>2, <1>3, OnAttached
  <2>4. \A q \in Procs : SoundOr(proc'[q].rec) /\ SoundOr(proc'[q].w)
    BY <1>2, <2>1, <2>2, SMTT(40) DEF AllSound
  <2>5. AllSound'
    BY <2>1, <2>2, <2>4 DEF AllSound, Sound, SoundOr
  <2>6. QED
    BY <2>2, <2>3, <2>5, SMTT(40)
<1>14. StaysCancelled
  BY DEF StaysCancelled
<1>15. QED
  BY <1>9, <1>10, <1>11, <1>12, <1>13, <1>14 DEF Inv

\* The record that start inserts is sound.
LEMMA NewRecordIsSound ==
  ASSUME Typed
  PROVE  Sound(NewRecord)
<1>1. NewRecord.text = TextUpTo(NewRecord.last)
  <2>1. PICK a \in Nat, k \in 0..Chunks + 1 : a = 0 /\ k = 0
    BY Bounds
  <2>2. TextUpTo(<<a, k>>) = <<>> /\ NewRecord.last = <<a, k>> /\ NewRecord.text = <<>>
    BY <2>1, NewRecordIs, TextIs, TypedNats DEF NoEvent
  <2>3. QED
    BY <2>2
<1>2. NewRecord.last[2] = 0
  BY NewRecordIs, TypedNats DEF NoEvent
<1>3. QED
  BY <1>1, <1>2, NewRecordIs, TypedNats DEF Sound

\* The fields that the models' steps leave alone.
LEMMA SameBut ==
  ASSUME Inv, NEW p \in Procs
  PROVE  /\ proc = [proc EXCEPT ![p] = proc[p]] /\ proc[p] \in Entry
         /\ view \in [status : Status, text : Seq(Events)] /\ putBack \in BOOLEAN /\ store \in BOOLEAN
         /\ late \in RecOr(Begun) /\ db \in RecOr(Begun) /\ spent \in 0..Budget
         /\ ~putBack => SoundOr(late) /\ SoundOr(db) /\ SoundOr(proc[p].rec) /\ SoundOr(proc[p].w)
<1>1. Typed /\ proc \in [Procs -> Entry]
  BY DEF Inv, Typed, Entries
<1>2. QED
  BY <1>1, SoundNow DEF Typed, Fields, Counters

\* LateWriteLands preserves the invariant.
LEMMA LateWriteLandsKeeps ==
  ASSUME Inv, LateWriteLands
  PROVE  Inv' /\ StaysCancelled
<1>1. /\ late # NoRecord /\ db' = late /\ late' = NoRecord /\ obj' = obj /\ cur' = cur /\ proc' = proc
      /\ runs' = runs /\ spent' = spent /\ init' = init /\ restarts' = restarts /\ sub' = sub /\ view' = view
      /\ store' = store /\ putBack' = putBack
  BY DEF LateWriteLands, stateVars, boundVars, clientVars
<1>2. 0 \in Procs
  BY RunsAre, Bounds
<1>3. Moves(0, proc[0])
  BY <1>1, <1>2, SameBut DEF Moves
<1>4. late' \in RecOr(Begun) /\ SoundOr(late')
  BY <1>1 DEF RecOr, SoundOr
<1>5. Quiet(0, proc[0])
  BY <1>1, <1>2, <1>3, <1>4, SameBut DEF Quiet
<1>6. QED
  BY <1>5, QuietMove

\* Unsubscribe preserves the invariant.
LEMMA UnsubscribeKeeps ==
  ASSUME Inv, Unsubscribe
  PROVE  Inv' /\ StaysCancelled
<1>1. /\ sub' = 0 /\ view' = Shown(NewRecord) /\ late' = late /\ db' = db /\ obj' = obj /\ cur' = cur /\ proc' = proc
      /\ runs' = runs /\ spent' = spent /\ init' = init /\ restarts' = restarts
      /\ store' = store /\ putBack' = putBack
  BY DEF Unsubscribe, stateVars, boundVars
<1>2. 0 \in Procs
  BY RunsAre, Bounds
<1>3. Moves(0, proc[0])
  BY <1>1, <1>2, SameBut DEF Moves
<1>4. view' \in [status : Status, text : Seq(Events)]
  <2>1. NewRecord \in Record
    BY NewRecordIs, RecIsRecord
  <2>2. QED
    BY <1>1, <2>1, RecordFields DEF Shown
<1>5. Quiet(0, proc[0])
  BY <1>1, <1>2, <1>3, <1>4, SameBut DEF Quiet
<1>6. QED
  BY <1>5, QuietMove

\* Start preserves the invariant.
LEMMA StartKeeps ==
  ASSUME Inv, NEW c \in Calls, NEW how \in Starts, Start(c, how)
  PROVE  Inv' /\ StaysCancelled
<1>1. /\ proc[c] = Idle /\ Known = NoRecord /\ runs < MaxRuns /\ \A p \in Procs : proc[p].op # "start"
      /\ obj' = obj /\ cur' = cur /\ late' = late /\ db' = db /\ sub' = sub /\ view' = view
      /\ runs' = runs /\ spent' = spent /\ init' = init /\ restarts' = restarts
      /\ store' = store /\ putBack' = putBack
  BY DEF Start, stateVars, boundVars, clientVars
<1>2. Typed /\ c \in Procs
  BY CallIs DEF Inv
<1>3. db = NoRecord /\ runs = 0 /\ restarts = 0 /\ MaxRuns # 0
  <2>1. cur = 0
    <3>1. SUFFICES ASSUME cur # 0 PROVE FALSE
      OBVIOUS
    <3>2. cur \in 1..Len(obj)
      BY <1>2, <3>1, TypedNats DEF Typed, Fields
    <3>3. obj[cur].rec \in Rec(Begun)
      BY <1>2, <3>2 DEF Typed, Objects
    <3>4. QED
      BY <1>1, <3>1, <3>3, NoRecordIs DEF Known
  <2>2. QED
    BY <1>1, <1>2, <2>1 DEF Known, Typed, Early
<1>4. PICK e : e = [Idle EXCEPT !.pc = "inserting", !.op = "start", !.planning = how.planning,
                                !.files = how.files, !.w = NewRecord]
  OBVIOUS
<1>5. proc' = [proc EXCEPT ![c] = e]
  BY <1>4 DEF Start
<1>6. /\ e \in Entry /\ e.pc = "inserting" /\ e.op = "start" /\ e.w = NewRecord /\ e.rec = NoRecord
      /\ e.o = 0 /\ e.back = "idle"
  <2>1. how.planning \in BOOLEAN /\ how.files \in BOOLEAN
    BY ResearchAssumption
  <2>2. PICK a \in BOOLEAN, b \in BOOLEAN : a = how.planning /\ b = how.files
    BY <2>1
  <2>3. NewRecord \in Record \cup {NoRecord}
    BY NewRecordIs, RecIsRecord
  <2>4. PICK w \in Record \cup {NoRecord} : w = NewRecord
    BY <2>3
  <2>5. PICK pc \in PCs : pc = "inserting"
    BY DEF PCs
  <2>6. PICK op \in Operations : op = "start"
    BY DEF Operations
  <2>7. e = [Idle EXCEPT !.pc = pc, !.op = op, !.planning = a, !.files = b, !.w = w]
    BY <1>4, <2>2, <2>4, <2>5, <2>6
  <2>8. e \in Entry /\ e.pc = pc /\ e.op = op /\ e.w = w /\ e.rec = Idle.rec /\ e.o = Idle.o /\ e.back = Idle.back
    BY <2>7, IdleIs, ZenonT(40) DEF Entry
  <2>9. QED
    BY <2>4, <2>5, <2>6, <2>8, IdleIs
<1>7. NewRecord \in RecOr(Begun) /\ NewRecord # NoRecord /\ NoRecord \in RecOr(Begun)
  BY <1>2, TypedNats, NewRecordIs DEF RecOr
<1>8. Sound(NewRecord)
  BY <1>2, NewRecordIsSound
<1>9. Apart(c, e)
  BY <1>1, <1>2, <1>3, <1>6, <1>7, TypedNats DEF Apart, Detached, Holding
<1>10. SoundOr(e.rec) /\ SoundOr(e.w)
  BY <1>6, <1>8 DEF SoundOr
<1>11. Quiet(c, e)
  <2>1. proc[c].pc \notin FlushPCs
    BY <1>1, IdleIs DEF FlushPCs
  <2>2. Moves(c, e)
    BY <1>2, <1>5, <1>6 DEF Moves
  <2>3. QED
    BY <1>1, <1>2, <1>9, <1>10, <2>1, <2>2, SameBut DEF Quiet
<1>12. QED
  BY <1>11, QuietMove

\* RowInserted preserves the invariant.
LEMMA RowInsertedKeeps ==
  ASSUME Inv, NEW c \in Calls, RowInserted(c)
  PROVE  Inv' /\ StaysCancelled
<1>1. /\ proc[c].pc = "inserting" /\ db' = proc[c].w
      /\ obj' = obj /\ cur' = cur /\ late' = late /\ sub' = sub /\ view' = view
      /\ runs' = runs /\ spent' = spent /\ init' = init /\ restarts' = restarts
      /\ store' = store /\ putBack' = putBack
  BY DEF RowInserted, Lands, stateVars, boundVars, clientVars
<1>2. Typed /\ c \in Procs /\ Shaped(c, proc[c]) /\ Timed(c, proc[c]) /\ proc[c].back = "idle"
  BY CallIs DEF Inv
<1>3. proc[c].w \in Rec(Begun) /\ proc[c].rec \in RecOr(Begun) /\ proc[c].op = "start" /\ proc[c].o <= Len(obj)
  BY <1>1, <1>2 DEF Shaped, Timed, Writing, RecOr
<1>4. PICK e, pc, w : Became(c, e, pc, w, proc[c].next, proc[c].op) /\ pc = "inserted" /\ w = NoRecord
  <2>1. PICK pc \in PCs, w \in Record \cup {NoRecord} : pc = "inserted" /\ w = NoRecord
    BY DEF PCs
  <2>2. proc' = [proc EXCEPT ![c].pc = pc, ![c].w = w]
    BY <2>1 DEF RowInserted
  <2>3. \E e : Became(c, e, pc, w, proc[c].next, proc[c].op)
    BY <1>2, <2>2, PcWriteMoves
  <2>4. QED
    BY <2>1, <2>3
<1>5. db' # NoRecord /\ db' \in RecOr(Begun) /\ NoRecord \in RecOr(Begun)
  BY <1>1, <1>3, RecIsOr DEF RecOr
<1>6. Apart(c, e)
  BY <1>2, <1>3, <1>4, <1>5 DEF Apart, Became, Detached, Writing, Holding
<1>7. ~putBack => SoundOr(db') /\ SoundOr(late) /\ SoundOr(e.rec) /\ SoundOr(e.w)
  BY <1>1, <1>2, <1>4, SoundNow DEF Became, SoundOr
<1>8. Quiet(c, e)
  <2>1. proc[c].pc \notin FlushPCs
    BY <1>1 DEF FlushPCs
  <2>2. QED
    BY <1>1, <1>2, <1>4, <1>5, <1>6, <1>7, <2>1, SameBut DEF Quiet, Became
<1>9. QED
  BY <1>8, QuietMove

\* What a call makes of a record: renamed and attached keep the report, follow-ups and refinements clear
\* it.
LEMMA EditedIs ==
  ASSUME NEW n \in Nat, NEW rec \in Rec(n), NEW op, NEW y, y = Edited(op, rec)
  PROVE  /\ y \in Rec(n) /\ y.last = rec.last /\ y.store = rec.store /\ y.inter = rec.inter
         /\ op \in {"rename", "attach"} => y.status = rec.status /\ y.text = rec.text /\ y.plan = rec.plan
         /\ op \notin {"rename", "attach"} => y.status = "pending" /\ y.text = <<>> /\ ~y.plan
<1>1. CASE op \in {"rename", "attach"}
  <2>1. PICK b \in BOOLEAN : b = TRUE
    OBVIOUS
  <2>2. y = [rec EXCEPT !.edited = b]
    BY <1>1, <2>1 DEF Edited
  <2>3. QED
    BY <1>1, <2>2 DEF Rec, Record
<1>2. CASE op \notin {"rename", "attach"}
  <2>1. PICK b \in BOOLEAN, st \in Status, t \in Seq(Events), so \in {"none", "opaque", "resolved"} :
          ~b /\ st = "pending" /\ t = <<>> /\ so = "none"
    <3>1. "pending" \in Status /\ <<>> \in Seq(Events)
      BY DEF Status
    <3>2. QED
      BY <3>1
  <2>2. y = [rec EXCEPT !.plan = b, !.status = st, !.text = t, !.sources = so]
    BY <1>2, <2>1 DEF Edited
  <2>3. rec \in Record
    BY RecIsRecord
  <2>4. /\ y \in Record /\ y.last = rec.last /\ y.store = rec.store /\ y.inter = rec.inter /\ y.status = st
        /\ y.text = t /\ y.plan = b
    BY <2>2, <2>3, ZenonT(40) DEF Record
  <2>5. y \in Rec(n)
    BY <2>1, <2>4 DEF Rec
  <2>6. QED
    BY <1>2, <2>1, <2>4, <2>5
<1>3. QED
  BY <1>1, <1>2

\* What the types say of the state in the map, and of the record the service knows.
LEMMA MapIs ==
  ASSUME Inv
  PROVE  /\ cur # 0 => cur \in 1..Len(obj) /\ cur <= Len(obj) /\ obj[cur] \in Object /\ obj[cur].rec \in Rec(Begun) /\ Known = obj[cur].rec
         /\ cur = 0 => sub = 0 /\ Known = db
         /\ Preparing => cur # 0
         /\ cur \in 0..Len(obj) /\ sub \in 0..Len(obj) /\ obj \in Seq(Object) /\ Len(obj) \in Nat /\ Len(obj) <= MaxObjs
         /\ Begun \in Nat
         /\ \A p, o : o > Len(obj) => Sole(p, o)
<1>1. Typed /\ Followed /\ Stores /\ Len(obj) \in Nat /\ obj \in Seq(Object)
  BY TypedNats DEF Inv, Typed, Objects
<1>2. cur \in 0..Len(obj) /\ sub \in 0..Len(obj) /\ Len(obj) <= MaxObjs /\ Begun \in Nat
  BY <1>1, TypedNats DEF Typed, Fields, Objects
<1>3. cur # 0 => cur \in 1..Len(obj) /\ cur <= Len(obj) /\ obj[cur] \in Object /\ obj[cur].rec \in Rec(Begun) /\ Known = obj[cur].rec
  BY <1>1, <1>2 DEF Typed, Objects, Known
<1>4. Preparing => cur # 0
  <2>1. ASSUME NEW r \in Runs, proc[r].pc = "prepare" PROVE cur # 0
    BY <1>1, <2>1, RunIs DEF Stores
  <2>2. QED
    BY <2>1 DEF Preparing
<1>5. ASSUME NEW p, NEW o, o > Len(obj) PROVE Sole(p, o)
  <2>1. ASSUME NEW q \in Procs, Mid(proc[q]) PROVE proc[q].o # o
    <3>1. proc[q].o \in 1..Len(obj)
      BY <1>1, <2>1, OnAttached, Attached
    <3>2. QED
      BY <1>1, <1>5, <3>1
  <2>2. QED
    BY <2>1 DEF Sole
<1>6. QED
  BY <1>1, <1>2, <1>3, <1>4, <1>5 DEF Followed, Known

\* A call that puts a record into the map has a state there.
LEMMA PutState ==
  ASSUME Inv, NEW rec \in Rec(Begun), MayHaveState
  PROVE  \E c, s : Put(StateOf(rec), rec, StateId, c, s)
<1>1. PICK c, s : c = (cur # 0 /\ obj[cur].cancel) /\ s = (cur # 0 /\ obj[cur].stream)
  OBVIOUS
<1>2. cur \in 0..Len(obj) /\ obj \in Seq(Object) /\ Len(obj) \in Nat /\ Len(obj) <= MaxObjs
  BY MapIs
<1>3. /\ Wrote(obj, StateOf(rec), StateId, rec, c, s)
      /\ StateId # 0 /\ (cur # 0 => StateId = cur) /\ (cur = 0 => StateId = Len(obj) + 1)
      /\ Len(StateOf(rec)) <= MaxObjs
  BY <1>1, <1>2, StateOfDoes DEF Rec
<1>4. cur # 0 => c = obj[cur].cancel /\ s = obj[cur].stream
  BY <1>1, MapIs DEF Object
<1>5. cur = 0 => ~c /\ ~s
  BY <1>1
<1>6. Put(StateOf(rec), rec, StateId, c, s)
  BY <1>2, <1>3, <1>4, <1>5 DEF Put
<1>7. QED
  BY <1>6

\* What it then writes to that state it writes to the states before.
LEMMA PutThen ==
  ASSUME Inv, NEW q, NEW rec, NEW o, NEW c, NEW s, Put(q, rec, o, c, s), NEW q2, NEW rec2, NEW c2,
         NEW s2, Wrote(q, q2, o, rec2, c2, s2)
  PROVE  Wrote(obj, q2, o, rec2, c2, s2) /\ Len(q2) <= MaxObjs
<1>1. Wrote(obj, q, o, rec, c, s) /\ obj \in Seq(Object) /\ q \in Seq(Object) /\ o \in 1..Len(q) /\ Len(q) <= MaxObjs
  BY MapIs DEF Put, Wrote
<1>2. Wrote(obj, q2, o, rec2, c2, s2)
  BY <1>1, Then
<1>3. Len(q) \in Nat /\ Len(q2) = Len(q)
  <2>1. Len(q) \in Nat
    BY <1>1
  <2>2. Len(q2) = Len(q) \/ (Len(q2) = Len(q) + 1 /\ o = Len(q2))
    BY DEF Wrote
  <2>3. QED
    BY <1>1, <2>1, <2>2
<1>4. QED
  BY <1>1, <1>2, <1>3

\* A record that replaces another is a stale one, or the one the service knows.
LEMMA ReplacesIs ==
  ASSUME Inv, NEW rec, Replaces(rec)
  PROVE  putBack' \in BOOLEAN /\ (putBack => putBack') /\ (~putBack' => ~putBack /\ Known = rec)
BY SameBut, RunsAre, Bounds DEF Replaces, Inv, Typed, Fields

\* The approval of a plan, a new title or a file: the record is put, and is to be written.
LEMMA PutAndFlushKeeps ==
  ASSUME Inv, NEW p, NEW entry, NEW rec, Proceeding(p, entry, rec), PutAndFlush(p, entry, rec),
         entry.op \in {"rename", "attach"} \/ (entry.op \in Steering /\ rec.plan)
  PROVE  Inv' /\ StaysCancelled
<1>. USE DEF Proceeding
<1>1. Typed /\ Begun \in Nat /\ p \in Procs
  BY CallIs, MapIs DEF Inv
<1>2. PICK ch : ch = Edited(entry.op, rec)
  OBVIOUS
<1>3. /\ MayHaveState /\ Replaces(rec) /\ obj' = Flushed(Patched(StateOf(rec), StateId, ch), StateId)
      /\ cur' = StateId /\ sub' = sub /\ view' = view
  BY <1>2 DEF PutAndFlush, clientVars
<1>4. /\ ch \in Rec(Begun) /\ ch.last = rec.last /\ ch.store = rec.store /\ ch.inter = rec.inter
      /\ entry.op \in {"rename", "attach"} => ch.status = rec.status /\ ch.text = rec.text /\ ch.plan = rec.plan
      /\ entry.op \notin {"rename", "attach"} => ch.status = "pending" /\ ch.text = <<>> /\ ~ch.plan
  BY <1>1, <1>2, EditedIs
<1>5. PICK o, c, s : Put(StateOf(rec), rec, o, c, s) /\ o = StateId
  BY <1>3, PutState
<1>6. Wrote(obj, obj', o, ch, c, s) /\ Len(obj') <= MaxObjs
  <2>1. PICK q : q = StateOf(rec)
    OBVIOUS
  <2>2. q \in Seq(Object) /\ o \in 1..Len(q) /\ q[o].cancel = c /\ q[o].stream = s
    BY <1>5, <2>1 DEF Put, Wrote
  <2>3. Wrote(q, Flushed(Patched(q, o, ch), o), o, ch, c, s)
    BY <1>4, <2>2, PutDoes, RecIsRecord
  <2>4. QED
    BY <1>3, <1>5, <2>1, <2>3, PutThen
<1>7. PICK e : e = [entry EXCEPT !.pc = "saving", !.o = o, !.rec = NoRecord, !.w = ch]
  OBVIOUS
<1>8. proc' = [proc EXCEPT ![p] = e]
  BY <1>2, <1>5, <1>7 DEF PutAndFlush
<1>9. /\ e \in Entry /\ e.pc = "saving" /\ e.op = entry.op /\ e.o = o /\ e.rec = NoRecord /\ e.w = ch
      /\ e.back = "idle"
  <2>1. PICK pc \in PCs, w \in Record \cup {NoRecord}, i \in Nat, x \in Record \cup {NoRecord} :
          pc = "saving" /\ w = ch /\ i = o /\ x = NoRecord
    <3>1. "saving" \in PCs /\ ch \in Record
      BY <1>4, RecIsRecord DEF PCs
    <3>2. o \in Nat
      BY <1>5 DEF Put, Wrote
    <3>3. QED
      BY <3>1, <3>2
  <2>2. e = [entry EXCEPT !.pc = pc, !.o = i, !.rec = x, !.w = w]
    BY <1>7, <2>1
  <2>3. e \in Entry /\ e.pc = pc /\ e.op = entry.op /\ e.o = i /\ e.rec = x /\ e.w = w /\ e.back = entry.back
    BY <2>2 DEF Entry
  <2>4. QED
    BY <2>1, <2>3
<1>10. putBack' \in BOOLEAN /\ (putBack => putBack') /\ (~putBack' => ~putBack /\ Known = rec)
  BY <1>3, ReplacesIs
<1>11. /\ e.pc \in CallPCs \ {"inserting", "inserted", "loading"} /\ e.pc \notin Holding /\ e.pc \notin Dropping
       /\ e.pc \in FlushPCs /\ e.op # "start" /\ proc[p].pc \notin FlushPCs
  BY <1>9 DEF CallPCs, Holding, Dropping, FlushPCs, Steering
<1>12. entry.op \in Steering <=> entry.op \notin {"rename", "attach"}
  BY DEF Steering
<1>13. entry.op \in Steering => rec.plan /\ Begun # 0
  BY <1>12 DEF Rec
<1>14. CallTypes(p, e, o, ch, c, s)
  <2>1. Moves(p, e)
    BY <1>1, <1>8, <1>9 DEF Moves
  <2>2. e.o <= Len(obj') /\ e.o # 0 /\ cur' \in 0..Len(obj') /\ sub' \in 0..Len(obj')
    <3>1. o \in 1..Len(obj') /\ Len(obj) <= Len(obj') /\ Len(obj') \in Nat
      BY <1>6, MapIs DEF Wrote
    <3>2. sub \in 0..Len(obj) /\ Len(obj) \in Nat
      BY MapIs
    <3>3. QED
      BY <1>3, <1>5, <1>9, <3>1, <3>2
  <2>3. e.w \in RecOr(Begun) /\ e.w # NoRecord /\ e.rec \in RecOr(Begun)
    BY <1>4, <1>9, RecIsOr DEF RecOr
  <2>4. store' \in BOOLEAN
    BY StoreKept
  <2>5. QED
    BY <1>3, <1>4, <1>6, <1>9, <1>10, <1>11, <1>13, <2>1, <2>2, <2>3, <2>4 DEF CallTypes
<1>15. /\ cur # 0 => o = cur /\ o <= Len(obj) /\ c = obj[cur].cancel /\ s = obj[cur].stream /\ Known = obj[cur].rec
       /\ cur = 0 => o > Len(obj) /\ ~(o <= Len(obj)) /\ sub = 0
       /\ Preparing => cur # 0
       /\ cur' = o /\ o # 0
  BY <1>3, <1>5, MapIs DEF Put, Wrote
<1>16. CallShows(p, e, o, ch, c)
  <2>1. ASSUME o <= Len(obj), ~putBack', ch.status # obj[o].rec.status
        PROVE  entry.op \in Steering /\ obj[o].rec.plan /\ ch.status = "pending"
    <3>1. rec = obj[o].rec
      BY <1>10, <1>15, <2>1
    <3>2. QED
      BY <1>4, <1>12, <1>13, <2>1, <3>1
  <2>2. sub' = 0 \/ (sub' = sub /\ cur' = cur)
    BY <1>3, <1>15
  <2>3. o <= Len(obj) /\ obj[o].cancel => c
    BY <1>15
  <2>4. QED
    BY <1>3, <1>9, <1>11, <2>1, <2>2, <2>3 DEF CallShows
<1>17. CallKeeps(p, e, o, ch, c, s)
  <2>1. restarts = 0 /\ ~putBack' /\ store' => o = cur' /\ ch.store
    <3>1. SUFFICES ASSUME restarts = 0, ~putBack', store' PROVE ch.store
      BY <1>15
    <3>2. store /\ ~putBack /\ Known = rec
      BY <1>10, <3>1
    <3>3. cur \in 1..Len(obj) /\ obj[cur].rec.store
      BY <3>1, <3>2, StoreKept
    <3>4. cur # 0
      BY <3>3
    <3>5. QED
      BY <1>4, <1>15, <3>2, <3>3, <3>4
  <2>2. ASSUME ~putBack'
        PROVE  /\ Sound(ch) /\ SoundOr(e.rec) /\ SoundOr(e.w)
               /\ Mid(e) => e.o = o /\ Coupled(e, obj'[o]) /\ Sole(p, o)
               /\ Sole(p, o) \/ (o <= Len(obj) /\ Alike(obj[o], ch, c))
    <3>1. Sound(rec)
      BY <1>10, <2>2
    <3>2. Sound(ch)
      <4>1. CASE entry.op \in {"rename", "attach"}
        BY <1>4, <3>1, <4>1 DEF Sound
      <4>2. CASE entry.op \notin {"rename", "attach"}
        BY <1>4, <1>12, <1>13, <3>1, <4>2 DEF Sound
      <4>3. QED
        BY <4>1, <4>2
    <3>3. entry.op \in Steering => Sole(p, o)
      <4>1. CASE cur = 0
        BY <1>15, <4>1, MapIs
      <4>2. CASE cur # 0
        <5>1. SUFFICES ASSUME entry.op \in Steering, NEW q \in Procs, Mid(proc[q]), proc[q].o = o PROVE FALSE
          BY DEF Sole
        <5>2. Coupled(proc[q], obj[o])
          BY <1>10, <2>2, <5>1, SoundNow
        <5>3. obj[o].rec.plan
          BY <1>10, <1>13, <1>15, <2>2, <4>2, <5>1
        <5>4. QED
          BY <5>2, <5>3 DEF Coupled
      <4>3. QED
        BY <4>1, <4>2
    <3>4. entry.op \in {"rename", "attach"} => Sole(p, o) \/ (o <= Len(obj) /\ Alike(obj[o], ch, c))
      <4>1. CASE cur = 0
        BY <1>15, <4>1, MapIs
      <4>2. CASE cur # 0
        <5>1. rec = obj[o].rec /\ o <= Len(obj) /\ c = obj[o].cancel
          BY <1>10, <1>15, <2>2, <4>2
        <5>2. QED
          BY <1>4, <5>1 DEF Alike
      <4>3. QED
        BY <4>1, <4>2
    <3>5. Mid(e) => entry.op \in Steering
      BY <1>9 DEF Mid
    <3>6. entry.op \in Steering => Coupled(e, obj'[o])
      <4>1. obj'[o].rec = ch
        BY <1>6 DEF Wrote
      <4>2. QED
        BY <1>4, <1>9, <1>12, <4>1 DEF Coupled
    <3>7. SoundOr(e.rec) /\ SoundOr(e.w)
      BY <1>9, <3>2 DEF SoundOr
    <3>8. QED
      BY <1>9, <1>12, <3>2, <3>3, <3>4, <3>5, <3>6, <3>7
  <2>3. Preparing => cur' = cur /\ (o = cur => s \/ s = obj[cur].stream)
    BY <1>15
  <2>4. QED
    BY <1>11, <2>1, <2>2, <2>3 DEF CallKeeps, Dropping
<1>18. QED
  BY <1>14, <1>16, <1>17, CallMove

\* A call that subscribes preserves the invariant.
LEMMA SubscribeKeeps ==
  ASSUME Inv, NEW p, NEW entry, NEW rec, Proceeding(p, entry, rec), MayHaveState, Replaces(rec),
         obj' = StateOf(rec), cur' = StateId, sub' = StateId, view' = Shown(rec), proc' = [proc EXCEPT ![p] = Idle]
  PROVE  Inv' /\ StaysCancelled
<1>. USE DEF Proceeding
<1>1. Typed /\ Begun \in Nat /\ p \in Procs
  BY CallIs, MapIs DEF Inv
<1>2. PICK o, c, s : Put(obj', rec, o, c, s) /\ o = StateId
  BY PutState
<1>3. putBack' \in BOOLEAN /\ (putBack => putBack') /\ (~putBack' => ~putBack /\ Known = rec)
  BY ReplacesIs
<1>4. /\ Wrote(obj, obj', o, rec, c, s) /\ Len(obj') <= MaxObjs
      /\ cur # 0 => o = cur /\ o <= Len(obj) /\ c = obj[cur].cancel /\ s = obj[cur].stream /\ Known = obj[cur].rec
      /\ cur = 0 => o > Len(obj) /\ ~(o <= Len(obj)) /\ sub = 0
      /\ Preparing => cur # 0
      /\ cur' = o /\ sub' = o /\ o # 0
  BY <1>2, MapIs DEF Put, Wrote
<1>5. PICK e : e = Idle
  OBVIOUS
<1>6. Moves(p, e)
  BY <1>1, <1>5, IdleIs DEF Moves
<1>7. /\ e.pc = "idle" /\ e.op = "none" /\ e.o = 0 /\ e.back = "idle" /\ e.rec = NoRecord /\ e.w = NoRecord
      /\ NoRecord \in RecOr(Begun)
  BY <1>5, IdleIs DEF RecOr
<1>8. /\ e.pc \in CallPCs \ {"inserting", "inserted", "loading"} /\ e.pc \notin Holding /\ e.pc \notin Dropping
      /\ e.pc \notin Writing /\ e.pc \in Detached /\ e.op # "start" /\ ~Mid(e)
  BY <1>7 DEF CallPCs, Holding, Dropping, Detached, Writing, Mid
<1>9. CallTypes(p, e, o, rec, c, s)
  <2>1. o \in 1..Len(obj') /\ Len(obj') \in Nat
    BY <1>4 DEF Wrote
  <2>2. e.o <= Len(obj') /\ cur' \in 0..Len(obj') /\ sub' \in 0..Len(obj')
    BY <1>4, <1>7, <2>1
  <2>3. store' \in BOOLEAN
    BY StoreKept
  <2>4. QED
    BY <1>3, <1>4, <1>6, <1>7, <1>8, <2>2, <2>3 DEF CallTypes
<1>10. CallShows(p, e, o, rec, c)
  <2>1. o <= Len(obj) /\ ~putBack' => rec = obj[o].rec /\ c = obj[o].cancel
    BY <1>3, <1>4
  <2>2. o <= Len(obj) /\ obj[o].cancel => c
    BY <1>4
  <2>3. QED
    BY <1>4, <1>7, <2>1, <2>2 DEF CallShows
<1>11. CallKeeps(p, e, o, rec, c, s)
  <2>1. restarts = 0 /\ ~putBack' /\ store' => o = cur' /\ rec.store
    <3>1. SUFFICES ASSUME restarts = 0, ~putBack', store' PROVE rec.store
      BY <1>4
    <3>2. store /\ ~putBack /\ Known = rec
      BY <1>3, <3>1
    <3>3. cur \in 1..Len(obj) /\ obj[cur].rec.store
      BY <3>1, <3>2, StoreKept
    <3>4. cur # 0
      BY <3>3
    <3>5. QED
      BY <1>4, <3>2, <3>3, <3>4
  <2>2. ASSUME ~putBack'
        PROVE  /\ Sound(rec) /\ SoundOr(e.rec) /\ SoundOr(e.w)
               /\ Sole(p, o) \/ (o <= Len(obj) /\ Alike(obj[o], rec, c))
    <3>1. Sound(rec) /\ SoundOr(NoRecord)
      BY <1>3, <2>2 DEF SoundOr
    <3>2. CASE cur = 0
      BY <1>4, <1>7, <3>1, <3>2, MapIs
    <3>3. CASE cur # 0
      <4>1. rec = obj[o].rec /\ o <= Len(obj) /\ c = obj[o].cancel
        BY <1>3, <1>4, <2>2, <3>3
      <4>2. QED
        BY <1>7, <3>1, <4>1 DEF Alike
    <3>4. QED
      BY <3>2, <3>3
  <2>3. Preparing => cur' = cur /\ (o = cur => s \/ s = obj[cur].stream)
    BY <1>4
  <2>4. QED
    BY <1>7, <1>8, <2>1, <2>2, <2>3 DEF CallKeeps
<1>12. QED
  BY <1>9, <1>10, <1>11, CallMove

\* A call that goes on with no state, or is over.
LEMMA ProceedQuietKeeps ==
  ASSUME Inv, NEW p, NEW entry, NEW rec, Proceeding(p, entry, rec), NEW e, Moves(p, e), Apart(p, e),
         ~putBack => SoundOr(e.rec) /\ SoundOr(e.w), obj' = obj, cur' = cur, sub' = sub, view' = view,
         putBack' \in BOOLEAN, putBack => putBack'
  PROVE  Inv' /\ StaysCancelled
<1>. USE DEF Proceeding
<1>1. Typed /\ p \in Procs /\ (proc[p].pc \in Writing => proc[p].w \in Rec(Begun))
  BY CallIs DEF Inv
<1>2. db' \in RecOr(Begun) /\ db' # NoRecord
  BY <1>1, SameBut, RecIsOr
<1>3. ~putBack' => SoundOr(db') /\ SoundOr(late)
  BY <1>1, SoundNow
<1>4. proc[p].pc \notin FlushPCs
  BY DEF FlushPCs
<1>5. Quiet(p, e)
  BY <1>1, <1>2, <1>3, <1>4, SameBut DEF Quiet
<1>6. QED
  BY <1>5, QuietMove

\* Refuse preserves the invariant.
LEMMA RefuseKeeps ==
  ASSUME Inv, NEW p, NEW entry, NEW rec, Proceeding(p, entry, rec), Refuse(p)
  PROVE  Inv' /\ StaysCancelled
<1>1. p \in Calls /\ p \in Procs /\ Len(obj) \in Nat
  BY CallIs DEF Proceeding, Inv
<1>2. PICK e : e = Idle
  OBVIOUS
<1>3. Moves(p, e)
  BY <1>1, <1>2, IdleIs DEF Moves, Refuse
<1>4. Apart(p, e) /\ SoundOr(e.rec) /\ SoundOr(e.w)
  BY <1>1, <1>2, IdleIs DEF Apart, Detached, Writing, Holding, RecOr, SoundOr
<1>5. obj' = obj /\ cur' = cur /\ sub' = sub /\ view' = view /\ putBack' = putBack
  BY DEF Refuse, stateVars, clientVars
<1>6. QED
  BY <1>1, <1>3, <1>4, <1>5, SameBut, ProceedQuietKeeps

\* The entry of a call that holds a record while it reads a file.
LEMMA HeldIs ==
  ASSUME NEW entry \in Entry, NEW rec \in Record, NEW e, e = Held(entry, rec)
  PROVE  /\ e \in Entry /\ e.pc = "loading" /\ e.rec = rec /\ e.op = entry.op /\ e.o = entry.o
         /\ e.back = entry.back /\ e.w = entry.w
<1>1. PICK pc \in PCs : pc = "loading"
  BY DEF PCs
<1>2. PICK x \in Record \cup {NoRecord} : x = rec
  OBVIOUS
<1>3. e = [entry EXCEPT !.pc = pc, !.rec = x]
  BY <1>1, <1>2 DEF Held
<1>4. e \in Entry /\ e.pc = pc /\ e.rec = x /\ e.op = entry.op /\ e.o = entry.o /\ e.back = entry.back /\ e.w = entry.w
  BY <1>3, ZenonT(40) DEF Entry
<1>5. QED
  BY <1>1, <1>2, <1>4

\* A call that goes on to read a file preserves the invariant.
LEMMA LoadingKeeps ==
  ASSUME Inv, NEW p, NEW entry, NEW rec, Proceeding(p, entry, rec), entry.op = "attach",
         proc' = [proc EXCEPT ![p] = Held(entry, rec)],
         obj' = obj, cur' = cur, sub' = sub, view' = view, putBack' = putBack
  PROVE  Inv' /\ StaysCancelled
<1>1. p \in Calls /\ p \in Procs /\ entry \in Entry
  BY CallIs DEF Proceeding, Inv
<1>2. PICK e : e = Held(entry, rec)
  OBVIOUS
<1>3. /\ e \in Entry /\ e.pc = "loading" /\ e.rec = rec /\ e.op = "attach" /\ e.o = entry.o /\ e.back = entry.back
      /\ e.w = entry.w
  <2>1. rec \in Record
    BY RecIsRecord DEF Proceeding
  <2>2. QED
    BY <1>1, <1>2, <2>1, HeldIs
<1>4. proc' = [proc EXCEPT ![p] = e]
  BY <1>2
<1>5. Moves(p, e)
  BY <1>1, <1>3, <1>4 DEF Moves
<1>6. rec \in RecOr(Begun) /\ rec # NoRecord
  BY RecIsOr DEF Proceeding
<1>7. db' # NoRecord
  BY <1>1, CallIs, NoRecordIs DEF Proceeding, Inv
<1>8. Apart(p, e)
  BY <1>3, <1>6, <1>7 DEF Apart, Detached, Writing, Proceeding
<1>9. ~putBack => SoundOr(e.rec) /\ SoundOr(e.w)
  BY <1>3 DEF Proceeding, SoundOr
<1>10. putBack' \in BOOLEAN
  BY <1>1, SameBut
<1>11. QED
  BY <1>5, <1>8, <1>9, <1>10, ProceedQuietKeeps

\* Proceed preserves the invariant.
LEMMA ProceedKeeps ==
  ASSUME Inv, NEW p, NEW entry, NEW rec, Proceeding(p, entry, rec), Proceed(p, entry, rec)
  PROVE  Inv' /\ StaysCancelled
<1>1. CASE entry.op = "get" /\ Refuse(p)
  BY <1>1, RefuseKeeps
<1>2. CASE /\ entry.op = "subscribe"
           /\ MayHaveState
           /\ Replaces(rec)
           /\ obj' = StateOf(rec) /\ cur' = StateId
           /\ sub' = StateId /\ view' = Shown(rec)
           /\ proc' = [proc EXCEPT ![p] = Idle]
  BY <1>2, SubscribeKeeps
<1>3. CASE entry.op = "rename" /\ PutAndFlush(p, entry, rec)
  BY <1>3, PutAndFlushKeeps
<1>4. CASE /\ entry.op \in {"approve", "refine"}
           /\ IF rec.plan /\ rec.inter # 0 THEN PutAndFlush(p, entry, rec) ELSE Refuse(p)
  <2>1. CASE rec.plan /\ rec.inter # 0
    <3>1. PutAndFlush(p, entry, rec) /\ entry.op \in Steering /\ rec.plan
      BY <1>4, <2>1 DEF Steering
    <3>2. QED
      BY <3>1, PutAndFlushKeeps
  <2>2. CASE ~(rec.plan /\ rec.inter # 0)
    <3>1. Refuse(p)
      BY <1>4, <2>2
    <3>2. QED
      BY <3>1, RefuseKeeps
  <2>3. QED
    BY <2>1, <2>2
<1>5. CASE /\ entry.op = "attach"
           /\ IF Terminal(rec.status)
                THEN Refuse(p)
                ELSE /\ proc' = [proc EXCEPT ![p] = [entry EXCEPT !.pc = "loading", !.rec = rec]]
                     /\ UNCHANGED <<stateVars, clientVars, putBack>>
  <2>1. CASE Terminal(rec.status)
    <3>1. Refuse(p)
      BY <1>5, <2>1
    <3>2. QED
      BY <3>1, RefuseKeeps
  <2>2. CASE ~Terminal(rec.status)
    <3>1. proc' = [proc EXCEPT ![p] = Held(entry, rec)]
      BY <1>5, <2>2 DEF Held
    <3>2. obj' = obj /\ cur' = cur /\ sub' = sub /\ view' = view /\ putBack' = putBack
      BY <1>5, <2>2 DEF stateVars, clientVars
    <3>3. QED
      BY <1>5, <3>1, <3>2, LoadingKeeps
  <2>3. QED
    BY <2>1, <2>2
<1>6. QED
  BY <1>1, <1>2, <1>3, <1>4, <1>5 DEF Proceed

\* The entry of a call that is taken up.
LEMMA OpenedIs ==
  ASSUME NEW op \in Operations, NEW rec \in Record, NEW e, e = Opened(op, rec)
  PROVE  /\ e \in Entry /\ e.pc = "idle" /\ e.op = op /\ e.rec = rec /\ e.o = 0 /\ e.w = NoRecord /\ e.back = "idle"
<1>1. PICK idle \in Entry, x \in Record \cup {NoRecord} : idle = Idle /\ x = rec
  BY IdleIs
<1>2. e = [idle EXCEPT !.op = op, !.rec = x]
  BY <1>1 DEF Opened
<1>3. e \in Entry /\ e.pc = idle.pc /\ e.op = op /\ e.rec = x /\ e.o = idle.o /\ e.w = idle.w /\ e.back = idle.back
  BY <1>2, ZenonT(40) DEF Entry
<1>4. QED
  BY <1>1, <1>3, IdleIs

\* An entry that moves.
LEMMA AtIs ==
  ASSUME NEW entry \in Entry, NEW pc \in PCs, NEW e, e = At(entry, pc)
  PROVE  /\ e \in Entry /\ e.pc = pc /\ e.op = entry.op /\ e.rec = entry.rec /\ e.o = entry.o /\ e.w = entry.w
         /\ e.back = entry.back
BY DEF At, Entry

\* An entry that gives up its record.
LEMMA FreedIs ==
  ASSUME NEW entry \in Entry, NEW e, e = Freed(entry)
  PROVE  /\ e \in Entry /\ e.pc = entry.pc /\ e.op = entry.op /\ e.rec = NoRecord /\ e.o = entry.o /\ e.w = entry.w
         /\ e.back = entry.back
<1>1. PICK x \in Record \cup {NoRecord} : x = NoRecord
  OBVIOUS
<1>2. e = [entry EXCEPT !.rec = x]
  BY <1>1 DEF Freed
<1>3. /\ e \in Entry /\ e.pc = entry.pc /\ e.op = entry.op /\ e.rec = x /\ e.o = entry.o /\ e.w = entry.w
      /\ e.back = entry.back
  BY <1>2 DEF Entry
<1>4. QED
  BY <1>1, <1>3

\* An entry that gives up its record and its write.
LEMMA FreedWriteIs ==
  ASSUME NEW entry \in Entry, NEW e, e = FreedWrite(entry)
  PROVE  /\ e \in Entry /\ e.pc = entry.pc /\ e.op = entry.op /\ e.rec = NoRecord /\ e.o = entry.o /\ e.w = NoRecord
         /\ e.back = entry.back
<1>1. PICK x \in Record \cup {NoRecord} : x = NoRecord
  OBVIOUS
<1>2. e = [entry EXCEPT !.rec = x, !.w = x]
  BY <1>1 DEF FreedWrite
<1>3. /\ e \in Entry /\ e.pc = entry.pc /\ e.op = entry.op /\ e.rec = x /\ e.o = entry.o /\ e.w = x
      /\ e.back = entry.back
  BY <1>2, ZenonT(40) DEF Entry
<1>4. QED
  BY <1>1, <1>3

\* An entry that holds and writes a record.
LEMMA HoldsIs ==
  ASSUME NEW entry \in Entry, NEW pc \in PCs, NEW rec \in Record, NEW e, e = Holds(entry, pc, rec)
  PROVE  /\ e \in Entry /\ e.pc = pc /\ e.op = entry.op /\ e.rec = rec /\ e.o = entry.o /\ e.w = rec
         /\ e.back = entry.back
<1>1. PICK x \in Record \cup {NoRecord} : x = rec
  OBVIOUS
<1>2. e = [entry EXCEPT !.pc = pc, !.rec = x, !.w = x]
  BY <1>1 DEF Holds
<1>3. /\ e \in Entry /\ e.pc = pc /\ e.op = entry.op /\ e.rec = x /\ e.o = entry.o /\ e.w = x
      /\ e.back = entry.back
  BY <1>2, ZenonT(40) DEF Entry
<1>4. QED
  BY <1>1, <1>3

\* What the service knows of a research that there is.
LEMMA KnownIs ==
  ASSUME Inv, Known # NoRecord
  PROVE  Known \in Rec(Begun) /\ db # NoRecord /\ (~putBack => Sound(Known))
<1>1. Typed
  BY DEF Inv
<1>2. CASE cur # 0
  <2>1. cur \in 1..Len(obj) /\ Known = obj[cur].rec /\ Known \in Rec(Begun)
    BY <1>2, MapIs
  <2>2. db # NoRecord
    BY <1>1, <1>2 DEF Typed, Early
  <2>3. ~putBack => Sound(Known)
    BY <2>1, SoundNow, RunsAre, Bounds
  <2>4. QED
    BY <2>1, <2>2, <2>3
<1>3. CASE cur = 0
  <2>1. 0 \in Procs
    BY RunsAre, Bounds
  <2>2. Known = db /\ db \in RecOr(Begun) /\ (~putBack => SoundOr(db))
    BY <1>3, <2>1, MapIs, SameBut
  <2>3. QED
    BY <2>2 DEF RecOr, SoundOr
<1>4. QED
  BY <1>2, <1>3

\* The newer of a record that was read and the one the service knows is sound.
LEMMA NewestIs ==
  ASSUME Inv, NEW rec \in Rec(Begun), ~putBack => Sound(rec)
  PROVE  Newest(rec) \in Rec(Begun) /\ (~putBack => Sound(Newest(rec)))
<1>1. CASE cur # 0
  <2>1. Newest(rec) = obj[cur].rec /\ cur \in 1..Len(obj) /\ obj[cur].rec \in Rec(Begun)
    BY <1>1, MapIs DEF Newest
  <2>2. QED
    BY <2>1, SoundNow, RunsAre, Bounds
<1>2. CASE cur = 0
  BY <1>2 DEF Newest
<1>3. QED
  BY <1>1, <1>2

\* Called preserves the invariant.
LEMMA CalledKeeps ==
  ASSUME Inv, NEW c \in Calls, NEW op \in Ops, Call(c, op)
  PROVE  Inv' /\ StaysCancelled
<1>1. /\ proc[c] = Idle /\ spent' = spent + 1 /\ spent < Budget /\ Known # NoRecord
      /\ db' = db /\ late' = late /\ runs' = runs /\ init' = init /\ restarts' = restarts /\ store' = store
  BY DEF Call, Called, Spend
<1>2. Typed /\ c \in Procs /\ Len(obj) \in Nat
  BY CallIs DEF Inv
<1>3. spent' \in 0..Budget
  BY <1>1, <1>2, Bounds DEF Typed, Counters
<1>4. Known \in Rec(Begun) /\ db # NoRecord /\ (~putBack => Sound(Known)) /\ Known \in Record /\ Known \in RecOr(Begun)
  BY <1>1, KnownIs, RecIsRecord, RecIsOr
<1>5. op \in Operations /\ op # "start"
  BY DEF Ops, Operations
<1>6. PICK opened : opened = Opened(op, Known)
  OBVIOUS
<1>7. /\ opened \in Entry /\ opened.pc = "idle" /\ opened.op = op /\ opened.rec = Known /\ opened.o = 0
      /\ opened.w = NoRecord /\ opened.back = "idle"
  BY <1>4, <1>5, <1>6, OpenedIs
<1>8. PICK freed : freed = Freed(opened)
  OBVIOUS
<1>9. /\ freed \in Entry /\ freed.op = op /\ freed.o = 0 /\ freed.w = NoRecord /\ freed.back = "idle"
  BY <1>7, <1>8, FreedIs
<1>10. NoRecord \in RecOr(Begun) /\ SoundOr(NoRecord)
  BY DEF RecOr, SoundOr
<1>11. Proceeding(c, freed, Known)
  BY <1>1, <1>2, <1>3, <1>4, <1>9, <1>10, IdleIs DEF Proceeding
<1>12. \/ proc' = [proc EXCEPT ![c] = At(opened, "reading")] /\ UNCHANGED <<stateVars, clientVars, putBack>>
       \/ Proceed(c, freed, Known)
  BY <1>6, <1>8 DEF Call, At, Opened, Freed
<1>13. CASE Proceed(c, freed, Known)
  BY <1>11, <1>13, ProceedKeeps
<1>14. CASE proc' = [proc EXCEPT ![c] = At(opened, "reading")] /\ UNCHANGED <<stateVars, clientVars, putBack>>
  <2>1. PICK e : e = At(opened, "reading")
    OBVIOUS
  <2>2. /\ e \in Entry /\ e.pc = "reading" /\ e.op = op /\ e.rec = Known /\ e.o = 0
        /\ e.w = NoRecord /\ e.back = "idle"
    <3>1. PICK pc \in PCs : pc = "reading"
      BY DEF PCs
    <3>2. e = At(opened, pc)
      BY <2>1, <3>1
    <3>3. /\ e \in Entry /\ e.pc = pc /\ e.op = opened.op /\ e.rec = opened.rec /\ e.o = opened.o /\ e.w = opened.w
          /\ e.back = opened.back
      BY <1>7, <3>1, <3>2, AtIs
    <3>4. QED
      BY <1>7, <3>1, <3>3
  <2>3. Moves(c, e)
    BY <1>2, <1>14, <2>1, <2>2 DEF Moves
  <2>4. obj' = obj /\ cur' = cur /\ sub' = sub /\ view' = view /\ putBack' = putBack /\ putBack' \in BOOLEAN
    BY <1>2, <1>14, SameBut DEF stateVars, clientVars
  <2>5. Apart(c, e)
    BY <1>1, <1>2, <1>4, <1>5, <1>10, <2>2, NoRecordIs DEF Apart, Detached, Writing
  <2>6. ~putBack => SoundOr(e.rec) /\ SoundOr(e.w)
    BY <1>4, <1>10, <2>2 DEF SoundOr
  <2>7. QED
    BY <1>11, <2>3, <2>4, <2>5, <2>6, ProceedQuietKeeps
<1>15. QED
  BY <1>12, <1>13, <1>14

\* NothingResolved preserves the invariant.
LEMMA NothingResolvedKeeps ==
  ASSUME Inv, NEW c \in Calls, NothingResolved(c)
  PROVE  Inv' /\ StaysCancelled
<1>1. /\ proc[c].pc = "reading" /\ db' = db /\ late' = late /\ runs' = runs /\ init' = init /\ restarts' = restarts
      /\ store' = store /\ spent' = spent /\ Proceed(c, Freed(proc[c]), Newest(proc[c].rec))
  BY DEF NothingResolved, boundVars, Freed
<1>2. /\ c \in Procs /\ proc[c] \in Entry /\ Shaped(c, proc[c]) /\ proc[c].back = "idle" /\ db # NoRecord
      /\ proc[c].w \in RecOr(Begun) /\ proc[c].rec \in Rec(Begun) /\ spent \in 0..Budget
  BY <1>1, CallIs, SameBut DEF Inv, Holding
<1>3. ~putBack => SoundOr(proc[c].w) /\ Sound(proc[c].rec)
  BY <1>2, SoundNow, RecIsOr DEF SoundOr
<1>4. PICK rec : rec = Newest(proc[c].rec)
  OBVIOUS
<1>5. rec \in Rec(Begun) /\ (~putBack => Sound(rec))
  BY <1>2, <1>3, <1>4, NewestIs
<1>6. PICK freed : freed = Freed(proc[c])
  OBVIOUS
<1>7. /\ freed \in Entry /\ freed.op = proc[c].op /\ freed.o = proc[c].o /\ freed.w = proc[c].w /\ freed.back = proc[c].back
  BY <1>2, <1>6, FreedIs
<1>8. Proceeding(c, freed, rec)
  BY <1>1, <1>2, <1>3, <1>5, <1>7 DEF Proceeding, Shaped
<1>9. QED
  BY <1>1, <1>4, <1>6, <1>8, ProceedKeeps

\* Merged preserves the invariant.
LEMMA MergedKeeps ==
  ASSUME Inv, NEW c \in Calls, Merged(c)
  PROVE  Inv' /\ StaysCancelled
<1>1. /\ proc[c].pc = "merging" /\ db' = proc[c].w /\ late' = late /\ runs' = runs /\ init' = init /\ restarts' = restarts
      /\ store' = store /\ spent' = spent /\ Proceed(c, FreedWrite(proc[c]), proc[c].rec)
  BY DEF Merged, Lands, boundVars, FreedWrite
<1>2. /\ c \in Procs /\ proc[c] \in Entry /\ Shaped(c, proc[c]) /\ proc[c].back = "idle" /\ db # NoRecord
      /\ proc[c].rec \in Rec(Begun) /\ spent \in 0..Budget
  BY <1>1, CallIs, SameBut DEF Inv, Holding
<1>3. (~putBack => Sound(proc[c].rec)) /\ NoRecord \in RecOr(Begun) /\ SoundOr(NoRecord)
  BY <1>2, SoundNow, RecIsOr DEF SoundOr, RecOr
<1>4. PICK freed : freed = FreedWrite(proc[c])
  OBVIOUS
<1>5. /\ freed \in Entry /\ freed.op = proc[c].op /\ freed.o = proc[c].o /\ freed.w = NoRecord /\ freed.back = proc[c].back
  BY <1>2, <1>4, FreedWriteIs
<1>6. Proceeding(c, freed, proc[c].rec)
  BY <1>1, <1>2, <1>3, <1>5 DEF Proceeding, Shaped, Writing
<1>7. QED
  BY <1>1, <1>4, <1>6, ProceedKeeps

\* UploadRead preserves the invariant.
LEMMA UploadReadKeeps ==
  ASSUME Inv, NEW c \in Calls, UploadRead(c)
  PROVE  Inv' /\ StaysCancelled
<1>1. /\ proc[c].pc = "loading" /\ db' = db /\ late' = late /\ runs' = runs /\ init' = init /\ restarts' = restarts
      /\ store' = store /\ spent' = spent /\ PutAndFlush(c, proc[c], proc[c].rec)
  BY DEF UploadRead, boundVars
<1>2. /\ c \in Procs /\ proc[c] \in Entry /\ Shaped(c, proc[c]) /\ proc[c].back = "idle" /\ db # NoRecord
      /\ proc[c].w \in RecOr(Begun) /\ proc[c].rec \in Rec(Begun) /\ spent \in 0..Budget
  BY <1>1, CallIs, SameBut DEF Inv, Holding
<1>3. ~putBack => SoundOr(proc[c].w) /\ Sound(proc[c].rec)
  BY <1>2, SoundNow, RecIsOr DEF SoundOr
<1>4. Proceeding(c, proc[c], proc[c].rec)
  BY <1>1, <1>2, <1>3 DEF Proceeding, Shaped
<1>5. proc[c].op = "attach"
  BY <1>1, <1>2 DEF Shaped
<1>6. QED
  BY <1>1, <1>4, <1>5, PutAndFlushKeeps

\* A call on a state whose change is stored: the subscribers are told, and it is over.
LEMMA CallEndsKeeps ==
  ASSUME Inv, NEW p \in Calls, proc[p].pc \in {"saving", "cancelling"}, db' = proc[p].w, proc' = [proc EXCEPT ![p] = Idle],
         view' = IF sub = proc[p].o THEN Shown(obj[proc[p].o].rec) ELSE view,
         obj' = obj, cur' = cur, late' = late, runs' = runs, init' = init, restarts' = restarts,
         store' = store, spent' = spent, sub' = sub, putBack' = putBack
  PROVE  Inv' /\ StaysCancelled
<1>1. PICK o, rec, c, s : o = proc[p].o /\ rec = obj[o].rec /\ c = obj[o].cancel /\ s = obj[o].stream
  OBVIOUS
<1>2. Typed /\ p \in Procs /\ db # NoRecord /\ obj \in Seq(Object) /\ Len(obj) \in Nat
  BY CallIs DEF Inv
<1>3. proc[p].pc \notin Detached /\ proc[p].pc \in Writing /\ proc[p].pc \in FlushPCs
  BY DEF Detached, Writing, FlushPCs
<1>4. o \in 1..Len(obj) /\ o <= Len(obj) /\ rec \in Rec(Begun)
  BY <1>1, <1>2, <1>3, Attached
<1>5. Wrote(obj, obj', o, rec, c, s) /\ Len(obj') <= MaxObjs
  BY <1>1, <1>2, <1>4, SameObjects, MapIs
<1>6. PICK e : e = Idle
  OBVIOUS
<1>7. Moves(p, e)
  BY <1>2, <1>6, IdleIs DEF Moves
<1>8. /\ e.pc = "idle" /\ e.op = "none" /\ e.o = 0 /\ e.back = "idle" /\ e.rec = NoRecord /\ e.w = NoRecord
      /\ NoRecord \in RecOr(Begun)
  BY <1>6, IdleIs DEF RecOr
<1>9. /\ e.pc \in CallPCs \ {"inserting", "inserted", "loading"} /\ e.pc \notin Holding /\ e.pc \notin Dropping
      /\ e.pc \notin Writing /\ e.pc \in Detached /\ e.op # "start" /\ ~Mid(e)
  BY <1>8 DEF CallPCs, Holding, Dropping, Detached, Writing, Mid
<1>10. CallTypes(p, e, o, rec, c, s)
  <2>1. sub \in 0..Len(obj) /\ cur \in 0..Len(obj) /\ store' \in BOOLEAN /\ spent \in 0..Budget /\ putBack \in BOOLEAN
    BY <1>2, MapIs, SameBut
  <2>2. QED
    BY <1>1, <1>2, <1>3, <1>4, <1>5, <1>7, <1>8, <1>9, <2>1 DEF CallTypes
<1>11. CallShows(p, e, o, rec, c)
  BY <1>1, <1>4, <1>8 DEF CallShows
<1>12. CallKeeps(p, e, o, rec, c, s)
  <2>1. restarts = 0 /\ ~putBack /\ store' => \/ o = cur' /\ rec.store
                                              \/ store /\ cur' = cur /\ o # cur
    BY <1>1, StoreStays
  <2>2. ~putBack => Sound(rec) /\ SoundOr(e.rec) /\ SoundOr(e.w)
    BY <1>1, <1>2, <1>4, <1>8, SoundNow DEF SoundOr
  <2>3. Alike(obj[o], rec, c)
    BY <1>1 DEF Alike
  <2>4. QED
    BY <1>1, <1>4, <1>8, <1>9, <2>1, <2>2, <2>3 DEF CallKeeps
<1>13. QED
  BY <1>10, <1>11, <1>12, CallMove

\* Resolved preserves the invariant.
LEMMA ResolvedKeeps ==
  ASSUME Inv, NEW p \in Calls, Resolved(p)
  PROVE  Inv' /\ StaysCancelled
<1>1. PICK rec, found : rec = Newest(proc[p].rec) /\ found = [rec EXCEPT !.sources = "resolved"]
  OBVIOUS
<1>2. /\ proc[p].pc = "reading" /\ Replaces(rec)
      /\ obj' = IF cur # 0 THEN Patched(obj, cur, found) ELSE obj
      /\ cur' = cur /\ db' = db /\ late' = late /\ runs' = runs /\ init' = init /\ restarts' = restarts
      /\ store' = store /\ spent' = spent /\ sub' = sub /\ view' = view
  BY <1>1 DEF Resolved, boundVars, clientVars
<1>3. /\ p \in Procs /\ proc[p] \in Entry /\ Shaped(p, proc[p]) /\ proc[p].back = "idle" /\ db # NoRecord
      /\ proc[p].rec \in Rec(Begun) /\ spent \in 0..Budget /\ Typed /\ proc[p].op # "start" /\ Begun \in Nat
      /\ Len(obj) \in Nat
  BY <1>2, CallIs, SameBut, MapIs DEF Inv, Holding
<1>4. ~putBack => Sound(proc[p].rec)
  BY <1>3, SoundNow, RecIsOr DEF SoundOr
<1>5. rec \in Rec(Begun) /\ (~putBack => Sound(rec))
  BY <1>1, <1>3, <1>4, NewestIs
<1>6. /\ found \in Rec(Begun) /\ found.status = rec.status /\ found.text = rec.text /\ found.last = rec.last
      /\ found.plan = rec.plan /\ found.store = rec.store /\ found.inter = rec.inter
  <2>1. PICK v \in {"none", "opaque", "resolved"} : v = "resolved"
    OBVIOUS
  <2>2. found = [rec EXCEPT !.sources = v]
    BY <1>1, <2>1
  <2>3. QED
    BY <1>3, <1>5, <2>2, SourcesSet
<1>7. ~putBack => Sound(found)
  BY <1>5, <1>6 DEF Sound
<1>8. PICK e : e = Holds(proc[p], "merging", found)
  OBVIOUS
<1>9. /\ e \in Entry /\ e.pc = "merging" /\ e.op = proc[p].op /\ e.rec = found /\ e.o = proc[p].o /\ e.w = found
      /\ e.back = proc[p].back
  <2>1. PICK pc \in PCs : pc = "merging"
    BY DEF PCs
  <2>2. found \in Record /\ e = Holds(proc[p], pc, found)
    BY <1>6, <1>8, <2>1, RecIsRecord
  <2>3. /\ e \in Entry /\ e.pc = pc /\ e.op = proc[p].op /\ e.rec = found /\ e.o = proc[p].o /\ e.w = found
        /\ e.back = proc[p].back
    BY <1>3, <2>1, <2>2, HoldsIs
  <2>4. QED
    BY <2>1, <2>3
<1>10. proc' = [proc EXCEPT ![p] = e]
  BY <1>1, <1>8 DEF Resolved, Holds
<1>11. Moves(p, e)
  BY <1>3, <1>9, <1>10 DEF Moves
<1>12. putBack' \in BOOLEAN /\ (putBack => putBack') /\ (~putBack' => ~putBack /\ Known = rec)
  BY <1>2, ReplacesIs
<1>13. found \in RecOr(Begun) /\ found # NoRecord
  BY <1>6, RecIsOr
<1>14. CASE cur = 0
  <2>1. Apart(p, e)
    BY <1>2, <1>3, <1>9, <1>13 DEF Apart, Detached, Shaped
  <2>2. ~putBack' => SoundOr(e.rec) /\ SoundOr(e.w)
    BY <1>7, <1>9, <1>12 DEF SoundOr
  <2>3. proc[p].pc \notin FlushPCs
    BY <1>2 DEF FlushPCs
  <2>4. Quiet(p, e)
    BY <1>2, <1>3, <1>11, <1>12, <1>14, <2>1, <2>2, <2>3, SameBut DEF Quiet
  <2>5. QED
    BY <2>4, QuietMove
<1>15. CASE cur # 0
  <2>1. PICK o, c, s : o = cur /\ c = obj[o].cancel /\ s = obj[o].stream
    OBVIOUS
  <2>2. /\ o \in 1..Len(obj) /\ o <= Len(obj) /\ obj \in Seq(Object) /\ rec = obj[o].rec /\ Len(obj) <= MaxObjs
        /\ sub \in 0..Len(obj) /\ cur \in 0..Len(obj)
    BY <1>1, <1>15, <2>1, MapIs DEF Newest
  <2>3. Wrote(obj, obj', o, found, c, s)
    BY <1>2, <1>6, <1>15, <2>1, <2>2, PatchedDoes, RecIsRecord
  <2>4. Len(obj') = Len(obj)
    <3>1. Len(obj') = Len(obj) \/ (Len(obj') = Len(obj) + 1 /\ o = Len(obj'))
      BY <2>3 DEF Wrote
    <3>2. QED
      BY <1>3, <2>2, <3>1
  <2>5. /\ e.pc \in CallPCs \ {"inserting", "inserted", "loading"} /\ e.pc \in Detached /\ e.pc \notin Dropping
        /\ ~Mid(e) /\ e.pc \notin FlushPCs /\ e.pc # "saving" /\ e.pc # "asking" /\ e.pc # "dropped"
        /\ proc[p].pc \notin FlushPCs
    BY <1>2, <1>9 DEF CallPCs, Detached, Dropping, Mid, FlushPCs
  <2>6. CallTypes(p, e, o, found, c, s)
    <3>1. e.o <= Len(obj')
      BY <1>3, <1>9, <2>4 DEF Shaped
    <3>2. store' \in BOOLEAN
      BY <1>2, StoreKept
    <3>3. QED
      BY <1>2, <1>3, <1>6, <1>9, <1>11, <1>12, <1>13, <2>2, <2>3, <2>4, <2>5, <3>1, <3>2 DEF CallTypes
  <2>7. CallShows(p, e, o, found, c)
    <3>1. Shown(found) = Shown(obj[o].rec)
      BY <1>6, <2>2 DEF Shown
    <3>2. QED
      BY <1>2, <1>6, <2>1, <2>2, <2>5, <3>1 DEF CallShows
  <2>8. CallKeeps(p, e, o, found, c, s)
    <3>1. restarts = 0 /\ ~putBack /\ store' => \/ o = cur' /\ found.store
                                                \/ store /\ cur' = cur /\ o # cur
      BY <1>2, <1>6, <2>2, StoreStays
    <3>2. ~putBack' => Sound(found) /\ SoundOr(e.rec) /\ SoundOr(e.w)
      BY <1>7, <1>9, <1>12 DEF SoundOr
    <3>3. Alike(obj[o], found, c)
      BY <1>6, <2>1, <2>2 DEF Alike
    <3>4. QED
      BY <1>2, <1>12, <2>1, <2>2, <2>5, <3>1, <3>2, <3>3 DEF CallKeeps
  <2>9. QED
    BY <2>6, <2>7, <2>8, CallMove
<1>16. QED
  BY <1>14, <1>15

\* A call on the state o that has been told of, and is over.
LEMMA SavedKeeps ==
  ASSUME Inv, NEW p \in Calls, Saved(p), proc[p].op \notin {"approve", "refine"}
  PROVE  Inv' /\ StaysCancelled
<1>1. /\ proc[p].pc = "saving" /\ db' = proc[p].w /\ proc' = [proc EXCEPT ![p] = Idle]
      /\ view' = IF sub = proc[p].o THEN Shown(obj[proc[p].o].rec) ELSE view
      /\ obj' = obj /\ cur' = cur /\ late' = late /\ runs' = runs /\ init' = init /\ restarts' = restarts
      /\ store' = store /\ spent' = spent /\ sub' = sub /\ putBack' = putBack
  BY DEF Saved, Lands, Told
<1>2. QED
  BY <1>1, CallEndsKeeps

-----------------------------------------------------------------------------
(* The calls: cancelling *)

\* A cancelled record is sound if the one before was.
LEMMA CancelOfSound ==
  ASSUME NEW rec, NEW x, CancelOf(rec, x), Sound(x)
  PROVE  Sound(rec)
BY DEF CancelOf, Sound, Terminal

\* A step of a call that cancels preserves the invariant.
LEMMA CancelsKeeps ==
  ASSUME Inv, NEW p, NEW e, NEW o, NEW rec, NEW c, NEW s, Cancels(p, e, o, rec, c, s),
         proc[p].pc \in {"idle", "asking"}, proc[p].pc = "asking" => proc[p].o = o,
         cur' = cur \/ (cur = 0 /\ cur' = o /\ o > Len(obj)),
         o <= Len(obj) => CancelOf(rec, obj[o].rec) /\ s = obj[o].stream /\ (obj[o].cancel => c),
         o > Len(obj) => cur = 0 /\ (~putBack => Sound(rec)),
         o <= Len(obj) => e.pc = "cancelling" \/ rec = obj[o].rec
  PROVE  Inv' /\ StaysCancelled
<1>. USE DEF Cancels
<1>1. /\ Typed /\ Len(obj) \in Nat /\ sub \in 0..Len(obj) /\ cur \in 0..Len(obj) /\ o \in Nat /\ o # 0
      /\ (cur = 0 => sub = 0) /\ (Preparing => cur # 0)
  BY MapIs DEF Inv, Wrote
<1>2. /\ e.pc \in {"idle", "asking", "cancelling"} /\ e.op # "start" /\ e.back = "idle"
      /\ e.pc # "idle" => e.o = o /\ c
      /\ e.pc = "cancelling" => e.w # NoRecord
      /\ e.o <= Len(obj') /\ e.rec \in RecOr(Begun) /\ e.w \in RecOr(Begun)
      /\ ~putBack => SoundOr(e.rec) /\ SoundOr(e.w)
  <2>1. o <= Len(obj') /\ Len(obj') \in Nat
    BY DEF Wrote
  <2>2. CASE e = Idle
    BY <2>1, <2>2, IdleIs DEF RecOr, SoundOr
  <2>3. CASE e # Idle
    BY <2>1, <2>3
  <2>4. QED
    BY <2>2, <2>3
<1>3. /\ e.pc \in CallPCs \ {"inserting", "inserted", "loading"} /\ e.pc \notin Holding /\ e.pc \notin Dropping
      /\ e.pc \in Writing => e.pc = "cancelling"
      /\ e.op # "start" /\ ~Mid(e) /\ e.pc # "saving" /\ e.pc # "dropped"
      /\ e.pc = "cancelling" => e.pc \in FlushPCs
      /\ proc[p].pc \notin FlushPCs
      /\ e.pc \notin Detached => e.o # 0
  BY <1>1, <1>2 DEF CallPCs, Holding, Dropping, Writing, Mid, FlushPCs, Detached
<1>4. CallTypes(p, e, o, rec, c, s)
  <2>1. cur' \in 0..Len(obj') /\ sub' \in 0..Len(obj')
    <3>1. o \in 1..Len(obj') /\ Len(obj') \in Nat /\ Len(obj) <= Len(obj')
      BY <1>1 DEF Wrote
    <3>2. QED
      BY <1>1, <3>1
  <2>2. store' \in BOOLEAN /\ putBack' \in BOOLEAN
    BY CallIs, <1>1, SameBut
  <2>3. QED
    BY <1>2, <1>3, <2>1, <2>2 DEF CallTypes
<1>5. CallShows(p, e, o, rec, c)
  <2>1. o <= Len(obj) => rec.status = obj[o].rec.status \/ (rec.status = "cancelled" /\ c)
    <3>1. SUFFICES ASSUME o <= Len(obj), rec # obj[o].rec PROVE rec.status = obj[o].rec.status \/ (rec.status = "cancelled" /\ c)
      OBVIOUS
    <3>2. e.pc = "cancelling" /\ c
      BY <1>2, <3>1
    <3>3. QED
      BY <3>1, <3>2 DEF CancelOf
  <2>2. sub' = 0 \/ (sub' = sub /\ cur' = cur)
    BY <1>1
  <2>3. sub' = o => \/ e.pc \in FlushPCs /\ e.o = o
                    \/ view' = view /\ Shown(rec) = Shown(obj[o].rec) /\ proc[p].pc \notin FlushPCs
    BY <1>1, <1>2, <1>3
  <2>4. o <= Len(obj) /\ obj[o].cancel => c
    OBVIOUS
  <2>5. QED
    BY <1>2, <1>3, <2>1, <2>2, <2>3, <2>4 DEF CallShows
<1>6. CallKeeps(p, e, o, rec, c, s)
  <2>1. restarts = 0 /\ ~putBack' /\ store' => \/ o = cur' /\ rec.store
                                               \/ store /\ cur' = cur /\ o # cur
    <3>1. SUFFICES ASSUME restarts = 0, ~putBack, store, o = cur \/ cur' # cur PROVE o = cur' /\ rec.store
      OBVIOUS
    <3>2. cur \in 1..Len(obj) /\ obj[cur].rec.store
      BY <3>1, StoreKept
    <3>3. o = cur /\ cur' = cur /\ o <= Len(obj)
      BY <1>1, <3>1, <3>2
    <3>4. QED
      BY <3>2, <3>3 DEF CancelOf
  <2>2. ASSUME ~putBack
        PROVE  Sound(rec) /\ (Sole(p, o) \/ (o <= Len(obj) /\ Alike(obj[o], rec, c)))
    <3>1. CASE o <= Len(obj)
      <4>1. o \in 1..Len(obj) /\ p \in Procs
        BY <1>1, <3>1, CallIs
      <4>2. Sound(obj[o].rec)
        BY <2>2, <4>1, SoundNow
      <4>3. Sound(rec)
        BY <3>1, <4>2, CancelOfSound
      <4>4. Alike(obj[o], rec, c)
        BY <3>1 DEF Alike, CancelOf
      <4>5. QED
        BY <3>1, <4>3, <4>4
    <3>2. CASE o > Len(obj)
      BY <2>2, <3>2, MapIs
    <3>3. QED
      BY <1>1, <3>1, <3>2
  <2>3. Preparing => cur' = cur /\ (o = cur => s \/ s = obj[cur].stream)
    BY <1>1
  <2>4. QED
    BY <1>2, <1>3, <2>1, <2>2, <2>3 DEF CallKeeps
<1>7. QED
  BY <1>4, <1>5, <1>6, CallMove

\* The entry of a call that cancels.
LEMMA CancelEntryIs ==
  ASSUME NEW o \in Nat, NEW e, e = CancelEntry(o)
  PROVE  /\ e \in Entry /\ e.pc = "idle" /\ e.op = "cancel" /\ e.rec = NoRecord /\ e.o = o /\ e.w = NoRecord
         /\ e.back = "idle"
<1>1. PICK idle \in Entry, op \in Operations : idle = Idle /\ op = "cancel"
  BY IdleIs DEF Operations
<1>2. e = [idle EXCEPT !.op = op, !.o = o]
  BY <1>1 DEF CancelEntry
<1>3. e \in Entry /\ e.op = op /\ e.o = o /\ e.rec = idle.rec /\ e.back = idle.back /\ e.w = idle.w /\ e.pc = idle.pc
  BY <1>1, <1>2, ZenonT(40) DEF Entry
<1>4. QED
  BY <1>1, <1>3, IdleIs

\* A record that is cancelled keeps its report.
LEMMA CancelledRecIs ==
  ASSUME NEW n \in Nat, NEW x \in Rec(n), NEW rec, rec = CancelledRec(x)
  PROVE  rec \in Rec(n) /\ rec \in Record /\ CancelOf(rec, x) /\ rec.status = "cancelled"
<1>1. PICK st \in Status : st = "cancelled"
  BY DEF Status
<1>2. rec = [x EXCEPT !.status = st]
  BY <1>1 DEF CancelledRec
<1>3. /\ rec \in Rec(n) /\ rec.status = st /\ rec.text = x.text /\ rec.last = x.last /\ rec.plan = x.plan
      /\ rec.store = x.store /\ rec.inter = x.inter
  BY <1>1, <1>2, StatusSet
<1>4. QED
  BY <1>1, <1>3, RecIsRecord DEF CancelOf

\* The entry of a call that is to save a cancellation.
LEMMA CancellingIs ==
  ASSUME NEW entry \in Entry, NEW q, NEW o, NEW rec \in Record, rec = CancelledRec(q[o].rec), NEW e,
         e = Cancelling(entry, q, o)
  PROVE  /\ e \in Entry /\ e.pc = "cancelling" /\ e.op = entry.op /\ e.rec = entry.rec /\ e.o = entry.o /\ e.w = rec
         /\ e.back = entry.back
<1>1. PICK pc \in PCs, w \in Record \cup {NoRecord} : pc = "cancelling" /\ w = rec
  BY DEF PCs
<1>2. e = [entry EXCEPT !.pc = pc, !.w = w]
  BY <1>1 DEF Cancelling, CancelledRec
<1>3. /\ e \in Entry /\ e.pc = pc /\ e.op = entry.op /\ e.rec = entry.rec /\ e.o = entry.o /\ e.w = w
      /\ e.back = entry.back
  BY <1>2, ZenonT(40) DEF Entry
<1>4. QED
  BY <1>1, <1>3

\* Cancel preserves the invariant.
LEMMA CancelKeeps ==
  ASSUME Inv, NEW p \in Calls, Cancel(p)
  PROVE  Inv' /\ StaysCancelled
<1>1. /\ proc[p] = Idle /\ spent' = spent + 1 /\ spent < Budget /\ Known # NoRecord /\ MayHaveState
      /\ cur' = StateId
      /\ db' = db /\ late' = late /\ runs' = runs /\ init' = init /\ restarts' = restarts /\ store' = store
      /\ putBack' = putBack /\ sub' = sub /\ view' = view
  BY DEF Cancel, Called, Spend, clientVars
<1>2. Typed /\ p \in Procs /\ Len(obj) \in Nat /\ Begun \in Nat /\ NoRecord \in RecOr(Begun) /\ SoundOr(NoRecord)
  BY CallIs, MapIs DEF Inv, RecOr, SoundOr
<1>3. spent' \in 0..Budget
  BY <1>1, <1>2, Bounds DEF Typed, Counters
<1>4. Known \in Rec(Begun) /\ db # NoRecord /\ (~putBack => Sound(Known))
  BY <1>1, KnownIs
<1>5. PICK o, q, b, s : Put(q, Known, o, b, s) /\ q = StateOf(Known) /\ o = StateId
  BY <1>1, <1>4, PutState
<1>6. /\ Wrote(obj, q, o, Known, b, s) /\ Len(q) <= MaxObjs /\ o # 0 /\ o \in Nat
      /\ cur # 0 => o = cur /\ o <= Len(obj) /\ b = obj[cur].cancel /\ s = obj[cur].stream /\ Known = obj[cur].rec
      /\ cur = 0 => o > Len(obj) /\ ~(o <= Len(obj)) /\ ~b
      /\ q \in Seq(Object) /\ o \in 1..Len(q) /\ q[o].rec = Known /\ q[o].cancel = b /\ q[o].stream = s
  BY <1>5, MapIs DEF Put, Wrote
<1>7. cur' = cur \/ (cur = 0 /\ cur' = o /\ o > Len(obj))
  BY <1>1, <1>5, <1>6
<1>8. Wrote(q, CancelState(q, o), o, Known, TRUE, s)
  BY <1>6, CancelStateDoes
<1>9. PICK objs, entry : objs = CancelState(q, o) /\ entry = CancelEntry(o)
  OBVIOUS
<1>10. /\ objs \in Seq(Object) /\ o \in 1..Len(objs) /\ objs[o].rec = Known /\ objs[o].cancel = TRUE /\ objs[o].stream = s
  BY <1>8, <1>9 DEF Wrote
<1>11. /\ entry \in Entry /\ entry.pc = "idle" /\ entry.op = "cancel" /\ entry.rec = NoRecord /\ entry.o = o
       /\ entry.w = NoRecord /\ entry.back = "idle"
  BY <1>6, <1>9, CancelEntryIs
<1>12. CancelOf(Known, Known)
  BY DEF CancelOf
<1>13. \/ obj' = q /\ proc' = proc
       \/ obj' = objs /\ proc' = [proc EXCEPT ![p] = At(entry, "asking")]
       \/ obj' = CancelledState(objs, o) /\ proc' = [proc EXCEPT ![p] = Cancelling(entry, objs, o)]
  BY <1>5, <1>9 DEF Cancel, At, CancelEntry
<1>14. CASE obj' = q /\ proc' = proc
  <2>1. PICK e : e = Idle
    OBVIOUS
  <2>2. proc' = [proc EXCEPT ![p] = e] /\ e \in Entry
    BY <1>1, <1>2, <1>14, <2>1, SameBut
  <2>3. Moves(p, e)
    BY <1>2, <2>2 DEF Moves
  <2>4. Cancels(p, e, o, Known, b, s)
    BY <1>1, <1>3, <1>4, <1>6, <1>14, <2>1, <2>3 DEF Cancels
  <2>5. proc[p].pc = "idle"
    BY <1>1, IdleIs
  <2>6. o <= Len(obj) => CancelOf(Known, obj[o].rec) /\ s = obj[o].stream /\ (obj[o].cancel => b) /\ Known = obj[o].rec
    BY <1>6, <1>12
  <2>7. o > Len(obj) => cur = 0 /\ (~putBack => Sound(Known))
    BY <1>2, <1>4, <1>6
  <2>8. QED
    BY <1>7, <2>4, <2>5, <2>6, <2>7, CancelsKeeps
<1>15. CASE obj' = objs /\ proc' = [proc EXCEPT ![p] = At(entry, "asking")]
  <2>1. PICK e, c : e = At(entry, "asking") /\ c = TRUE
    OBVIOUS
  <2>2. /\ e \in Entry /\ e.pc = "asking" /\ e.op = "cancel" /\ e.rec = NoRecord /\ e.o = o /\ e.w = NoRecord
        /\ e.back = "idle"
    <3>1. PICK pc \in PCs : pc = "asking"
      BY DEF PCs
    <3>2. e = At(entry, pc)
      BY <2>1, <3>1
    <3>3. /\ e \in Entry /\ e.pc = pc /\ e.op = entry.op /\ e.rec = entry.rec /\ e.o = entry.o /\ e.w = entry.w
          /\ e.back = entry.back
      BY <1>11, <3>1, <3>2, AtIs
    <3>4. QED
      BY <1>11, <3>1, <3>3
  <2>3. Moves(p, e)
    BY <1>2, <1>15, <2>1, <2>2 DEF Moves
  <2>4. Wrote(obj, obj', o, Known, c, s) /\ Len(obj') <= MaxObjs
    BY <1>5, <1>8, <1>9, <1>15, <2>1, PutThen
  <2>5. Cancels(p, e, o, Known, c, s)
    BY <1>1, <1>2, <1>3, <1>4, <2>1, <2>2, <2>3, <2>4 DEF Cancels
  <2>6. proc[p].pc = "idle"
    BY <1>1, IdleIs
  <2>7. o <= Len(obj) => CancelOf(Known, obj[o].rec) /\ s = obj[o].stream /\ (obj[o].cancel => c) /\ Known = obj[o].rec
    BY <1>6, <1>12, <2>1
  <2>8. o > Len(obj) => cur = 0 /\ (~putBack => Sound(Known))
    BY <1>2, <1>4, <1>6
  <2>9. QED
    BY <1>7, <2>5, <2>6, <2>7, <2>8, CancelsKeeps
<1>16. CASE obj' = CancelledState(objs, o) /\ proc' = [proc EXCEPT ![p] = Cancelling(entry, objs, o)]
  <2>1. PICK e, c, rec : e = Cancelling(entry, objs, o) /\ c = TRUE /\ rec = CancelledRec(Known)
    OBVIOUS
  <2>2. rec \in Rec(Begun) /\ rec \in Record /\ CancelOf(rec, Known) /\ rec.status = "cancelled"
    BY <1>2, <1>4, <2>1, CancelledRecIs
  <2>3. /\ e \in Entry /\ e.pc = "cancelling" /\ e.op = entry.op /\ e.rec = entry.rec /\ e.o = entry.o /\ e.w = rec
        /\ e.back = entry.back
    BY <1>10, <1>11, <2>1, <2>2, CancellingIs
  <2>4. Moves(p, e)
    BY <1>2, <1>16, <2>1, <2>3 DEF Moves
  <2>5. Wrote(objs, CancelledState(objs, o), o, rec, objs[o].cancel, objs[o].stream)
    BY <1>2, <1>4, <1>10, <2>1, CancelledDoes DEF CancelledRec
  <2>6. Wrote(obj, objs, o, Known, TRUE, s)
    BY <1>5, <1>8, <1>9, PutThen
  <2>7. Wrote(obj, obj', o, rec, c, s) /\ Len(obj') <= MaxObjs
    <3>1. Wrote(q, objs, o, Known, TRUE, s)
      BY <1>8, <1>9
    <3>2. Wrote(objs, obj', o, rec, c, s)
      <4>1. objs[o].cancel = c /\ objs[o].stream = s
        BY <1>10, <2>1
      <4>2. QED
        BY <1>16, <2>5, <4>1
    <3>3. q \in Seq(Object)
      BY <1>6
    <3>4. Wrote(q, obj', o, rec, c, s)
      BY <3>1, <3>2, <3>3, Then
    <3>5. QED
      BY <1>5, <3>4, PutThen
  <2>8. rec \in RecOr(Begun) /\ rec # NoRecord
    BY <2>2, RecIsOr
  <2>9. ~putBack => Sound(rec)
    BY <1>4, <2>2, CancelOfSound
  <2>10. Cancels(p, e, o, rec, c, s)
    BY <1>1, <1>2, <1>3, <1>4, <1>11, <2>1, <2>2, <2>3, <2>4, <2>7, <2>8, <2>9 DEF Cancels, SoundOr
  <2>11. proc[p].pc = "idle"
    BY <1>1, IdleIs
  <2>12. o <= Len(obj) => CancelOf(rec, obj[o].rec) /\ s = obj[o].stream /\ (obj[o].cancel => c)
    BY <1>6, <2>1, <2>2
  <2>13. o > Len(obj) => cur = 0 /\ (~putBack => Sound(rec))
    BY <1>2, <1>6, <2>9
  <2>14. QED
    BY <1>7, <2>3, <2>10, <2>11, <2>12, <2>13, CancelsKeeps
<1>17. QED
  BY <1>13, <1>14, <1>15, <1>16

\* CancelAsked preserves the invariant.
LEMMA CancelAskedKeeps ==
  ASSUME Inv, NEW p \in Calls, CancelAsked(p)
  PROVE  Inv' /\ StaysCancelled
<1>1. /\ proc[p].pc = "asking" /\ cur' = cur
      /\ db' = db /\ late' = late /\ runs' = runs /\ init' = init /\ restarts' = restarts /\ store' = store
      /\ putBack' = putBack /\ sub' = sub /\ view' = view /\ spent' = spent
  BY DEF CancelAsked, clientVars, boundVars
<1>2. /\ Typed /\ Asked /\ p \in Procs /\ Len(obj) \in Nat /\ obj \in Seq(Object) /\ Begun \in Nat /\ db # NoRecord
      /\ proc[p].op # "start" /\ proc[p] \in Entry /\ proc[p].back = "idle" /\ proc[p].rec \in RecOr(Begun)
      /\ Len(obj) <= MaxObjs /\ spent \in 0..Budget
  BY <1>1, CallIs, MapIs, SameBut DEF Inv
<1>3. PICK o, c, s, rec : /\ o = proc[p].o /\ c = obj[o].cancel /\ s = obj[o].stream
                          /\ rec = CancelledRec(obj[o].rec)
  OBVIOUS
<1>4. o \in 1..Len(obj) /\ obj[o].rec \in Rec(Begun) /\ c
  BY <1>1, <1>2, <1>3, Attached DEF Asked, Detached
<1>5. rec \in Rec(Begun) /\ rec \in Record /\ CancelOf(rec, obj[o].rec) /\ rec \in RecOr(Begun) /\ rec # NoRecord
  BY <1>2, <1>3, <1>4, CancelledRecIs, RecIsOr
<1>6. Wrote(obj, obj', o, rec, c, s)
  BY <1>2, <1>3, <1>4, CancelledDoes DEF CancelledRec, CancelAsked
<1>7. Len(obj') <= MaxObjs
  <2>1. Len(obj') = Len(obj) \/ (Len(obj') = Len(obj) + 1 /\ o = Len(obj'))
    BY <1>6 DEF Wrote
  <2>2. QED
    BY <1>2, <1>4, <2>1
<1>8. PICK e : e = Cancelling(proc[p], obj, o)
  OBVIOUS
<1>9. /\ e \in Entry /\ e.pc = "cancelling" /\ e.op = proc[p].op /\ e.rec = proc[p].rec /\ e.o = proc[p].o /\ e.w = rec
      /\ e.back = proc[p].back
  BY <1>2, <1>3, <1>5, <1>8, CancellingIs
<1>10. Moves(p, e)
  <2>1. proc' = [proc EXCEPT ![p] = e]
    BY <1>3, <1>8 DEF CancelAsked
  <2>2. QED
    BY <1>2, <1>9, <2>1 DEF Moves
<1>11. ~putBack => SoundOr(e.rec) /\ SoundOr(e.w)
  BY <1>2, <1>4, <1>5, <1>9, SoundNow, CancelOfSound DEF SoundOr
<1>12. Cancels(p, e, o, rec, c, s)
  BY <1>1, <1>2, <1>3, <1>4, <1>5, <1>6, <1>7, <1>9, <1>10, <1>11 DEF Cancels
<1>13. o <= Len(obj) /\ ~(o > Len(obj))
  BY <1>2, <1>4
<1>14. QED
  BY <1>1, <1>3, <1>4, <1>5, <1>9, <1>12, <1>13, CancelsKeeps

\* StoreDropped of a call preserves the invariant.
LEMMA CallStoreDroppedKeeps ==
  ASSUME Inv, NEW p \in Calls, StoreDropped(p)
  PROVE  Inv' /\ StaysCancelled
<1>1. /\ proc[p].pc = "dropping" /\ db' = db /\ view' = view
      /\ cur' = cur /\ sub' = sub /\ store' = FALSE /\ init' = init
      /\ runs' = runs /\ restarts' = restarts /\ putBack' = putBack /\ spent' = spent /\ late' = late
  BY DEF StoreDropped, boundVars, clientVars
<1>2. PICK o, c, s : o = proc[p].o /\ c = obj[o].cancel /\ s = obj[o].stream
  OBVIOUS
<1>3. /\ Typed /\ Begun \in Nat /\ p \in Procs /\ Timed(p, proc[p]) /\ proc[p].rec \in RecOr(Begun)
      /\ proc[p].op # "start" /\ proc[p].back = "idle" /\ db # NoRecord /\ obj \in Seq(Object) /\ Len(obj) \in Nat
      /\ spent \in 0..Budget /\ putBack \in BOOLEAN /\ Len(obj) <= MaxObjs
  BY <1>1, CallIs, MapIs, SameBut DEF Inv
<1>4. o \in 1..Len(obj) /\ obj[o].rec \in Rec(Begun)
  BY <1>1, <1>2, <1>3, Attached DEF Detached
<1>5. Begun # 0 /\ ~Preparing
  <2>1. Begun # 0
    BY <1>1, <1>3 DEF Timed, Dropping
  <2>2. QED
    BY <2>1 DEF Begun
<1>6. PICK b \in BOOLEAN : b = FALSE
  OBVIOUS
<1>7. PICK rec : rec = [obj[o].rec EXCEPT !.store = b]
  OBVIOUS
<1>8. /\ rec \in Rec(Begun) /\ rec.status = obj[o].rec.status /\ rec.text = obj[o].rec.text
      /\ rec.last = obj[o].rec.last /\ rec.plan = obj[o].rec.plan /\ rec.inter = obj[o].rec.inter
  BY <1>3, <1>4, <1>6, <1>7, StoreSet, SMTT(40)
<1>9. obj' = Patched(obj, o, rec) /\ proc' = [proc EXCEPT ![p].pc = "dropped", ![p].w = rec]
  BY <1>2, <1>6, <1>7 DEF StoreDropped
<1>10. Wrote(obj, obj', o, rec, c, s)
  BY <1>2, <1>3, <1>4, <1>8, <1>9, PatchedDoes, RecIsRecord
<1>11. Len(obj') = Len(obj)
  <2>1. Len(obj') = Len(obj) \/ (Len(obj') = Len(obj) + 1 /\ o = Len(obj'))
    BY <1>10 DEF Wrote
  <2>2. QED
    BY <1>3, <1>4, <2>1
<1>12. PICK e, pc : Became(p, e, pc, rec, proc[p].next, proc[p].op) /\ pc = "dropped"
  <2>1. PICK pc \in PCs : pc = "dropped"
    BY DEF PCs
  <2>2. proc' = [proc EXCEPT ![p].pc = pc, ![p].w = rec]
    BY <1>9, <2>1
  <2>3. \E e : Became(p, e, pc, rec, proc[p].next, proc[p].op)
    BY <1>3, <1>8, <2>1, <2>2, RecIsRecord, PcWriteMoves
  <2>4. QED
    BY <2>1, <2>3
<1>. USE DEF Became
<1>13. /\ e.pc \in CallPCs \ {"inserting", "inserted", "loading"} /\ e.pc \in FlushPCs /\ ~Mid(e)
       /\ e.pc \notin Holding /\ e.pc # "asking" /\ e.pc # "saving" /\ proc[p].pc \in FlushPCs
  BY <1>1, <1>12 DEF CallPCs, Dropping, FlushPCs, Mid, Holding
<1>14. rec \in RecOr(Begun) /\ rec # NoRecord
  BY <1>8, RecIsOr
<1>15. o # 0 /\ o <= Len(obj) /\ sub \in 0..Len(obj) /\ cur \in 0..Len(obj)
  BY <1>3, <1>4, MapIs
<1>16. CallTypes(p, e, o, rec, c, s)
  BY <1>1, <1>2, <1>3, <1>5, <1>8, <1>10, <1>11, <1>12, <1>13, <1>14, <1>15 DEF CallTypes
<1>17. CallShows(p, e, o, rec, c)
  BY <1>1, <1>2, <1>8, <1>12, <1>13, <1>15 DEF CallShows
<1>18. CallKeeps(p, e, o, rec, c, s)
  <2>1. ASSUME ~putBack
        PROVE  Sound(rec) /\ SoundOr(e.rec) /\ SoundOr(e.w)
    <3>1. Sound(obj[o].rec) /\ SoundOr(proc[p].rec)
      BY <1>3, <1>4, <2>1, SoundNow
    <3>2. Sound(rec)
      BY <1>8, <3>1 DEF Sound
    <3>3. QED
      BY <1>12, <3>1, <3>2 DEF SoundOr
  <2>2. Alike(obj[o], rec, c)
    BY <1>2, <1>8, SMTT(40) DEF Alike
  <2>3. QED
    BY <1>1, <1>5, <1>13, <1>15, <2>1, <2>2 DEF CallKeeps
<1>19. QED
  BY <1>16, <1>17, <1>18, CallMove

\* A call that cleans up the state it has worked on.
LEMMA CallCleansKeeps ==
  ASSUME Inv, NEW p \in Calls, NEW e, NEW o, NEW rec, NEW c, NEW s, o = proc[p].o, proc[p].pc \in {"cancelling", "dropped"},
         Cleaned(p, e, "idle"), Wrote(obj, obj', o, rec, c, s), rec = obj[o].rec, c = obj[o].cancel, s = obj[o].stream,
         Unmapped(o), e.pc = "dropping" => rec.store, e.pc = "dropping" \/ sub' # o,
         proc[p].pc = "cancelling" => ~s, db' = proc[p].w,
         view' = view \/ view' = (IF sub = o THEN Shown(rec) ELSE view),
         late' = late, runs' = runs, init' = init, restarts' = restarts,
         store' = store, spent' = spent, putBack' = putBack
  PROVE  Inv' /\ StaysCancelled
<1>1. /\ Typed /\ Begun \in Nat /\ p \in Procs /\ Timed(p, proc[p]) /\ proc[p].rec \in RecOr(Begun)
      /\ proc[p].op # "start" /\ proc[p].back = "idle" /\ db # NoRecord /\ obj \in Seq(Object) /\ Len(obj) \in Nat
      /\ spent \in 0..Budget /\ putBack \in BOOLEAN /\ Len(obj) <= MaxObjs
      /\ sub \in 0..Len(obj) /\ cur \in 0..Len(obj) /\ store \in BOOLEAN /\ NoRecord \in RecOr(Begun)
  BY CallIs, MapIs, SameBut DEF Inv, RecOr
<1>2. proc[p].pc \in Writing /\ proc[p].pc \in FlushPCs /\ proc[p].pc \notin Detached
  BY DEF Writing, FlushPCs, Detached
<1>3. o \in 1..Len(obj) /\ rec \in Rec(Begun) /\ o # 0 /\ o <= Len(obj)
  BY <1>1, <1>2, Attached
<1>4. Len(obj') = Len(obj)
  <2>1. Len(obj') = Len(obj) \/ (Len(obj') = Len(obj) + 1 /\ o = Len(obj'))
    BY DEF Wrote
  <2>2. QED
    BY <1>1, <1>3, <2>1
<1>5. /\ Moves(p, e)
      /\ e = Idle \/ (e.o = o /\ e.op # "start" /\ e.rec = proc[p].rec /\ e.w = NoRecord /\ e.pc = "dropping" /\ e.back = "idle")
  BY DEF Cleaned
<1>6. /\ e.pc \in {"idle", "dropping"} /\ e.o <= Len(obj') /\ e.op # "start" /\ e.back = "idle"
      /\ e.rec \in RecOr(Begun) /\ e.w \in RecOr(Begun)
      /\ e.pc = "dropping" => e.o = o
      /\ ~putBack => SoundOr(e.rec) /\ SoundOr(e.w)
  <2>1. SoundOr(NoRecord) /\ (~putBack => SoundOr(proc[p].rec))
    BY <1>1, SoundNow DEF SoundOr
  <2>2. CASE e = Idle
    BY <1>1, <1>4, <2>1, <2>2, IdleIs
  <2>3. CASE e # Idle
    BY <1>1, <1>3, <1>4, <1>5, <2>1, <2>3
  <2>4. QED
    BY <2>2, <2>3
<1>7. /\ e.pc \in CallPCs \ {"inserting", "inserted", "loading"} /\ e.pc \notin Holding /\ e.pc \notin Writing
      /\ e.pc \notin Detached => e.pc = "dropping"
      /\ e.pc = "dropping" => e.pc \in FlushPCs
      /\ e.pc \in Dropping => e.pc = "dropping"
      /\ ~Mid(e) /\ e.pc # "saving" /\ e.pc # "asking" /\ e.pc # "dropped"
  BY <1>6 DEF CallPCs, Holding, Writing, Detached, Dropping, FlushPCs, Mid
<1>8. Begun = 0 => e.pc \notin Dropping
  BY <1>3, <1>7 DEF Rec
<1>9. CallTypes(p, e, o, rec, c, s)
  <2>1. cur' \in 0..Len(obj') /\ sub' \in 0..Len(obj')
    BY <1>1, <1>4, SMTT(40) DEF Unmapped
  <2>2. QED
    BY <1>1, <1>2, <1>3, <1>4, <1>5, <1>6, <1>7, <1>8, <2>1 DEF CallTypes
<1>10. CallShows(p, e, o, rec, c)
  <2>1. sub' = 0 \/ (sub' = sub /\ cur' = cur)
    BY DEF Unmapped
  <2>2. sub' # 0 /\ sub' # o => view' = view
    BY <2>1, SMTT(40)
  <2>3. QED
    BY <1>3, <1>6, <1>7, <2>1, <2>2 DEF CallShows
<1>11. CallKeeps(p, e, o, rec, c, s)
  <2>1. restarts = 0 /\ ~putBack /\ store' => \/ o = cur' /\ rec.store
                                              \/ store /\ cur' = cur /\ o # cur
    <3>1. CASE cur' = cur
      BY <3>1, StoreStays
    <3>2. CASE cur' # cur
      BY <3>2 DEF Unmapped
    <3>3. QED
      BY <3>1, <3>2
  <2>2. ~putBack => Sound(rec)
    BY <1>1, <1>3, SoundNow
  <2>3. Alike(obj[o], rec, c)
    BY DEF Alike
  <2>4. Preparing => cur' = cur /\ (o = cur => s \/ s = obj[cur].stream)
    <3>1. SUFFICES ASSUME Preparing PROVE cur' = cur /\ (o = cur => s)
      OBVIOUS
    <3>2. obj[cur].stream
      BY <3>1 DEF Preparing, Inv, Stores
    <3>3. Begun = 0
      BY <3>1 DEF Begun
    <3>4. proc[p].pc # "dropped"
      BY <1>1, <3>3 DEF Timed, Dropping
    <3>5. cur # o
      BY <3>2, <3>4
    <3>6. QED
      BY <3>5 DEF Unmapped
  <2>5. QED
    BY <1>3, <1>6, <1>7, <2>1, <2>2, <2>3, <2>4 DEF CallKeeps
<1>12. QED
  BY <1>9, <1>10, <1>11, CallMove

\* CancelSaved preserves the invariant.
LEMMA CancelSavedKeeps ==
  ASSUME Inv, NEW p \in Calls, CancelSaved(p)
  PROVE  Inv' /\ StaysCancelled
<1>1. /\ proc[p].pc = "cancelling" /\ db' = proc[p].w
      /\ view' = IF sub = proc[p].o THEN Shown(obj[proc[p].o].rec) ELSE view
      /\ late' = late /\ runs' = runs /\ init' = init /\ restarts' = restarts
      /\ store' = store /\ spent' = spent /\ putBack' = putBack
  BY DEF CancelSaved, Lands, Told, boundVars
<1>2. CASE obj[proc[p].o].stream
  <2>1. proc' = [proc EXCEPT ![p] = Idle] /\ obj' = obj /\ cur' = cur /\ sub' = sub
    BY <1>2 DEF CancelSaved, stateVars
  <2>2. QED
    BY <1>1, <2>1, CallEndsKeeps
<1>3. CASE ~obj[proc[p].o].stream
  <2>1. PICK back \in {"idle", "read"} : back = "idle"
    OBVIOUS
  <2>2. PICK o, rec, c, s : o = proc[p].o /\ rec = obj[o].rec /\ c = obj[o].cancel /\ s = obj[o].stream
    OBVIOUS
  <2>3. CleanUp(p, obj, o, proc[p], back)
    BY <1>3, <2>1, <2>2 DEF CancelSaved
  <2>4. /\ Typed /\ p \in Procs /\ proc[p] \in Entry /\ proc[p].op # "start" /\ obj \in Seq(Object)
    BY <1>1, CallIs DEF Inv
  <2>5. o \in 1..Len(obj)
    BY <1>1, <2>2, <2>4, Attached DEF Detached
  <2>6. Wrote(obj, obj, o, rec, c, s)
    BY <2>2, <2>4, <2>5, SameObjects
  <2>7. PICK e : /\ Cleaned(p, e, back) /\ Wrote(obj, obj', o, rec, c, s) /\ Unmapped(o)
                 /\ e.pc = "dropping" => rec.store
                 /\ e.pc = "dropping" \/ sub' # o
    BY <2>1, <2>2, <2>3, <2>4, <2>5, <2>6, CleanUpDoes, SMTT(60)
  <2>8. Cleaned(p, e, "idle")
    BY <2>1, <2>7
  <2>9. QED
    BY <1>1, <1>3, <2>2, <2>7, <2>8, CallCleansKeeps
<1>4. QED
  BY <1>2, <1>3

\* StateRemoved of a call preserves the invariant.
LEMMA CallStateRemovedKeeps ==
  ASSUME Inv, NEW p \in Calls, StateRemoved(p)
  PROVE  Inv' /\ StaysCancelled
<1>1. /\ Typed /\ Followed /\ p \in Procs /\ p # 0 /\ proc[p] \in Entry /\ proc[p].op # "start" /\ proc[p].back = "idle"
      /\ obj \in Seq(Object)
  BY CallIs, Bounds DEF Inv, Runs, StateRemoved
<1>2. /\ proc[p].pc = "dropped" /\ db' = proc[p].w /\ view' = view /\ store' = store
      /\ runs' = runs /\ restarts' = restarts /\ putBack' = putBack /\ spent' = spent /\ late' = late
      /\ init' = init
      /\ cur' = IF cur = proc[p].o THEN 0 ELSE cur
      /\ sub' = IF sub = proc[p].o THEN 0 ELSE sub
      /\ obj' = Flushed(obj, proc[p].o)
  BY <1>1 DEF StateRemoved, Lands
<1>3. PICK o, rec, c, s, back : o = proc[p].o /\ rec = obj[o].rec /\ c = obj[o].cancel /\ s = obj[o].stream
                                /\ back = proc[p].back
  OBVIOUS
<1>4. o \in 1..Len(obj)
  BY <1>1, <1>2, <1>3, Attached DEF Detached
<1>5. Wrote(obj, obj', o, rec, c, s)
  BY <1>1, <1>2, <1>3, <1>4, FlushedDoes
<1>6. PICK e : Cleaned(p, e, back) /\ e.pc # "dropping"
  <2>1. PICK e : e = GoesOn(proc[p], back)
    OBVIOUS
  <2>2. proc' = [proc EXCEPT ![p] = e]
    BY <1>3, <2>1 DEF StateRemoved
  <2>3. QED
    BY <1>1, <1>3, <2>1, <2>2, GoesOnIs, ZenonT(40)
<1>7. Cleaned(p, e, "idle")
  BY <1>1, <1>3, <1>6
<1>8. Unmapped(o) /\ sub' # o
  <2>1. ~store
    BY <1>1, <1>2, StoreKept
  <2>2. (sub # 0 => sub = cur) /\ o # 0
    BY <1>1, <1>4 DEF Followed
  <2>3. QED
    BY <1>2, <1>3, <2>1, <2>2 DEF Unmapped
<1>9. QED
  BY <1>2, <1>3, <1>5, <1>6, <1>7, <1>8, CallCleansKeeps

-----------------------------------------------------------------------------
(* The calls: starting a run *)

\* The types hold after a step in which a call starts a run.
LEMMA ExecTyped ==
  ASSUME Inv, NEW p, NEW x, NEW e, NEW o, NEW rec, NEW c, NEW s, ExecTypes(p, x, e, o, rec, c, s)
  PROVE  /\ Typed' /\ Begun \in Nat /\ ~Preparing /\ o \in 1..Len(obj') /\ Len(obj) \in Nat
         /\ p \in Procs /\ x \in Procs /\ p # x /\ p \notin Runs /\ proc[x] = Idle
         /\ proc'[p] = Idle /\ proc'[x] = e /\ (\A q \in Procs : q # p /\ q # x => proc'[q] = proc[q])
         /\ proc[p].pc \in Writing => proc[p].w \in Rec(Begun)
<1>. USE DEF ExecTypes
<1>1. Typed
  BY DEF Inv
<1>2. /\ p \in Procs /\ p \notin Runs /\ p # x /\ x \in Procs /\ (proc[p].pc \in Writing => proc[p].w \in Rec(Begun))
      /\ Len(obj) \in Nat /\ Begun \in Nat /\ runs \in Nat /\ Begun <= runs /\ obj \in Seq(Object)
  BY <1>1, CallIs, TypedNats, RunsAre
<1>3. proc[x] = Idle
  <2>1. x > runs
    BY <1>2
  <2>2. QED
    BY <1>1, <1>2, <2>1 DEF Typed, Entries, EntryOK, Timed
<1>4. /\ proc' \in [Procs -> Entry] /\ proc'[p] = Idle /\ proc'[x] = e
      /\ \A q \in Procs : q # p /\ q # x => proc'[q] = proc[q]
  <2>1. proc \in [Procs -> Entry] /\ Idle \in Entry
    BY <1>1, IdleIs DEF Typed, Entries
  <2>2. QED
    BY <1>2, <2>1
<1>5. ~Preparing
  <2>1. ASSUME NEW r \in Runs, proc[r].pc = "prepare" PROVE FALSE
    <3>1. runs = 1
      BY <1>1, <2>1, RunsAre DEF Typed, Entries, EntryOK, Timed
    <3>2. Begun = 0
      BY <1>1, <2>1, TypedNats
    <3>3. QED
      BY <3>1, <3>2
  <2>2. QED
    BY <2>1 DEF Preparing
<1>6. e.pc # "prepare" => Begun' = runs + 1
  <2>1. ASSUME e.pc # "prepare", NEW r \in Runs, proc'[r].pc = "prepare" PROVE FALSE
    <3>1. r # p /\ r \in Procs
      BY <1>2, <2>1, RunsAre
    <3>2. proc[r].pc = "prepare"
      BY <1>4, <2>1, <3>1
    <3>3. QED
      BY <1>5, <3>2 DEF Preparing
  <2>2. e.pc # "prepare" => ~Preparing'
    BY <2>1 DEF Preparing
  <2>3. QED
    BY <2>2 DEF Begun
<1>7. e.pc = "prepare" => Begun = 0
  BY <1>2
<1>8. Begun' \in Nat /\ Begun <= Begun' /\ runs <= runs'
  <2>1. Begun' \in Nat
    BY <1>2 DEF Begun
  <2>2. QED
    BY <1>2, <1>6, <1>7, <2>1
<1>9. Rec(Begun) \subseteq Rec(Begun') /\ RecOr(Begun) \subseteq RecOr(Begun')
  BY <1>2, <1>8, RecGrows
<1>10. Objects' /\ Len(obj') \in Nat /\ Len(obj) <= Len(obj') /\ o \in 1..Len(obj')
  BY <1>1, <1>8, <1>9, WroteOK
<1>11. db' \in RecOr(Begun') /\ db' # NoRecord
  <2>1. db \in RecOr(Begun)
    BY <1>1 DEF Typed, Fields
  <2>2. CASE db' = db
    BY <1>9, <2>1, <2>2
  <2>3. CASE proc[p].pc \in Writing /\ db' = proc[p].w
    <3>1. db' \in Rec(Begun')
      BY <1>2, <1>9, <2>3
    <3>2. QED
      BY <3>1, RecIsOr
  <2>4. QED
    BY <2>2, <2>3
<1>12. Fields'
  <2>1. Fields
    BY <1>1 DEF Typed
  <2>2. sub' \in 0..Len(obj')
    BY <1>2, <1>10, <2>1 DEF Fields
  <2>3. late' \in RecOr(Begun')
    BY <1>9, <2>1 DEF Fields
  <2>4. view' \in [status : Status, text : Seq(Events)]
    BY DEF ExecTypes
  <2>5. QED
    BY <1>11, <2>1, <2>2, <2>3, <2>4 DEF Fields
<1>13. Counters' /\ Early'
  <2>1. runs + 1 \in 0..MaxRuns
    BY RunsAre
  <2>2. QED
    BY <1>1, <1>11, <2>1 DEF Typed, Counters, Early
<1>14. EntryOK(p)'
  <2>1. Shaped(p, Idle)' /\ Timed(p, Idle)'
    BY <1>2, <1>10, IdleIs DEF Shaped, Timed, RecOr, Detached, Writing, Holding, RunPCs, CallPCs, Dropping
  <2>2. QED
    BY <1>4, <2>1 DEF EntryOK, Shaped, Timed
<1>15. EntryOK(x)'
  <2>1. CASE e = Idle
    <3>1. Shaped(x, Idle)' /\ Timed(x, Idle)'
      BY <1>2, <1>10, IdleIs DEF Shaped, Timed, RecOr, Detached, Writing, Holding, RunPCs, CallPCs, Dropping
    <3>2. QED
      BY <1>4, <2>1, <3>1 DEF EntryOK, Shaped, Timed
  <2>2. CASE e # Idle
    <3>1. x \notin Calls /\ x \in 1..runs' /\ ~(x > runs') /\ x # 0
      BY <1>2, RunsAre
    <3>2. e.pc \in {"saveRun", "leaving", "prepare"} /\ (e.pc = "saveRun" => e.w = rec) /\ e.w \in {rec, NoRecord}
      BY <2>2
    <3>3. /\ e.pc \in RunPCs /\ e.pc \notin Holding /\ ~Over(e) /\ e.pc # "loading" /\ e.pc \notin Dropping
          /\ e.pc \in Writing => e.pc = "saveRun"
          /\ e.pc # "saving" /\ e.pc \notin {"inserting", "inserted", "idle"}
      BY <3>2 DEF RunPCs, Holding, Over, Dropping, Writing, Working
    <3>4. rec \in RecOr(Begun') /\ rec # NoRecord /\ NoRecord \in RecOr(Begun')
      <4>1. rec \in Rec(Begun')
        BY <1>9
      <4>2. QED
        BY <4>1, RecIsOr DEF RecOr
    <3>5. Shaped(x, e)'
      BY <1>10, <2>2, <3>1, <3>2, <3>3, <3>4 DEF Shaped
    <3>6. Timed(x, e)'
      BY <1>2, <1>11, <2>2, <3>1, <3>3 DEF Timed
    <3>7. QED
      BY <1>4, <3>5, <3>6 DEF EntryOK, Shaped, Timed
  <2>3. QED
    BY <2>1, <2>2
<1>16. \A q \in Procs : proc'[q] = proc[q] \/ EntryOK(q)'
  BY <1>4, <1>14, <1>15
<1>17. \A q \in Procs : proc'[q].op # "start"
  <2>1. e.op # "start"
    BY IdleIs
  <2>2. QED
    BY <1>4, <2>1, IdleIs
<1>18. Typed'
  BY <1>1, <1>4, <1>8, <1>10, <1>11, <1>12, <1>13, <1>16, <1>17, TypedStep
<1>19. QED
  BY <1>2, <1>3, <1>4, <1>5, <1>10, <1>18

\* A step in which a call starts a run preserves the invariant.
LEMMA ExecMove ==
  ASSUME Inv, NEW p, NEW x, NEW e, NEW o, NEW rec, NEW c, NEW s, ExecTypes(p, x, e, o, rec, c, s),
         ExecKeeps(p, x, e, o, rec, c, s)
  PROVE  Inv' /\ StaysCancelled
<1>1. Typed /\ Asked /\ Followed /\ Stores /\ Reported
  BY DEF Inv
<1>2. /\ Typed' /\ ~Preparing /\ o \in 1..Len(obj') /\ Len(obj) \in Nat
      /\ p \in Procs /\ x \in Procs /\ p # x /\ p \notin Runs /\ proc[x] = Idle
      /\ proc'[p] = Idle /\ proc'[x] = e /\ (\A q \in Procs : q # p /\ q # x => proc'[q] = proc[q])
      /\ proc[p].pc \in Writing => proc[p].w \in Rec(Begun)
  BY ExecTyped
<1>3. /\ obj'[o].rec = rec /\ (obj'[o].cancel <=> c) /\ obj'[o].stream = s
      /\ \A j \in 1..Len(obj) : j # o => obj'[j] = obj[j]
      /\ \A j \in 1..Len(obj') : j # o => j \in 1..Len(obj)
  BY <1>2 DEF ExecTypes, Wrote
<1>4. /\ putBack => putBack'
      /\ restarts' = restarts /\ store' = store /\ late' = late /\ sub' = sub /\ x \in Runs /\ p \in Calls
      /\ db' = db \/ (proc[p].pc \in Writing /\ db' = proc[p].w)
      /\ e = Idle \/ (/\ e.o = o /\ e.op = "none" /\ e.rec = NoRecord
                      /\ \/ e.pc = "saveRun" /\ e.w = rec
                         \/ e.pc \in {"leaving", "prepare"} /\ e.w = NoRecord)
      /\ e.pc = "prepare" => cur' = o /\ s
  BY DEF ExecTypes
<1>5. /\ Idle.pc = "idle" /\ Idle.rec = NoRecord /\ Idle.w = NoRecord
      /\ ~On(Idle) /\ ~Mid(Idle) /\ Idle.pc \notin FlushPCs
  BY IdleIs DEF Mid, FlushPCs
<1>6. /\ e.pc \in {"idle", "saveRun", "leaving", "prepare"} /\ e.rec = NoRecord /\ e.w \in {rec, NoRecord}
      /\ e.pc \in {"saveRun", "prepare"} => e.o = o /\ e.op = "none"
  BY <1>4, <1>5
<1>7. /\ On(e) => e.pc \in {"saveRun", "prepare"}
      /\ Mid(e) => e.pc \in {"saveRun", "prepare"}
      /\ e.pc # "asking" /\ e.pc # "dropped" /\ e.pc # "saving" /\ e.pc # "read" /\ e.pc # "cite" /\ e.pc # "resuming"
  BY <1>6 DEF On, Mid, Working, Dropping
<1>8. ASSUME NEW q \in Procs, proc[q].pc \notin Detached
      PROVE  proc[q].o \in 1..Len(obj) /\ proc[q].o <= Len(obj)
  BY <1>1, <1>2, <1>8, Attached
<1>9. Asked'
  <2>1. ASSUME NEW r \in Runs, On(proc'[r]), NEW j, j = proc'[r].o, obj'[j].rec.status = "cancelled"
        PROVE  obj'[j].cancel \/ putBack'
    <3>1. r \in Procs /\ r # p
      BY <1>2, RunsAre
    <3>2. r # x
      BY <1>2, <1>3, <1>6, <1>7, <2>1 DEF ExecKeeps
    <3>3. proc'[r] = proc[r] /\ On(proc[r])
      BY <1>2, <2>1, <3>1, <3>2
    <3>4. j \in 1..Len(obj) /\ j <= Len(obj)
      BY <1>8, <2>1, <3>1, <3>3, OnAttached
    <3>5. obj[j].rec.status = "cancelled" => obj[j].cancel \/ putBack
      BY <1>1, <2>1, <3>3 DEF Asked
    <3>6. CASE j = o
      BY <1>3, <1>4, <2>1, <3>4, <3>5, <3>6 DEF ExecKeeps
    <3>7. CASE j # o
      BY <1>3, <1>4, <2>1, <3>4, <3>5, <3>7
    <3>8. QED
      BY <3>6, <3>7
  <2>2. ASSUME NEW q \in Calls, proc'[q].pc = "asking", NEW j, j = proc'[q].o PROVE obj'[j].cancel
    <3>1. q \in Procs /\ q # x
      BY <1>4, RunsAre
    <3>2. q # p
      BY <1>2, <1>5, <2>2
    <3>3. proc'[q] = proc[q]
      BY <1>2, <3>1, <3>2
    <3>4. obj[j].cancel /\ j \in 1..Len(obj) /\ j <= Len(obj)
      BY <1>1, <1>8, <2>2, <3>1, <3>3 DEF Asked, Detached
    <3>5. QED
      BY <1>3, <3>4 DEF ExecKeeps
  <2>3. QED
    BY <2>1, <2>2 DEF Asked, On
<1>10. Followed'
  <2>1. sub' # 0 => sub' = cur' /\ sub = cur
    BY <1>1, <1>4 DEF Followed, ExecKeeps
  <2>2. ASSUME sub' # 0, ~(\E q \in Procs : proc'[q].o = sub' /\ proc'[q].pc \in FlushPCs)
        PROVE  view' = Shown(obj'[sub'].rec)
    <3>1. sub \in 1..Len(obj)
      BY <1>1, <1>2, <1>4, <2>2, MapIs
    <3>2. CASE sub = o
      <4>1. e.pc # "saveRun"
        BY <1>2, <1>4, <1>6, <2>2, <3>2 DEF FlushPCs
      <4>2. QED
        BY <1>3, <1>4, <3>2, <4>1 DEF ExecKeeps
    <3>3. CASE sub # o
      <4>1. view' = view /\ obj'[sub] = obj[sub]
        BY <1>3, <3>1, <3>3 DEF ExecKeeps
      <4>2. ~(\E q \in Procs : proc[q].o = sub /\ proc[q].pc \in FlushPCs)
        <5>1. SUFFICES ASSUME NEW q \in Procs, proc[q].o = sub, proc[q].pc \in FlushPCs PROVE FALSE
          OBVIOUS
        <5>2. q # p /\ q # x
          BY <1>2, <1>5, <3>3, <5>1 DEF ExecKeeps
        <5>3. QED
          BY <1>2, <1>4, <2>2, <5>1, <5>2
      <4>3. view = Shown(obj[sub].rec)
        BY <1>1, <1>4, <2>2, <4>2 DEF Followed, ViewFollowsRecord, Flushing, FlushPCs
      <4>4. QED
        BY <1>4, <4>1, <4>3
    <3>4. QED
      BY <3>2, <3>3
  <2>3. QED
    BY <2>1, <2>2 DEF Followed, ViewFollowsRecord, Flushing, FlushPCs
<1>11. Stores'
  <2>1. ASSUME NEW r \in Runs, proc'[r].pc = "prepare" PROVE proc'[r].o = cur' /\ obj'[cur'].stream
    <3>1. r \in Procs /\ r # p /\ proc[r].pc # "prepare"
      BY <1>2, RunsAre DEF Preparing
    <3>2. r = x
      BY <1>2, <2>1, <3>1
    <3>3. QED
      BY <1>2, <1>3, <1>4, <1>6, <2>1, <3>2
  <2>2. ASSUME NEW q \in Procs, proc'[q].pc = "dropped" PROVE ~store'
    <3>1. q # p /\ q # x
      BY <1>2, <1>5, <1>7, <2>2
    <3>2. proc[q].pc = "dropped"
      BY <1>2, <2>2, <3>1
    <3>3. QED
      BY <1>1, <1>4, <3>2 DEF Stores
  <2>3. ASSUME store', ~putBack', restarts' = 0 PROVE cur' # 0 /\ obj'[cur'].rec.store
    <3>1. CASE o = cur' /\ rec.store
      BY <1>2, <1>3, <3>1
    <3>2. CASE store /\ cur' = cur /\ o # cur
      <4>1. cur \in 1..Len(obj) /\ obj[cur].rec.store
        BY <1>4, <2>3, StoreKept
      <4>2. QED
        BY <1>2, <1>3, <3>2, <4>1
    <3>3. QED
      BY <1>4, <2>3, <3>1, <3>2 DEF ExecKeeps
  <2>4. QED
    BY <2>1, <2>2, <2>3 DEF Stores, NoStoreIsForgotten
<1>12. Reported'
  <2>1. SUFFICES ASSUME ~putBack'
                 PROVE  /\ AllSound'
                        /\ \A q \in Procs : Mid(proc'[q]) => Coupled(proc'[q], obj'[proc'[q].o])
                        /\ \A q1, q2 \in Procs : Mid(proc'[q1]) /\ Mid(proc'[q2]) /\ proc'[q1].o = proc'[q2].o => q1 = q2
    BY DEF Reported, Mid, Coupled
  <2>2. /\ ~putBack /\ AllSound
        /\ \A q \in Procs : Mid(proc[q]) => Coupled(proc[q], obj[proc[q].o])
        /\ \A q1, q2 \in Procs : Mid(proc[q1]) /\ Mid(proc[q2]) /\ proc[q1].o = proc[q2].o => q1 = q2
    BY <1>1, <1>4, <2>1 DEF Reported
  <2>3. Sound(rec) /\ Sole(p, o) /\ (Mid(e) => ~rec.plan /\ rec.text = <<>>)
    BY <2>1 DEF ExecKeeps
  <2>4. AllSound'
    <3>1. \A j \in 1..Len(obj') : Sound(obj'[j].rec)
      BY <1>3, <2>2, <2>3 DEF AllSound
    <3>2. SoundOr(e.rec) /\ SoundOr(e.w) /\ SoundOr(Idle.rec) /\ SoundOr(Idle.w)
      BY <1>5, <1>6, <2>3 DEF SoundOr
    <3>3. \A q \in Procs : SoundOr(proc'[q].rec) /\ SoundOr(proc'[q].w)
      BY <1>2, <2>2, <3>2 DEF AllSound
    <3>4. SoundOr(db') /\ SoundOr(late')
      BY <1>2, <1>4, <2>2 DEF AllSound
    <3>5. QED
      BY <3>1, <3>3, <3>4 DEF AllSound, Sound, SoundOr
  <2>5. ASSUME NEW q \in Procs, q # x, Mid(proc'[q])
        PROVE  proc'[q] = proc[q] /\ proc[q].o # o /\ q # p
    <3>1. q # p
      BY <1>2, <1>5, <2>5
    <3>2. QED
      BY <1>2, <2>3, <2>5, <3>1 DEF Sole
  <2>6. ASSUME Mid(e) PROVE e.o = o /\ Coupled(e, obj'[o])
    <3>1. e.pc \in {"saveRun", "prepare"} /\ rec.status # "completed" /\ ~rec.plan /\ rec.text = <<>>
      BY <1>7, <2>3, <2>6 DEF ExecKeeps
    <3>2. QED
      BY <1>3, <1>6, <3>1 DEF Coupled
  <2>7. ASSUME NEW q \in Procs, Mid(proc'[q]) PROVE Coupled(proc'[q], obj'[proc'[q].o])
    <3>1. CASE q = x
      BY <1>2, <2>6, <2>7, <3>1
    <3>2. CASE q # x
      <4>1. proc'[q] = proc[q] /\ proc[q].o # o /\ Mid(proc[q])
        BY <2>5, <2>7, <3>2
      <4>2. proc[q].o \in 1..Len(obj)
        BY <1>8, <4>1, OnAttached
      <4>3. QED
        BY <1>3, <2>2, <4>1, <4>2
    <3>3. QED
      BY <3>1, <3>2
  <2>8. ASSUME NEW q1 \in Procs, NEW q2 \in Procs, Mid(proc'[q1]), Mid(proc'[q2]), proc'[q1].o = proc'[q2].o
        PROVE  q1 = q2
    <3>1. /\ q1 = x => proc'[q1].o = o
          /\ q2 = x => proc'[q2].o = o
      BY <1>2, <2>6, <2>8
    <3>2. QED
      BY <2>2, <2>5, <2>8, <3>1
  <2>9. QED
    BY <2>4, <2>7, <2>8, SMTT(40)
<1>13. StaysCancelled
  <2>1. ASSUME NEW j \in DOMAIN obj, obj[j].rec.status = "cancelled", obj'[j].rec.status # "cancelled"
        PROVE  putBack' \/ obj[j].rec.plan
    <3>1. j \in 1..Len(obj) /\ j <= Len(obj)
      BY <1>1, <1>2 DEF Typed, Objects
    <3>2. j = o
      BY <1>3, <2>1, <3>1
    <3>3. QED
      BY <1>3, <2>1, <3>1, <3>2 DEF ExecKeeps
  <2>2. QED
    BY <2>1 DEF StaysCancelled
<1>14. QED
  BY <1>2, <1>9, <1>10, <1>11, <1>12, <1>13 DEF Inv

\* The entry of a run that is being started.
LEMMA FreshIs ==
  ASSUME NEW o \in Nat, runs \in Nat, NEW e, e = Fresh(o)
  PROVE  /\ e \in Entry /\ e.pc = "idle" /\ e.op = "none" /\ e.rec = NoRecord /\ e.w = NoRecord
         /\ e.back = "idle" /\ e.o = o /\ e.at = runs + 1
<1>1. PICK idle \in Entry : idle = Idle
  BY IdleIs
<1>2. PICK n \in Nat : n = runs + 1
  OBVIOUS
<1>3. e = [idle EXCEPT !.o = o, !.at = n]
  BY <1>1, <1>2 DEF Fresh
<1>4. /\ e \in Entry /\ e.pc = idle.pc /\ e.op = idle.op /\ e.rec = idle.rec /\ e.w = idle.w /\ e.back = idle.back
      /\ e.o = o /\ e.at = n
  BY <1>1, <1>3, ZenonT(40) DEF Entry
<1>5. QED
  BY <1>1, <1>2, <1>4, IdleIs

\* The entry of one that prepares its files, or leaves at once.
LEMMA FreshAt ==
  ASSUME NEW o \in Nat, runs \in Nat, NEW pc \in PCs, NEW e, e = At(Fresh(o), pc)
  PROVE  /\ e \in Entry /\ e.pc = pc /\ e.op = "none" /\ e.rec = NoRecord /\ e.w = NoRecord
         /\ e.back = "idle" /\ e.o = o /\ e.at = runs + 1
<1>1. PICK y : y = Fresh(o)
  OBVIOUS
<1>2. /\ y \in Entry /\ y.op = "none" /\ y.rec = NoRecord /\ y.w = NoRecord
      /\ y.back = "idle" /\ y.o = o /\ y.at = runs + 1
  BY <1>1, FreshIs
<1>3. e = [y EXCEPT !.pc = pc]
  BY <1>1 DEF At
<1>4. /\ e \in Entry /\ e.pc = pc /\ e.op = y.op /\ e.rec = y.rec /\ e.w = y.w /\ e.back = y.back
      /\ e.o = y.o /\ e.at = y.at
  BY <1>2, <1>3 DEF Entry
<1>5. QED
  BY <1>2, <1>4

\* The entry of one that begins at once.
LEMMA FreshBegins ==
  ASSUME NEW o \in Nat, runs \in Nat, NEW q, NEW rec \in Record, rec = Running(q[o].rec),
         NEW e, e = Begins(Fresh(o), q, o)
  PROVE  /\ e \in Entry /\ e.pc = "saveRun" /\ e.op = "none" /\ e.rec = NoRecord /\ e.w = rec
         /\ e.back = "idle" /\ e.o = o /\ e.at = runs + 1
<1>1. PICK y : y = Fresh(o)
  OBVIOUS
<1>2. /\ y \in Entry /\ y.op = "none" /\ y.rec = NoRecord
      /\ y.back = "idle" /\ y.o = o /\ y.at = runs + 1
  BY <1>1, FreshIs
<1>3. PICK pc \in PCs, w \in Record \cup {NoRecord} : pc = "saveRun" /\ w = rec
  BY DEF PCs
<1>4. e = [y EXCEPT !.pc = pc, !.w = w]
  BY <1>1, <1>3 DEF Begins, Running
<1>5. /\ e \in Entry /\ e.pc = pc /\ e.op = y.op /\ e.rec = y.rec /\ e.w = w /\ e.back = y.back
      /\ e.o = y.o /\ e.at = y.at
  BY <1>2, <1>4, ZenonT(40) DEF Entry
<1>6. QED
  BY <1>2, <1>3, <1>5

\* executeResearch (Execute), up to its first await, as one assignment to each variable.
LEMMA ExecuteDoes ==
  ASSUME NEW p, NEW q, NEW o, NEW b, NEW f, Execute(p, q, o, b, f)
  PROVE  /\ runs' = runs + 1
         /\ obj' = IF ReturnsAtOnce(q, o, f) \/ f THEN Started(q, o, b) ELSE BeganState(Started(q, o, b), o)
         /\ proc' = [proc EXCEPT ![p] = Idle, ![runs + 1] = ExecEntry(q, o, b, f)]
BY Zenon DEF Execute, ReturnsAtOnce, ExecEntry, At, Fresh, Started

\* It writes one state and leaves an entry that waits for a save, for the files, or for the clean-up.
LEMMA ExecuteIs ==
  ASSUME Typed, NEW p \in Calls, NEW q \in Seq(Object), NEW o \in 1..Len(q), q[o].rec \in Rec(Begun),
         NEW b \in BOOLEAN, NEW f, Execute(p, q, o, b, f)
  PROVE  /\ runs' = runs + 1
         /\ \E e, rec, c, s : /\ Executed(runs + 1, q, o, f, e, rec, c, s)
                              /\ proc' = [proc EXCEPT ![p] = Idle, ![runs + 1] = e]
<1>1. PICK q2 : q2 = Started(q, o, b)
  OBVIOUS
<1>2. PICK back : back <=> ReturnsAtOnce(q, o, f)
  OBVIOUS
<1>3. PICK e : e = ExecEntry(q, o, b, f)
  OBVIOUS
<1>4. proc' = [proc EXCEPT ![p] = Idle, ![runs + 1] = e] /\ runs' = runs + 1
  BY <1>3, ExecuteDoes
<1>5. obj' = IF back \/ f THEN q2 ELSE BeganState(q2, o)
  BY <1>1, <1>2, ExecuteDoes
<1>6. runs \in Nat /\ o \in Nat /\ Begun \in Nat
  BY TypedNats
<1>7. PICK old, c, s : old = q[o].rec /\ c = q[o].cancel /\ s = q2[o].stream
  OBVIOUS
<1>8. q2 \in Seq(Object) /\ o \in 1..Len(q2) /\ Wrote(q, q2, o, old, c, s) /\ s
  <2>1. Wrote(q, q2, o, q[o].rec, q[o].cancel, TRUE)
    BY <1>1, StartedDoes DEF Started
  <2>2. QED
    BY <1>7, <2>1 DEF Wrote
<1>9. old \in Rec(Begun)
  BY <1>7
<1>10. CASE back
  <2>1. obj' = q2
    BY <1>5, <1>10
  <2>2. CASE Settled(q[o].rec)
    <3>1. PICK pc \in PCs : pc = "leaving"
      BY DEF PCs
    <3>2. e = At(Fresh(o), pc)
      BY <1>2, <1>3, <1>10, <2>2, <3>1 DEF ExecEntry
    <3>3. /\ e \in Entry /\ e.pc = pc /\ e.op = "none" /\ e.rec = NoRecord /\ e.w = NoRecord
          /\ e.back = "idle" /\ e.o = o /\ e.at = runs + 1
      BY <1>6, <3>2, FreshAt
    <3>4. Executed(runs + 1, q, o, f, e, old, c, s)
      BY <1>7, <1>8, <1>9, <2>1, <3>1, <3>3 DEF Executed
    <3>5. QED
      BY <1>4, <1>5, <3>3, <3>4
  <2>3. CASE ~Settled(q[o].rec)
    <3>1. e = Idle /\ e \in Entry /\ e.pc = "idle"
      BY <1>2, <1>3, <1>10, <2>3, IdleIs DEF ExecEntry
    <3>2. Executed(runs + 1, q, o, f, e, old, c, s)
      BY <1>7, <1>8, <1>9, <2>1, <3>1 DEF Executed
    <3>3. QED
      BY <1>4, <1>5, <3>1, <3>2
  <2>4. QED
    BY <2>2, <2>3
<1>11. CASE ~back /\ f
  <2>1. obj' = q2
    BY <1>5, <1>11
  <2>2. PICK pc \in PCs : pc = "prepare"
    BY DEF PCs
  <2>3. e = At(Fresh(o), pc)
    BY <1>2, <1>3, <1>11, <2>2 DEF ExecEntry
  <2>4. /\ e \in Entry /\ e.pc = pc /\ e.op = "none" /\ e.rec = NoRecord /\ e.w = NoRecord
        /\ e.back = "idle" /\ e.o = o /\ e.at = runs + 1
    BY <1>6, <2>3, FreshAt
  <2>5. Executed(runs + 1, q, o, f, e, old, c, s)
    BY <1>7, <1>8, <1>9, <1>11, <2>1, <2>2, <2>4 DEF Executed
  <2>6. QED
    BY <1>4, <1>5, <2>4, <2>5
<1>12. CASE ~back /\ ~f
  <2>1. PICK rec : rec = Running(old)
    OBVIOUS
  <2>2. PICK st \in Status : st = "running"
    BY DEF Status
  <2>3. rec = [old EXCEPT !.status = st]
    BY <2>1, <2>2 DEF Running
  <2>4. /\ rec \in Rec(Begun) /\ rec.status = st /\ rec.text = old.text /\ rec.last = old.last /\ rec.plan = old.plan
        /\ rec.store = old.store /\ rec.inter = old.inter
    BY <1>6, <1>9, <2>2, <2>3, StatusSet
  <2>5. rec \in Record
    BY <2>4, RecIsRecord
  <2>6. rec = Running(q2[o].rec)
    BY <1>8, <2>1 DEF Wrote
  <2>7. e = Begins(Fresh(o), q2, o)
    BY <1>1, <1>2, <1>3, <1>12 DEF ExecEntry
  <2>8. /\ e \in Entry /\ e.pc = "saveRun" /\ e.op = "none" /\ e.rec = NoRecord /\ e.w = rec
        /\ e.back = "idle" /\ e.o = o /\ e.at = runs + 1
    BY <1>6, <2>5, <2>6, <2>7, FreshBegins
  <2>9. Wrote(q2, obj', o, rec, q2[o].cancel, q2[o].stream)
    <3>1. obj' = BeganState(q2, o)
      BY <1>5, <1>12
    <3>2. q2[o].rec \in Rec(Begun)
      BY <1>8, <1>9 DEF Wrote
    <3>3. rec = [q2[o].rec EXCEPT !.status = "running"]
      BY <2>6 DEF Running
    <3>4. QED
      BY <1>6, <1>8, <3>1, <3>2, <3>3, BeganDoes
  <2>10. Wrote(q, obj', o, rec, c, s)
    <3>1. q2[o].cancel = c /\ q2[o].stream = s
      BY <1>8 DEF Wrote
    <3>2. Wrote(q2, obj', o, rec, c, s)
      BY <2>9, <3>1
    <3>3. QED
      BY <1>8, <3>2, Then
  <2>11. old.status # "cancelled"
    BY <1>2, <1>7, <1>12 DEF ReturnsAtOnce
  <2>12. Executed(runs + 1, q, o, f, e, rec, c, s)
    BY <1>7, <1>8, <1>12, <2>2, <2>4, <2>8, <2>10, <2>11 DEF Executed
  <2>13. QED
    BY <1>4, <2>8, <2>12
<1>13. QED
  BY <1>10, <1>11, <1>12

\* An approved plan is executed once the approval is stored.
LEMMA SavedExecutesKeeps ==
  ASSUME Inv, NEW p \in Calls, Saved(p), proc[p].op \in {"approve", "refine"}
  PROVE  Inv' /\ StaysCancelled
<1>1. PICK o, b, f : o = proc[p].o /\ b = (proc[p].op = "refine") /\ f = FALSE
  OBVIOUS
<1>2. /\ proc[p].pc = "saving" /\ db' = proc[p].w
      /\ view' = IF sub = o THEN Shown(obj[o].rec) ELSE view
      /\ cur' = cur /\ late' = late /\ init' = init /\ restarts' = restarts
      /\ store' = store /\ spent' = spent /\ sub' = sub /\ putBack' = putBack
      /\ runs < MaxRuns
  BY <1>1 DEF Saved, Lands, Told
<1>3. Execute(p, obj, o, b, f) /\ b \in BOOLEAN
  BY <1>1 DEF Saved
<1>4. /\ Typed /\ p \in Procs /\ Timed(p, proc[p]) /\ obj \in Seq(Object) /\ Len(obj) \in Nat /\ db # NoRecord
      /\ Len(obj) <= MaxObjs /\ sub \in 0..Len(obj) /\ cur \in 0..Len(obj)
      /\ putBack \in BOOLEAN /\ view \in [status : Status, text : Seq(Events)]
  BY <1>2, CallIs, MapIs, SameBut DEF Inv
<1>5. /\ proc[p].pc \notin Detached /\ proc[p].pc \in Writing /\ proc[p].pc \in FlushPCs /\ Mid(proc[p])
      /\ proc[p].op \in Steering
  BY <1>2 DEF Detached, Writing, FlushPCs, Mid, Steering
<1>6. o \in 1..Len(obj) /\ o <= Len(obj) /\ obj[o].rec \in Rec(Begun)
  BY <1>1, <1>4, <1>5, Attached
<1>7. PICK e, rec, c, s : /\ Executed(runs + 1, obj, o, f, e, rec, c, s)
                          /\ proc' = [proc EXCEPT ![p] = Idle, ![runs + 1] = e]
  BY <1>3, <1>4, <1>6, ExecuteIs
<1>8. runs' = runs + 1
  BY <1>3, <1>4, <1>6, ExecuteIs
<1>9. PICK x : x = runs + 1
  OBVIOUS
<1>10. /\ e \in Entry
       /\ rec \in Rec(Begun) /\ rec.text = obj[o].rec.text /\ rec.last = obj[o].rec.last /\ rec.plan = obj[o].rec.plan
       /\ rec.store = obj[o].rec.store /\ rec.inter = obj[o].rec.inter
       /\ Wrote(obj, obj', o, rec, c, s) /\ c = obj[o].cancel
       /\ e.pc # "prepare"
       /\ e.pc = "saveRun" => rec.status = "running" /\ obj[o].rec.status # "cancelled"
       /\ e.pc # "saveRun" => rec = obj[o].rec
  BY <1>1, <1>7 DEF Executed
<1>11. /\ Begun # 0 /\ runs # 0 /\ runs \in Nat
       /\ \A q \in Procs : proc[q].op # "start"
  <2>1. Begun # 0 /\ runs # 0 /\ runs \in Nat
    BY <1>2, <1>4, <1>5, TypedNats DEF Timed
  <2>2. \A q \in Procs : proc[q].op # "start"
    BY <1>4, <2>1 DEF Typed, Entries, EntryOK, Timed
  <2>3. QED
    BY <2>1, <2>2
<1>12. x \in Runs
  BY <1>2, <1>9, <1>11, RunsAre, Bounds
<1>13. ExecTypes(p, x, e, o, rec, c, s)
  <2>1. proc' = [proc EXCEPT ![p] = Idle, ![x] = e]
    BY <1>7, <1>9
  <2>2. Len(obj') <= MaxObjs /\ cur' \in 0..Len(obj')
    <3>1. Len(obj') = Len(obj)
      BY <1>4, <1>6, <1>10 DEF Wrote
    <3>2. QED
      BY <1>2, <1>4, <3>1
  <2>3. view' \in [status : Status, text : Seq(Events)]
    <3>1. Shown(obj[o].rec) \in [status : Status, text : Seq(Events)]
      <4>1. obj[o].rec \in Record
        BY <1>6, RecIsRecord
      <4>2. QED
        BY <4>1, RecordFields DEF Shown
    <3>2. QED
      BY <1>2, <1>4, <3>1
  <2>4. \/ e = Idle
        \/ /\ e.o = o /\ e.at = x /\ e.op = "none" /\ e.back = "idle" /\ e.rec = NoRecord
           /\ \/ e.pc = "saveRun" /\ e.w = rec
              \/ e.pc \in {"leaving", "prepare"} /\ e.w = NoRecord
    BY <1>7, <1>9 DEF Executed
  <2>5. QED
    BY <1>2, <1>4, <1>5, <1>8, <1>9, <1>10, <1>11, <1>12, <2>1, <2>2, <2>3, <2>4 DEF ExecTypes
<1>14. ~putBack => /\ Sound(obj[o].rec) /\ Coupled(proc[p], obj[o]) /\ Sole(p, o)
  <2>1. SUFFICES ASSUME ~putBack
                 PROVE  Sound(obj[o].rec) /\ Coupled(proc[p], obj[o]) /\ Sole(p, o)
    OBVIOUS
  <2>2. Sound(obj[o].rec) /\ Coupled(proc[p], obj[o])
    BY <1>1, <1>4, <1>5, <1>6, <2>1, SoundNow
  <2>3. Sole(p, o)
    BY <1>1, <1>4, <1>5, <2>1 DEF Inv, Reported, Sole
  <2>4. QED
    BY <2>2, <2>3
<1>15. ExecKeeps(p, x, e, o, rec, c, s)
  <2>1. restarts = 0 /\ ~putBack' /\ store' => \/ o = cur' /\ rec.store
                                               \/ store /\ cur' = cur /\ o # cur
    BY <1>2, <1>10, StoreStays
  <2>2. ~putBack' => Sound(rec) /\ Sole(p, o) /\ ~rec.plan /\ rec.text = <<>>
    <3>1. SUFFICES ASSUME ~putBack PROVE Sound(rec) /\ Sole(p, o) /\ ~rec.plan /\ rec.text = <<>>
      BY <1>2
    <3>2. Sound(obj[o].rec) /\ Coupled(proc[p], obj[o]) /\ Sole(p, o)
      BY <1>14, <3>1
    <3>3. ~rec.plan /\ rec.text = <<>>
      BY <1>2, <1>10, <3>2 DEF Coupled
    <3>4. Sound(rec)
      <4>1. CASE e.pc # "saveRun"
        BY <1>10, <3>2, <4>1
      <4>2. CASE e.pc = "saveRun"
        BY <1>10, <3>2, <3>3, <4>2 DEF Sound
      <4>3. QED
        BY <4>1, <4>2
    <3>5. QED
      BY <3>2, <3>3, <3>4
  <2>3. e.pc \in {"saveRun", "prepare"} => rec.status = "running"
    BY <1>10
  <2>4. rec.status = "cancelled" => obj[o].rec.status = "cancelled"
    BY <1>10
  <2>5. obj[o].rec.status = "cancelled" => rec.status = "cancelled"
    BY <1>10
  <2>6. sub = o => e.pc = "saveRun" \/ view' = Shown(rec)
    BY <1>2, <1>10
  <2>7. QED
    BY <1>1, <1>2, <1>10, <2>1, <2>2, <2>3, <2>4, <2>5, <2>6 DEF ExecKeeps
<1>16. QED
  BY <1>13, <1>15, ExecMove

\* Nobody is amid a state before the first run.
LEMMA NobodyYet ==
  ASSUME Typed, runs = 0, restarts = 0
  PROVE  \A q \in Procs : ~Mid(proc[q])
<1>1. Begun = 0
  BY TypedNats
<1>2. SUFFICES ASSUME NEW q \in Procs, Mid(proc[q]) PROVE FALSE
  OBVIOUS
<1>3. Shaped(q, proc[q]) /\ Timed(q, proc[q])
  BY DEF Typed, Entries, EntryOK
<1>4. CASE q \in Runs
  <2>1. q = 0 \/ q > runs
    BY <1>4, RunsAre
  <2>2. proc[q] = Idle
    BY <1>3, <1>4, <2>1 DEF Timed
  <2>3. QED
    BY <1>2, <2>2, IdleIs DEF Mid
<1>5. CASE q \in Calls
  <2>1. proc[q].pc \in CallPCs
    BY <1>3, <1>5 DEF Shaped
  <2>2. proc[q].pc = "saving" /\ proc[q].op \in Steering
    BY <1>2, <2>1 DEF Mid, CallPCs, Detached, Dropping
  <2>3. QED
    BY <1>1, <1>3, <2>2 DEF Timed
<1>6. QED
  BY <1>4, <1>5, RunsAre

\* The row is there: the state is made, and the research begins.
LEMMA InsertedKeeps ==
  ASSUME Inv, NEW p \in Calls, Inserted(p)
  PROVE  Inv' /\ StaysCancelled
<1>1. PICK q, o, b, f, new : /\ q = StateOf(NewRecord) /\ o = StateId /\ b = proc[p].planning /\ f = proc[p].files
                             /\ new = NewRecord
  OBVIOUS
<1>2. /\ proc[p].pc = "inserted" /\ MayHaveState /\ Replaces(new)
      /\ view' = IF sub = o THEN Shown(q[o].rec) ELSE view
      /\ cur' = o /\ db' = db /\ late' = late /\ spent' = spent /\ init' = init /\ restarts' = restarts
      /\ sub' = sub /\ store' = store
  BY <1>1 DEF Inserted, Told
<1>3. Execute(p, q, o, b, f)
  BY <1>1 DEF Inserted
<1>4. /\ Typed /\ p \in Procs /\ proc[p] \in Entry /\ Timed(p, proc[p]) /\ obj \in Seq(Object) /\ Len(obj) \in Nat
      /\ db # NoRecord /\ Begun \in Nat
      /\ Len(obj) <= MaxObjs /\ sub \in 0..Len(obj) /\ cur \in 0..Len(obj)
      /\ putBack \in BOOLEAN /\ view \in [status : Status, text : Seq(Events)]
  BY <1>2, CallIs, MapIs, SameBut DEF Inv
<1>5. proc[p].op = "start" /\ runs = 0 /\ restarts = 0 /\ MaxRuns # 0 /\ Begun = 0 /\ MaxRuns \in Nat
  BY <1>2, <1>4, TypedNats, Bounds DEF Timed
<1>6. /\ new \in Rec(Begun) /\ new.status = "pending" /\ ~new.plan /\ ~new.store /\ new.text = <<>> /\ Sound(new)
  BY <1>1, <1>4, NewRecordIs, NewRecordIsSound
<1>7. PICK c0, s0 : Put(q, new, o, c0, s0)
  BY <1>1, <1>2, <1>6, PutState
<1>8. /\ q \in Seq(Object) /\ o \in 1..Len(q) /\ q[o].rec = new /\ q[o].cancel = c0 /\ o # 0
      /\ cur # 0 => o = cur /\ o <= Len(obj) /\ c0 = obj[cur].cancel
      /\ cur = 0 => o > Len(obj) /\ ~(o <= Len(obj)) /\ sub = 0
  BY <1>4, <1>7, MapIs DEF Put, Wrote
<1>9. b \in BOOLEAN /\ q[o].rec \in Rec(Begun)
  BY <1>1, <1>4, <1>6, <1>8, EntryFields
<1>10. PICK e, rec, c, s : /\ Executed(runs + 1, q, o, f, e, rec, c, s)
                           /\ proc' = [proc EXCEPT ![p] = Idle, ![runs + 1] = e]
  BY <1>3, <1>4, <1>8, <1>9, ExecuteIs
<1>11. runs' = runs + 1
  BY <1>3, <1>4, <1>8, <1>9, ExecuteIs
<1>12. PICK x : x = runs + 1
  OBVIOUS
<1>13. /\ e \in Entry
       /\ rec \in Rec(Begun) /\ rec.text = <<>> /\ rec.last = new.last /\ ~rec.plan /\ ~rec.store
       /\ rec.inter = new.inter
       /\ Wrote(q, obj', o, rec, c, s) /\ c = c0 /\ s
       /\ e.pc = "saveRun" => rec.status = "running"
       /\ e.pc # "saveRun" => rec = new
       /\ rec.status \in {"running", "pending"}
  BY <1>6, <1>8, <1>10 DEF Executed
<1>14. Wrote(obj, obj', o, rec, c, s) /\ Len(obj') <= MaxObjs
  BY <1>7, <1>13, PutThen
<1>15. putBack' \in BOOLEAN /\ (putBack => putBack') /\ (~putBack' => ~putBack /\ Known = new)
  BY <1>2, ReplacesIs
<1>16. x \in Runs
  BY <1>5, <1>12, RunsAre
<1>17. \A j \in Procs : j # p => proc[j].op # "start"
  BY <1>4, <1>5 DEF Typed, Entries
<1>18. ExecTypes(p, x, e, o, rec, c, s)
  <2>1. proc' = [proc EXCEPT ![p] = Idle, ![x] = e]
    BY <1>10, <1>12
  <2>2. cur' \in 0..Len(obj')
    BY <1>2, <1>8, <1>14 DEF Wrote
  <2>3. view' \in [status : Status, text : Seq(Events)]
    <3>1. Shown(new) \in [status : Status, text : Seq(Events)]
      <4>1. new \in Record
        BY <1>6, RecIsRecord
      <4>2. QED
        BY <4>1, RecordFields DEF Shown
    <3>2. QED
      BY <1>2, <1>4, <1>8, <3>1
  <2>4. \/ e = Idle
        \/ /\ e.o = o /\ e.at = x /\ e.op = "none" /\ e.back = "idle" /\ e.rec = NoRecord
           /\ \/ e.pc = "saveRun" /\ e.w = rec
              \/ e.pc \in {"leaving", "prepare"} /\ e.w = NoRecord
    BY <1>10, <1>12 DEF Executed
  <2>5. QED
    BY <1>2, <1>4, <1>5, <1>11, <1>12, <1>13, <1>14, <1>15, <1>16, <1>17, <2>1, <2>2, <2>3, <2>4 DEF ExecTypes
<1>19. o <= Len(obj) /\ ~putBack' => obj[o].rec = new /\ c = obj[o].cancel
  <2>1. SUFFICES ASSUME o <= Len(obj), ~putBack' PROVE obj[o].rec = new /\ c = obj[o].cancel
    OBVIOUS
  <2>2. cur # 0
    BY <1>8, <2>1
  <2>3. QED
    BY <1>8, <1>13, <1>15, <2>1, <2>2, MapIs
<1>20. ExecKeeps(p, x, e, o, rec, c, s)
  <2>1. restarts = 0 /\ ~putBack' /\ store' => FALSE
    <3>1. SUFFICES ASSUME restarts = 0, ~putBack', store' PROVE FALSE
      OBVIOUS
    <3>2. cur \in 1..Len(obj) /\ obj[cur].rec.store
      BY <1>2, <1>15, <3>1, StoreKept
    <3>3. obj[cur].rec \in Rec(Begun)
      BY <1>4, <3>2 DEF Typed, Objects
    <3>4. QED
      BY <1>5, <3>2, <3>3 DEF Rec
  <2>2. Sound(rec)
    <3>1. CASE e.pc # "saveRun"
      BY <1>6, <1>13, <3>1
    <3>2. CASE e.pc = "saveRun"
      BY <1>6, <1>13, <3>2 DEF Sound
    <3>3. QED
      BY <3>1, <3>2
  <2>3. Sole(p, o)
    BY <1>4, <1>5, NobodyYet DEF Sole
  <2>4. sub = o => e.pc = "saveRun" \/ view' = Shown(rec)
    BY <1>2, <1>8, <1>13
  <2>5. o <= Len(obj) /\ obj[o].cancel => c
    BY <1>8, <1>13
  <2>6. cur' = cur \/ (sub = 0 /\ cur = 0)
    BY <1>2, <1>8
  <2>7. proc[p].pc \notin FlushPCs
    BY <1>2 DEF FlushPCs
  <2>8. o <= Len(obj) /\ obj[o].rec.status = "cancelled" => putBack'
    BY <1>6, <1>15, <1>19
  <2>9. QED
    BY <1>2, <1>13, <2>1, <2>2, <2>3, <2>4, <2>5, <2>6, <2>7, <2>8 DEF ExecKeeps
<1>21. QED
  BY <1>18, <1>20, ExecMove

-----------------------------------------------------------------------------
(* Timers, restarts and the resumed run *)

\* TimerFires preserves the invariant.
LEMMA TimerFiresKeeps ==
  ASSUME Inv, NEW o \in DOMAIN obj, TimerFires(o)
  PROVE  Inv' /\ StaysCancelled
<1>1. /\ late' = obj[o].rec /\ obj' = Flushed(obj, o) /\ spent < Budget /\ spent' = spent + 1
      /\ cur' = cur /\ db' = db /\ proc' = proc /\ runs' = runs /\ init' = init /\ restarts' = restarts
      /\ sub' = sub /\ view' = view /\ store' = store /\ putBack' = putBack
  BY DEF TimerFires, Spend, clientVars
<1>2. Typed /\ Asked /\ Followed /\ Stores /\ Reported
  BY DEF Inv
<1>3. obj \in Seq(Object) /\ Len(obj) \in Nat /\ Len(obj) <= MaxObjs /\ o \in 1..Len(obj)
  BY MapIs
<1>4. Untimed
  <2>1. Wrote(obj, obj', o, obj[o].rec, obj[o].cancel, obj[o].stream)
    BY <1>1, <1>3, FlushedDoes
  <2>2. QED
    BY <1>3, <2>1 DEF Untimed, Wrote
<1>5. ASSUME NEW q \in Procs, proc[q].pc \notin Detached
      PROVE  proc[q].o \in 1..Len(obj)
  BY <1>2, <1>5, Attached
<1>6. Begun' = Begun /\ Begun \in Nat /\ runs \in Nat
  BY <1>1, <1>2, TypedNats DEF Begun, Preparing
<1>7. Typed'
  <2>1. Objects'
    BY <1>2, <1>3, <1>4, <1>6 DEF Untimed, Objects, Typed
  <2>2. late' \in RecOr(Begun)
    BY <1>1, <1>2, <1>3 DEF Typed, Objects, RecOr
  <2>3. Fields'
    BY <1>1, <1>2, <1>4, <1>6, <2>2 DEF Untimed, Fields, Typed
  <2>4. Counters' /\ Early'
    BY <1>1, <1>2, Bounds DEF Counters, Early, Typed
  <2>5. Len(obj) <= Len(obj') /\ Begun <= Begun' /\ runs <= runs'
    BY <1>1, <1>3, <1>4, <1>6 DEF Untimed
  <2>6. proc' \in [Procs -> Entry] /\ \A p, q \in Procs : proc'[p].op = "start" /\ proc'[q].op = "start" => p = q
    BY <1>1, <1>2 DEF Typed, Entries
  <2>7. QED
    BY <1>1, <1>2, <2>1, <2>3, <2>4, <2>5, <2>6, TypedStep
<1>8. Asked'
  <2>1. ASSUME NEW r \in Runs, On(proc[r]) PROVE proc[r].o \in 1..Len(obj)
    BY <1>5, <2>1, OnAttached, RunsAre
  <2>2. ASSUME NEW q \in Calls, proc[q].pc = "asking" PROVE proc[q].o \in 1..Len(obj)
    BY <1>5, <2>2, RunsAre DEF Detached
  <2>3. QED
    BY <1>1, <1>2, <1>4, <2>1, <2>2 DEF Asked, On, Untimed
<1>9. Followed'
  <2>1. sub # 0 => obj'[sub].rec = obj[sub].rec
    BY <1>4, MapIs DEF Untimed
  <2>2. QED
    BY <1>1, <1>2, <2>1 DEF Followed, ViewFollowsRecord, Flushing
<1>10. Stores'
  <2>1. cur # 0 => obj'[cur].rec = obj[cur].rec /\ obj'[cur].stream = obj[cur].stream
    BY <1>4, MapIs DEF Untimed
  <2>2. ASSUME NEW r \in Runs, proc[r].pc = "prepare" PROVE cur # 0
    BY <2>2, MapIs DEF Preparing
  <2>3. QED
    BY <1>1, <1>2, <2>1, <2>2 DEF Stores, NoStoreIsForgotten
<1>11. Reported'
  <2>1. SUFFICES ASSUME ~putBack
                 PROVE  /\ AllSound'
                        /\ \A q \in Procs : Mid(proc'[q]) => Coupled(proc'[q], obj'[proc'[q].o])
                        /\ \A q1, q2 \in Procs : Mid(proc'[q1]) /\ Mid(proc'[q2]) /\ proc'[q1].o = proc'[q2].o => q1 = q2
    BY <1>1 DEF Reported, Mid, Coupled
  <2>2. /\ AllSound
        /\ \A q \in Procs : Mid(proc[q]) => Coupled(proc[q], obj[proc[q].o])
        /\ \A q1, q2 \in Procs : Mid(proc[q1]) /\ Mid(proc[q2]) /\ proc[q1].o = proc[q2].o => q1 = q2
    BY <1>2, <2>1, SMTT(40) DEF Reported
  <2>3. AllSound'
    <3>1. Sound(obj[o].rec) /\ \A j \in 1..Len(obj') : Sound(obj'[j].rec)
      BY <1>3, <1>4, <2>2 DEF AllSound, Untimed
    <3>2. SoundOr(late') /\ SoundOr(db')
      BY <1>1, <2>2, <3>1 DEF AllSound, SoundOr
    <3>3. \A q \in Procs : SoundOr(proc'[q].rec) /\ SoundOr(proc'[q].w)
      BY <1>1, <2>2 DEF AllSound
    <3>4. QED
      BY <3>1, <3>2, <3>3 DEF AllSound, Sound, SoundOr
  <2>4. ASSUME NEW q \in Procs, Mid(proc[q]) PROVE Coupled(proc[q], obj'[proc[q].o])
    <3>1. PICK j : j = proc[q].o
      OBVIOUS
    <3>2. j \in 1..Len(obj) /\ Coupled(proc[q], obj[j])
      BY <1>5, <2>2, <2>4, <3>1, OnAttached
    <3>3. obj'[j].rec = obj[j].rec /\ obj'[j].cancel = obj[j].cancel
      BY <1>4, <3>2 DEF Untimed
    <3>4. Coupled(proc[q], obj'[j])
      BY <3>2, <3>3 DEF Coupled
    <3>5. QED
      BY <3>1, <3>4
  <2>5. QED
    BY <1>1, <2>2, <2>3, <2>4, SMTT(40)
<1>12. StaysCancelled
  <2>1. \A j \in DOMAIN obj : obj'[j].rec = obj[j].rec
    BY <1>3, <1>4 DEF Untimed
  <2>2. QED
    BY <2>1 DEF StaysCancelled
<1>13. QED
  BY <1>7, <1>8, <1>9, <1>10, <1>11, <1>12 DEF Inv

\* With nobody at work there is nothing to be asked, prepared or read.
LEMMA AllIdle ==
  ASSUME NEW f, \A p \in Procs : f[p] = Idle
  PROVE  \A p \in Procs : /\ ~On(f[p]) /\ ~Mid(f[p]) /\ f[p].pc = "idle" /\ f[p].op = "none"
                          /\ SoundOr(f[p].rec) /\ SoundOr(f[p].w)
BY IdleIs DEF Mid, SoundOr

\* Restart preserves the invariant.
LEMMA RestartKeeps ==
  ASSUME Inv, Restart
  PROVE  Inv' /\ StaysCancelled
<1>1. /\ restarts < MaxRestarts /\ db # NoRecord /\ restarts' = restarts + 1
      /\ cur' = 0 /\ sub' = 0 /\ view' = Shown(NewRecord) /\ proc' = [p \in Procs |-> Idle]
      /\ late' = NoRecord /\ init' = "no" /\ db' = db /\ runs' = runs /\ store' = store /\ putBack' = putBack
      /\ spent' = spent
  BY DEF Restart
<1>2. Typed /\ Reported /\ restarts \in Nat /\ restarts' # 0
  <2>1. Typed /\ Reported /\ restarts \in Nat
    BY TypedNats DEF Inv
  <2>2. QED
    BY <1>1, <2>1
<1>3. obj \in Seq(Object) /\ Len(obj) \in Nat /\ Len(obj) <= MaxObjs /\ DOMAIN obj = 1..Len(obj)
  BY MapIs
<1>4. Untimed
  <2>1. obj' = [j \in 1..Len(obj) |-> [obj[j] EXCEPT !.timer = FALSE]]
    BY <1>3 DEF Restart
  <2>2. ASSUME NEW j \in 1..Len(obj), NEW x, x = [obj[j] EXCEPT !.timer = FALSE]
        PROVE  x \in Object /\ x.rec = obj[j].rec /\ x.cancel = obj[j].cancel /\ x.stream = obj[j].stream
    <3>1. obj[j] \in Object
      BY <1>3
    <3>2. QED
      BY <2>2, <3>1 DEF Object
  <2>3. obj' \in Seq(Object) /\ Len(obj') = Len(obj)
    BY <1>3, <2>1, <2>2
  <2>4. QED
    BY <2>1, <2>2, <2>3 DEF Untimed
<1>5. \A p \in Procs : proc'[p] = Idle
  BY <1>1
<1>6. \A p \in Procs : /\ ~On(proc'[p]) /\ ~Mid(proc'[p]) /\ proc'[p].pc = "idle" /\ proc'[p].op = "none"
                       /\ SoundOr(proc'[p].rec) /\ SoundOr(proc'[p].w)
  BY <1>5, AllIdle
<1>7. Begun' = runs /\ Begun <= runs /\ runs \in Nat /\ Begun \in Nat
  <2>1. ~Preparing'
    BY <1>6, RunsAre DEF Preparing
  <2>2. QED
    BY <1>1, <1>2, <2>1, TypedNats DEF Begun
<1>8. Rec(Begun) \subseteq Rec(Begun') /\ RecOr(Begun) \subseteq RecOr(Begun')
  BY <1>7, RecGrows
<1>9. Typed'
  <2>1. Objects'
    BY <1>2, <1>3, <1>4, <1>8 DEF Untimed, Objects, Typed
  <2>2. view' \in [status : Status, text : Seq(Events)]
    <3>1. NewRecord \in Record
      BY NewRecordIs, RecIsRecord
    <3>2. QED
      BY <1>1, <3>1, RecordFields DEF Shown
  <2>3. cur' \in 0..Len(obj') /\ sub' \in 0..Len(obj') /\ late' \in RecOr(Begun')
    BY <1>1, <1>3, <1>4 DEF Untimed, RecOr
  <2>4. Fields'
    BY <1>1, <1>2, <1>8, <2>2, <2>3 DEF Fields, Typed
  <2>5. Counters' /\ Early'
    <3>1. restarts' \in 0..MaxRestarts
      BY <1>1, <1>2, Bounds
    <3>2. QED
      BY <1>1, <1>2, <3>1 DEF Counters, Early, Typed
  <2>6. Len(obj) <= Len(obj') /\ Begun <= Begun' /\ runs <= runs' /\ proc' \in [Procs -> Entry]
    BY <1>1, <1>3, <1>4, <1>7, IdleIs DEF Untimed
  <2>7. ASSUME NEW p \in Procs PROVE EntryOK(p)'
    <3>1. Len(obj') \in Nat
      BY <1>3, <1>4 DEF Untimed
    <3>2. Shaped(p, Idle)' /\ Timed(p, Idle)'
      BY <3>1, IdleIs DEF Shaped, Timed, RecOr, Detached, Writing, Holding, RunPCs, CallPCs, Dropping
    <3>3. QED
      BY <1>5, <3>2 DEF EntryOK, Shaped, Timed
  <2>8. \A p, q \in Procs : proc'[p].op = "start" /\ proc'[q].op = "start" => p = q
    BY <1>6
  <2>9. QED
    BY <1>1, <1>2, <1>5, <2>1, <2>4, <2>5, <2>6, <2>7, <2>8, TypedStep
<1>10. Asked'
  BY <1>6, RunsAre DEF Asked, On
<1>11. Followed'
  BY <1>1 DEF Followed, ViewFollowsRecord
<1>12. Stores'
  BY <1>2, <1>6, RunsAre DEF Stores, NoStoreIsForgotten
<1>13. Reported'
  <2>1. ASSUME ~putBack' PROVE AllSound'
    <3>1. AllSound
      BY <1>1, <1>2, <2>1 DEF Reported
    <3>2. \A j \in 1..Len(obj') : Sound(obj'[j].rec)
      BY <1>3, <1>4, <3>1 DEF AllSound, Untimed
    <3>3. SoundOr(late') /\ SoundOr(db')
      BY <1>1, <3>1 DEF AllSound, SoundOr
    <3>4. QED
      BY <1>6, <3>2, <3>3 DEF AllSound, Sound, SoundOr
  <2>2. QED
    BY <1>6, <2>1 DEF Reported, Mid
<1>14. StaysCancelled
  <2>1. \A j \in DOMAIN obj : obj'[j].rec = obj[j].rec
    BY <1>3, <1>4 DEF Untimed
  <2>2. QED
    BY <2>1 DEF StaysCancelled
<1>15. QED
  BY <1>9, <1>10, <1>11, <1>12, <1>13, <1>14 DEF Inv

\* The invariant holds initially.
LEMMA InitInv == Init => Inv
<1>1. SUFFICES ASSUME Init PROVE Inv
  OBVIOUS
<1>2. /\ obj = <<>> /\ cur = 0 /\ db = NoRecord /\ proc = [p \in Procs |-> Idle] /\ late = NoRecord /\ runs = 0
      /\ spent = 0 /\ init = "done" /\ restarts = 0 /\ sub = 0 /\ view = Shown(NewRecord) /\ store = FALSE
      /\ putBack = FALSE
  BY <1>1 DEF Init
<1>3. obj \in Seq(Object) /\ Len(obj) = 0
  BY <1>2
<1>4. \A p \in Procs : proc[p] = Idle
  BY <1>2
<1>5. \A p \in Procs : /\ ~On(proc[p]) /\ ~Mid(proc[p]) /\ proc[p].pc = "idle" /\ proc[p].op = "none"
                       /\ SoundOr(proc[p].rec) /\ SoundOr(proc[p].w)
  BY <1>4, AllIdle
<1>6. Typed
  <2>1. Objects
    BY <1>3, Bounds DEF Objects
  <2>2. view \in [status : Status, text : Seq(Events)]
    <3>1. NewRecord \in Record
      BY NewRecordIs, RecIsRecord
    <3>2. QED
      BY <1>2, <3>1, RecordFields DEF Shown
  <2>3. Fields
    <3>1. store \in BOOLEAN /\ putBack \in BOOLEAN
      BY <1>2
    <3>2. cur \in 0..Len(obj) /\ sub \in 0..Len(obj)
      BY <1>2, <1>3
    <3>3. db \in RecOr(Begun) /\ late \in RecOr(Begun)
      BY <1>2 DEF RecOr
    <3>4. QED
      BY <2>2, <3>1, <3>2, <3>3 DEF Fields
  <2>4. Counters /\ Early
    BY <1>2, Bounds DEF Counters, Early
  <2>5. proc \in [Procs -> Entry]
    BY <1>2, IdleIs
  <2>6. \A p \in Procs : EntryOK(p)
    BY <1>3, <1>4, IdleOK DEF EntryOK
  <2>7. \A p, q \in Procs : proc[p].op = "start" /\ proc[q].op = "start" => p = q
    BY <1>5
  <2>8. QED
    BY <2>1, <2>3, <2>4, <2>5, <2>6, <2>7 DEF Typed, Entries
<1>7. Asked
  BY <1>5, RunsAre DEF Asked
<1>8. Followed
  BY <1>2 DEF Followed, ViewFollowsRecord
<1>9. Stores
  BY <1>2, <1>5, RunsAre DEF Stores, NoStoreIsForgotten
<1>10. Reported
  <2>1. AllSound
    BY <1>2, <1>3, <1>5 DEF AllSound, SoundOr
  <2>2. QED
    BY <1>5, <2>1 DEF Reported
<1>11. QED
  BY <1>6, <1>7, <1>8, <1>9, <1>10 DEF Inv

\* The entry of a run that resumes an interaction.
LEMMA ResumingIs ==
  ASSUME NEW o \in Nat, NEW i \in Nat, NEW e, e = Resuming(o, i)
  PROVE  /\ e \in Entry /\ e.pc = "idle" /\ e.op = "none" /\ e.rec = NoRecord /\ e.w = NoRecord
         /\ e.back = "idle" /\ e.o = o /\ e.at = i /\ e.next = 0
<1>1. PICK idle \in Entry : idle = Idle
  BY IdleIs
<1>2. e = [idle EXCEPT !.o = o, !.at = i]
  BY <1>1 DEF Resuming
<1>3. /\ e \in Entry /\ e.pc = idle.pc /\ e.op = idle.op /\ e.rec = idle.rec /\ e.w = idle.w /\ e.back = idle.back
      /\ e.o = o /\ e.at = i /\ e.next = idle.next
  BY <1>1, <1>2, ZenonT(40) DEF Entry
<1>4. QED
  BY <1>1, <1>3, IdleIs

\* The same when it is to read, or to leave.
LEMMA ResumingAt ==
  ASSUME NEW o \in Nat, NEW i \in Nat, NEW pc \in PCs, NEW e, e = At(Resuming(o, i), pc)
  PROVE  /\ e \in Entry /\ e.pc = pc /\ e.op = "none" /\ e.rec = NoRecord /\ e.w = NoRecord
         /\ e.back = "idle" /\ e.o = o /\ e.at = i /\ e.next = 0
<1>1. PICK y : y = Resuming(o, i)
  OBVIOUS
<1>2. /\ y \in Entry /\ y.op = "none" /\ y.rec = NoRecord /\ y.w = NoRecord
      /\ y.back = "idle" /\ y.o = o /\ y.at = i /\ y.next = 0
  BY <1>1, ResumingIs
<1>3. e = [y EXCEPT !.pc = pc]
  BY <1>1 DEF At
<1>4. /\ e \in Entry /\ e.pc = pc /\ e.op = y.op /\ e.rec = y.rec /\ e.w = y.w /\ e.back = y.back
      /\ e.o = y.o /\ e.at = y.at /\ e.next = y.next
  BY <1>2, <1>3 DEF Entry
<1>5. QED
  BY <1>2, <1>4

\* The same when it is to save a record.
LEMMA ResumingAtWith ==
  ASSUME NEW o \in Nat, NEW i \in Nat, NEW pc \in PCs, NEW w \in Record, NEW e, e = AtWith(Resuming(o, i), pc, w)
  PROVE  /\ e \in Entry /\ e.pc = pc /\ e.op = "none" /\ e.rec = NoRecord /\ e.w = w
         /\ e.back = "idle" /\ e.o = o /\ e.at = i /\ e.next = 0
<1>1. PICK y : y = Resuming(o, i)
  OBVIOUS
<1>2. /\ y \in Entry /\ y.op = "none" /\ y.rec = NoRecord
      /\ y.back = "idle" /\ y.o = o /\ y.at = i /\ y.next = 0
  BY <1>1, ResumingIs
<1>3. PICK v \in Record \cup {NoRecord} : v = w
  OBVIOUS
<1>4. e = [y EXCEPT !.pc = pc, !.w = v]
  BY <1>1, <1>3 DEF AtWith
<1>5. /\ e \in Entry /\ e.pc = pc /\ e.op = y.op /\ e.rec = y.rec /\ e.w = v /\ e.back = y.back
      /\ e.o = y.o /\ e.at = y.at /\ e.next = y.next
  BY <1>2, <1>4, ZenonT(40) DEF Entry
<1>6. QED
  BY <1>2, <1>3, <1>5

\* What is known when the service looks for what was in flight.
LEMMA AtResume ==
  ASSUME Inv, init = "no", cur = 0
  PROVE  /\ Typed /\ sub = 0 /\ restarts # 0 /\ db \in Rec(Begun) /\ ~Preparing /\ Begun = runs /\ runs \in Nat
         /\ (~putBack => Sound(db)) /\ 0 \in Procs /\ 0 \in Runs /\ obj \in Seq(Object) /\ Len(obj) \in Nat
         /\ proc[0] \in Entry /\ proc[0].pc # "prepare"
<1>1. Typed /\ sub = 0 /\ obj \in Seq(Object) /\ Len(obj) \in Nat
  BY MapIs DEF Inv
<1>2. restarts # 0 /\ db # NoRecord
  BY <1>1 DEF Typed, Early
<1>3. db \in Rec(Begun)
  BY <1>1, <1>2 DEF Typed, Fields, RecOr
<1>4. 0 \in Procs /\ 0 \in Runs
  BY RunsAre, Bounds
<1>5. \A r \in Runs : proc[r].pc # "prepare"
  BY <1>1, <1>2, RunsAre DEF Typed, Entries, EntryOK, Timed
<1>6. Begun = runs /\ runs \in Nat /\ ~Preparing
  BY <1>1, <1>5, TypedNats DEF Preparing
<1>7. ~putBack => Sound(db)
  BY <1>2, <1>4, SoundNow DEF SoundOr
<1>8. QED
  BY <1>1, <1>2, <1>3, <1>4, <1>5, <1>6, <1>7 DEF Typed, Entries

\* The research of the row, as rec, gets a state that run 0, with the entry e, works on.
LEMMA ResumeMove ==
  ASSUME Inv, init = "no", cur = 0, NEW e, Moves(0, e), NEW rec \in Rec(Begun), MayHaveState,
         obj' = StateOf(rec), cur' = StateId, init' = "resuming", db' = db, late' = late, runs' = runs,
         spent' = spent, restarts' = restarts, sub' = sub, view' = view, store' = store, putBack' = putBack,
         e.o = StateId, e.op = "none", e.rec = NoRecord, rec.status # "cancelled",
         \/ e.pc = "failing" /\ e.w = rec
         \/ e.pc = "resuming" /\ e.w = NoRecord /\ e.at \in 1..runs,
         ~putBack => Sound(rec),
         ~putBack /\ e.pc = "resuming" =>
           /\ ~rec.plan /\ rec.status # "completed"
           /\ rec.last[2] <= Chunks => rec.text = TextUpTo(<<e.at, rec.last[2]>>) /\ rec.inter = e.at
  PROVE  Inv' /\ StaysCancelled
<1>1. Typed /\ Asked /\ Followed /\ Stores /\ Reported
  BY DEF Inv
<1>2. /\ sub = 0 /\ restarts # 0 /\ db \in Rec(Begun) /\ ~Preparing /\ Begun = runs /\ runs \in Nat
      /\ 0 \in Procs /\ 0 \in Runs /\ obj \in Seq(Object) /\ Len(obj) \in Nat /\ proc[0].pc # "prepare"
  BY AtResume
<1>3. PICK o, c, s : Put(obj', rec, o, c, s) /\ o = StateId
  BY PutState
<1>4. /\ Wrote(obj, obj', o, rec, c, s) /\ Len(obj') <= MaxObjs /\ o > Len(obj) /\ ~(o <= Len(obj)) /\ ~c
      /\ cur' = o /\ e.o = o /\ o # 0 /\ o \in 1..Len(obj') /\ Len(obj') \in Nat
  BY <1>3 DEF Put, Wrote
<1>5. /\ e.pc # "prepare" /\ e.pc # "asking" /\ e.pc # "dropped" /\ e.pc \in {"failing", "resuming"}
      /\ e.pc \in RunPCs /\ e.pc \notin Detached /\ e.pc \notin Holding /\ e.pc \notin Dropping /\ ~Over(e)
      /\ e.pc \in Writing => e.pc = "failing"
      /\ On(e) => e.pc = "resuming"
      /\ Mid(e) => e.pc = "resuming"
  BY DEF RunPCs, Working, Detached, Holding, Dropping, Over, Writing, On, Mid
<1>6. Begun' = Begun /\ Begun' \in Nat
  BY <1>1, <1>2, <1>5, BegunGrows
<1>7. rec \in RecOr(Begun') /\ rec # NoRecord /\ NoRecord \in RecOr(Begun') /\ db # NoRecord
  BY <1>2, <1>6, RecIsOr DEF RecOr
<1>8. Typed'
  <2>1. Objects' /\ Len(obj) <= Len(obj')
    <3>1. Begun <= Begun' /\ rec \in Rec(Begun')
      BY <1>6
    <3>2. QED
      BY <1>1, <1>4, <1>6, <3>1, WroteOK
  <2>2. Fields'
    <3>1. cur' \in 0..Len(obj') /\ sub' \in 0..Len(obj')
      BY <1>2, <1>4
    <3>2. db' \in RecOr(Begun') /\ late' \in RecOr(Begun')
      BY <1>1, <1>6 DEF Typed, Fields
    <3>3. QED
      BY <1>1, <3>1, <3>2 DEF Typed, Fields
  <2>3. Counters' /\ Early'
    BY <1>1, <1>2, <1>7 DEF Typed, Counters, Early
  <2>4. Shaped(0, e)'
    <3>1. 0 \notin Calls
      BY <1>2, RunsAre
    <3>2. e.w \in RecOr(Begun') /\ e.rec \in RecOr(Begun') /\ (e.pc = "failing" => e.w # NoRecord)
      BY <1>5, <1>7
    <3>3. e.o <= Len(obj')
      BY <1>4
    <3>4. On(e) => e.at \in 1..runs'
      BY <1>5
    <3>5. QED
      BY <1>4, <1>5, <3>1, <3>2, <3>3, <3>4 DEF Shaped
  <2>5. Timed(0, e)'
    <3>1. ~(0 > runs') /\ restarts' # 0 /\ db' # NoRecord
      BY <1>2, <1>7
    <3>2. QED
      BY <1>5, <3>1 DEF Timed
  <2>6. QED
    BY <1>1, <1>5, <1>7, <2>1, <2>2, <2>3, <2>4, <2>5, TypedMove
<1>9. Asked'
  BY <1>1, <1>4, <1>5, AskedMove
<1>10. Followed'
  BY <1>2 DEF Followed, ViewFollowsRecord
<1>11. Stores'
  <2>1. restarts = 0 /\ ~putBack' /\ store' => \/ o = cur' /\ rec.store
                                               \/ store /\ cur' = cur /\ o # cur
    BY <1>2
  <2>2. QED
    BY <1>1, <1>2, <1>4, <1>5, <2>1, StoresMove
<1>12. Reported'
  <2>1. ASSUME ~putBack'
        PROVE  /\ ~putBack
               /\ Sound(rec) /\ SoundOr(db') /\ SoundOr(late') /\ SoundOr(e.rec) /\ SoundOr(e.w)
               /\ Mid(e) => e.o = o /\ Coupled(e, obj'[o]) /\ Sole(0, o)
               /\ Sole(0, o) \/ (o <= Len(obj) /\ Alike(obj[o], rec, c))
    <3>1. ~putBack /\ Sound(rec)
      BY <2>1
    <3>2. SoundOr(db) /\ SoundOr(late)
      BY <1>2, <3>1, SoundNow
    <3>3. SoundOr(e.rec) /\ SoundOr(e.w)
      BY <3>1 DEF SoundOr
    <3>4. Sole(0, o)
      BY <1>4, MapIs
    <3>5. ASSUME Mid(e) PROVE Coupled(e, obj'[o])
      <4>1. obj'[o].rec = rec /\ e.pc = "resuming"
        BY <1>4, <1>5, <3>5 DEF Wrote
      <4>2. QED
        BY <3>1, <4>1 DEF Coupled
    <3>6. QED
      BY <1>4, <3>1, <3>2, <3>3, <3>4, <3>5
  <2>2. QED
    BY <1>1, <1>2, <1>4, <2>1, ReportMove
<1>13. StaysCancelled
  <2>1. ASSUME NEW j \in DOMAIN obj PROVE obj'[j] = obj[j]
    <3>1. j \in 1..Len(obj) /\ j # o
      BY <1>2, <1>4, <2>1
    <3>2. QED
      BY <1>4, <3>1 DEF Wrote
  <2>2. QED
    BY <2>1 DEF StaysCancelled
<1>14. QED
  BY <1>8, <1>9, <1>10, <1>11, <1>12, <1>13 DEF Inv

\* What resumeInFlight does with a research that had no interaction yet, and with one that had.
LEMMA ResumeDoes ==
  ASSUME Resume, db.status \in {"pending", "running"}
  PROVE  /\ MayHaveState /\ cur' = StateId
         /\ db.inter = 0 => /\ obj' = StateOf(Failed(db))
                            /\ proc' = [proc EXCEPT ![0] = AtWith(Resuming(StateId, db.inter), "failing", Failed(db))]
         /\ db.inter # 0 => /\ obj' = StateOf(db)
                            /\ proc' = [proc EXCEPT ![0] = At(Resuming(StateId, db.inter), "resuming")]
<1>1. /\ MayHaveState /\ cur' = StateId
      /\ IF db.inter = 0
           THEN /\ obj' = StateOf(Failed(db))
                /\ proc' = [proc EXCEPT ![0] = AtWith(Resuming(StateId, db.inter), "failing", Failed(db))]
           ELSE /\ obj' = StateOf(db)
                /\ proc' = [proc EXCEPT ![0] = At(Resuming(StateId, db.inter), "resuming")]
  BY Zenon DEF Resume, AtWith, At, Resuming, Failed
<1>2. QED
  BY <1>1, Zenon

\* Resume preserves the invariant.
LEMMA ResumeKeeps ==
  ASSUME Inv, Resume
  PROVE  Inv' /\ StaysCancelled
<1>1. /\ init = "no" /\ cur = 0 /\ db' = db /\ late' = late /\ runs' = runs /\ spent' = spent
      /\ restarts' = restarts /\ sub' = sub /\ view' = view /\ store' = store /\ putBack' = putBack
  BY DEF Resume, clientVars
<1>2. /\ Typed /\ sub = 0 /\ restarts # 0 /\ db \in Rec(Begun) /\ ~Preparing /\ Begun = runs /\ runs \in Nat
      /\ (~putBack => Sound(db)) /\ 0 \in Procs /\ 0 \in Runs /\ obj \in Seq(Object) /\ Len(obj) \in Nat
  BY <1>1, AtResume
<1>3. CASE db.status \notin {"pending", "running"}
  <2>1. init' = "done" /\ obj' = obj /\ cur' = cur /\ proc' = proc
    BY <1>3 DEF Resume, stateVars
  <2>2. Asked /\ Followed /\ Stores /\ Reported
    BY DEF Inv
  <2>3. Begun' = Begun
    BY <1>1, <2>1 DEF Begun, Preparing
  <2>4. Typed'
    <3>1. Objects' /\ Fields'
      BY <1>1, <1>2, <2>1, <2>3 DEF Typed, Objects, Fields
    <3>2. Counters' /\ Early'
      BY <1>1, <1>2, <2>1 DEF Typed, Counters, Early
    <3>3. Len(obj) <= Len(obj') /\ Begun <= Begun' /\ runs <= runs'
      BY <1>1, <1>2, <2>1, <2>3
    <3>4. proc' \in [Procs -> Entry] /\ \A p, q \in Procs : proc'[p].op = "start" /\ proc'[q].op = "start" => p = q
      BY <1>2, <2>1 DEF Typed, Entries
    <3>5. QED
      BY <1>1, <1>2, <2>1, <3>1, <3>2, <3>3, <3>4, TypedStep
  <2>5. Asked'
    BY <1>1, <2>1, <2>2 DEF Asked, On
  <2>6. Followed'
    BY <1>1, <1>2, <2>1 DEF Followed, ViewFollowsRecord
  <2>7. Stores'
    BY <1>1, <2>1, <2>2 DEF Stores, NoStoreIsForgotten
  <2>8. Reported'
    <3>1. SUFFICES ASSUME ~putBack
                   PROVE  /\ AllSound'
                          /\ \A q \in Procs : Mid(proc'[q]) => Coupled(proc'[q], obj'[proc'[q].o])
                          /\ \A q1, q2 \in Procs : Mid(proc'[q1]) /\ Mid(proc'[q2]) /\ proc'[q1].o = proc'[q2].o => q1 = q2
      BY <1>1 DEF Reported, Mid, Coupled
    <3>2. /\ AllSound
          /\ \A q \in Procs : Mid(proc[q]) => Coupled(proc[q], obj[proc[q].o])
          /\ \A q1, q2 \in Procs : Mid(proc[q1]) /\ Mid(proc[q2]) /\ proc[q1].o = proc[q2].o => q1 = q2
      BY <2>2, <3>1 DEF Reported
    <3>3. AllSound'
      BY <1>1, <2>1, <3>2 DEF AllSound, Sound, SoundOr
    <3>4. QED
      BY <2>1, <3>2, <3>3, SMTT(40)
  <2>9. StaysCancelled
    BY <2>1 DEF StaysCancelled
  <2>10. QED
    BY <2>4, <2>5, <2>6, <2>7, <2>8, <2>9 DEF Inv
<1>4. CASE db.status \in {"pending", "running"}
  <2>1. PICK o, i, rec : o = StateId /\ i = db.inter /\ rec = Failed(db)
    OBVIOUS
  <2>2. o \in Nat /\ o # 0 /\ i \in Nat /\ i <= runs /\ init' = "resuming"
    <3>1. o = Len(obj) + 1
      BY <1>1, <2>1 DEF StateId
    <3>2. i \in Nat /\ i <= runs
      BY <1>2, <2>1, Bounds DEF Rec, Record
    <3>3. init' = "resuming"
      BY <1>4 DEF Resume
    <3>4. QED
      BY <1>2, <3>1, <3>2, <3>3
  <2>3. MayHaveState /\ cur' = StateId
    BY <1>4, ResumeDoes
  <2>4. ~putBack => ~db.plan
    BY <1>2, <1>4 DEF Sound, Terminal
  <2>5. CASE i = 0
    <3>1. PICK pc \in PCs, st \in Status : pc = "failing" /\ st = "failed"
      BY DEF PCs, Status
    <3>2. rec = [db EXCEPT !.status = st]
      BY <2>1, <3>1 DEF Failed
    <3>3. /\ rec \in Rec(Begun) /\ rec.status = st /\ rec.text = db.text /\ rec.last = db.last /\ rec.plan = db.plan
          /\ rec.store = db.store /\ rec.inter = db.inter
      BY <1>2, <3>1, <3>2, StatusSet
    <3>4. rec \in Record
      BY <3>3, RecIsRecord
    <3>5. PICK e : e = AtWith(Resuming(o, i), pc, rec)
      OBVIOUS
    <3>6. /\ e \in Entry /\ e.pc = pc /\ e.op = "none" /\ e.rec = NoRecord /\ e.w = rec /\ e.o = o
      BY <2>2, <3>4, <3>5, ResumingAtWith
    <3>7. obj' = StateOf(rec) /\ proc' = [proc EXCEPT ![0] = e]
      BY <1>4, <2>1, <2>5, <3>1, <3>5, ResumeDoes
    <3>8. Moves(0, e)
      BY <1>2, <3>6, <3>7 DEF Moves
    <3>9. ~putBack => Sound(rec)
      BY <1>2, <1>4, <2>4, <3>1, <3>3 DEF Sound
    <3>10. e.pc = "failing" /\ rec.status # "cancelled" /\ e.o = StateId
      BY <2>1, <3>1, <3>3, <3>6
    <3>11. QED
      BY <1>1, <2>2, <2>3, <3>3, <3>6, <3>7, <3>8, <3>9, <3>10, ResumeMove
  <2>6. CASE i # 0
    <3>1. PICK pc, row : pc \in PCs /\ pc = "resuming" /\ row = db
      BY DEF PCs
    <3>2. PICK e : e = At(Resuming(o, i), pc)
      OBVIOUS
    <3>3. e \in Entry /\ e.pc = pc /\ e.op = "none" /\ e.rec = NoRecord /\ e.w = NoRecord /\ e.o = o /\ e.at = i
      BY <2>2, <3>1, <3>2, ResumingAt
    <3>4. obj' = StateOf(row) /\ proc' = [proc EXCEPT ![0] = e]
      BY <1>4, <2>1, <2>6, <3>1, <3>2, ResumeDoes
    <3>5. Moves(0, e)
      BY <1>2, <3>3, <3>4 DEF Moves
    <3>6. /\ e.pc = "resuming" /\ row.status # "cancelled" /\ e.o = StateId /\ e.at \in 1..runs /\ row \in Rec(Begun)
          /\ row.status # "completed" /\ row.inter = e.at
      BY <1>2, <1>4, <2>1, <2>2, <2>6, <3>1, <3>3
    <3>7. ~putBack => Sound(row) /\ ~row.plan
      BY <1>2, <2>4, <3>1
    <3>8. ASSUME ~putBack, row.last[2] <= Chunks PROVE row.text = TextUpTo(<<e.at, row.last[2]>>)
      <4>1. PICK a, k : a = row.last[1] /\ k = row.last[2]
        OBVIOUS
      <4>2. row.last \in Events \cup {NoEvent}
        BY <3>6, RecIsRecord, RecordFields
      <4>3. a \in Nat /\ k \in 0..Chunks + 1 /\ row.last = <<a, k>>
        BY <4>1, <4>2, EventIs
      <4>4. row.text = TextUpTo(<<a, k>>) /\ (k \in 1..Chunks => row.inter = a)
        BY <3>6, <3>7, <3>8, <4>1, <4>3, Bounds DEF Sound
      <4>5. CASE k = 0
        <5>1. e.at \in Nat
          BY <3>6
        <5>2. TextUpTo(<<a, k>>) = <<>> /\ TextUpTo(<<e.at, k>>) = <<>>
          BY <4>3, <4>5, <5>1, TextIs
        <5>3. QED
          BY <4>1, <4>4, <5>2
      <4>6. CASE k # 0
        <5>1. k \in 1..Chunks
          BY <3>8, <4>1, <4>3, <4>6, Bounds
        <5>2. QED
          BY <3>6, <4>1, <4>4, <5>1
      <4>7. QED
        BY <4>5, <4>6
    <3>9. QED
      BY <1>1, <2>2, <2>3, <3>3, <3>4, <3>5, <3>6, <3>7, <3>8, ResumeMove
  <2>7. QED
    BY <2>5, <2>6
<1>5. QED
  BY <1>3, <1>4

-----------------------------------------------------------------------------
(* The theorems *)

\* CallStep preserves the invariant.
LEMMA CallStepKeeps ==
  ASSUME Inv, NEW c \in Calls, CallStep(c)
  PROVE  Inv' /\ StaysCancelled
<1>1. CASE \E how \in Starts : Start(c, how)
  BY <1>1, StartKeeps
<1>2. CASE RowInserted(c)
  BY <1>2, RowInsertedKeeps
<1>3. CASE Inserted(c)
  BY <1>3, InsertedKeeps
<1>4. CASE \E op \in Ops : Call(c, op)
  BY <1>4, CalledKeeps
<1>5. CASE NothingResolved(c)
  BY <1>5, NothingResolvedKeeps
<1>6. CASE Resolved(c)
  BY <1>6, ResolvedKeeps
<1>7. CASE Merged(c)
  BY <1>7, MergedKeeps
<1>8. CASE UploadRead(c)
  BY <1>8, UploadReadKeeps
<1>9. CASE Saved(c)
  BY <1>9, SavedKeeps, SavedExecutesKeeps
<1>10. CASE Cancel(c)
  BY <1>10, CancelKeeps
<1>11. CASE CancelAsked(c)
  BY <1>11, CancelAskedKeeps
<1>12. CASE CancelSaved(c)
  BY <1>12, CancelSavedKeeps
<1>13. QED
  BY <1>1, <1>2, <1>3, <1>4, <1>5, <1>6, <1>7, <1>8, <1>9, <1>10, <1>11, <1>12 DEF CallStep

\* StoreDropped preserves the invariant.
LEMMA StoreDroppedKeeps ==
  ASSUME Inv, NEW p \in Procs, StoreDropped(p)
  PROVE  Inv' /\ StaysCancelled
BY RunsAre, RunStoreDroppedKeeps, CallStoreDroppedKeeps

\* StateRemoved preserves the invariant.
LEMMA StateRemovedKeeps ==
  ASSUME Inv, NEW p \in Procs, StateRemoved(p)
  PROVE  Inv' /\ StaysCancelled
BY RunsAre, RunStateRemovedKeeps, CallStateRemovedKeeps

\* A step that changes nothing preserves the invariant.
LEMMA StutterKeeps ==
  ASSUME Inv, UNCHANGED vars
  PROVE  Inv' /\ StaysCancelled
<1>1. /\ late' = late /\ db' = db /\ obj' = obj /\ cur' = cur /\ proc' = proc
      /\ runs' = runs /\ spent' = spent /\ init' = init /\ restarts' = restarts
      /\ sub' = sub /\ view' = view /\ store' = store /\ putBack' = putBack
  BY DEF vars, stateVars, boundVars, clientVars
<1>2. 0 \in Procs
  BY RunsAre, Bounds
<1>3. Moves(0, proc[0])
  BY <1>1, <1>2, SameBut DEF Moves
<1>4. Quiet(0, proc[0])
  BY <1>1, <1>2, <1>3, SameBut DEF Quiet
<1>5. QED
  BY <1>4, QuietMove

\* Next preserves the invariant.
LEMMA NextKeeps ==
  ASSUME Inv, [Next]_vars
  PROVE  Inv' /\ StaysCancelled
<1>1. CASE \E r \in Runs : RunStep(r)
  BY <1>1, RunStepKeeps
<1>2. CASE \E c \in Calls : CallStep(c)
  BY <1>2, CallStepKeeps
<1>3. CASE \E p \in Procs : StoreDropped(p) \/ StateRemoved(p)
  BY <1>3, StoreDroppedKeeps, StateRemovedKeeps
<1>4. CASE \E o \in DOMAIN obj : TimerFires(o)
  BY <1>4, TimerFiresKeeps
<1>5. CASE LateWriteLands
  BY <1>5, LateWriteLandsKeeps
<1>6. CASE Unsubscribe
  BY <1>6, UnsubscribeKeeps
<1>7. CASE Restart
  BY <1>7, RestartKeeps
<1>8. CASE Resume
  BY <1>8, ResumeKeeps
<1>9. CASE StreamResumed
  BY <1>9, StreamResumedKeeps
<1>10. CASE ResumedRunFails
  BY <1>10, ResumedRunEndsKeeps, ResumedRunFailsKeeps
<1>11. CASE ResumedFailureSaved
  BY <1>11, ResumedFailureSavedKeeps
<1>12. CASE UNCHANGED vars
  BY <1>12, StutterKeeps
<1>13. QED
  BY <1>1, <1>2, <1>3, <1>4, <1>5, <1>6, <1>7, <1>8, <1>9, <1>10, <1>11, <1>12 DEF Next

(***************************************************************************)
(* The inductive invariant: in every behaviour of the service, whatever    *)
(* the calls, the bounds and the number of events a stream has, the types, *)
(* Asked, Followed, Stores and Reported hold together.                     *)
(***************************************************************************)
THEOREM Invariance == Spec => []Inv
<1>1. Inv /\ [Next]_vars => Inv'
  BY NextKeeps
<1>2. QED
  BY <1>1, InitInv, PTL DEF Spec

\* The types of the invariant are those of the model.
LEMMA InvTypes == Inv => TypeOK
<1>1. SUFFICES ASSUME Inv PROVE TypeOK
  OBVIOUS
<1>2. Typed /\ Objects /\ Fields /\ Counters /\ obj \in Seq(Object) /\ Len(obj) \in Nat /\ DOMAIN obj = 1..Len(obj)
  BY <1>1, MapIs DEF Inv, Typed
<1>3. \A o \in DOMAIN obj :
        obj[o] \in [rec : Record, cancel : BOOLEAN, planning : BOOLEAN, stream : BOOLEAN, timer : BOOLEAN]
  <2>1. \A o \in 1..Len(obj) : obj[o] \in Object
    BY <1>2
  <2>2. QED
    BY <1>2, <2>1, Zenon DEF Object
<1>4. db \in Record \cup {NoRecord} /\ late \in Record \cup {NoRecord}
  BY <1>2 DEF Fields, RecOr, Rec
<1>5. ASSUME NEW p \in Procs
      PROVE  proc[p].pc \in PCs /\ proc[p].o \in 0..Len(obj) /\ {proc[p].rec, proc[p].w} \subseteq Record \cup {NoRecord}
  <2>1. proc[p] \in Entry /\ Shaped(p, proc[p])
    BY <1>2 DEF Typed, Entries, EntryOK
  <2>2. proc[p].o <= Len(obj)
    BY <2>1 DEF Shaped
  <2>3. QED
    BY <1>2, <2>1, <2>2, EntryFields
<1>6. QED
  BY <1>2, <1>3, <1>4, <1>5 DEF TypeOK, Objects, Fields, Counters

\* Every state, record, entry and counter is of its type; in particular the row has
\* one of the five documented statuses (the record type of the research service).
THEOREM TypeCorrect == Spec => []TypeOK
BY Invariance, InvTypes, PTL

\* The subscriber shows the status and the text of the state unless a change is
\* still being stored (broadcast, subscribe, cleanupTerminalState).
THEOREM ViewIsCurrent == Spec => []ViewFollowsRecord
<1>1. Inv => ViewFollowsRecord
  BY DEF Inv, Followed
<1>2. QED
  BY <1>1, Invariance, PTL

\* A store that exists at the provider is named by the record in the map, also when
\* the research is cancelled while its files are prepared (executeResearch).
THEOREM StoreIsNamed == Spec => []NoStoreIsForgotten
<1>1. Inv => NoStoreIsForgotten
  BY DEF Inv, Stores
<1>2. QED
  BY <1>1, Invariance, PTL

\* A sound record holds a whole report.
LEMMA SoundIsWhole ==
  ASSUME NEW rec, Sound(rec)
  PROVE  Whole(rec)
BY DEF Sound, Whole

\* Whatever was written last, and after a resumption too, the stored report has no
\* gap and nothing twice (handleInteractionEvent, flushPersistNow, resumeInFlight).
THEOREM ReportIsWhole == Spec => []StoredReportIsWhole
<1>1. Inv => StoredReportIsWhole
  BY SoundIsWhole DEF Inv, Reported, AllSound, SoundOr, StoredReportIsWhole
<1>2. QED
  BY <1>1, Invariance, PTL

\* A cancelled research stays cancelled, whatever its interaction still sends
\* (cancel, handleInteractionEvent).
THEOREM CancelIsFinal == Spec => CancelledStaysCancelled
<1>1. Inv /\ [Next]_vars => StaysCancelled
  BY NextKeeps
<1>2. Inv /\ [Next]_vars => [StaysCancelled]_vars
  BY <1>1
<1>3. [][StaysCancelled]_vars <=> CancelledStaysCancelled
  BY PTL DEF StaysCancelled, CancelledStaysCancelled
<1>4. QED
  BY <1>2, <1>3, Invariance, PTL DEF Spec
====
