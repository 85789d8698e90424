------------------------- MODULE SessionTurnProofs -------------------------
(***************************************************************************)
(* SessionTurn for every set of messages, steers and prompts and every     *)
(* step budget: its types, and, when no message carries uploaded files,    *)
(* that one turn runs at a time, that the session shows exactly that turn, *)
(* and that every accepted steer is written once, in the turn it was       *)
(* accepted for, in the order in which steers were accepted.               *)
(***************************************************************************)
EXTENDS SessionTurn, SequenceTheorems, TLAPS

-----------------------------------------------------------------------------
(* Occurrence and order in sequences *)

Occurs(seq, x) == \E i \in 1..Len(seq) : seq[i] = x

(***************************************************************************)
(* What occurs in a concatenation occurs in one of its parts.              *)
(***************************************************************************)
LEMMA OccursConcat ==
  ASSUME NEW S, NEW a \in Seq(S), NEW b \in Seq(S), NEW x
  PROVE  Occurs(a \o b, x) <=> Occurs(a, x) \/ Occurs(b, x)
<1>1. ASSUME Occurs(a \o b, x) PROVE Occurs(a, x) \/ Occurs(b, x)
  <2>1. PICK i \in 1..Len(a \o b) : (a \o b)[i] = x
    BY <1>1 DEF Occurs
  <2>2. CASE i <= Len(a)
    BY <2>1, <2>2 DEF Occurs
  <2>3. CASE i > Len(a)
    <3>1. i - Len(a) \in 1..Len(b) /\ b[i - Len(a)] = x
      BY <2>1, <2>3
    <3>2. QED
      BY <3>1 DEF Occurs
  <2>4. QED
    BY <2>2, <2>3
<1>2. ASSUME Occurs(a, x) PROVE Occurs(a \o b, x)
  <2>1. PICK i \in 1..Len(a) : a[i] = x
    BY <1>2 DEF Occurs
  <2>2. i \in 1..Len(a \o b) /\ (a \o b)[i] = x
    BY <2>1
  <2>3. QED
    BY <2>2 DEF Occurs
<1>3. ASSUME Occurs(b, x) PROVE Occurs(a \o b, x)
  <2>1. PICK i \in 1..Len(b) : b[i] = x
    BY <1>3 DEF Occurs
  <2>2. i + Len(a) \in 1..Len(a \o b) /\ (a \o b)[i + Len(a)] = x
    BY <2>1
  <2>3. QED
    BY <2>2 DEF Occurs
<1>4. QED
  BY <1>1, <1>2, <1>3

(***************************************************************************)
(* Two items of a concatenation are in order within a part, or the first   *)
(* is of the first part and the second of the second.                      *)
(***************************************************************************)
LEMMA BeforeConcat ==
  ASSUME NEW S, NEW a \in Seq(S), NEW b \in Seq(S), NEW x, NEW y
  PROVE  Before(a \o b, x, y) <=>
           Before(a, x, y) \/ Before(b, x, y) \/ (Occurs(a, x) /\ Occurs(b, y))
<1>1. ASSUME Before(a \o b, x, y)
      PROVE  Before(a, x, y) \/ Before(b, x, y) \/ (Occurs(a, x) /\ Occurs(b, y))
  <2>1. PICK i, j \in 1..Len(a \o b) : i < j /\ (a \o b)[i] = x /\ (a \o b)[j] = y
    BY <1>1 DEF Before
  <2>2. CASE j <= Len(a)
    <3>1. i \in 1..Len(a) /\ j \in 1..Len(a) /\ a[i] = x /\ a[j] = y
      BY <2>1, <2>2
    <3>2. QED
      BY <2>1, <3>1 DEF Before
  <2>3. CASE i <= Len(a) /\ j > Len(a)
    <3>1. i \in 1..Len(a) /\ a[i] = x /\ j - Len(a) \in 1..Len(b) /\ b[j - Len(a)] = y
      BY <2>1, <2>3
    <3>2. QED
      BY <3>1 DEF Occurs
  <2>4. CASE i > Len(a)
    <3>1. /\ i - Len(a) \in 1..Len(b) /\ b[i - Len(a)] = x
          /\ j - Len(a) \in 1..Len(b) /\ b[j - Len(a)] = y
          /\ i - Len(a) < j - Len(a)
      BY <2>1, <2>4
    <3>2. QED
      BY <3>1 DEF Before
  <2>5. QED
    BY <2>2, <2>3, <2>4
<1>2. ASSUME Before(a, x, y) PROVE Before(a \o b, x, y)
  <2>1. PICK i, j \in 1..Len(a) : i < j /\ a[i] = x /\ a[j] = y
    BY <1>2 DEF Before
  <2>2. /\ i \in 1..Len(a \o b) /\ (a \o b)[i] = x
        /\ j \in 1..Len(a \o b) /\ (a \o b)[j] = y
    BY <2>1
  <2>3. QED
    BY <2>1, <2>2 DEF Before
<1>3. ASSUME Before(b, x, y) PROVE Before(a \o b, x, y)
  <2>1. PICK i, j \in 1..Len(b) : i < j /\ b[i] = x /\ b[j] = y
    BY <1>3 DEF Before
  <2>2. /\ i + Len(a) \in 1..Len(a \o b) /\ (a \o b)[i + Len(a)] = x
        /\ j + Len(a) \in 1..Len(a \o b) /\ (a \o b)[j + Len(a)] = y
        /\ i + Len(a) < j + Len(a)
    BY <2>1
  <2>3. QED
    BY <2>2 DEF Before
<1>4. ASSUME Occurs(a, x), Occurs(b, y) PROVE Before(a \o b, x, y)
  <2>1. PICK i \in 1..Len(a) : a[i] = x
    BY <1>4 DEF Occurs
  <2>2. PICK j \in 1..Len(b) : b[j] = y
    BY <1>4 DEF Occurs
  <2>3. /\ i \in 1..Len(a \o b) /\ (a \o b)[i] = x
        /\ j + Len(a) \in 1..Len(a \o b) /\ (a \o b)[j + Len(a)] = y
        /\ i < j + Len(a)
    BY <2>1, <2>2
  <2>4. QED
    BY <2>3 DEF Before
<1>5. QED
  BY <1>1, <1>2, <1>3, <1>4

(***************************************************************************)
(* A sequence of one item, and an empty one.                               *)
(***************************************************************************)
LEMMA ShortSequences ==
  ASSUME NEW e, NEW x, NEW y
  PROVE  /\ ~Occurs(<<>>, x) /\ ~Before(<<>>, x, y)
         /\ Occurs(<<e>>, x) <=> x = e
         /\ ~Before(<<e>>, x, y)
<1>1. ~Occurs(<<>>, x) /\ ~Before(<<>>, x, y)
  BY DEF Occurs, Before
<1>2. Len(<<e>>) = 1 /\ <<e>>[1] = e
  OBVIOUS
<1>3. Occurs(<<e>>, x) <=> x = e
  BY <1>2 DEF Occurs
<1>4. ~Before(<<e>>, x, y)
  BY <1>2 DEF Before
<1>5. QED
  BY <1>1, <1>3, <1>4

(***************************************************************************)
(* What is queued last comes after what was there.                         *)
(***************************************************************************)
LEMMA AppendedItem ==
  ASSUME NEW S, NEW a \in Seq(S), NEW e \in S, NEW x, NEW y
  PROVE  /\ Occurs(Append(a, e), x) <=> Occurs(a, x) \/ x = e
         /\ Before(Append(a, e), x, y) <=> Before(a, x, y) \/ (Occurs(a, x) /\ y = e)
<1>1. <<e>> \in Seq(S)
  OBVIOUS
<1>2. Append(a, e) = a \o <<e>>
  BY AppendIsConcat
<1>3. Occurs(Append(a, e), x) <=> Occurs(a, x) \/ x = e
  <2>1. Occurs(a \o <<e>>, x) <=> Occurs(a, x) \/ Occurs(<<e>>, x)
    BY <1>1, OccursConcat
  <2>2. Occurs(<<e>>, x) <=> x = e
    BY ShortSequences
  <2>3. QED
    BY <1>2, <2>1, <2>2
<1>4. Before(Append(a, e), x, y) <=> Before(a, x, y) \/ (Occurs(a, x) /\ y = e)
  <2>1. Before(a \o <<e>>, x, y) <=>
          Before(a, x, y) \/ Before(<<e>>, x, y) \/ (Occurs(a, x) /\ Occurs(<<e>>, y))
    BY <1>1, BeforeConcat
  <2>2. ~Before(<<e>>, x, y) /\ (Occurs(<<e>>, y) <=> y = e)
    BY ShortSequences
  <2>3. QED
    BY <1>2, <2>1, <2>2
<1>5. QED
  BY <1>3, <1>4

\* What the messages of a transcript are.
ItemsOf(h) == [i \in 1..Len(h) |-> h[i].item]

(***************************************************************************)
(* A transcript has as many items as messages.                             *)
(***************************************************************************)
LEMMA ItemsType ==
  ASSUME NEW h \in Seq(Entry)
  PROVE  ItemsOf(h) \in Seq(Items) /\ Len(ItemsOf(h)) = Len(h)
<1>1. \A i \in 1..Len(h) : h[i].item \in Items
  <2>1. \A i \in 1..Len(h) : h[i] \in Entry
    OBVIOUS
  <2>2. QED
    BY <2>1 DEF Entry
<1>2. Len(h) \in Nat
  OBVIOUS
<1>3. ItemsOf(h) \in [1..Len(h) -> Items]
  BY <1>1 DEF ItemsOf
<1>4. QED
  BY <1>2, <1>3

(***************************************************************************)
(* A batch of steers is in the transcript in its order.                    *)
(***************************************************************************)
LEMMA ItemsOfBatch ==
  ASSUME NEW h \in Seq(Entry), NEW c \in Calls, NEW items \in Seq(Steers)
  PROVE  ItemsOf(h \o Entries(c, items)) = ItemsOf(h) \o items
<1>1. /\ Entries(c, items) \in Seq(Entry) /\ Len(Entries(c, items)) = Len(items)
      /\ \A i \in 1..Len(items) : Entries(c, items)[i].item = items[i]
  BY DEF Entries, Entry, Items
<1>2. /\ ItemsOf(h) \in Seq(Items) /\ Len(ItemsOf(h)) = Len(h) /\ items \in Seq(Items)
      /\ h \o Entries(c, items) \in Seq(Entry)
  BY <1>1, ItemsType DEF Items
<1>3. /\ Len(ItemsOf(h \o Entries(c, items))) = Len(h) + Len(items)
      /\ Len(ItemsOf(h \o Entries(c, items))) = Len(ItemsOf(h) \o items)
      /\ ItemsOf(h \o Entries(c, items)) \in Seq(Items)
      /\ ItemsOf(h) \o items \in Seq(Items)
  <2>1. Len(h \o Entries(c, items)) = Len(h) + Len(items)
    BY <1>1
  <2>2. /\ Len(ItemsOf(h) \o items) = Len(ItemsOf(h)) + Len(items)
        /\ ItemsOf(h) \o items \in Seq(Items)
    BY <1>2, ConcatProperties
  <2>3. /\ ItemsOf(h \o Entries(c, items)) \in Seq(Items)
        /\ Len(ItemsOf(h \o Entries(c, items))) = Len(h \o Entries(c, items))
    BY <1>2, ItemsType
  <2>4. QED
    BY <1>2, <2>1, <2>2, <2>3
<1>4. ASSUME NEW i \in 1..(Len(h) + Len(items))
      PROVE  ItemsOf(h \o Entries(c, items))[i] = (ItemsOf(h) \o items)[i]
  <2>1. CASE i <= Len(h)
    BY <1>1, <1>2, <2>1 DEF ItemsOf
  <2>2. CASE ~(i <= Len(h))
    <3>1. i - Len(h) \in 1..Len(items)
      BY <2>2
    <3>2. (h \o Entries(c, items))[i] = Entries(c, items)[i - Len(h)]
      BY <1>1, <3>1
    <3>3. ItemsOf(h \o Entries(c, items))[i] = items[i - Len(h)]
      BY <1>1, <3>1, <3>2 DEF ItemsOf
    <3>4. QED
      BY <1>2, <2>2, <3>1, <3>3
  <2>3. QED
    BY <2>1, <2>2
<1>5. QED
  BY <1>3, <1>4, SeqEqual

(***************************************************************************)
(* A single message adds its item.                                         *)
(***************************************************************************)
LEMMA ItemsOfMessage ==
  ASSUME NEW h \in Seq(Entry), NEW e \in Entry
  PROVE  ItemsOf(Append(h, e)) = Append(ItemsOf(h), e.item)
BY ItemsType DEF ItemsOf, Entry, Items

USE MaxStepsAssumption, MaxPendingAssumption, NoneAssumption

-----------------------------------------------------------------------------
(* The sequences a turn writes *)

(***************************************************************************)
(* A batch of steers becomes as many transcript entries of its turn.       *)
(***************************************************************************)
LEMMA EntriesType ==
  ASSUME NEW c \in Calls, NEW items \in Seq(Steers)
  PROVE  Entries(c, items) \in Seq(Entry)
BY DEF Entries, Entry, Items

(***************************************************************************)
(* A single message of a turn keeps the transcript well formed.            *)
(***************************************************************************)
LEMMA AppendType ==
  ASSUME NEW c \in Calls, NEW h \in Seq(Entry), NEW item \in Items
  PROVE  Append(h, [turn |-> c, item |-> item]) \in Seq(Entry)
BY DEF Entry

-----------------------------------------------------------------------------
(* Type correctness *)

(***************************************************************************)
(* A call that has not begun its pass has begun no step, one that may      *)
(* begin another pass has a step left for it, and a pass starts within the *)
(* budget. (During a pass that was retried the budget can be exceeded.)    *)
(***************************************************************************)
StepsBounded ==
  \A c \in Calls :
    /\ pc[c] \in {"idle", "validating", "building"} => started[c] = 0
    /\ pc[c] \in {"tick", "lateDrain"} => started[c] < MaxSteps
    /\ base[c] <= MaxSteps

(***************************************************************************)
(* The finally block leaves every variable it writes with its type, and    *)
(* the call's counters at zero.                                            *)
(***************************************************************************)
LEMMA FinishType ==
  ASSUME TypeOK, StepsBounded, NEW c \in Calls,
         NEW out \in {"completed", "cancelled", "error"}, Finish(c, out)
  PROVE  /\ SessionTypes'
         /\ CallTypes'
         /\ pendingSteers' \in Seq(Steers)
         /\ StepsBounded'
<1>1. SessionTypes'
  BY DEF Finish, SettledState, SessionTypes
<1>2. <<>> \in Seq(Steers)
  OBVIOUS
<1>3. CallTypes'
  BY <1>2 DEF TypeOK, CallTypes, Finish, Active
<1>4. pendingSteers' \in Seq(Steers)
  BY DEF Finish, ClearPendingSteers
<1>5. StepsBounded'
  BY DEF TypeOK, CallTypes, StepsBounded, Finish
<1>6. QED
  BY <1>1, <1>3, <1>4, <1>5

(***************************************************************************)
(* A pass begins with its locals of the right type.                        *)
(***************************************************************************)
LEMMA BeginPassType ==
  ASSUME TypeOK, StepsBounded, NEW c \in Calls, BeginPass(c), started[c] <= MaxSteps
  PROVE  /\ base' \in [Calls -> Nat]
         /\ left' \in [Calls -> Nat]
         /\ retried' \subseteq Calls
         /\ signal' \in [Calls -> Calls \cup {None}]
         /\ pc' \in [Calls -> Active \cup {"idle", "validating", "refused", "done"}]
         /\ started' = started => StepsBounded'
<1>1. PassSteps(started[c]) \in Nat
  BY DEF PassSteps, TypeOK, CallTypes
<1>2. retried' \subseteq Calls
  BY DEF TypeOK, CallTypes, BeginPass
<1>3. started' = started => StepsBounded'
  BY DEF TypeOK, CallTypes, BeginPass, Invoke, StepsBounded
<1>4. QED
  BY <1>1, <1>2, <1>3 DEF TypeOK, SessionTypes, CallTypes, BeginPass, Invoke, Active

IInv == TypeOK /\ StepsBounded

(***************************************************************************)
(* The invariant holds before the first message.                           *)
(***************************************************************************)
LEMMA InitIInv == Init => IInv
<1>. SUFFICES ASSUME Init PROVE IInv
  OBVIOUS
<1>1. <<>> \in Seq(Steers) /\ <<>> \in Seq(Entry)
  OBVIOUS
<1>2. TypeOK
  BY <1>1 DEF Init, TypeOK, SessionTypes, CallTypes, SteerTypes, PromptTypes,
              HistoryTypes, Active
<1>3. StepsBounded
  <2>1. \A c \in Calls : pc[c] = "idle" /\ started[c] = 0 /\ base[c] = 0
    BY DEF Init
  <2>2. 0 <= MaxSteps
    BY MaxStepsAssumption
  <2>3. QED
    BY <2>1, <2>2 DEF StepsBounded
<1>4. QED
  BY <1>2, <1>3 DEF IInv

(***************************************************************************)
(* Building the message of a turn appends it and begins the first pass     *)
(* with the whole budget.                                                  *)
(***************************************************************************)
LEMMA BuildIInv ==
  ASSUME IInv, NEW c \in Calls, BuildUserMessageContent(c)
  PROVE  IInv'
<1>. USE DEF IInv, TypeOK
<1>1. started[c] = 0 /\ started[c] <= MaxSteps
  BY DEF BuildUserMessageContent, StepsBounded
<1>2. /\ BeginPass(c)
      /\ UNCHANGED <<runtime, sessionVars, aborted, pendingSteers, started, drained,
                     report, steerVars, promptVars>>
  BY DEF BuildUserMessageContent
<1>3. SessionTypes' /\ SteerTypes' /\ PromptTypes'
  BY <1>2 DEF sessionVars, steerVars, promptVars, SessionTypes, SteerTypes, PromptTypes
<1>4. CallTypes' /\ StepsBounded'
  BY <1>1, <1>2, BeginPassType DEF CallTypes
<1>5. history' \in Seq(Entry)
  BY AppendType DEF HistoryTypes, BuildUserMessageContent, Items
<1>6. HistoryTypes'
  BY <1>2, <1>5 DEF HistoryTypes
<1>7. QED
  BY <1>3, <1>4, <1>6

(***************************************************************************)
(* Starting a step takes one from the steps left, and may take the queue.  *)
(***************************************************************************)
LEMMA StartStepIInv ==
  ASSUME IInv, NEW c \in Calls, StartStep(c)
  PROVE  IInv'
<1>. USE DEF IInv, TypeOK
<1>1. /\ pc[c] = "model" /\ left[c] > 0
      /\ started' = [started EXCEPT ![c] = @ + 1]
      /\ left' = [left EXCEPT ![c] = @ - 1]
      /\ acceptingSteers' = StepsFit(started[c] + 1)
      /\ UNCHANGED <<runtime, running, controller, currentTurnId, outcome, steerHandler,
                     executionState, aborted, base, retried, signal, report,
                     steerVars, promptVars, history>>
  BY DEF StartStep, InModelCall, StepsRemain
<1>2. \/ UNCHANGED <<drained, pendingSteers, pc>>
      \/ /\ drained' = [drained EXCEPT ![c] = pendingSteers]
         /\ pendingSteers' = <<>>
         /\ pc' = [pc EXCEPT ![c] = "draining"]
  BY DEF StartStep
<1>3. (started[c] + 1 < MaxSteps) \in BOOLEAN
  OBVIOUS
<1>4. acceptingSteers' \in BOOLEAN
  BY <1>1, <1>3 DEF StepsFit
<1>5. SessionTypes'
  BY <1>1, <1>4 DEF SessionTypes
<1>6. started' \in [Calls -> Nat] /\ left' \in [Calls -> Nat]
  BY <1>1 DEF CallTypes
<1>7. /\ drained' \in [Calls -> Seq(Steers)]
      /\ pc' \in [Calls -> Active \cup {"idle", "validating", "refused", "done"}]
  <2>1. CASE UNCHANGED <<drained, pendingSteers, pc>>
    BY <2>1 DEF CallTypes
  <2>2. CASE /\ drained' = [drained EXCEPT ![c] = pendingSteers]
             /\ pc' = [pc EXCEPT ![c] = "draining"]
    BY <2>2 DEF CallTypes, SteerTypes, Active
  <2>3. QED
    BY <1>2, <2>1, <2>2
<1>8. CallTypes'
  BY <1>1, <1>6, <1>7 DEF CallTypes
<1>9. pendingSteers' \in Seq(Steers)
  <2>1. <<>> \in Seq(Steers)
    OBVIOUS
  <2>2. QED
    BY <1>2, <2>1 DEF SteerTypes
<1>10. SteerTypes' /\ PromptTypes' /\ HistoryTypes'
  BY <1>1, <1>9 DEF SteerTypes, PromptTypes, HistoryTypes, steerVars, promptVars
<1>11. StepsBounded'
  BY <1>1, <1>2 DEF StepsBounded, CallTypes
<1>12. QED
  BY <1>5, <1>8, <1>10, <1>11

(***************************************************************************)
(* A pass that returns with the budget spent ends its turn.                *)
(***************************************************************************)
LEMMA ReturnAtBudgetIInv ==
  ASSUME IInv, NEW c \in Calls, ReturnAtBudget(c)
  PROVE  IInv'
<1>. USE DEF IInv, TypeOK
<1>1. outcome \in {"completed", "cancelled", "error"} /\ Finish(c, outcome)
  BY DEF SessionTypes, ReturnAtBudget
<1>2. SessionTypes' /\ CallTypes' /\ pendingSteers' \in Seq(Steers) /\ StepsBounded'
  BY <1>1, FinishType
<1>3. history' \in Seq(Entry)
  BY AppendType DEF HistoryTypes, ReturnAtBudget, Items
<1>4. HistoryTypes' /\ PromptTypes'
  BY <1>3 DEF ReturnAtBudget, promptVars, HistoryTypes, PromptTypes
<1>5. Queued \subseteq Steers
  BY DEF Queued, SteerTypes
<1>6. SteerTypes'
  BY <1>2, <1>5 DEF ReturnAtBudget, RejectPendingSteers, SteerTypes
<1>7. QED
  BY <1>2, <1>4, <1>6

(***************************************************************************)
(* A pass that returns within the budget leaves a step for a late steer.   *)
(***************************************************************************)
LEMMA ReturnWithBudgetIInv ==
  ASSUME IInv, NEW c \in Calls, ReturnWithBudget(c)
  PROVE  IInv'
<1>. USE DEF IInv, TypeOK
<1>1. /\ started' = [started EXCEPT ![c] = StepsAfterPass(c)]
      /\ pc' = [pc EXCEPT ![c] = "tick"]
      /\ UNCHANGED <<runtime, running, controller, currentTurnId, outcome,
                     executionState, aborted, pendingSteers, base, left, retried, signal,
                     drained, report, steerVars, promptVars>>
  BY DEF ReturnWithBudget
<1>2. acceptingSteers' \in BOOLEAN /\ steerHandler' \in Calls \cup {None}
  BY DEF SessionTypes, ReturnWithBudget, Unregistered
<1>3. SessionTypes'
  BY <1>1, <1>2 DEF SessionTypes
<1>4. StepsAfterPass(c) \in Nat /\ StepsAfterPass(c) < MaxSteps
  BY DEF ReturnWithBudget, StepsAfterPass, BudgetSpent, CallTypes
<1>5. CallTypes'
  BY <1>1, <1>4 DEF CallTypes, Active
<1>6. SteerTypes' /\ PromptTypes'
  BY <1>1 DEF SteerTypes, PromptTypes, steerVars, promptVars
<1>7. history' \in Seq(Entry)
  BY AppendType DEF HistoryTypes, ReturnWithBudget, Items
<1>8. HistoryTypes'
  BY <1>1, <1>7 DEF HistoryTypes
<1>9. StepsBounded'
  BY <1>1, <1>4 DEF StepsBounded, CallTypes
<1>10. QED
  BY <1>3, <1>5, <1>6, <1>8, <1>9

(***************************************************************************)
(* A retried pass gets again the steps it began with.                      *)
(***************************************************************************)
LEMMA RetryIInv ==
  ASSUME IInv, NEW c \in Calls, RetryContinuation(c)
  PROVE  IInv'
<1>. USE DEF IInv, TypeOK
<1>1. /\ retried' = retried \cup {c}
      /\ left' = [left EXCEPT ![c] = PassSteps(base[c])]
      /\ signal' = [signal EXCEPT ![c] = controller]
      /\ pc' = [pc EXCEPT ![c] = "model"]
      /\ UNCHANGED <<runtime, running, controller, acceptingSteers, currentTurnId, outcome,
                     executionState, aborted, pendingSteers, started, base, drained,
                     report, steerVars, promptVars, history>>
  BY DEF RetryContinuation, Invoke
<1>2. steerHandler' \in Calls \cup {None}
  BY DEF SessionTypes, RetryContinuation, Unregistered
<1>3. SessionTypes'
  BY <1>1, <1>2 DEF SessionTypes
<1>4. PassSteps(base[c]) \in Nat
  BY DEF PassSteps, StepsBounded, CallTypes
<1>5. CallTypes'
  BY <1>1, <1>4 DEF CallTypes, SessionTypes, Active
<1>6. SteerTypes' /\ PromptTypes' /\ HistoryTypes'
  BY <1>1 DEF SteerTypes, PromptTypes, HistoryTypes, steerVars, promptVars
<1>7. StepsBounded'
  BY <1>1 DEF StepsBounded, CallTypes
<1>8. QED
  BY <1>3, <1>5, <1>6, <1>7

(***************************************************************************)
(* After the tick a turn ends, with nothing taken from the queue.          *)
(***************************************************************************)
LEMMA EndAfterTickIInv ==
  ASSUME IInv, NEW c \in Calls, EndAfterTick(c)
  PROVE  IInv'
<1>. USE DEF IInv, TypeOK
<1>1. outcome \in {"completed", "cancelled", "error"} /\ Finish(c, outcome)
  BY DEF SessionTypes, EndAfterTick
<1>2. SessionTypes' /\ CallTypes' /\ pendingSteers' \in Seq(Steers) /\ StepsBounded'
  BY <1>1, FinishType
<1>3. SteerTypes' /\ PromptTypes' /\ HistoryTypes'
  BY <1>2 DEF EndAfterTick, steerVars, promptVars, SteerTypes, PromptTypes, HistoryTypes
<1>4. QED
  BY <1>2, <1>3

(***************************************************************************)
(* Late steers are taken off the queue by a turn that has a step left.     *)
(***************************************************************************)
LEMMA TakeLateSteersIInv ==
  ASSUME IInv, NEW c \in Calls, TakeLateSteers(c)
  PROVE  IInv'
<1>. USE DEF IInv, TypeOK, sessionVars, steerVars, promptVars
<1>1. SessionTypes' /\ PromptTypes' /\ HistoryTypes'
  BY DEF TakeLateSteers, SessionTypes, PromptTypes, HistoryTypes
<1>2. <<>> \in Seq(Steers)
  OBVIOUS
<1>3. SteerTypes'
  BY <1>2 DEF TakeLateSteers, SteerTypes
<1>4. drained' \in [Calls -> Seq(Steers)]
  BY DEF TakeLateSteers, SteerTypes, CallTypes
<1>5. CallTypes'
  BY <1>4 DEF TakeLateSteers, CallTypes, Active
<1>6. StepsBounded'
  BY DEF TakeLateSteers, StepsBounded, CallTypes
<1>7. QED
  BY <1>1, <1>3, <1>5, <1>6

(***************************************************************************)
(* A batch of steers is written as messages of one turn.                   *)
(***************************************************************************)
LEMMA CommitType ==
  ASSUME HistoryTypes, NEW c \in Calls, NEW items \in Seq(Steers), CommitSteers(c, items)
  PROVE  history' \in Seq(Entry)
<1>1. Entries(c, items) \in Seq(Entry)
  BY EntriesType
<1>2. QED
  BY <1>1 DEF CommitSteers, HistoryTypes

(***************************************************************************)
(* Steers drained at a step boundary are written and the pass goes on.     *)
(***************************************************************************)
LEMMA CommitDrainedIInv ==
  ASSUME IInv, NEW c \in Calls, CommitDrained(c)
  PROVE  IInv'
<1>. USE DEF IInv, TypeOK, sessionVars, steerVars, promptVars
<1>1. SessionTypes' /\ PromptTypes' /\ SteerTypes'
  BY DEF CommitDrained, SessionTypes, PromptTypes, SteerTypes
<1>2. <<>> \in Seq(Steers)
  OBVIOUS
<1>3. CallTypes'
  BY <1>2 DEF CommitDrained, CallTypes, Active
<1>4. history' \in Seq(Entry)
  BY CommitType DEF CommitDrained, CallTypes
<1>5. HistoryTypes'
  BY <1>4 DEF CommitDrained, HistoryTypes
<1>6. StepsBounded'
  BY DEF CommitDrained, StepsBounded, CallTypes
<1>7. QED
  BY <1>1, <1>3, <1>5, <1>6

(***************************************************************************)
(* Late steers are written, and get a pass of their own or end with the    *)
(* turn.                                                                   *)
(***************************************************************************)
LEMMA CommitLateSteersIInv ==
  ASSUME IInv, NEW c \in Calls, CommitLateSteers(c)
  PROVE  IInv'
<1>. USE DEF IInv, TypeOK
<1>1. UNCHANGED <<runtime, aborted, steerVars, promptVars>>
  BY DEF CommitLateSteers
<1>2. history' \in Seq(Entry)
  BY CommitType DEF CommitLateSteers, CallTypes
<1>3. HistoryTypes' /\ PromptTypes'
  BY <1>1, <1>2 DEF HistoryTypes, PromptTypes, promptVars
<1>4. /\ SessionTypes' /\ CallTypes' /\ StepsBounded'
      /\ pendingSteers' \in Seq(Steers)
  <2>1. CASE SessionAborted
    <3>1. outcome \in {"completed", "cancelled", "error"} /\ Finish(c, outcome)
      BY <2>1 DEF SessionTypes, CommitLateSteers
    <3>2. QED
      BY <3>1, FinishType
  <2>2. CASE ~SessionAborted
    <3>1. /\ acceptingSteers' = StepsFit(started[c])
          /\ drained' = [drained EXCEPT ![c] = <<>>]
          /\ BeginPass(c)
          /\ UNCHANGED <<running, controller, currentTurnId, outcome, steerHandler,
                         executionState, pendingSteers, started, report>>
      BY <2>2 DEF CommitLateSteers
    <3>2. (started[c] < MaxSteps) \in BOOLEAN
      OBVIOUS
    <3>3. SessionTypes' /\ pendingSteers' \in Seq(Steers)
      BY <3>1, <3>2 DEF StepsFit, SessionTypes, SteerTypes
    <3>4. started[c] <= MaxSteps
      BY DEF CommitLateSteers, StepsBounded, CallTypes
    <3>5. <<>> \in Seq(Steers)
      OBVIOUS
    <3>6. CallTypes' /\ StepsBounded'
      BY <3>1, <3>4, <3>5, BeginPassType DEF CallTypes
    <3>7. QED
      BY <3>3, <3>6
  <2>3. QED
    BY <2>1, <2>2
<1>5. SteerTypes'
  BY <1>1, <1>4 DEF SteerTypes, steerVars
<1>6. QED
  BY <1>3, <1>4, <1>5

(***************************************************************************)
(* A turn that fails ends, with or without a partial response.             *)
(***************************************************************************)
LEMMA FailTurnIInv ==
  ASSUME IInv, NEW c \in Calls, FailTurn(c)
  PROVE  IInv'
<1>. USE DEF IInv, TypeOK
<1>1. PICK out \in {"cancelled", "error"} : Finish(c, out)
  BY DEF FailTurn
<1>2. SessionTypes' /\ CallTypes' /\ pendingSteers' \in Seq(Steers) /\ StepsBounded'
  BY <1>1, FinishType
<1>3. history' \in Seq(Entry)
  BY AppendType DEF FailTurn, HistoryTypes, Items
<1>4. SteerTypes' /\ PromptTypes' /\ HistoryTypes'
  BY <1>2, <1>3 DEF FailTurn, steerVars, promptVars, SteerTypes, PromptTypes, HistoryTypes
<1>5. QED
  BY <1>2, <1>4

(***************************************************************************)
(* A steer in the hands of a runtime names a turn, and so does the handler *)
(* it was handed to.                                                       *)
(***************************************************************************)
LiveSteersNamed ==
  \A s \in Steers : steer[s] = "live" => target[s] \in Calls /\ via[s] \in Calls

(***************************************************************************)
(* The app-server never knows the turn id a live steer names: none of them *)
(* is written to the transcript.                                           *)
(***************************************************************************)
LEMMA LiveSteerRefused ==
  ASSUME LiveSteersNamed, NEW s \in Steers, LiveSteer(s)
  PROVE  steer' = [steer EXCEPT ![s] = "refused"] /\ UNCHANGED history
<1>1. target[s] \in Calls /\ CodexTurn[via[s]] \notin Calls
  BY ForeignTurnIds DEF LiveSteersNamed, LiveSteer
<1>2. QED
  BY <1>1 DEF LiveSteer

(***************************************************************************)
(* Only the handlers of a steer move it.                                   *)
(***************************************************************************)
LEMMA SteersUntouched ==
  ASSUME \/ \E c \in Calls : CallStep(c) \/ TurnEvent(c)
         \/ \E p \in Prompts : AnswerPrompt(p)
         \/ Cancel
         \/ UNCHANGED vars
  PROVE  UNCHANGED <<steer, target, via>>
<1>. USE DEF steerVars
<1>1. ASSUME NEW c \in Calls, CallStep(c)
      PROVE  UNCHANGED <<steer, target, via>>
  BY <1>1 DEF CallStep, StartTurn, BuildUserMessageContent, StartStep, CommitDrained,
              ReturnAtBudget, ReturnWithBudget, EndAfterTick, TakeLateSteers,
              CommitLateSteers, FailTurn
<1>2. ASSUME NEW c \in Calls, TurnEvent(c)
      PROVE  UNCHANGED <<steer, target, via>>
  BY <1>2 DEF TurnEvent, RefuseUserMessage, ValidateUploads, RegisterSteerHandler,
              RetryContinuation, AskUser
<1>3. QED
  BY <1>1, <1>2 DEF AnswerPrompt, Cancel, vars

(***************************************************************************)
(* Every step keeps live steers named.                                     *)
(***************************************************************************)
LEMMA NextLiveSteersNamed ==
  ASSUME TypeOK, LiveSteersNamed, [Next]_vars
  PROVE  LiveSteersNamed'
<1>. USE DEF LiveSteersNamed
<1>1. ASSUME NEW s \in Steers, SteerEvent(s)
      PROVE  LiveSteersNamed'
  <2>. USE DEF TypeOK, SteerTypes, SessionTypes
  <2>1. CASE RefuseSteer(s)
    BY <2>1 DEF RefuseSteer
  <2>2. CASE LiveSteer(s)
    BY <2>2, LiveSteerRefused DEF LiveSteer
  <2>3. ASSUME NEW t \in Calls, ValidateSteerUploads(s, t)
        PROVE  LiveSteersNamed'
    BY <2>3 DEF ValidateSteerUploads
  <2>4. ASSUME NEW t \in Calls, QueueSteer(s, t)
        PROVE  LiveSteersNamed'
    BY <2>4 DEF QueueSteer
  <2>5. ASSUME NEW t \in Calls, HandSteerToRuntime(s, t)
        PROVE  LiveSteersNamed'
    BY <2>5 DEF HandSteerToRuntime
  <2>6. QED
    BY <1>1, <2>1, <2>2, <2>3, <2>4, <2>5 DEF SteerEvent
<1>2. QED
  BY <1>1, SteersUntouched DEF Next

(***************************************************************************)
(* Every step keeps the types and the bounds on the steps.                 *)
(***************************************************************************)
LEMMA NextIInv ==
  ASSUME IInv, LiveSteersNamed, [Next]_vars
  PROVE  IInv'
<1>. USE DEF IInv, TypeOK
<1>1. ASSUME NEW c \in Calls, CallStep(c)
      PROVE  IInv'
  <2>1. CASE StartTurn(c)
    <3>1. SessionTypes' /\ SteerTypes' /\ PromptTypes' /\ HistoryTypes'
      BY <2>1 DEF StartTurn, SessionTypes, SteerTypes, PromptTypes, HistoryTypes,
                  steerVars, promptVars
    <3>2. CallTypes'
      BY <2>1 DEF StartTurn, CallTypes, turnVars, Active
    <3>3. pc[c] \in {"idle", "validating"}
      BY <2>1 DEF StartTurn, MayStart
    <3>4. StepsBounded'
      BY <2>1, <3>3 DEF StartTurn, StepsBounded, CallTypes, turnVars
    <3>5. QED
      BY <3>1, <3>2, <3>4
  <2>2. QED
    BY <1>1, <2>1, BuildIInv, StartStepIInv, CommitDrainedIInv, ReturnAtBudgetIInv,
       ReturnWithBudgetIInv, EndAfterTickIInv, TakeLateSteersIInv,
       CommitLateSteersIInv, FailTurnIInv DEF CallStep
<1>2. ASSUME NEW c \in Calls, TurnEvent(c)
      PROVE  IInv'
  <2>1. CASE RefuseUserMessage(c) \/ ValidateUploads(c)
    <3>. USE DEF RefuseUserMessage, ValidateUploads
    <3>1. SessionTypes' /\ SteerTypes' /\ PromptTypes' /\ HistoryTypes'
      BY <2>1 DEF sessionVars, steerVars, promptVars, SessionTypes, SteerTypes,
                  PromptTypes, HistoryTypes
    <3>2. CallTypes' /\ StepsBounded'
      BY <2>1 DEF CallTypes, StepsBounded, turnVars, Active
    <3>3. QED
      BY <3>1, <3>2
  <2>2. CASE RegisterSteerHandler(c)
    <3>1. SessionTypes' /\ SteerTypes' /\ PromptTypes' /\ HistoryTypes'
      BY <2>2 DEF RegisterSteerHandler, steerVars, promptVars, SessionTypes,
                  SteerTypes, PromptTypes, HistoryTypes
    <3>2. CallTypes' /\ StepsBounded'
      BY <2>2 DEF RegisterSteerHandler, CallTypes, StepsBounded, turnVars
    <3>3. QED
      BY <3>1, <3>2
  <2>3. ASSUME NEW p \in Prompts, AskUser(c, p)
        PROVE  IInv'
    <3>1. SessionTypes' /\ SteerTypes' /\ HistoryTypes'
      BY <2>3 DEF AskUser, sessionVars, steerVars, SessionTypes, SteerTypes, HistoryTypes
    <3>2. PromptTypes'
      BY <2>3 DEF AskUser, PromptTypes
    <3>3. CallTypes' /\ StepsBounded'
      BY <2>3 DEF AskUser, CallTypes, StepsBounded, turnVars
    <3>4. QED
      BY <3>1, <3>2, <3>3
  <2>4. QED
    BY <1>2, <2>1, <2>2, <2>3, RetryIInv DEF TurnEvent
<1>3. ASSUME NEW s \in Steers, SteerEvent(s)
      PROVE  IInv'
  <2>1. /\ UNCHANGED <<runtime, sessionVars, aborted, pc, turnVars, promptVars, history>>
        /\ SteerTypes'
    <3>. USE DEF SteerTypes, steerVars
    <3>1. CASE RefuseSteer(s)
      BY <3>1 DEF RefuseSteer
    <3>2. CASE LiveSteer(s)
      BY <3>2, LiveSteerRefused DEF LiveSteer
    <3>3. ASSUME NEW t \in Calls, ValidateSteerUploads(s, t)
          PROVE  /\ UNCHANGED <<runtime, sessionVars, aborted, pc, turnVars, promptVars, history>>
                 /\ SteerTypes'
      BY <3>3 DEF ValidateSteerUploads
    <3>4. ASSUME NEW t \in Calls, QueueSteer(s, t)
          PROVE  /\ UNCHANGED <<runtime, sessionVars, aborted, pc, turnVars, promptVars, history>>
                 /\ SteerTypes'
      BY <3>4 DEF QueueSteer
    <3>5. ASSUME NEW t \in Calls, HandSteerToRuntime(s, t)
          PROVE  /\ UNCHANGED <<runtime, sessionVars, aborted, pc, turnVars, promptVars, history>>
                 /\ SteerTypes'
      <4>1. steerHandler \in Calls
        BY <3>5 DEF HandSteerToRuntime, SessionTypes
      <4>2. QED
        BY <3>5, <4>1 DEF HandSteerToRuntime
    <3>6. QED
      BY <1>3, <3>1, <3>2, <3>3, <3>4, <3>5 DEF SteerEvent
  <2>2. SessionTypes' /\ CallTypes' /\ PromptTypes' /\ HistoryTypes' /\ StepsBounded'
    BY <2>1 DEF sessionVars, turnVars, promptVars, SessionTypes, CallTypes, PromptTypes,
                HistoryTypes, StepsBounded
  <2>3. QED
    BY <2>1, <2>2
<1>4. ASSUME NEW p \in Prompts, AnswerPrompt(p)
      PROVE  IInv'
  <2>1. PromptTypes'
    BY <1>4 DEF AnswerPrompt, PromptTypes
  <2>2. SessionTypes' /\ CallTypes' /\ SteerTypes' /\ HistoryTypes' /\ StepsBounded'
    BY <1>4 DEF AnswerPrompt, sessionVars, turnVars, steerVars, SessionTypes, CallTypes,
                SteerTypes, HistoryTypes, StepsBounded
  <2>3. QED
    BY <2>1, <2>2
<1>5. CASE Cancel
  <2>1. prompt' = [p \in Prompts |-> IF prompt[p] = "pending" THEN "settled" ELSE prompt[p]]
    BY <1>5 DEF Cancel, RejectAllPending
  <2>2. PromptTypes'
    BY <1>5, <2>1 DEF Cancel, PromptTypes
  <2>3. aborted' \subseteq Calls
    BY <1>5 DEF Cancel, SessionTypes, HistoryTypes
  <2>4. SessionTypes' /\ CallTypes' /\ SteerTypes' /\ HistoryTypes' /\ StepsBounded'
    BY <1>5, <2>3 DEF Cancel, sessionVars, turnVars, steerVars, SessionTypes, CallTypes,
                SteerTypes, HistoryTypes, StepsBounded
  <2>5. QED
    BY <2>2, <2>4
<1>6. CASE UNCHANGED vars
  BY <1>6 DEF vars, sessionVars, turnVars, steerVars, promptVars, SessionTypes, CallTypes,
              SteerTypes, PromptTypes, HistoryTypes, StepsBounded
<1>7. QED
  BY <1>1, <1>2, <1>3, <1>4, <1>5, <1>6 DEF Next

(***************************************************************************)
(* Types hold throughout every behaviour, for every budget, queue bound    *)
(* and number of messages: in particular the number of steps a pass may    *)
(* still start never goes below zero.                                      *)
(***************************************************************************)
THEOREM TypeCorrect == Spec => []TypeOK
<1>1. Init => IInv /\ LiveSteersNamed
  BY InitIInv DEF Init, LiveSteersNamed
<1>2. IInv /\ LiveSteersNamed /\ [Next]_vars => (IInv /\ LiveSteersNamed)'
  BY NextIInv, NextLiveSteersNamed DEF IInv
<1>3. IInv => TypeOK
  BY DEF IInv
<1>4. QED
  BY <1>1, <1>2, <1>3, PTL DEF Spec
-----------------------------------------------------------------------------
(* One turn at a time, when no message waits for its uploaded files *)

NoUploadedMessages == Uploads \cap Calls = {}

NoneValidating == \A c \in Calls : pc[c] # "validating"

TurnInv == IInv /\ LiveSteersNamed /\ NoneValidating /\ SessionShowsTheTurn

(***************************************************************************)
(* A call inside its turn has the session to itself.                       *)
(***************************************************************************)
LEMMA ActiveAlone ==
  ASSUME SessionShowsTheTurn, NEW c \in Calls, pc[c] \in Active
  PROVE  running /\ currentTurnId = c /\ controller = c /\ ActiveCalls = {c}
<1>1. c \in ActiveCalls
  BY DEF ActiveCalls
<1>2. QED
  BY <1>1 DEF SessionShowsTheTurn

(***************************************************************************)
(* When the turn that has the session to itself ends, the session is idle. *)
(***************************************************************************)
LEMMA FinishShows ==
  ASSUME TypeOK, NoneValidating, SessionShowsTheTurn, NEW c \in Calls, pc[c] \in Active,
         NEW out, Finish(c, out)
  PROVE  NoneValidating' /\ SessionShowsTheTurn'
<1>1. /\ running' = FALSE /\ currentTurnId' = None /\ controller' = None
      /\ executionState' # "running"
      /\ pc' = [pc EXCEPT ![c] = "done"]
  BY DEF Finish, SettledState
<1>2. ActiveCalls' = {}
  BY <1>1, ActiveAlone DEF ActiveCalls, TypeOK, CallTypes, Active
<1>3. NoneValidating'
  BY <1>1 DEF NoneValidating, TypeOK, CallTypes
<1>4. SessionShowsTheTurn'
  BY <1>1, <1>2 DEF SessionShowsTheTurn
<1>5. QED
  BY <1>3, <1>4

(***************************************************************************)
(* A turn that goes on, within a pass or into its next pass, keeps the     *)
(* session.                                                                *)
(***************************************************************************)
LEMMA GoingOnShows ==
  ASSUME TypeOK, NoneValidating, SessionShowsTheTurn, NEW c \in Calls, pc[c] \in Active,
         NEW at \in Active, pc' = [pc EXCEPT ![c] = at],
         UNCHANGED <<running, controller, currentTurnId, executionState>>,
         \/ signal' = [signal EXCEPT ![c] = controller]
         \/ signal' = signal /\ at # "building" /\ pc[c] # "building"
  PROVE  NoneValidating' /\ SessionShowsTheTurn'
<1>1. ActiveCalls' = ActiveCalls
  BY DEF ActiveCalls, TypeOK, CallTypes
<1>2. NoneValidating'
  BY DEF NoneValidating, TypeOK, CallTypes, Active
<1>3. \A d \in ActiveCalls' : pc'[d] # "building" => signal'[d] = d
  BY <1>1, ActiveAlone DEF SessionShowsTheTurn, TypeOK, CallTypes
<1>4. SessionShowsTheTurn'
  BY <1>1, <1>3 DEF SessionShowsTheTurn, ActiveCalls
<1>5. QED
  BY <1>2, <1>4

(***************************************************************************)
(* What has no part in the turn leaves the session as it is.               *)
(***************************************************************************)
LEMMA AsideShows ==
  ASSUME NoneValidating, SessionShowsTheTurn,
         UNCHANGED <<running, controller, currentTurnId, executionState, pc, signal>>
  PROVE  NoneValidating' /\ SessionShowsTheTurn'
BY DEF NoneValidating, SessionShowsTheTurn, ActiveCalls

(***************************************************************************)
(* Nothing written is a write of any turn.                                 *)
(***************************************************************************)
LEMMA GrowsByNothing ==
  ASSUME HistoryTypes, NEW c \in Calls, UNCHANGED history
  PROVE  TL!GrowsBy(c)
BY DEF HistoryTypes, TL!GrowsBy, TL!Entry, Entry

(***************************************************************************)
(* A message of a turn is a write of that turn.                            *)
(***************************************************************************)
LEMMA GrowsByMessage ==
  ASSUME HistoryTypes, NEW c \in Calls, NEW item \in Items,
         history' = Append(history, [turn |-> c, item |-> item])
  PROVE  TL!GrowsBy(c)
<1>1. history' \in Seq(Entry)
  BY AppendType DEF HistoryTypes
<1>2. QED
  BY <1>1 DEF HistoryTypes, TL!GrowsBy, TL!Entry, Entry

(***************************************************************************)
(* A batch of steers is a write of the turn that commits it.               *)
(***************************************************************************)
LEMMA GrowsBySteers ==
  ASSUME HistoryTypes, NEW c \in Calls, NEW items \in Seq(Steers), CommitSteers(c, items)
  PROVE  TL!GrowsBy(c)
<1>1. history' \in Seq(Entry)
  BY CommitType
<1>2. /\ Entries(c, items) \in Seq(Entry)
      /\ Len(Entries(c, items)) = Len(items)
      /\ \A i \in 1..Len(items) : Entries(c, items)[i].turn = c
  BY EntriesType DEF Entries
<1>3. history \in Seq(Entry) /\ history' = history \o Entries(c, items)
  BY DEF HistoryTypes, CommitSteers
<1>4. \A i \in (Len(history) + 1)..Len(history') : history'[i].turn = c
  <2>1. SUFFICES ASSUME NEW i \in (Len(history) + 1)..Len(history')
                 PROVE  history'[i].turn = c
    OBVIOUS
  <2>2. i - Len(history) \in 1..Len(items)
    BY <1>2, <1>3
  <2>3. history'[i] = Entries(c, items)[i - Len(history)]
    BY <1>2, <1>3, <2>2
  <2>4. QED
    BY <1>2, <2>2, <2>3
<1>5. QED
  BY <1>1, <1>2, <1>3, <1>4 DEF TL!GrowsBy, TL!Entry, Entry

(***************************************************************************)
(* Every step of the session keeps the invariant, and opens, writes to or  *)
(* closes the open turn of TurnLog, or does nothing to it.                 *)
(***************************************************************************)
LEMMA NextTurn ==
  ASSUME NoUploadedMessages, TurnInv, [Next]_vars
  PROVE  /\ NoneValidating' /\ SessionShowsTheTurn'
         /\ [TL!Next]_(TL!vars)
<1>. DEFINE Goal == /\ NoneValidating' /\ SessionShowsTheTurn'
                    /\ [TL!Next]_(TL!vars)
<1>. USE DEF TurnInv, IInv
<1>1. ASSUME NEW c \in Calls, pc[c] \in Active, TL!GrowsBy(c), NEW out, Finish(c, out)
      PROVE  Goal
  <2>1. {d \in Calls : pc'[d] = "done"} = {d \in Calls : pc[d] = "done"} \cup {c}
    BY <1>1 DEF Finish, TypeOK, CallTypes
  <2>2. TL!Close(c)
    BY <1>1, <2>1, ActiveAlone DEF TL!Close, Finish
  <2>3. QED
    BY <1>1, <2>2, FinishShows DEF TL!Next
<1>2. ASSUME NEW c \in Calls, pc[c] \in Active, TL!GrowsBy(c),
             NEW at \in Active, pc' = [pc EXCEPT ![c] = at],
             UNCHANGED <<running, controller, currentTurnId, executionState>>,
             \/ signal' = [signal EXCEPT ![c] = controller]
             \/ signal' = signal /\ at # "building" /\ pc[c] # "building"
      PROVE  Goal
  <2>1. {d \in Calls : pc'[d] = "done"} = {d \in Calls : pc[d] = "done"}
    BY <1>2 DEF TypeOK, CallTypes, Active
  <2>2. TL!Write(c)
    BY <1>2, <2>1, ActiveAlone DEF TL!Write
  <2>3. QED
    BY <1>2, <2>2, GoingOnShows DEF TL!Next
<1>3. ASSUME UNCHANGED <<running, controller, currentTurnId, executionState, pc, signal,
                         history>>
      PROVE  Goal
  BY <1>3, AsideShows DEF TL!vars
<1>4. ASSUME NEW c \in Calls, CallStep(c)
      PROVE  Goal
  <2>. USE DEF TypeOK, CallTypes, SteerTypes
  <2>1. CASE StartTurn(c)
    <3>1. ~running /\ pc[c] = "idle" /\ currentTurnId = None
      BY <2>1 DEF StartTurn, MayStart, NoneValidating, SessionShowsTheTurn
    <3>2. /\ running' = TRUE /\ controller' = c /\ currentTurnId' = c
          /\ executionState' = "running" /\ pc' = [pc EXCEPT ![c] = "building"]
          /\ signal' = signal /\ history' = history
      BY <2>1 DEF StartTurn, turnVars
    <3>3. ActiveCalls' = {c}
      BY <3>1, <3>2 DEF ActiveCalls, SessionShowsTheTurn, Active
    <3>4. SessionShowsTheTurn' /\ NoneValidating'
      BY <3>2, <3>3, NoneAssumption DEF SessionShowsTheTurn, NoneValidating
    <3>5. {d \in Calls : pc'[d] = "done"} = {d \in Calls : pc[d] = "done"}
      BY <3>1, <3>2
    <3>6. TL!Open(c)
      BY <3>1, <3>2, <3>5 DEF TL!Open
    <3>7. QED
      BY <3>4, <3>6 DEF TL!Next
  <2>2. CASE BuildUserMessageContent(c)
    <3>1. TL!GrowsBy(c)
      BY <2>2, GrowsByMessage DEF BuildUserMessageContent, Items
    <3>2. QED
      BY <1>2, <2>2, <3>1 DEF BuildUserMessageContent, BeginPass, Invoke, sessionVars, Active
  <2>3. CASE StartStep(c)
    <3>1. /\ pc[c] = "model" /\ UNCHANGED history /\ UNCHANGED signal
          /\ UNCHANGED <<running, controller, currentTurnId, executionState>>
      BY <2>3 DEF StartStep, InModelCall
    <3>2. \/ pc' = [pc EXCEPT ![c] = "draining"]
          \/ pc' = [pc EXCEPT ![c] = "model"]
      BY <2>3, <3>1 DEF StartStep
    <3>3. TL!GrowsBy(c)
      BY <3>1, GrowsByNothing
    <3>4. QED
      BY <1>2, <3>1, <3>2, <3>3 DEF Active
  <2>4. CASE CommitDrained(c)
    <3>1. TL!GrowsBy(c)
      BY <2>4, GrowsBySteers DEF CommitDrained
    <3>2. QED
      BY <1>2, <2>4, <3>1 DEF CommitDrained, sessionVars, Active
  <2>5. CASE ReturnAtBudget(c)
    <3>1. TL!GrowsBy(c)
      BY <2>5, GrowsByMessage DEF ReturnAtBudget, Items
    <3>2. QED
      BY <1>1, <2>5, <3>1 DEF ReturnAtBudget, InModelCall, Active
  <2>6. CASE ReturnWithBudget(c)
    <3>1. TL!GrowsBy(c)
      BY <2>6, GrowsByMessage DEF ReturnWithBudget, Items
    <3>2. QED
      BY <1>2, <2>6, <3>1 DEF ReturnWithBudget, InModelCall, Active
  <2>7. CASE EndAfterTick(c)
    <3>1. TL!GrowsBy(c)
      BY <2>7, GrowsByNothing DEF EndAfterTick
    <3>2. QED
      BY <1>1, <2>7, <3>1 DEF EndAfterTick, Active
  <2>8. CASE TakeLateSteers(c)
    <3>1. TL!GrowsBy(c)
      BY <2>8, GrowsByNothing DEF TakeLateSteers
    <3>2. QED
      BY <1>2, <2>8, <3>1 DEF TakeLateSteers, sessionVars, Active
  <2>9. CASE CommitLateSteers(c)
    <3>1. TL!GrowsBy(c)
      BY <2>9, GrowsBySteers DEF CommitLateSteers
    <3>2. CASE SessionAborted
      BY <1>1, <2>9, <3>1, <3>2 DEF CommitLateSteers, Active
    <3>3. CASE ~SessionAborted
      BY <1>2, <2>9, <3>1, <3>3 DEF CommitLateSteers, BeginPass, Invoke, Active
    <3>4. QED
      BY <3>2, <3>3
  <2>10. CASE FailTurn(c)
    <3>1. TL!GrowsBy(c)
      BY <2>10, GrowsByNothing, GrowsByMessage DEF FailTurn, Items
    <3>2. pc[c] \in Active
      BY <2>10 DEF FailTurn, InModelCall, Active
    <3>3. QED
      BY <1>1, <2>10, <3>1, <3>2 DEF FailTurn
  <2>11. QED
    BY <1>4, <2>1, <2>2, <2>3, <2>4, <2>5, <2>6, <2>7, <2>8, <2>9, <2>10 DEF CallStep
<1>5. ASSUME NEW c \in Calls, TurnEvent(c)
      PROVE  Goal
  <2>. USE DEF TypeOK, CallTypes
  <2>1. CASE RefuseUserMessage(c)
    <3>1. /\ pc[c] \notin Active \cup {"done"}
          /\ pc' = [pc EXCEPT ![c] = "refused"]
          /\ UNCHANGED <<running, controller, currentTurnId, executionState, signal, history>>
      BY <2>1 DEF RefuseUserMessage, sessionVars, turnVars, Active
    <3>2. ActiveCalls' = ActiveCalls
      BY <3>1 DEF ActiveCalls, Active
    <3>3. \A d \in ActiveCalls : pc'[d] = pc[d]
      BY <3>1 DEF ActiveCalls
    <3>4. NoneValidating' /\ SessionShowsTheTurn'
      BY <3>1, <3>2, <3>3 DEF NoneValidating, SessionShowsTheTurn
    <3>5. {d \in Calls : pc'[d] = "done"} = {d \in Calls : pc[d] = "done"}
      BY <3>1
    <3>6. QED
      BY <3>1, <3>4, <3>5 DEF TL!vars
  <2>2. CASE ValidateUploads(c)
    BY <2>2 DEF ValidateUploads, NoUploadedMessages
  <2>3. CASE RegisterSteerHandler(c)
    BY <1>3, <2>3 DEF RegisterSteerHandler, turnVars
  <2>4. CASE RetryContinuation(c)
    <3>1. TL!GrowsBy(c)
      BY <2>4, GrowsByNothing DEF RetryContinuation
    <3>2. QED
      BY <1>2, <2>4, <3>1 DEF RetryContinuation, InModelCall, Invoke, Active
  <2>5. ASSUME NEW p \in Prompts, AskUser(c, p)
        PROVE  Goal
    BY <1>3, <2>5 DEF AskUser, sessionVars, turnVars
  <2>6. QED
    BY <1>5, <2>1, <2>2, <2>3, <2>4, <2>5 DEF TurnEvent
<1>6. ASSUME NEW s \in Steers, SteerEvent(s)
      PROVE  Goal
  <2>1. UNCHANGED <<sessionVars, pc, turnVars, history>>
    BY <1>6, LiveSteerRefused DEF SteerEvent, RefuseSteer, LiveSteer, ValidateSteerUploads,
                                  QueueSteer, HandSteerToRuntime
  <2>2. QED
    BY <1>3, <2>1 DEF sessionVars, turnVars
<1>7. ASSUME NEW p \in Prompts, AnswerPrompt(p)
      PROVE  Goal
  BY <1>3, <1>7 DEF AnswerPrompt, sessionVars, turnVars
<1>8. CASE Cancel
  BY <1>3, <1>8 DEF Cancel, sessionVars, turnVars
<1>9. CASE UNCHANGED vars
  BY <1>3, <1>9 DEF vars, sessionVars, turnVars
<1>10. QED
  BY <1>4, <1>5, <1>6, <1>7, <1>8, <1>9 DEF Next

(***************************************************************************)
(* The invariant is inductive.                                             *)
(***************************************************************************)
LEMMA TurnInvInvariant ==
  ASSUME NoUploadedMessages
  PROVE  Spec => []TurnInv
<1>1. Init => TurnInv
  <2>. SUFFICES ASSUME Init PROVE TurnInv
    OBVIOUS
  <2>2. ActiveCalls = {}
    <3>1. \A c \in Calls : pc[c] = "idle"
      BY DEF Init
    <3>2. QED
      BY <3>1 DEF ActiveCalls, Active
  <2>3. SessionShowsTheTurn
    BY <2>2 DEF Init, SessionShowsTheTurn
  <2>4. LiveSteersNamed /\ NoneValidating
    BY DEF Init, LiveSteersNamed, NoneValidating
  <2>5. QED
    BY <2>3, <2>4, InitIInv DEF TurnInv
<1>2. TurnInv /\ [Next]_vars => TurnInv'
  BY NextIInv, NextLiveSteersNamed, NextTurn DEF TurnInv, IInv
<1>3. QED
  BY <1>1, <1>2, PTL DEF Spec

(***************************************************************************)
(* While no message waits for uploaded files, the session is busy exactly  *)
(* while a turn runs, and that turn is the only one, the one steers name   *)
(* and cancel aborts, and whose signal the model call holds.               *)
(***************************************************************************)
THEOREM SessionShows ==
  ASSUME NoUploadedMessages
  PROVE  Spec => []SessionShowsTheTurn
<1>1. TurnInv => SessionShowsTheTurn
  BY DEF TurnInv
<1>2. QED
  BY <1>1, TurnInvInvariant, PTL

(***************************************************************************)
(* While no message waits for uploaded files, two turns never run at once. *)
(***************************************************************************)
THEOREM SingleThreaded ==
  ASSUME NoUploadedMessages
  PROVE  Spec => []SingleThreadedTurns
<1>1. TurnInv => SingleThreadedTurns
  BY DEF TurnInv, SessionShowsTheTurn, SingleThreadedTurns
<1>2. QED
  BY <1>1, TurnInvInvariant, PTL

(***************************************************************************)
(* While no message waits for uploaded files, the session implements       *)
(* TurnLog: its transcript is written one turn after the other.            *)
(***************************************************************************)
THEOREM ImplementsTurnLog ==
  ASSUME NoUploadedMessages
  PROVE  Spec => TurnLogSpec
<1>1. Init => TL!Init
  BY DEF Init, TL!Init
<1>2. TurnInv /\ [Next]_vars => [TL!Next]_(TL!vars)
  BY NextTurn
<1>3. QED
  BY <1>1, <1>2, TurnInvInvariant, PTL DEF Spec, TurnLogSpec, TL!Spec

TLP == INSTANCE TurnLogProofs WITH
         open <- currentTurnId,
         closed <- {c \in Calls : pc[c] = "done"},
         log <- history

(***************************************************************************)
(* While no message waits for uploaded files, no message of a turn stands  *)
(* in the transcript between two messages of another.                      *)
(***************************************************************************)
THEOREM TranscriptContiguous ==
  ASSUME NoUploadedMessages
  PROVE  Spec => []TLP!Contiguous
<1>1. Init => TLP!Init
  BY DEF Init, TLP!Init
<1>2. TurnInv /\ [Next]_vars => [TLP!Next]_(TLP!vars)
  BY NextTurn DEF TL!Next, TL!Open, TL!Write, TL!Close, TL!GrowsBy, TL!Entry, TL!vars,
                  TLP!Next, TLP!Open, TLP!Write, TLP!Close, TLP!GrowsBy, TLP!Entry, TLP!vars
<1>3. TLP!Spec => []TLP!Contiguous
  BY NoneAssumption, TLP!TurnsAreContiguous
<1>4. QED
  BY <1>1, <1>2, <1>3, TurnInvInvariant, PTL DEF Spec, TLP!Spec

-----------------------------------------------------------------------------
(* Prompts *)

\* Stronger than PromptHasItsTurn: the turn is inside its model call.
PromptsAwaited ==
  runtime = "loop" =>
    \A p \in Prompts : prompt[p] = "pending" =>
      /\ asker[p] \in Calls \ aborted
      /\ pc[asker[p]] = "model"

(***************************************************************************)
(* A call that moves is not one a tool of which waits for the user.        *)
(***************************************************************************)
LEMMA MovesUnasked ==
  ASSUME TypeOK, PromptsAwaited, NEW c \in Calls, CallStep(c) \/ TurnEvent(c),
         NEW p \in Prompts, prompt[p] = "pending", runtime = "loop"
  PROVE  pc'[asker[p]] = "model"
<1>1. UNCHANGED runtime /\ (UNCHANGED pc \/ \E at : pc' = [pc EXCEPT ![c] = at])
  BY DEF CallStep, TurnEvent, StartTurn, BuildUserMessageContent, StartStep, CommitDrained,
         ReturnAtBudget, ReturnWithBudget, EndAfterTick, TakeLateSteers, CommitLateSteers,
         FailTurn, RefuseUserMessage, ValidateUploads, RegisterSteerHandler,
         RetryContinuation, AskUser, Finish, BeginPass, Invoke
<1>2. CASE pc[c] # "model"
  BY <1>1, <1>2 DEF PromptsAwaited, TypeOK, CallTypes
<1>3. CASE pc[c] = "model" /\ UNCHANGED pc
  BY <1>3 DEF PromptsAwaited
<1>4. CASE pc[c] = "model" /\ pc' # pc
  <2>1. InModelCall(c)
    BY <1>4 DEF CallStep, TurnEvent, StartTurn, MayStart, BuildUserMessageContent, StartStep,
         CommitDrained, ReturnAtBudget, ReturnWithBudget, EndAfterTick, TakeLateSteers,
         CommitLateSteers, FailTurn, RefuseUserMessage, ValidateUploads,
         RegisterSteerHandler, RetryContinuation, AskUser
  <2>2. asker[p] # c
    BY <2>1 DEF InModelCall, AsksUser
  <2>3. QED
    BY <1>1, <2>2 DEF PromptsAwaited, TypeOK, CallTypes
<1>5. QED
  BY <1>2, <1>3, <1>4

(***************************************************************************)
(* Every step of the session keeps the prompts awaited.                    *)
(***************************************************************************)
LEMMA NextPromptsAwaited ==
  ASSUME TurnInv, PromptsAwaited, [Next]_vars
  PROVE  PromptsAwaited'
<1>. USE DEF TurnInv, IInv
<1>1. ASSUME NEW c \in Calls, CallStep(c) \/ TurnEvent(c)
      PROVE  PromptsAwaited'
  <2>1. UNCHANGED <<runtime, aborted>>
    BY <1>1 DEF CallStep, TurnEvent, StartTurn, BuildUserMessageContent, StartStep,
         CommitDrained, ReturnAtBudget, ReturnWithBudget, EndAfterTick, TakeLateSteers,
         CommitLateSteers, FailTurn, RefuseUserMessage, ValidateUploads,
         RegisterSteerHandler, RetryContinuation, AskUser
  <2>2. CASE UNCHANGED <<prompt, asker>>
    BY <1>1, <2>1, <2>2, MovesUnasked DEF PromptsAwaited
  <2>3. CASE \E p \in Prompts : AskUser(c, p)
    <3>1. PICK p \in Prompts : AskUser(c, p)
      BY <2>3
    <3>2. /\ pc[c] = "model" /\ pc' = pc
          /\ prompt' = [prompt EXCEPT ![p] = "pending"]
          /\ asker' = [asker EXCEPT ![p] = c]
      BY <3>1 DEF AskUser, InModelCall
    <3>3. c \notin aborted
      BY <3>1, <3>2 DEF AskUser, SessionShowsTheTurn, ActiveCalls, Active
    <3>4. QED
      BY <2>1, <3>2, <3>3 DEF PromptsAwaited, TypeOK, PromptTypes
  <2>4. QED
    BY <1>1, <2>2, <2>3 DEF CallStep, TurnEvent, StartTurn, BuildUserMessageContent,
         StartStep, CommitDrained, ReturnAtBudget, ReturnWithBudget, EndAfterTick,
         TakeLateSteers, CommitLateSteers, FailTurn, RefuseUserMessage, ValidateUploads,
         RegisterSteerHandler, RetryContinuation, promptVars
<1>2. ASSUME NEW s \in Steers, SteerEvent(s)
      PROVE  PromptsAwaited'
  <2>1. UNCHANGED <<runtime, aborted, pc, promptVars>>
    BY <1>2 DEF SteerEvent, RefuseSteer, LiveSteer, ValidateSteerUploads, QueueSteer,
                HandSteerToRuntime
  <2>2. QED
    BY <2>1 DEF PromptsAwaited, promptVars
<1>3. ASSUME NEW p \in Prompts, AnswerPrompt(p)
      PROVE  PromptsAwaited'
  BY <1>3 DEF AnswerPrompt, PromptsAwaited, TypeOK, PromptTypes
<1>4. CASE Cancel
  BY <1>4 DEF Cancel, RejectAllPending, PromptsAwaited
<1>5. CASE UNCHANGED vars
  BY <1>5 DEF vars, promptVars, PromptsAwaited
<1>6. QED
  BY <1>1, <1>2, <1>3, <1>4, <1>5 DEF Next

(***************************************************************************)
(* While no message waits for uploaded files, a prompt of a looping        *)
(* runtime stands only while the turn that put it runs, uncancelled.       *)
(***************************************************************************)
THEOREM PromptsBelong ==
  ASSUME NoUploadedMessages
  PROVE  Spec => []PromptHasItsTurn
<1>1. Init => PromptsAwaited
  BY DEF Init, PromptsAwaited
<1>2. TurnInv /\ PromptsAwaited /\ [Next]_vars => PromptsAwaited'
  BY NextPromptsAwaited
<1>3. PromptsAwaited => PromptHasItsTurn
  BY DEF PromptsAwaited, PromptHasItsTurn, ActiveCalls, Active
<1>4. QED
  BY <1>1, <1>2, <1>3, TurnInvInvariant, PTL DEF Spec
-----------------------------------------------------------------------------
(* What a step does to the accepted steers *)

\* No steer is accepted, and an accepted one keeps its turn.
AcceptedKept ==
  \A s \in Steers :
    /\ steer'[s] = "accepted" <=> steer[s] = "accepted"
    /\ steer[s] = "accepted" => target'[s] = target[s]

Idles ==
  /\ UNCHANGED <<history, drained, pendingSteers, notified, report, currentTurnId>>
  /\ AcceptedKept
  /\ aborted \subseteq aborted'
  /\ \A c \in Calls : pc[c] \in {"draining", "lateDrain", "done"} => pc'[c] = pc[c]

Opens(c) ==
  /\ pc[c] = "idle" /\ currentTurnId = None
  /\ currentTurnId' = c
  /\ pc' = [pc EXCEPT ![c] = "building"]
  /\ UNCHANGED <<history, drained, pendingSteers, notified, report, aborted, steer, target>>

Writes(c, m) ==
  /\ pc[c] \in {"building", "model"} /\ currentTurnId = c
  /\ history' = Append(history, [turn |-> c, item |-> m])
  /\ \E at \in {"model", "tick"} : pc' = [pc EXCEPT ![c] = at]
  /\ UNCHANGED <<currentTurnId, drained, pendingSteers, notified, report, aborted, steer, target>>

Takes(c) ==
  /\ pc[c] \in {"model", "tick"} /\ currentTurnId = c
  /\ drained' = [drained EXCEPT ![c] = pendingSteers]
  /\ pendingSteers' = <<>>
  /\ \E at \in {"draining", "lateDrain"} : pc' = [pc EXCEPT ![c] = at]
  /\ UNCHANGED <<history, currentTurnId, notified, report, aborted, steer, target>>

Commits(c) ==
  /\ pc[c] \in {"draining", "lateDrain"} /\ currentTurnId = c
  /\ history' = history \o Entries(c, drained[c])
  /\ drained' = [drained EXCEPT ![c] = <<>>]
  /\ pc' = [pc EXCEPT ![c] = "model"]
  /\ UNCHANGED <<currentTurnId, pendingSteers, notified, report, aborted, steer, target>>

\* What is not written when a turn ends is told to the client, unless the turn
\* was cancelled or failed.
Ends(c, out) ==
  /\ pc[c] \in Active /\ currentTurnId = c
  /\ \/ UNCHANGED history
     \/ history' = Append(history, [turn |-> c, item |-> "response"])
     \/ history' = history \o Entries(c, drained[c])
  /\ drained' = [drained EXCEPT ![c] = <<>>]
  /\ pendingSteers' = <<>>
  /\ currentTurnId' = None
  /\ report' = [report EXCEPT ![c] = out]
  /\ out # "none"
  /\ pc' = [pc EXCEPT ![c] = "done"]
  /\ notified \subseteq notified'
  /\ out = "completed" /\ c \notin aborted =>
       /\ drained[c] = <<>>
       /\ Queued \subseteq notified'
  /\ UNCHANGED <<aborted, steer, target>>

Queues(s, t) ==
  /\ steer[s] \in {"idle", "validating"}
  /\ s \notin Uploads => running /\ t = currentTurnId
  /\ pendingSteers' = Append(pendingSteers, s)
  /\ steer' = [steer EXCEPT ![s] = "accepted"]
  /\ target' = [target EXCEPT ![s] = t]
  /\ UNCHANGED <<history, drained, notified, report, currentTurnId, aborted, pc>>

\* All steps but that of queueing a steer.
QuietStep ==
  \/ Idles
  \/ \E c \in Calls : Opens(c)
  \/ \E c \in Calls, m \in {"user", "response"} : Writes(c, m)
  \/ \E c \in Calls : Takes(c)
  \/ \E c \in Calls : Commits(c)
  \/ \E c \in Calls, out \in {"completed", "cancelled", "error"} : Ends(c, out)

\* Steers are taken off the queue only while a turn writes them.
DrainedByTurns == \A c \in Calls : drained[c] # <<>> => pc[c] \in {"draining", "lateDrain"}

ValidatingWaits == \A s \in Steers : steer[s] = "validating" => s \in Uploads

(***************************************************************************)
(* Every step is one of these.                                             *)
(***************************************************************************)
LEMMA StepShape ==
  ASSUME NoUploadedMessages, TurnInv, DrainedByTurns, ValidatingWaits, [Next]_vars
  PROVE  QuietStep \/ \E s \in Steers, t \in Calls : Queues(s, t)
<1>. USE DEF TurnInv, IInv, TypeOK
<1>1. ASSUME NEW c \in Calls, CallStep(c)
      PROVE  \/ Idles
             \/ Opens(c)
             \/ \E m \in {"user", "response"} : Writes(c, m)
             \/ Takes(c)
             \/ Commits(c)
             \/ \E out \in {"completed", "cancelled", "error"} : Ends(c, out)
  <2>. USE DEF steerVars, turnVars, sessionVars
  <2>1. CASE StartTurn(c)
    <3>1. ~running /\ pc[c] = "idle"
      BY <2>1 DEF StartTurn, MayStart, NoneValidating
    <3>2. QED
      BY <2>1, <3>1 DEF StartTurn, SessionShowsTheTurn, Opens
  <2>2. CASE BuildUserMessageContent(c)
    <3>1. currentTurnId = c
      BY <2>2, ActiveAlone DEF BuildUserMessageContent, Active
    <3>2. QED
      BY <2>2, <3>1 DEF BuildUserMessageContent, BeginPass, Invoke, Writes
  <2>3. CASE StartStep(c)
    <3>1. pc[c] = "model" /\ currentTurnId = c
      BY <2>3, ActiveAlone DEF StartStep, InModelCall, Active
    <3>2. CASE UNCHANGED <<drained, pendingSteers, pc>>
      BY <2>3, <3>2 DEF StartStep, Idles, AcceptedKept
    <3>3. CASE ~UNCHANGED <<drained, pendingSteers, pc>>
      BY <2>3, <3>1, <3>3 DEF StartStep, Takes
    <3>4. QED
      BY <3>2, <3>3
  <2>4. CASE CommitDrained(c)
    <3>1. currentTurnId = c
      BY <2>4, ActiveAlone DEF CommitDrained, Active
    <3>2. QED
      BY <2>4, <3>1 DEF CommitDrained, CommitSteers, Commits
  <2>5. CASE ReturnAtBudget(c)
    <3>1. pc[c] = "model" /\ currentTurnId = c /\ pc[c] \in Active
      BY <2>5, ActiveAlone DEF ReturnAtBudget, InModelCall, Active
    <3>2. drained[c] = <<>>
      BY <3>1 DEF DrainedByTurns
    <3>3. Ends(c, outcome) /\ outcome \in {"completed", "cancelled", "error"}
      BY <2>5, <3>1, <3>2 DEF ReturnAtBudget, RejectPendingSteers, Finish, ClearPendingSteers,
                              SessionTypes, Ends
    <3>4. QED
      BY <3>3
  <2>6. CASE ReturnWithBudget(c)
    <3>1. pc[c] = "model" /\ currentTurnId = c
      BY <2>6, ActiveAlone DEF ReturnWithBudget, InModelCall, Active
    <3>2. Writes(c, "response")
      BY <2>6, <3>1 DEF ReturnWithBudget, Writes
    <3>3. QED
      BY <3>2
  <2>7. CASE EndAfterTick(c)
    <3>1. /\ pc[c] = "tick" /\ currentTurnId = c /\ controller = c /\ pc[c] \in Active
      BY <2>7, ActiveAlone DEF EndAfterTick, Active
    <3>2. drained[c] = <<>>
      BY <3>1 DEF DrainedByTurns
    <3>3. c \notin aborted => Queued = {}
      BY <2>7, <3>1 DEF EndAfterTick, NothingToCommit, SessionAborted, Queued
    <3>4. Ends(c, outcome) /\ outcome \in {"completed", "cancelled", "error"}
      BY <2>7, <3>1, <3>2, <3>3 DEF EndAfterTick, Finish, ClearPendingSteers, SessionTypes, Ends
    <3>5. QED
      BY <3>4
  <2>8. CASE TakeLateSteers(c)
    <3>1. currentTurnId = c
      BY <2>8, ActiveAlone DEF TakeLateSteers, Active
    <3>2. QED
      BY <2>8, <3>1 DEF TakeLateSteers, Takes
  <2>9. CASE CommitLateSteers(c)
    <3>1. currentTurnId = c /\ controller = c /\ pc[c] = "lateDrain" /\ pc[c] \in Active
      BY <2>9, ActiveAlone DEF CommitLateSteers, Active
    <3>2. CASE SessionAborted
      <4>1. c \in aborted
        BY <3>1, <3>2 DEF SessionAborted
      <4>2. Ends(c, outcome) /\ outcome \in {"completed", "cancelled", "error"}
        BY <2>9, <3>1, <3>2, <4>1 DEF CommitLateSteers, CommitSteers, Finish,
                                      ClearPendingSteers, SessionTypes, Ends
      <4>3. QED
        BY <4>2
    <3>3. CASE ~SessionAborted
      BY <2>9, <3>1, <3>3 DEF CommitLateSteers, CommitSteers, BeginPass, Invoke, Commits
    <3>4. QED
      BY <3>2, <3>3
  <2>10. CASE FailTurn(c)
    <3>1. pc[c] \in Active /\ currentTurnId = c
      BY <2>10, ActiveAlone DEF FailTurn, InModelCall, Active
    <3>2. PICK out \in {"cancelled", "error"} : Finish(c, out)
      BY <2>10 DEF FailTurn
    <3>3. Ends(c, out)
      BY <2>10, <3>1, <3>2 DEF FailTurn, Finish, ClearPendingSteers, Ends
    <3>4. QED
      BY <3>3
  <2>11. QED
    BY <1>1, <2>1, <2>2, <2>3, <2>4, <2>5, <2>6, <2>7, <2>8, <2>9, <2>10 DEF CallStep
<1>2. ASSUME NEW c \in Calls, TurnEvent(c)
      PROVE  Idles
  <2>1. /\ UNCHANGED <<history, drained, pendingSteers, notified, report, currentTurnId>>
        /\ UNCHANGED <<aborted, steer, target>>
    BY <1>2 DEF TurnEvent, RefuseUserMessage, ValidateUploads, RegisterSteerHandler,
                RetryContinuation, AskUser, steerVars, turnVars, sessionVars
  <2>2. \/ UNCHANGED pc
        \/ pc[c] \in {"idle", "validating", "model"} /\ \E at : pc' = [pc EXCEPT ![c] = at]
    BY <1>2 DEF TurnEvent, RefuseUserMessage, ValidateUploads, RegisterSteerHandler,
                RetryContinuation, InModelCall, Invoke, AskUser
  <2>3. QED
    BY <2>1, <2>2 DEF Idles, AcceptedKept, CallTypes
<1>3. ASSUME NEW s \in Steers, SteerEvent(s)
      PROVE  Idles \/ \E t \in Calls : Queues(s, t)
  <2>. USE DEF turnVars, sessionVars, SteerTypes
  <2>1. CASE RefuseSteer(s)
    BY <2>1 DEF RefuseSteer, Idles, AcceptedKept
  <2>2. CASE LiveSteer(s)
    BY <2>2, LiveSteerRefused DEF LiveSteer, Idles, AcceptedKept
  <2>3. ASSUME NEW t \in Calls, ValidateSteerUploads(s, t)
        PROVE  Idles
    BY <2>3 DEF ValidateSteerUploads, Idles, AcceptedKept
  <2>4. ASSUME NEW t \in Calls, HandSteerToRuntime(s, t)
        PROVE  Idles
    BY <2>4 DEF HandSteerToRuntime, PassesChecks, Idles, AcceptedKept
  <2>5. ASSUME NEW t \in Calls, QueueSteer(s, t)
        PROVE  Queues(s, t)
    BY <2>5 DEF QueueSteer, PassesChecks, MaySteer, ValidatingWaits, Queues
  <2>6. QED
    BY <1>3, <2>1, <2>2, <2>3, <2>4, <2>5 DEF SteerEvent
<1>4. CASE (\E p \in Prompts : AnswerPrompt(p)) \/ Cancel \/ UNCHANGED vars
  <2>1. ASSUME NEW p \in Prompts, AnswerPrompt(p)
        PROVE  Idles
    BY <2>1 DEF AnswerPrompt, vars, turnVars, sessionVars, steerVars, Idles, AcceptedKept
  <2>2. CASE Cancel
    <3>1. Idles
      BY <2>2 DEF Cancel, vars, turnVars, sessionVars, steerVars, Idles, AcceptedKept
    <3>2. QED
      BY <3>1 DEF QuietStep
  <2>3. CASE UNCHANGED vars
    <3>1. Idles
      BY <2>3 DEF vars, turnVars, sessionVars, steerVars, Idles, AcceptedKept
    <3>2. QED
      BY <3>1 DEF QuietStep
  <2>4. QED
    BY <1>4, <2>1, <2>2, <2>3 DEF QuietStep
<1>5. QED
  <2>1. (\E c \in Calls : CallStep(c)) => QuietStep
    BY <1>1 DEF QuietStep
  <2>2. (\E c \in Calls : TurnEvent(c)) => QuietStep
    BY <1>2 DEF QuietStep
  <2>3. Idles => QuietStep
    BY DEF QuietStep
  <2>4. QED
    BY <1>3, <1>4, <2>1, <2>2, <2>3 DEF Next

-----------------------------------------------------------------------------
(* Steers keep their turn, their number and their order *)

Taken == IF currentTurnId = None THEN <<>> ELSE drained[currentTurnId]

InItsTurn(s) ==
  /\ Occurs(pendingSteers, s) => currentTurnId # None /\ target[s] = currentTurnId
  /\ \A c \in Calls : Occurs(drained[c], s) => target[s] = c
  /\ \A i \in 1..Len(history) : history[i].item = s => history[i].turn = target[s]

Placed ==
  /\ \A s \in Steers : Occurs(AcceptedInOrder, s) => steer[s] = "accepted"
  /\ \A s \in Steers \ Uploads : InItsTurn(s)

Once == \A s \in Steers : ~Before(AcceptedInOrder, s, s)

\* Completed turns owe no steer an answer.
Settled ==
  /\ \A c \in Calls : report[c] # "none" => pc[c] = "done"
  /\ \A s \in Steers \ Uploads : steer[s] = "accepted" =>
       /\ target[s] \in Calls
       /\ \/ Occurs(ItemsOf(history), s) \/ s \in notified
          \/ Occurs(pendingSteers, s) \/ Occurs(drained[target[s]], s)
          \/ /\ report[target[s]] # "none"
             /\ report[target[s]] = "completed" => target[s] \in aborted

SteerInv == DrainedByTurns /\ ValidatingWaits /\ Placed /\ Once /\ Settled

(***************************************************************************)
(* What occurs, and in which order, in the three places an accepted steer  *)
(* goes through.                                                           *)
(***************************************************************************)
LEMMA ThreePlaces ==
  ASSUME NEW w \in Seq(Items), NEW d \in Seq(Steers), NEW p \in Seq(Steers), NEW x, NEW y
  PROVE  /\ w \o d \o p \in Seq(Items)
         /\ Occurs(w \o d \o p, x) <=> Occurs(w, x) \/ Occurs(d, x) \/ Occurs(p, x)
         /\ Before(w \o d \o p, x, y) <=>
              \/ Before(w, x, y) \/ Before(d, x, y) \/ Before(p, x, y)
              \/ Occurs(w, x) /\ Occurs(d, y)
              \/ (Occurs(w, x) \/ Occurs(d, x)) /\ Occurs(p, y)
<1>1. d \in Seq(Items) /\ p \in Seq(Items)
  BY DEF Items
<1>2. w \o d \in Seq(Items) /\ w \o d \o p \in Seq(Items)
  BY <1>1, ConcatProperties
<1>3. /\ Occurs(w \o d, x) <=> Occurs(w, x) \/ Occurs(d, x)
      /\ Occurs(w \o d \o p, x) <=> Occurs(w \o d, x) \/ Occurs(p, x)
  BY <1>1, <1>2, OccursConcat
<1>4. /\ Before(w \o d, x, y) <=> Before(w, x, y) \/ Before(d, x, y) \/ (Occurs(w, x) /\ Occurs(d, y))
      /\ Before(w \o d \o p, x, y) <=>
           Before(w \o d, x, y) \/ Before(p, x, y) \/ (Occurs(w \o d, x) /\ Occurs(p, y))
  BY <1>1, <1>2, BeforeConcat
<1>5. QED
  BY <1>2, <1>3, <1>4

\* What a step makes of the three places: w, d, p become w2, d2, p2.
Rearranged(w, d, p, w2, d2, p2) ==
  \E m \in {"user", "response"} :
    \/ w2 = w /\ d2 = d /\ p2 = p
    \/ w2 = Append(w, m) /\ d2 = d /\ p2 = p
    \/ w2 = w /\ d = <<>> /\ d2 = p /\ p2 = <<>>
    \/ w2 = w \o d /\ d2 = <<>> /\ p2 = p
    \/ w2 \in {w, Append(w, m), w \o d} /\ d2 = <<>> /\ p2 = <<>>

(***************************************************************************)
(* Writing a message, taking the queue, committing a batch and ending a    *)
(* turn add no steer to the three places and swap none.                    *)
(***************************************************************************)
LEMMA Rearranges ==
  ASSUME NEW w \in Seq(Items), NEW d \in Seq(Steers), NEW p \in Seq(Steers),
         NEW w2 \in Seq(Items), NEW d2 \in Seq(Steers), NEW p2 \in Seq(Steers),
         Rearranged(w, d, p, w2, d2, p2),
         NEW x \in Steers, NEW y \in Steers
  PROVE  /\ Occurs(w2 \o d2 \o p2, x) => Occurs(w \o d \o p, x)
         /\ Before(w2 \o d2 \o p2, x, y) => Before(w \o d \o p, x, y)
<1>1. /\ ~Occurs(<<>>, x) /\ ~Occurs(<<>>, y) /\ ~Before(<<>>, x, y)
  BY ShortSequences
<1>2. ASSUME NEW m \in {"user", "response"}
      PROVE  /\ Occurs(Append(w, m), x) <=> Occurs(w, x)
             /\ Before(Append(w, m), x, y) <=> Before(w, x, y)
  <2>1. x # m /\ y # m /\ m \in Items
    BY SteersAssumption DEF Items
  <2>2. /\ Occurs(Append(w, m), x) <=> Occurs(w, x) \/ x = m
        /\ Before(Append(w, m), x, y) <=> Before(w, x, y) \/ (Occurs(w, x) /\ y = m)
    BY <2>1, AppendedItem
  <2>3. QED
    BY <2>1, <2>2
<1>3. /\ Occurs(w \o d, x) <=> Occurs(w, x) \/ Occurs(d, x)
      /\ Before(w \o d, x, y) <=> Before(w, x, y) \/ Before(d, x, y) \/ (Occurs(w, x) /\ Occurs(d, y))
  <2>1. d \in Seq(Items)
    BY DEF Items
  <2>2. QED
    BY <2>1, OccursConcat, BeforeConcat
<1>4. /\ Occurs(w \o d \o p, x) <=> Occurs(w, x) \/ Occurs(d, x) \/ Occurs(p, x)
      /\ Before(w \o d \o p, x, y) <=>
           \/ Before(w, x, y) \/ Before(d, x, y) \/ Before(p, x, y)
           \/ Occurs(w, x) /\ Occurs(d, y)
           \/ (Occurs(w, x) \/ Occurs(d, x)) /\ Occurs(p, y)
  BY ThreePlaces
<1>5. /\ Occurs(w2 \o d2 \o p2, x) <=> Occurs(w2, x) \/ Occurs(d2, x) \/ Occurs(p2, x)
      /\ Before(w2 \o d2 \o p2, x, y) <=>
           \/ Before(w2, x, y) \/ Before(d2, x, y) \/ Before(p2, x, y)
           \/ Occurs(w2, x) /\ Occurs(d2, y)
           \/ (Occurs(w2, x) \/ Occurs(d2, x)) /\ Occurs(p2, y)
  BY ThreePlaces
<1>6. QED
  BY <1>1, <1>2, <1>3, <1>4, <1>5 DEF Rearranged

\* No steer enters the places but at the end, as a new one; none is overtaken.
OrderKept ==
  \A x, y \in Steers :
    Before(AcceptedInOrder', x, y) =>
      Before(AcceptedInOrder, x, y) \/ (x # y /\ ~Occurs(AcceptedInOrder, y))

NothingAdded == \A x \in Steers : Occurs(AcceptedInOrder', x) => Occurs(AcceptedInOrder, x)

(***************************************************************************)
(* Every step but that of queueing a steer keeps the order and adds none.  *)
(***************************************************************************)
LEMMA OthersKeepOrder ==
  ASSUME TypeOK, TypeOK', DrainedByTurns, QuietStep
  PROVE  OrderKept /\ NothingAdded
<1>. DEFINE w == ItemsOf(history)  d == Taken  p == pendingSteers
<1>. USE DEF TypeOK
<1>1. /\ w \in Seq(Items) /\ d \in Seq(Steers) /\ p \in Seq(Steers)
      /\ AcceptedInOrder = w \o d \o p
  <2>1. <<>> \in Seq(Steers)
    OBVIOUS
  <2>2. w \in Seq(Items) /\ p \in Seq(Steers)
    BY ItemsType DEF HistoryTypes, SteerTypes
  <2>3. d \in Seq(Steers)
    BY <2>1 DEF Taken, CallTypes, SessionTypes
  <2>4. QED
    BY <2>2, <2>3 DEF AcceptedInOrder, ItemsOf, Taken
<1>2. /\ w' \in Seq(Items) /\ d' \in Seq(Steers) /\ p' \in Seq(Steers)
      /\ AcceptedInOrder' = w' \o d' \o p'
  <2>1. <<>> \in Seq(Steers)
    OBVIOUS
  <2>2. w' \in Seq(Items) /\ p' \in Seq(Steers)
    BY ItemsType DEF HistoryTypes, SteerTypes
  <2>3. d' \in Seq(Steers)
    BY <2>1 DEF Taken, CallTypes, SessionTypes
  <2>4. QED
    BY <2>2, <2>3 DEF AcceptedInOrder, ItemsOf, Taken
<1>3. Rearranged(w, d, p, w', d', p')
  <2>1. CASE Idles
    BY <2>1 DEF Idles, Taken, ItemsOf, Rearranged
  <2>2. ASSUME NEW c \in Calls, Opens(c)
        PROVE  w' = w /\ d' = d /\ p' = p
    BY <2>2, NoneAssumption DEF Opens, Taken, ItemsOf, DrainedByTurns
  <2>3. ASSUME NEW c \in Calls, NEW m \in {"user", "response"}, Writes(c, m)
        PROVE  w' = Append(w, m) /\ d' = d /\ p' = p
    <3>1. history \in Seq(Entry) /\ [turn |-> c, item |-> m] \in Entry
      BY DEF HistoryTypes, Entry, Items
    <3>2. w' = Append(w, m)
      BY <2>3, <3>1, ItemsOfMessage DEF Writes
    <3>3. QED
      BY <2>3, <3>2 DEF Writes, Taken
  <2>4. ASSUME NEW c \in Calls, Takes(c)
        PROVE  w' = w /\ d = <<>> /\ d' = p /\ p' = <<>>
    <3>1. drained[c] = <<>>
      BY <2>4 DEF Takes, DrainedByTurns
    <3>2. QED
      BY <2>4, <3>1, NoneAssumption DEF Takes, Taken, ItemsOf, CallTypes
  <2>5. ASSUME NEW c \in Calls, Commits(c)
        PROVE  w' = w \o d /\ d' = <<>> /\ p' = p
    <3>1. d = drained[c] /\ drained[c] \in Seq(Steers) /\ history \in Seq(Entry)
      BY <2>5, NoneAssumption DEF Commits, Taken, CallTypes, HistoryTypes
    <3>2. w' = w \o d
      BY <2>5, <3>1, ItemsOfBatch DEF Commits
    <3>3. QED
      BY <2>5, <3>2, NoneAssumption DEF Commits, Taken, CallTypes
  <2>6. ASSUME NEW c \in Calls, NEW out \in {"completed", "cancelled", "error"}, Ends(c, out)
        PROVE  w' \in {w, Append(w, "response"), w \o d} /\ d' = <<>> /\ p' = <<>>
    <3>1. d = drained[c] /\ drained[c] \in Seq(Steers) /\ history \in Seq(Entry)
      BY <2>6, NoneAssumption DEF Ends, Taken, CallTypes, HistoryTypes
    <3>2. [turn |-> c, item |-> "response"] \in Entry
      BY DEF Entry, Items
    <3>3. CASE UNCHANGED history
      BY <2>6, <3>3 DEF Ends, Taken, ItemsOf
    <3>4. CASE history' = Append(history, [turn |-> c, item |-> "response"])
      <4>1. w' = Append(w, "response")
        BY <3>1, <3>2, <3>4, ItemsOfMessage
      <4>2. QED
        BY <2>6, <4>1 DEF Ends, Taken
    <3>5. CASE history' = history \o Entries(c, drained[c])
      <4>1. w' = w \o d
        BY <3>1, <3>5, ItemsOfBatch
      <4>2. QED
        BY <2>6, <4>1 DEF Ends, Taken
    <3>6. QED
      BY <2>6, <3>3, <3>4, <3>5 DEF Ends
  <2>7. QED
    BY <2>1, <2>2, <2>3, <2>4, <2>5, <2>6 DEF QuietStep, Rearranged
<1>4. ASSUME NEW x \in Steers, NEW y \in Steers
      PROVE  /\ Occurs(w' \o d' \o p', x) => Occurs(w \o d \o p, x)
             /\ Before(w' \o d' \o p', x, y) => Before(w \o d \o p, x, y)
  <2>. HIDE DEF w, d, p
  <2>1. QED
    BY <1>1, <1>2, <1>3, Rearranges
<1>5. QED
  BY <1>1, <1>2, <1>4 DEF OrderKept, NothingAdded

(***************************************************************************)
(* A queued steer is a new one, behind all others.                         *)
(***************************************************************************)
LEMMA QueueingKeepsOrder ==
  ASSUME TypeOK, TypeOK', Placed, NEW s \in Steers, NEW t \in Calls, Queues(s, t)
  PROVE  /\ OrderKept
         /\ \A x \in Steers : Occurs(AcceptedInOrder', x) => Occurs(AcceptedInOrder, x) \/ x = s
<1>. DEFINE w == ItemsOf(history)  d == Taken  p == pendingSteers
<1>. USE DEF TypeOK
<1>1. /\ w \in Seq(Items) /\ d \in Seq(Steers) /\ p \in Seq(Steers)
      /\ AcceptedInOrder = w \o d \o p
  <2>1. <<>> \in Seq(Steers)
    OBVIOUS
  <2>2. w \in Seq(Items) /\ p \in Seq(Steers)
    BY ItemsType DEF HistoryTypes, SteerTypes
  <2>3. d \in Seq(Steers)
    BY <2>1 DEF Taken, CallTypes, SessionTypes
  <2>4. QED
    BY <2>2, <2>3 DEF AcceptedInOrder, ItemsOf, Taken
<1>2. AcceptedInOrder' = w \o d \o Append(p, s) /\ Append(p, s) \in Seq(Steers)
  <2>1. w' = w /\ d' = d /\ p' = Append(p, s)
    BY DEF Queues, Taken, ItemsOf
  <2>2. AcceptedInOrder' = w' \o d' \o p'
    BY DEF AcceptedInOrder, ItemsOf, Taken
  <2>3. QED
    BY <1>1, <2>1, <2>2
<1>3. ~Occurs(AcceptedInOrder, s)
  BY DEF Placed, Queues
<1>4. ASSUME NEW x \in Steers, NEW y \in Steers
      PROVE  /\ Occurs(AcceptedInOrder', x) <=> Occurs(AcceptedInOrder, x) \/ x = s
             /\ Before(AcceptedInOrder', x, y) <=>
                  Before(AcceptedInOrder, x, y) \/ (Occurs(AcceptedInOrder, x) /\ y = s)
  <2>. HIDE DEF w, d, p
  <2>1. /\ Occurs(Append(p, s), x) <=> Occurs(p, x) \/ x = s
        /\ Occurs(Append(p, s), y) <=> Occurs(p, y) \/ y = s
        /\ Before(Append(p, s), x, y) <=> Before(p, x, y) \/ (Occurs(p, x) /\ y = s)
    BY <1>1, AppendedItem
  <2>2. /\ Occurs(AcceptedInOrder, x) <=> Occurs(w, x) \/ Occurs(d, x) \/ Occurs(p, x)
        /\ Before(AcceptedInOrder, x, y) <=>
             \/ Before(w, x, y) \/ Before(d, x, y) \/ Before(p, x, y)
             \/ Occurs(w, x) /\ Occurs(d, y)
             \/ (Occurs(w, x) \/ Occurs(d, x)) /\ Occurs(p, y)
    BY <1>1, ThreePlaces
  <2>3. /\ Occurs(AcceptedInOrder', x) <=> Occurs(w, x) \/ Occurs(d, x) \/ Occurs(Append(p, s), x)
        /\ Before(AcceptedInOrder', x, y) <=>
             \/ Before(w, x, y) \/ Before(d, x, y) \/ Before(Append(p, s), x, y)
             \/ Occurs(w, x) /\ Occurs(d, y)
             \/ (Occurs(w, x) \/ Occurs(d, x)) /\ Occurs(Append(p, s), y)
    BY <1>1, <1>2, ThreePlaces
  <2>4. QED
    BY <2>1, <2>2, <2>3
<1>5. QED
  BY <1>3, <1>4 DEF OrderKept

(***************************************************************************)
(* Steers that are there once are in one order.                            *)
(***************************************************************************)
LEMMA OnceOneOrder ==
  ASSUME NEW seq, Len(seq) \in Nat, NEW r, NEW s, ~Before(seq, r, r), ~Before(seq, s, s),
         Before(seq, r, s)
  PROVE  ~Before(seq, s, r)
<1>1. SUFFICES ASSUME Before(seq, s, r) PROVE FALSE
  OBVIOUS
<1>2. PICK i, j \in 1..Len(seq) : i < j /\ seq[i] = r /\ seq[j] = s
  BY DEF Before
<1>3. PICK k, l \in 1..Len(seq) : k < l /\ seq[k] = s /\ seq[l] = r
  BY <1>1 DEF Before
<1>4. CASE i < l
  BY <1>2, <1>3, <1>4 DEF Before
<1>5. CASE ~(i < l)
  <2>1. k < j
    BY <1>2, <1>3, <1>5
  <2>2. QED
    BY <1>2, <1>3, <2>1 DEF Before
<1>6. QED
  BY <1>4, <1>5

(***************************************************************************)
(* An accepted steer stays accepted, for the same turn, and a steer waits  *)
(* for files only when it carries some.                                    *)
(***************************************************************************)
LEMMA NextValidatingWaits ==
  ASSUME TypeOK, LiveSteersNamed, ValidatingWaits, [Next]_vars
  PROVE  ValidatingWaits'
<1>. USE DEF ValidatingWaits
<1>1. ASSUME NEW s \in Steers, SteerEvent(s)
      PROVE  ValidatingWaits'
  BY <1>1, LiveSteerRefused DEF SteerEvent, RefuseSteer, LiveSteer, ValidateSteerUploads,
                                QueueSteer, HandSteerToRuntime, TypeOK, SteerTypes
<1>2. QED
  BY <1>1, SteersUntouched DEF Next

Wrote(c, items) ==
  \/ UNCHANGED history
  \/ \E m \in {"user", "response"} : history' = Append(history, [turn |-> c, item |-> m])
  \/ history' = history \o Entries(c, items)

(***************************************************************************)
(* What occurs in the transcript when a turn writes to it.                 *)
(***************************************************************************)
LEMMA WrittenItems ==
  ASSUME HistoryTypes, NEW c \in Calls, NEW items \in Seq(Steers), NEW s \in Steers,
         Wrote(c, items)
  PROVE  /\ Occurs(ItemsOf(history), s) => Occurs(ItemsOf(history)', s)
         /\ history' = history \o Entries(c, items) /\ Occurs(items, s) => Occurs(ItemsOf(history)', s)
         /\ \A i \in 1..Len(history') : history'[i].item = s =>
              \/ i \in 1..Len(history) /\ history'[i] = history[i]
              \/ history'[i].turn = c /\ Occurs(items, s)
<1>1. history \in Seq(Entry) /\ ItemsOf(history) \in Seq(Items)
  BY ItemsType DEF HistoryTypes
<1>2. CASE UNCHANGED history /\ history' # history \o Entries(c, items)
  BY <1>2 DEF ItemsOf
<1>3. ASSUME NEW m \in {"user", "response"},
             history' = Append(history, [turn |-> c, item |-> m]),
             history' # history \o Entries(c, items)
      PROVE  /\ Occurs(ItemsOf(history), s) => Occurs(ItemsOf(history)', s)
             /\ \A i \in 1..Len(history') : history'[i].item = s =>
                  i \in 1..Len(history) /\ history'[i] = history[i]
  <2>1. [turn |-> c, item |-> m] \in Entry /\ m \in Items /\ m # s
    BY SteersAssumption DEF Entry, Items
  <2>2. ItemsOf(history)' = Append(ItemsOf(history), m)
    <3>1. ItemsOf(Append(history, [turn |-> c, item |-> m])) = Append(ItemsOf(history), m)
      BY <1>1, <2>1, ItemsOfMessage
    <3>2. QED
      BY <1>3, <3>1 DEF ItemsOf
  <2>3. Occurs(ItemsOf(history)', s) <=> Occurs(ItemsOf(history), s) \/ s = m
    <3>1. Occurs(Append(ItemsOf(history), m), s) <=> Occurs(ItemsOf(history), s) \/ s = m
      <4>1. ItemsOf(history) \in Seq(Items) /\ m \in Items
        BY <1>1, <2>1
      <4>2. QED
        BY ONLY <4>1, AppendedItem
    <3>2. Occurs(ItemsOf(history)', s) <=> Occurs(Append(ItemsOf(history), m), s)
      BY <2>2
    <3>3. QED
      BY <3>1, <3>2
  <2>4. \A i \in 1..Len(history') : (i \in 1..Len(history) /\ history'[i] = history[i]) \/ history'[i].item = m
    BY <1>1, <1>3, <2>1
  <2>5. QED
    BY <1>3, <2>1, <2>3, <2>4
<1>4. CASE history' = history \o Entries(c, items)
  <2>1. /\ Entries(c, items) \in Seq(Entry) /\ Len(Entries(c, items)) = Len(items)
        /\ \A i \in 1..Len(items) : Entries(c, items)[i] = [turn |-> c, item |-> items[i]]
    BY EntriesType DEF Entries
  <2>2. ItemsOf(history)' = ItemsOf(history) \o items
    <3>1. ItemsOf(history \o Entries(c, items)) = ItemsOf(history) \o items
      BY <1>1, ItemsOfBatch
    <3>2. QED
      BY <1>4, <3>1 DEF ItemsOf
  <2>3. Occurs(ItemsOf(history)', s) <=> Occurs(ItemsOf(history), s) \/ Occurs(items, s)
    <3>1. items \in Seq(Items)
      BY DEF Items
    <3>2. QED
      BY <1>1, <2>2, <3>1, OccursConcat
  <2>4. ASSUME NEW i \in 1..Len(history'), history'[i].item = s
        PROVE  \/ i \in 1..Len(history) /\ history'[i] = history[i]
               \/ history'[i].turn = c /\ Occurs(items, s)
    <3>1. CASE i <= Len(history)
      BY <1>1, <1>4, <2>1, <3>1
    <3>2. CASE ~(i <= Len(history))
      <4>1. i - Len(history) \in 1..Len(items)
        BY <1>1, <1>4, <2>1, <3>2
      <4>2. history'[i] = Entries(c, items)[i - Len(history)]
        BY <1>1, <1>4, <2>1, <3>2, <4>1
      <4>3. history'[i] = [turn |-> c, item |-> items[i - Len(history)]]
        BY <2>1, <4>1, <4>2
      <4>4. history'[i].turn = c /\ items[i - Len(history)] = s
        BY <2>4, <4>3
      <4>5. QED
        BY <4>1, <4>4 DEF Occurs
    <3>3. QED
      BY <3>1, <3>2
  <2>5. QED
    BY <1>4, <2>3, <2>4
<1>5. QED
  BY <1>2, <1>3, <1>4 DEF Wrote

(***************************************************************************)
(* Every step keeps the steers in their places.                            *)
(***************************************************************************)
LEMMA NextPlaced ==
  ASSUME NoUploadedMessages, TurnInv, TypeOK', SteerInv, [Next]_vars
  PROVE  DrainedByTurns' /\ Placed' /\ OrderKept
<1>. USE DEF TurnInv, IInv, TypeOK
<1>0. QuietStep \/ \E s \in Steers, t \in Calls : Queues(s, t)
  BY StepShape DEF SteerInv
<1>1. /\ OrderKept
      /\ \A x \in Steers : Occurs(AcceptedInOrder', x) => steer'[x] = "accepted"
  <2>1. ASSUME NEW s \in Steers, NEW t \in Calls, Queues(s, t)
        PROVE  /\ OrderKept
               /\ \A x \in Steers : Occurs(AcceptedInOrder', x) => steer'[x] = "accepted"
    <3>1. /\ OrderKept
          /\ \A x \in Steers : Occurs(AcceptedInOrder', x) => Occurs(AcceptedInOrder, x) \/ x = s
      BY <2>1, QueueingKeepsOrder DEF SteerInv
    <3>2. QED
      BY <2>1, <3>1 DEF SteerInv, Placed, Queues, SteerTypes
  <2>2. ASSUME ~(\E s \in Steers, t \in Calls : Queues(s, t))
        PROVE  /\ OrderKept
               /\ \A x \in Steers : Occurs(AcceptedInOrder', x) => steer'[x] = "accepted"
    <3>1. OrderKept /\ NothingAdded
      BY <1>0, <2>2, OthersKeepOrder DEF SteerInv
    <3>2. AcceptedKept
      BY <1>0, <2>2 DEF QuietStep, AcceptedKept, Idles, Opens, Writes, Takes, Commits, Ends
    <3>3. QED
      BY <3>1, <3>2 DEF SteerInv, Placed, NothingAdded, AcceptedKept
  <2>3. QED
    BY <2>1, <2>2
<1>2. ASSUME NEW s \in Steers, Occurs(AcceptedInOrder, s)
      PROVE  steer[s] = "accepted"
  BY <1>2 DEF SteerInv, Placed
<1>3. ASSUME NEW s \in Steers, \/ Occurs(pendingSteers, s)
                               \/ Occurs(ItemsOf(history), s)
                               \/ currentTurnId # None /\ Occurs(drained[currentTurnId], s)
      PROVE  steer[s] = "accepted"
  <2>1. <<>> \in Seq(Steers)
    OBVIOUS
  <2>2. ItemsOf(history) \in Seq(Items) /\ pendingSteers \in Seq(Steers)
    BY ItemsType DEF HistoryTypes, SteerTypes
  <2>3. Taken \in Seq(Steers)
    BY <2>1 DEF Taken, CallTypes, SessionTypes
  <2>4. AcceptedInOrder = ItemsOf(history) \o Taken \o pendingSteers
    BY DEF AcceptedInOrder, ItemsOf, Taken
  <2>5. Occurs(AcceptedInOrder, s)
    BY <1>3, <2>2, <2>3, <2>4, ThreePlaces DEF Taken
  <2>6. QED
    BY <1>2, <2>5
<1>4. DrainedByTurns'
  <2>. USE DEF SteerInv, DrainedByTurns, CallTypes
  <2>1. CASE Idles
    BY <2>1 DEF Idles
  <2>2. ASSUME NEW c \in Calls, Opens(c)
        PROVE  DrainedByTurns'
    BY <2>2 DEF Opens
  <2>3. ASSUME NEW c \in Calls, NEW m \in {"user", "response"}, Writes(c, m)
        PROVE  DrainedByTurns'
    BY <2>3 DEF Writes
  <2>4. ASSUME NEW c \in Calls, Takes(c)
        PROVE  DrainedByTurns'
    BY <2>4 DEF Takes
  <2>5. ASSUME NEW c \in Calls, Commits(c)
        PROVE  DrainedByTurns'
    BY <2>5 DEF Commits
  <2>6. ASSUME NEW c \in Calls, NEW out, Ends(c, out)
        PROVE  DrainedByTurns'
    BY <2>6 DEF Ends
  <2>7. ASSUME NEW s \in Steers, NEW t \in Calls, Queues(s, t)
        PROVE  DrainedByTurns'
    BY <2>7 DEF Queues
  <2>8. QED
    BY <1>0, <2>1, <2>2, <2>3, <2>4, <2>5, <2>6, <2>7 DEF QuietStep
<1>5. ASSUME NEW c \in Calls, drained[c] # <<>>
      PROVE  c = currentTurnId /\ currentTurnId # None
  BY <1>5, ActiveAlone, NoneAssumption DEF SteerInv, DrainedByTurns, Active
<1>6. ASSUME NEW s \in Steers, NEW c \in Calls, Occurs(drained[c], s)
      PROVE  steer[s] = "accepted"
  <2>1. drained[c] # <<>>
    BY <1>6, ShortSequences
  <2>2. QED
    BY <1>3, <1>5, <1>6, <2>1
<1>7. ASSUME NEW s \in Steers, NEW i \in 1..Len(history), history[i].item = s
      PROVE  steer[s] = "accepted"
  <2>1. Occurs(ItemsOf(history), s)
    <3>1. ItemsOf(history)[i] = s /\ Len(ItemsOf(history)) = Len(history)
      BY <1>7, ItemsType DEF ItemsOf, HistoryTypes
    <3>2. QED
      BY <3>1 DEF Occurs
  <2>2. QED
    BY <1>3, <2>1
<1>8. ASSUME NEW s \in Steers \ Uploads
      PROVE  InItsTurn(s)'
  <2>. USE DEF SteerInv, Placed, InItsTurn
  <2>0. ~Occurs(<<>>, s)
    BY ShortSequences
  <2>1. CASE Idles
    BY <1>3, <1>6, <1>7, <2>1 DEF Idles, AcceptedKept
  <2>2. ASSUME NEW c \in Calls, Opens(c)
        PROVE  InItsTurn(s)'
    BY <2>2 DEF Opens
  <2>3. ASSUME NEW c \in Calls, NEW m \in {"user", "response"}, Writes(c, m)
        PROVE  InItsTurn(s)'
    <3>1. drained[c] \in Seq(Steers) /\ Wrote(c, drained[c])
      BY <2>3 DEF CallTypes, Wrote, Writes
    <3>2. \A i \in 1..Len(history') : history'[i].item = s =>
             \/ i \in 1..Len(history) /\ history'[i] = history[i]
             \/ history'[i].turn = c /\ Occurs(drained[c], s)
      BY <3>1, WrittenItems
    <3>3. QED
      BY <2>3, <3>2 DEF Writes
  <2>4. ASSUME NEW c \in Calls, Takes(c)
        PROVE  InItsTurn(s)'
    <3>1. ~Occurs(pendingSteers', s)
      BY <2>4, ShortSequences DEF Takes
    <3>2. \A d \in Calls : Occurs(drained'[d], s) => target[s] = d
      BY <2>4 DEF Takes, CallTypes
    <3>3. QED
      BY <2>4, <3>1, <3>2 DEF Takes
  <2>5. ASSUME NEW c \in Calls, Commits(c)
        PROVE  InItsTurn(s)'
    <3>1. drained[c] \in Seq(Steers) /\ Wrote(c, drained[c])
      BY <2>5 DEF CallTypes, Wrote, Commits
    <3>2. \A i \in 1..Len(history') : history'[i].item = s =>
             \/ i \in 1..Len(history) /\ history'[i] = history[i]
             \/ history'[i].turn = c /\ Occurs(drained[c], s)
      BY <3>1, WrittenItems
    <3>3. \A d \in Calls : Occurs(drained'[d], s) => Occurs(drained[d], s)
      BY <2>0, <2>5 DEF Commits, CallTypes
    <3>4. QED
      BY <2>5, <3>2, <3>3 DEF Commits
  <2>6. ASSUME NEW c \in Calls, NEW out, Ends(c, out)
        PROVE  InItsTurn(s)'
    <3>1. drained[c] \in Seq(Steers) /\ Wrote(c, drained[c])
      BY <2>6 DEF CallTypes, Wrote, Ends
    <3>2. \A i \in 1..Len(history') : history'[i].item = s =>
             \/ i \in 1..Len(history) /\ history'[i] = history[i]
             \/ history'[i].turn = c /\ Occurs(drained[c], s)
      BY <3>1, WrittenItems
    <3>3. \A d \in Calls : Occurs(drained'[d], s) => Occurs(drained[d], s)
      BY <2>0, <2>6 DEF Ends, CallTypes
    <3>4. ~Occurs(pendingSteers', s)
      BY <2>6, ShortSequences DEF Ends
    <3>5. QED
      BY <2>6, <3>2, <3>3, <3>4 DEF Ends
  <2>7. ASSUME NEW r \in Steers, NEW t \in Calls, Queues(r, t)
        PROVE  InItsTurn(s)'
    <3>1. Occurs(pendingSteers', s) <=> Occurs(pendingSteers, s) \/ s = r
      <4>1. pendingSteers \in Seq(Steers)
        BY DEF SteerTypes
      <4>2. Occurs(Append(pendingSteers, r), s) <=> Occurs(pendingSteers, s) \/ s = r
        BY <4>1, AppendedItem
      <4>3. QED
        BY <2>7, <4>2 DEF Queues
    <3>2. CASE s = r
      <4>1. steer[s] # "accepted" /\ target'[s] = currentTurnId /\ currentTurnId # None
        BY <2>7, <3>2, NoneAssumption DEF Queues, SteerTypes
      <4>2. QED
        BY <1>6, <1>7, <2>7, <4>1 DEF Queues
    <3>3. CASE s # r
      BY <2>7, <3>1, <3>3 DEF Queues, SteerTypes
    <3>4. QED
      BY <3>2, <3>3
  <2>8. QED
    BY <1>0, <2>1, <2>2, <2>3, <2>4, <2>5, <2>6, <2>7 DEF QuietStep
<1>9. Placed'
  BY <1>1, <1>8 DEF Placed
<1>10. QED
  BY <1>1, <1>4, <1>9

(***************************************************************************)
(* Every step keeps the steers of completed turns settled.                 *)
(***************************************************************************)
LEMMA NextSettled ==
  ASSUME NoUploadedMessages, TurnInv, SteerInv, [Next]_vars
  PROVE  Settled'
<1>. USE DEF TurnInv, IInv, TypeOK, SteerInv
<1>0. QuietStep \/ \E s \in Steers, t \in Calls : Queues(s, t)
  BY StepShape DEF SteerInv
<1>1. \A c \in Calls : report'[c] # "none" => pc'[c] = "done"
  <2>. USE DEF Settled, CallTypes
  <2>1. CASE Idles
    BY <2>1 DEF Idles
  <2>2. ASSUME NEW c \in Calls, Opens(c)
        PROVE  \A d \in Calls : report'[d] # "none" => pc'[d] = "done"
    BY <2>2 DEF Opens
  <2>3. ASSUME NEW c \in Calls, NEW m \in {"user", "response"}, Writes(c, m)
        PROVE  \A d \in Calls : report'[d] # "none" => pc'[d] = "done"
    BY <2>3 DEF Writes
  <2>4. ASSUME NEW c \in Calls, Takes(c) \/ Commits(c)
        PROVE  \A d \in Calls : report'[d] # "none" => pc'[d] = "done"
    BY <2>4 DEF Takes, Commits
  <2>5. ASSUME NEW c \in Calls, NEW out, Ends(c, out)
        PROVE  \A d \in Calls : report'[d] # "none" => pc'[d] = "done"
    BY <2>5 DEF Ends
  <2>6. ASSUME NEW s \in Steers, NEW t \in Calls, Queues(s, t)
        PROVE  \A d \in Calls : report'[d] # "none" => pc'[d] = "done"
    BY <2>6 DEF Queues
  <2>7. QED
    BY <1>0, <2>1, <2>2, <2>3, <2>4, <2>5, <2>6 DEF QuietStep
<1>2. ASSUME NEW s \in Steers \ Uploads, steer'[s] = "accepted"
      PROVE  /\ target'[s] \in Calls
             /\ \/ Occurs(ItemsOf(history)', s) \/ s \in notified'
                \/ Occurs(pendingSteers', s) \/ Occurs(drained'[target'[s]], s)
                \/ /\ report'[target'[s]] # "none"
                   /\ report'[target'[s]] = "completed" => target'[s] \in aborted'
  <2>. DEFINE Goal ==
             /\ target'[s] \in Calls
             /\ \/ Occurs(ItemsOf(history)', s) \/ s \in notified'
                \/ Occurs(pendingSteers', s) \/ Occurs(drained'[target'[s]], s)
                \/ /\ report'[target'[s]] # "none"
                   /\ report'[target'[s]] = "completed" => target'[s] \in aborted'
  <2>1. CASE Idles
    BY <1>2, <2>1 DEF Idles, AcceptedKept, Settled, ItemsOf
  <2>2. ASSUME NEW c \in Calls, Opens(c)
        PROVE  Goal
    BY <1>2, <2>2 DEF Opens, Settled, ItemsOf
  <2>3. ASSUME NEW c \in Calls, NEW m \in {"user", "response"}, Writes(c, m)
        PROVE  Goal
    <3>1. drained[c] \in Seq(Steers) /\ Wrote(c, drained[c])
      BY <2>3 DEF CallTypes, Wrote, Writes
    <3>2. Occurs(ItemsOf(history), s) => Occurs(ItemsOf(history)', s)
      BY <3>1, WrittenItems
    <3>3. QED
      BY <1>2, <2>3, <3>2 DEF Writes, Settled
  <2>4. ASSUME NEW c \in Calls, Takes(c)
        PROVE  Goal
    <3>1. drained[c] = <<>> /\ ~Occurs(<<>>, s)
      BY <2>4, ShortSequences DEF Takes, DrainedByTurns
    <3>2. Occurs(pendingSteers, s) => target[s] = c
      BY <2>4 DEF Takes, Placed, InItsTurn
    <3>3. Occurs(pendingSteers, s) => Occurs(drained'[target[s]], s)
      BY <2>4, <3>2 DEF Takes, CallTypes
    <3>4. Occurs(drained[target[s]], s) => target[s] # c
      BY <3>1
    <3>5. QED
      BY <1>2, <2>4, <3>3, <3>4 DEF Takes, Settled, ItemsOf, CallTypes
  <2>5. ASSUME NEW c \in Calls, Commits(c)
        PROVE  Goal
    <3>1. drained[c] \in Seq(Steers) /\ Wrote(c, drained[c])
      BY <2>5 DEF CallTypes, Wrote, Commits
    <3>2. /\ Occurs(ItemsOf(history), s) => Occurs(ItemsOf(history)', s)
          /\ Occurs(drained[c], s) => Occurs(ItemsOf(history)', s)
      BY <2>5, <3>1, WrittenItems DEF Commits
    <3>3. target[s] # c => drained'[target[s]] = drained[target[s]]
      BY <1>2, <2>5 DEF Commits, CallTypes, Settled
    <3>4. QED
      BY <1>2, <2>5, <3>2, <3>3 DEF Commits, Settled
  <2>6. ASSUME NEW c \in Calls, NEW out, Ends(c, out)
        PROVE  Goal
    <3>1. drained[c] \in Seq(Steers) /\ Wrote(c, drained[c]) /\ ~Occurs(<<>>, s)
      BY <2>6, ShortSequences DEF CallTypes, Wrote, Ends
    <3>2. Occurs(ItemsOf(history), s) => Occurs(ItemsOf(history)', s)
      BY <3>1, WrittenItems
    <3>3. target[s] \in Calls /\ target'[s] = target[s] /\ steer[s] = "accepted"
      BY <1>2, <2>6 DEF Ends, Settled
    <3>4. CASE target[s] # c
      <4>1. /\ drained'[target[s]] = drained[target[s]]
            /\ report'[target[s]] = report[target[s]]
        BY <2>6, <3>3, <3>4 DEF Ends, CallTypes
      <4>2. ~Occurs(pendingSteers, s)
        BY <2>6, <3>4 DEF Ends, Placed, InItsTurn
      <4>3. QED
        BY <2>6, <3>2, <3>3, <4>1, <4>2 DEF Ends, Settled
    <3>5. CASE target[s] = c /\ out = "completed" /\ c \notin aborted
      <4>1. ~Occurs(drained[c], s) /\ report[c] = "none" /\ notified \subseteq notified'
        BY <2>6, <3>1, <3>5 DEF Ends, Settled, Active
      <4>2. Occurs(pendingSteers, s) => s \in notified'
        BY <2>6, <3>5 DEF Ends, Queued, Occurs
      <4>3. Occurs(ItemsOf(history), s) \/ s \in notified \/ Occurs(pendingSteers, s)
        BY <3>3, <3>5, <4>1 DEF Settled
      <4>4. QED
        BY <3>2, <3>3, <4>1, <4>2, <4>3
    <3>6. CASE target[s] = c /\ ~(out = "completed" /\ c \notin aborted)
      <4>1. report'[c] = out /\ out # "none" /\ aborted' = aborted
        BY <2>6 DEF Ends, CallTypes
      <4>2. QED
        BY <3>3, <3>6, <4>1
    <3>7. QED
      BY <3>4, <3>5, <3>6
  <2>7. ASSUME NEW r \in Steers, NEW t \in Calls, Queues(r, t)
        PROVE  Goal
    <3>1. Occurs(pendingSteers', s) <=> Occurs(pendingSteers, s) \/ s = r
      <4>1. pendingSteers \in Seq(Steers)
        BY DEF SteerTypes
      <4>2. Occurs(Append(pendingSteers, r), s) <=> Occurs(pendingSteers, s) \/ s = r
        BY <4>1, AppendedItem
      <4>3. QED
        BY <2>7, <4>2 DEF Queues
    <3>2. CASE s = r
      BY <2>7, <3>1, <3>2 DEF Queues, SteerTypes
    <3>3. CASE s # r
      <4>1. target'[s] = target[s] /\ steer[s] = "accepted"
        BY <1>2, <2>7, <3>3 DEF Queues, SteerTypes
      <4>2. /\ UNCHANGED <<drained, notified, report, aborted>>
            /\ ItemsOf(history)' = ItemsOf(history)
        BY <2>7 DEF Queues, ItemsOf
      <4>3. /\ target[s] \in Calls
            /\ \/ Occurs(ItemsOf(history), s) \/ s \in notified
               \/ Occurs(pendingSteers, s) \/ Occurs(drained[target[s]], s)
               \/ /\ report[target[s]] # "none"
                  /\ report[target[s]] = "completed" => target[s] \in aborted
        BY <4>1 DEF Settled
      <4>4. QED
        BY <3>1, <4>1, <4>2, <4>3
    <3>4. QED
      BY <3>2, <3>3
  <2>8. QED
    BY <1>0, <2>1, <2>2, <2>3, <2>4, <2>5, <2>6, <2>7 DEF QuietStep
<1>3. QED
  BY <1>1, <1>2 DEF Settled

(***************************************************************************)
(* The invariant on steers is inductive.                                   *)
(***************************************************************************)
LEMMA SteerInvInvariant ==
  ASSUME NoUploadedMessages
  PROVE  Spec => [](SteerInv /\ TurnInv)
<1>1. Init => SteerInv
  <2>. SUFFICES ASSUME Init PROVE SteerInv
    OBVIOUS
  <2>1. /\ history = <<>> /\ pendingSteers = <<>> /\ currentTurnId = None
        /\ \A c \in Calls : drained[c] = <<>> /\ report[c] = "none"
        /\ \A s \in Steers : steer[s] = "idle"
    BY DEF Init
  <2>2. \A s : ~Occurs(<<>>, s) /\ ~Before(<<>>, s, s)
    BY ShortSequences
  <2>3. AcceptedInOrder = <<>>
    BY <2>1 DEF AcceptedInOrder
  <2>4. QED
    BY <2>1, <2>2, <2>3 DEF SteerInv, DrainedByTurns, ValidatingWaits, Placed, InItsTurn, Once,
                            Settled
<1>2. SteerInv /\ TurnInv /\ TurnInv' /\ [Next]_vars => SteerInv'
  <2>. SUFFICES ASSUME SteerInv, TurnInv, TurnInv', [Next]_vars PROVE SteerInv'
    OBVIOUS
  <2>1. DrainedByTurns' /\ Placed' /\ OrderKept
    BY NextPlaced DEF TurnInv, IInv
  <2>2. Once'
    BY <2>1 DEF SteerInv, OrderKept, Once
  <2>3. Settled' /\ ValidatingWaits'
    BY NextSettled, NextValidatingWaits DEF SteerInv, TurnInv, IInv
  <2>4. QED
    BY <2>1, <2>2, <2>3 DEF SteerInv
<1>3. QED
  BY <1>1, <1>2, TurnInvInvariant, PTL DEF Spec

(***************************************************************************)
(* While no message waits for uploaded files, a steer whose acceptance did *)
(* not wait for its files is in the transcript at most once, and only in   *)
(* the turn it was accepted for, whichever step boundary drained it.       *)
(***************************************************************************)
THEOREM SteersStay ==
  ASSUME NoUploadedMessages
  PROVE  Spec => []SteerStaysInItsTurn
<1>1. ASSUME SteerInv, TurnInv PROVE SteerStaysInItsTurn
  <2>1. SUFFICES ASSUME NEW s \in Steers \ Uploads, NEW i \in 1..Len(history),
                        NEW j \in 1..Len(history), history[i].item = s
                 PROVE  history[i].turn = target[s] /\ (history[j].item = s => i = j)
    BY DEF SteerStaysInItsTurn
  <2>2. history[i].turn = target[s]
    BY <1>1, <2>1 DEF SteerInv, Placed, InItsTurn
  <2>3. ~Before(ItemsOf(history), s, s)
    <3>1. AcceptedInOrder = ItemsOf(history) \o Taken \o pendingSteers
      BY DEF AcceptedInOrder, ItemsOf, Taken
    <3>2. <<>> \in Seq(Steers)
      OBVIOUS
    <3>3. ItemsOf(history) \in Seq(Items) /\ pendingSteers \in Seq(Steers) /\ Taken \in Seq(Steers)
      BY <1>1, <3>2, ItemsType
         DEF TurnInv, IInv, TypeOK, HistoryTypes, SteerTypes, CallTypes, SessionTypes, Taken
    <3>4. ~Before(AcceptedInOrder, s, s)
      BY <1>1 DEF SteerInv, Once
    <3>5. QED
      BY <3>1, <3>3, <3>4, ThreePlaces
  <2>4. Len(history) \in Nat /\ Len(ItemsOf(history)) = Len(history)
    BY <1>1, ItemsType DEF TurnInv, IInv, TypeOK, HistoryTypes
  <2>5. ASSUME history[j].item = s PROVE i = j
    <3>1. ItemsOf(history)[i] = s /\ ItemsOf(history)[j] = s
      BY <2>1, <2>5 DEF ItemsOf
    <3>2. ~(i < j) /\ ~(j < i)
      BY <2>3, <2>4, <3>1 DEF Before
    <3>3. QED
      BY <2>4, <3>2
  <2>6. QED
    BY <2>2, <2>5
<1>2. QED
  BY <1>1, SteerInvInvariant, PTL

(***************************************************************************)
(* While no message waits for uploaded files, a turn that completes, and   *)
(* was not cancelled, leaves no steer unaccounted for: each is in the      *)
(* transcript or was rejected with an error the client sees.               *)
(***************************************************************************)
THEOREM CompletedSettles ==
  ASSUME NoUploadedMessages
  PROVE  Spec => []CompletedTurnSettlesItsSteers
<1>1. ASSUME SteerInv, TurnInv PROVE CompletedTurnSettlesItsSteers
  <2>1. SUFFICES ASSUME NEW c \in Calls, report[c] = "completed", c \notin aborted,
                        NEW s \in Steers \ Uploads, steer[s] = "accepted", target[s] = c
                 PROVE  InHistory(s) \/ s \in notified
    BY DEF CompletedTurnSettlesItsSteers
  <2>2. pc[c] = "done"
    BY <1>1, <2>1 DEF SteerInv, Settled
  <2>3. ~Occurs(drained[c], s)
    BY <1>1, <2>2, ShortSequences DEF SteerInv, DrainedByTurns
  <2>4. ~Occurs(pendingSteers, s)
    <3>1. currentTurnId # c
      BY <1>1, <2>2, NoneAssumption DEF TurnInv, SessionShowsTheTurn, ActiveCalls, Active
    <3>2. QED
      BY <1>1, <2>1, <3>1 DEF SteerInv, Placed, InItsTurn
  <2>5. Occurs(ItemsOf(history), s) \/ s \in notified
    BY <1>1, <2>1, <2>3, <2>4 DEF SteerInv, Settled
  <2>6. Occurs(ItemsOf(history), s) => InHistory(s)
    BY <1>1, ItemsType DEF Occurs, InHistory, ItemsOf, TurnInv, IInv, TypeOK, HistoryTypes
  <2>7. QED
    BY <2>5, <2>6
<1>2. QED
  BY <1>1, SteerInvInvariant, PTL

(***************************************************************************)
(* While no message waits for uploaded files, steers reach the transcript  *)
(* in the order their acceptance was told, through the queue and every     *)
(* batch that is drained from it.                                          *)
(***************************************************************************)
THEOREM SteersInOrder ==
  ASSUME NoUploadedMessages
  PROVE  Spec => SteersKeepTheirOrder
<1>. DEFINE Step == \A r, s \in Steers :
                      Before(AcceptedInOrder, r, s) => ~Before(AcceptedInOrder', s, r)
<1>1. ASSUME SteerInv, TurnInv, TurnInv', [Next]_vars PROVE Step
  <2>1. OrderKept
    BY <1>1, NextPlaced DEF TurnInv, IInv
  <2>2. SUFFICES ASSUME NEW r \in Steers, NEW s \in Steers, Before(AcceptedInOrder, r, s)
                 PROVE  ~Before(AcceptedInOrder', s, r)
    OBVIOUS
  <2>3. Len(AcceptedInOrder) \in Nat
    <3>1. <<>> \in Seq(Steers)
      OBVIOUS
    <3>2. ItemsOf(history) \in Seq(Items) /\ pendingSteers \in Seq(Steers) /\ Taken \in Seq(Steers)
      BY <1>1, <3>1, ItemsType
         DEF TurnInv, IInv, TypeOK, HistoryTypes, SteerTypes, CallTypes, SessionTypes, Taken
    <3>3. AcceptedInOrder \in Seq(Items)
      <4>1. AcceptedInOrder = ItemsOf(history) \o Taken \o pendingSteers
        BY DEF AcceptedInOrder, ItemsOf, Taken
      <4>2. QED
        BY <3>2, <4>1, ThreePlaces
    <3>4. QED
      BY <3>3
  <2>4. ~Before(AcceptedInOrder, s, r)
    BY <1>1, <2>2, <2>3, OnceOneOrder DEF SteerInv, Once
  <2>5. Occurs(AcceptedInOrder, r)
    BY <2>2 DEF Before, Occurs
  <2>6. QED
    BY <2>1, <2>4, <2>5 DEF OrderKept
<1>2. (SteerInv /\ TurnInv) /\ (SteerInv /\ TurnInv)' /\ [Next]_vars => [Step]_vars
  BY <1>1
<1>3. QED
  BY <1>2, SteerInvInvariant, PTL DEF Spec, SteersKeepTheirOrder

-----------------------------------------------------------------------------
(* Steering and the step budget *)

StepForSteers ==
  acceptingSteers => currentTurnId \in ActiveCalls /\ started[currentTurnId] < MaxSteps

(***************************************************************************)
(* Every step that lets steers in, or spends a step, leaves the current    *)
(* turn a step for them.                                                   *)
(***************************************************************************)
LEMMA NextStepForSteers ==
  ASSUME NoUploadedMessages, TurnInv, TurnInv', StepForSteers, [Next]_vars
  PROVE  StepForSteers'
<1>. USE DEF TurnInv, IInv, TypeOK, StepForSteers
<1>1. ASSUME NEW c \in Calls, pc[c] \in Active, NEW at \in Active, pc' = [pc EXCEPT ![c] = at],
             currentTurnId' = currentTurnId,
             \/ UNCHANGED <<started, acceptingSteers>>
             \/ acceptingSteers' => started'[c] < MaxSteps
      PROVE  StepForSteers'
  <2>1. currentTurnId' = c /\ currentTurnId = c
    BY <1>1, ActiveAlone
  <2>2. c \in ActiveCalls'
    BY <1>1 DEF ActiveCalls, CallTypes
  <2>3. QED
    BY <1>1, <2>1, <2>2
<1>2. ASSUME UNCHANGED <<acceptingSteers, currentTurnId, pc, started>>
      PROVE  StepForSteers'
  BY <1>2 DEF ActiveCalls
<1>3. ASSUME NEW c \in Calls, CallStep(c)
      PROVE  StepForSteers'
  <2>. USE DEF sessionVars, turnVars
  <2>1. CASE StartTurn(c)
    <3>1. pc[c] = "idle" /\ started[c] = 0 /\ c \in ActiveCalls'
      BY <2>1 DEF StartTurn, MayStart, NoneValidating, StepsBounded, ActiveCalls, Active, CallTypes
    <3>2. QED
      BY <2>1, <3>1, MaxStepsAssumption DEF StartTurn
  <2>2. CASE BuildUserMessageContent(c)
    BY <1>1, <2>2 DEF BuildUserMessageContent, BeginPass, Invoke, Active
  <2>3. CASE StartStep(c)
    <3>1. /\ pc[c] = "model" /\ currentTurnId' = currentTurnId
          /\ \E at \in {"model", "draining"} : pc' = [pc EXCEPT ![c] = at]
      BY <2>3 DEF StartStep, InModelCall, CallTypes
    <3>2. acceptingSteers' => started'[c] < MaxSteps
      BY <2>3 DEF StartStep, StepsFit, CallTypes
    <3>3. QED
      BY <1>1, <3>1, <3>2 DEF Active
  <2>4. CASE CommitDrained(c)
    BY <1>1, <2>4 DEF CommitDrained, Active
  <2>5. CASE ReturnAtBudget(c) \/ EndAfterTick(c) \/ FailTurn(c)
    BY <2>5 DEF ReturnAtBudget, EndAfterTick, FailTurn, Finish
  <2>6. CASE ReturnWithBudget(c)
    <3>1. started'[c] < MaxSteps
      <4>1. StepsAfterPass(c) \in Nat /\ StepsAfterPass(c) < MaxSteps
        BY <2>6, MaxStepsAssumption DEF ReturnWithBudget, StepsAfterPass, BudgetSpent, CallTypes
      <4>2. QED
        BY <2>6, <4>1 DEF ReturnWithBudget, CallTypes
    <3>2. QED
      BY <1>1, <2>6, <3>1 DEF ReturnWithBudget, InModelCall, Active
  <2>7. CASE TakeLateSteers(c)
    BY <1>1, <2>7 DEF TakeLateSteers, Active
  <2>8. CASE CommitLateSteers(c)
    <3>1. CASE SessionAborted
      BY <2>8, <3>1 DEF CommitLateSteers, Finish
    <3>2. CASE ~SessionAborted
      BY <1>1, <2>8, <3>2 DEF CommitLateSteers, BeginPass, Invoke, StepsFit, Active
    <3>3. QED
      BY <3>1, <3>2
  <2>9. QED
    BY <1>3, <2>1, <2>2, <2>3, <2>4, <2>5, <2>6, <2>7, <2>8 DEF CallStep
<1>4. ASSUME NEW c \in Calls, TurnEvent(c)
      PROVE  StepForSteers'
  <2>. USE DEF sessionVars, turnVars
  <2>1. CASE RefuseUserMessage(c)
    <3>1. ActiveCalls' = ActiveCalls
      BY <2>1 DEF RefuseUserMessage, ActiveCalls, CallTypes, Active
    <3>2. QED
      BY <2>1, <3>1 DEF RefuseUserMessage
  <2>2. CASE ValidateUploads(c)
    BY <2>2 DEF ValidateUploads, NoUploadedMessages
  <2>3. CASE RetryContinuation(c)
    BY <1>1, <2>3 DEF RetryContinuation, InModelCall, Invoke, Active
  <2>4. CASE RegisterSteerHandler(c) \/ \E p \in Prompts : AskUser(c, p)
    BY <1>2, <2>4 DEF RegisterSteerHandler, AskUser
  <2>5. QED
    BY <1>4, <2>1, <2>2, <2>3, <2>4 DEF TurnEvent
<1>5. ASSUME \/ \E s \in Steers : SteerEvent(s)
             \/ \E p \in Prompts : AnswerPrompt(p)
             \/ Cancel
             \/ UNCHANGED vars
      PROVE  StepForSteers'
  BY <1>2, <1>5 DEF SteerEvent, RefuseSteer, LiveSteer, ValidateSteerUploads, QueueSteer,
                    HandSteerToRuntime, AnswerPrompt, Cancel, vars, sessionVars, turnVars
<1>6. QED
  BY <1>3, <1>4, <1>5 DEF Next

(***************************************************************************)
(* While no message waits for uploaded files, a session takes steers only  *)
(* for a turn that still has a step to spend on them: at the last step of  *)
(* the budget, at a pass's end and after late steers.                      *)
(***************************************************************************)
THEOREM SteeringHasAStep ==
  ASSUME NoUploadedMessages
  PROVE  Spec => []SteeringLeavesAStep
<1>1. Init => StepForSteers
  BY DEF Init, StepForSteers
<1>2. TurnInv /\ TurnInv' /\ StepForSteers /\ [Next]_vars => StepForSteers'
  BY NextStepForSteers
<1>3. StepForSteers => SteeringLeavesAStep
  BY DEF StepForSteers, SteeringLeavesAStep
<1>4. QED
  BY <1>1, <1>2, <1>3, TurnInvInvariant, PTL DEF Spec
=============================================================================
