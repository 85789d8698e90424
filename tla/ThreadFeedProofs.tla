-------------------------- MODULE ThreadFeedProofs --------------------------
(***************************************************************************)
(* Proofs about ThreadFeed: the journal is the past of the thread, a       *)
(* pending prompt can be answered by every connection that follows it, a   *)
(* prompt is presented once and no item is missed, for any number of       *)
(* connections, prompts, entries and any size of the buffer.               *)
(***************************************************************************)
EXTENDS ThreadFeed, SequenceTheorems, FiniteSetTheorems, WellFoundedInduction, TLAPS

-----------------------------------------------------------------------------
(* The journal *)

\* A prefix is not changed by what comes behind the sequence.
LEMMA PrefixGrows ==
  ASSUME NEW S, NEW s \in Seq(S), NEW t \in Seq(S), NEW n \in 0..Len(s)
  PROVE  SubSeq(s \o t, 1, n) = SubSeq(s, 1, n)
<1> DEFINE u == SubSeq(s \o t, 1, n)
           v == SubSeq(s, 1, n)
<1>1. /\ s \o t \in Seq(S)
      /\ Len(s \o t) = Len(s) + Len(t)
      /\ \A i \in 1..(Len(s) + Len(t)) :
           (s \o t)[i] = IF i <= Len(s) THEN s[i] ELSE t[i - Len(s)]
  BY ConcatProperties
<1>2. Len(s) \in Nat /\ Len(t) \in Nat /\ n \in Int /\ \A i \in 1..n : s[i] \in S
  BY LenProperties, ElementOfSeq
<1>3. \A i \in 1..n : (s \o t)[i] = s[i]
  BY <1>1, <1>2
<1>4. \A i \in 1..n : (s \o t)[i] \in S
  BY <1>2, <1>3
<1>5. v \in Seq(S) /\ Len(v) = n /\ \A i \in 1..n : v[i] = s[i]
  BY <1>2, SubSeqProperties
<1>6. u \in Seq(S) /\ Len(u) = n /\ \A i \in 1..n : u[i] = (s \o t)[i]
  BY <1>2, <1>4, SubSeqProperties
<1>7. Len(u) = Len(v) /\ \A i \in 1..Len(u) : u[i] = v[i]
  BY <1>3, <1>5, <1>6
<1> QED
  BY <1>5, <1>6, <1>7, SeqEqual

\* Concatenation is associative.
LEMMA Regroup ==
  ASSUME NEW s \in Seq(Entry), NEW t \in Seq(Entry), NEW u \in Seq(Entry)
  PROVE  s \o (t \o u) = (s \o t) \o u
<1> DEFINE E == Entry
<1>1. s \in Seq(E) /\ t \in Seq(E) /\ u \in Seq(E)
  OBVIOUS
<1> HIDE DEF E
<1> QED
  BY <1>1, ConcatAssociative

QueueTypes ==
  /\ stream \in Seq(Entry)
  /\ journal \in Seq(Entry)
  /\ batch \in Seq(Entry)
  /\ pendingEvents \in Seq(Entry)
  /\ flush \in {"none", "writing", "failed"}

(***************************************************************************)
(* JournalIsThePast with what makes it inductive: the journal is no longer *)
(* than the stream, and an idle queue holds nothing.                       *)
(***************************************************************************)
QueueInv ==
  /\ QueueTypes
  /\ Len(journal) <= Len(stream)
  /\ JournalIsThePast
  /\ flush = "none" => batch = <<>> /\ pendingEvents = <<>>

LEMMA InitQueue == Init => QueueInv
<1> SUFFICES ASSUME Init PROVE QueueInv
  OBVIOUS
<1>1. <<>> \in Seq(Entry)
  BY EmptySeq
<1>2. <<>> \o <<>> = <<>>
  BY <1>1, ConcatEmptySeq
<1>3. Len(<<>>) = 0 /\ SubSeq(<<>>, 1, 0) = <<>>
  BY EmptySeq, SubSeqEmpty
<1> QED
  BY <1>1, <1>2, <1>3 DEF Init, QueueInv, QueueTypes, JournalIsThePast

\* enqueue, whatever the queue is doing.
LEMMA EnqueueKeeps ==
  ASSUME QueueInv, NEW entries \in Seq(Entry), Enqueue(entries)
  PROVE  QueueInv'
<1> USE DEF QueueInv, QueueTypes
<1>1. stream' = stream \o entries /\ journal' = journal
  BY DEF Enqueue
<1>2. stream' \in Seq(Entry) /\ Len(stream') = Len(stream) + Len(entries)
  BY <1>1, ConcatProperties
<1>3. Len(journal) \in Nat /\ Len(stream) \in Nat /\ Len(entries) \in Nat
  BY LenProperties
<1>4. Len(journal') <= Len(stream')
  BY <1>1, <1>2, <1>3
<1>5. journal' = SubSeq(stream', 1, Len(journal'))
  <2>1. SubSeq(stream', 1, Len(journal)) = SubSeq(stream, 1, Len(journal))
    BY <1>1, <1>3, PrefixGrows
  <2> QED
    BY <1>1, <2>1 DEF JournalIsThePast
<1>6. CASE flush = "none"
  <2>1. /\ flush' = "writing" /\ batch' = entries
        /\ pendingEvents' = <<>> /\ journal = stream
    BY <1>6 DEF Enqueue, JournalIsThePast
  <2>2. <<>> \in Seq(Entry) /\ stream' \o <<>> = stream'
    BY <1>2, EmptySeq, ConcatEmptySeq
  <2>3. journal' \o batch' \o pendingEvents' = stream'
    BY <1>1, <2>1, <2>2
  <2> QED
    BY <1>1, <1>2, <1>4, <1>5, <2>1, <2>2, <2>3 DEF JournalIsThePast
<1>7. CASE flush # "none"
  <2>1. flush' = flush /\ batch' = batch /\ pendingEvents' = pendingEvents \o entries
    BY <1>7 DEF Enqueue
  <2>2. pendingEvents' \in Seq(Entry)
    BY <2>1, ConcatProperties
  <2>3. ASSUME flush' # "failed"
        PROVE  journal' \o batch' \o pendingEvents' = stream'
    <3>1. /\ journal \o batch \in Seq(Entry)
          /\ pendingEvents \in Seq(Entry)
          /\ entries \in Seq(Entry)
      BY ConcatProperties
    <3>2. (journal \o batch) \o (pendingEvents \o entries)
            = ((journal \o batch) \o pendingEvents) \o entries
      <4> DEFINE jb == journal \o batch
      <4>1. \A s, t, u \in Seq(Entry) : s \o (t \o u) = (s \o t) \o u
        BY Regroup
      <4>2. jb \in Seq(Entry)
        BY <3>1
      <4> HIDE DEF jb
      <4>3. jb \o (pendingEvents \o entries) = (jb \o pendingEvents) \o entries
        BY <3>1, <4>1, <4>2, Zenon
      <4> QED
        BY <4>3 DEF jb
    <3>3. (journal \o batch) \o pendingEvents = stream
      BY <2>1, <2>3 DEF JournalIsThePast
    <3> QED
      BY <1>1, <2>1, <3>2, <3>3
  <2> QED
    BY <1>1, <1>2, <1>4, <1>5, <1>7, <2>1, <2>2, <2>3 DEF JournalIsThePast
<1> QED
  BY <1>6, <1>7

\* A batch is written; the next one, if any, is what came in meanwhile.
LEMMA AppendKeeps ==
  ASSUME QueueInv, AppendBatch
  PROVE  QueueInv'
<1> USE DEF QueueInv, QueueTypes
<1>1. /\ flush = "writing" /\ stream' = stream /\ journal' = journal \o batch
      /\ (journal \o batch) \o pendingEvents = stream
  BY DEF AppendBatch, JournalIsThePast
<1>2. journal' \in Seq(Entry) /\ Len(journal') \in Nat /\ Len(pendingEvents) \in Nat
  BY <1>1, ConcatProperties, LenProperties
<1>3. Len(stream) = Len(journal') + Len(pendingEvents)
  BY <1>1, <1>2, ConcatProperties
<1>4. Len(journal') <= Len(stream')
  BY <1>1, <1>2, <1>3
<1>5. journal' = SubSeq(stream', 1, Len(journal'))
  <2>1. SubSeq(stream, 1, Len(journal')) = SubSeq(journal', 1, Len(journal'))
    BY <1>1, <1>2, PrefixGrows
  <2>2. SubSeq(journal', 1, Len(journal')) = journal'
    BY <1>2, SubSeqFull
  <2> QED
    BY <1>1, <2>1, <2>2
<1>6. <<>> \in Seq(Entry) /\ \A s \in Seq(Entry) : s \o <<>> = s
  BY EmptySeq, ConcatEmptySeq
<1>7. CASE Flushed
  <2>1. flush' = "none" /\ batch' = <<>> /\ pendingEvents' = <<>> /\ journal' = stream'
    BY <1>1, <1>2, <1>6, <1>7 DEF AppendBatch, Flushed
  <2>2. journal' \o batch' \o pendingEvents' = stream'
    BY <1>2, <1>6, <2>1
  <2> QED
    BY <1>1, <1>2, <1>4, <1>5, <1>6, <2>1, <2>2 DEF JournalIsThePast
<1>8. CASE ~Flushed
  <2>1. flush' = "writing" /\ batch' = pendingEvents /\ pendingEvents' = <<>>
    BY <1>1, <1>8 DEF AppendBatch
  <2>2. journal' \o batch' \o pendingEvents' = stream'
    BY <1>1, <1>6, <2>1
  <2> QED
    BY <1>1, <1>2, <1>4, <1>5, <1>6, <2>1, <2>2 DEF JournalIsThePast
<1> QED
  BY <1>7, <1>8

LEMMA FailKeeps ==
  ASSUME QueueInv, FailAppend
  PROVE  QueueInv'
<1>1. <<>> \in Seq(Entry)
  BY EmptySeq
<1> QED
  BY <1>1 DEF FailAppend, QueueInv, QueueTypes, JournalIsThePast

LEMMA SameQueueKeeps ==
  ASSUME QueueInv, UNCHANGED journalVars
  PROVE  QueueInv'
BY DEF journalVars, QueueInv, QueueTypes, JournalIsThePast

LEMMA QueueStep == QueueInv /\ [Next]_vars => QueueInv'
<1> SUFFICES ASSUME QueueInv, [Next]_vars PROVE QueueInv'
  OBVIOUS
<1>1. CASE AppendBatch
  BY <1>1, AppendKeeps
<1>2. CASE FailAppend
  BY <1>2, FailKeeps
<1>3. CASE EmitItem
  <2>1. PICK e \in {Item(Len(stream) + 1)} : Enqueue(<<e>>)
    BY <1>3 DEF EmitItem
  <2>2. Len(stream) \in Nat
    BY LenProperties DEF QueueInv, QueueTypes
  <2>3. Len(<<e>>) = 1
    OBVIOUS
  <2>4. Len(stream) + 1 \in 1..MaxEntries
    BY <2>1, <2>2, <2>3 DEF Enqueue
  <2>5. <<e>> \in Seq(Entry)
    BY <2>4 DEF Item, Items, Entry
  <2> QED
    BY <2>1, <2>5, EnqueueKeeps
<1>4. ASSUME NEW p \in Prompts, AskUser(p)
      PROVE  QueueInv'
  <2>1. <<Ask(p)>> \in Seq(Entry)
    BY DEF Ask, Entry
  <2> QED
    BY <1>4, <2>1, EnqueueKeeps DEF AskUser
<1>5. ASSUME NEW c \in Conns, NEW p \in Prompts, AnswerPrompt(c, p)
      PROVE  QueueInv'
  <2>1. <<Resolved(p)>> \in Seq(Entry)
    BY DEF Resolved, Entry
  <2> QED
    BY <1>5, <2>1, EnqueueKeeps DEF AnswerPrompt
<1>6. ASSUME NEW c \in Conns, NEW p \in Prompts, AnswerBlank(c, p)
      PROVE  QueueInv'
  <2>1. <<Ask(p), Resolved(p)>> \in Seq(Entry)
    BY DEF Ask, Resolved, Entry
  <2> QED
    BY <1>6, <2>1, EnqueueKeeps DEF AnswerBlank
<1>7. CASE RejectAllPending
  BY <1>7, SameQueueKeeps DEF RejectAllPending
<1>8. ASSUME NEW c \in Conns, ResumeAfter(c)
      PROVE  QueueInv'
  BY <1>8, SameQueueKeeps DEF ResumeAfter
<1>9. ASSUME NEW c \in Conns, Resume(c)
      PROVE  QueueInv'
  BY <1>9, SameQueueKeeps DEF Resume
<1>10. ASSUME NEW c \in Conns, NEW seq, BeginResumeAfter(c, seq)
       PROVE  QueueInv'
  BY <1>10, SameQueueKeeps DEF BeginResumeAfter
<1>11. ASSUME NEW c \in Conns, Unsubscribe(c) \/ CloseConnection(c)
       PROVE  QueueInv'
  BY <1>11, SameQueueKeeps DEF Unsubscribe, CloseConnection
<1>12. ASSUME NEW c \in Conns, NEW p \in Prompts, AnswerMalformed(c, p)
       PROVE  QueueInv'
  BY <1>12, SameQueueKeeps DEF AnswerMalformed
<1>13. CASE UNCHANGED vars
  BY <1>13, SameQueueKeeps DEF vars
<1> QED
  BY <1>1, <1>2, <1>3, <1>4, <1>5, <1>6, <1>7, <1>8, <1>9, <1>10, <1>11, <1>12, <1>13
     DEF Next, ServerStep, SessionStep, ClientStep

(***************************************************************************)
(* The journal, with what is on its way to it, is all that was emitted, in *)
(* order: ThreadJournal neither loses, repeats nor swaps events while its  *)
(* appends succeed, and keeps a prefix when one fails.                     *)
(***************************************************************************)
THEOREM JournalHolds == Spec => []JournalIsThePast
<1>1. QueueInv => JournalIsThePast
  BY DEF QueueInv
<1> QED
  BY <1>1, InitQueue, QueueStep, PTL DEF Spec

-----------------------------------------------------------------------------
(* The pending prompts *)

\* PendingPromptIsAnswerable, with the types it needs to be inductive.
PromptInv ==
  /\ subscribed \subseteq Conns
  /\ known = [c \in Conns |-> known[c]]
  /\ PendingPromptIsAnswerable

LEMMA InitPrompts == Init => PromptInv
BY DEF Init, PromptInv, PendingPromptIsAnswerable

\* What the replay registers and what is presented behind it cover what is asked.
LEMMA SubscribeKnows ==
  ASSUME PromptInv, NEW c \in Conns, NEW replayed, NEW from,
         Subscribe(c, replayed, from),
         UNCHANGED <<open, promptVars>>
  PROVE  PromptInv'
<1>1. /\ subscribed' = subscribed \cup {c}
      /\ known' = [known EXCEPT ![c] = @ \cup AsksIn(replayed) \cup (asked \ AsksIn(replayed))]
  BY DEF Subscribe, Registered, PromptsToPresent
<1>2. known' = [d \in Conns |-> known'[d]]
  BY <1>1 DEF PromptInv
<1>3. asked \subseteq known'[c]
  BY <1>1 DEF PromptInv
<1>4. \A d \in Conns \ {c} : known'[d] = known[d]
  BY <1>1 DEF PromptInv
<1>5. open' = open /\ asked' = asked /\ refused' = refused
  BY DEF promptVars
<1> QED
  BY <1>1, <1>2, <1>3, <1>4, <1>5 DEF PromptInv, PendingPromptIsAnswerable

\* Connections lose a prompt only when it is settled, refused, or they are closed.
LEMMA ForgetKeeps ==
  ASSUME PromptInv, NEW c \in Conns, NEW p, NEW K,
         known' = [K EXCEPT ![c] = @ \ {p}],
         K = [d \in Conns |-> K[d]], \A d \in Conns : known[d] \subseteq K[d],
         p \notin asked' \ refused', asked' \subseteq asked, refused \subseteq refused',
         subscribed' = subscribed, open' = open
  PROVE  PromptInv'
<1>1. known' = [d \in Conns |-> known'[d]]
  OBVIOUS
<1>2. \A d \in Conns : K[d] \ {p} \subseteq known'[d]
  OBVIOUS
<1>3. ASSUME NEW d \in Conns, d \in subscribed \cap open
      PROVE  asked' \ refused' \subseteq known'[d]
  BY <1>2, <1>3 DEF PromptInv, PendingPromptIsAnswerable
<1> QED
  BY <1>1, <1>3 DEF PromptInv, PendingPromptIsAnswerable

\* Steps that ask nothing, forget nothing and add no follower.
LEMMA FewerFollowers ==
  ASSUME PromptInv, known' = known, asked' \subseteq asked, refused' = refused,
         subscribed' \subseteq subscribed, open' \subseteq open
  PROVE  PromptInv'
BY DEF PromptInv, PendingPromptIsAnswerable

LEMMA PromptStep == PromptInv /\ [Next]_vars => PromptInv'
<1> SUFFICES ASSUME PromptInv, [Next]_vars PROVE PromptInv'
  OBVIOUS
<1>1. CASE AppendBatch \/ FailAppend \/ EmitItem \/ RejectAllPending \/ UNCHANGED vars
  BY <1>1, FewerFollowers
     DEF AppendBatch, FailAppend, EmitItem, RejectAllPending, vars, connVars, promptVars
<1>2. ASSUME NEW p \in Prompts, AskUser(p)
      PROVE  PromptInv'
  <2>1. /\ known' = Presented(p) /\ asked' = asked \cup {p}
        /\ UNCHANGED <<open, subscribed, refused>>
    BY <1>2 DEF AskUser
  <2>2. /\ known' = [d \in Conns |-> known'[d]]
        /\ \A d \in Conns \cap subscribed : known'[d] = known[d] \cup {p}
    BY <2>1 DEF Presented
  <2> QED
    BY <2>1, <2>2 DEF PromptInv, PendingPromptIsAnswerable
<1>3. ASSUME NEW c \in Conns, NEW p \in Prompts, AnswerPrompt(c, p)
      PROVE  PromptInv'
  BY <1>3, ForgetKeeps DEF AnswerPrompt, PromptInv
<1>4. ASSUME NEW c \in Conns, NEW p \in Prompts, AnswerMalformed(c, p)
      PROVE  PromptInv'
  BY <1>4, ForgetKeeps DEF AnswerMalformed, PromptInv
<1>5. ASSUME NEW c \in Conns, NEW p \in Prompts, AnswerBlank(c, p)
      PROVE  PromptInv'
  <2>1. /\ Presented(p) = [d \in Conns |-> Presented(p)[d]]
        /\ \A d \in Conns : known[d] \subseteq Presented(p)[d]
    BY DEF Presented
  <2>2. /\ known' = [Presented(p) EXCEPT ![c] = @ \ {p}]
        /\ refused' = refused \cup {p}
        /\ UNCHANGED <<open, subscribed, asked>>
    BY <1>5 DEF AnswerBlank
  <2> QED
    BY <2>1, <2>2, ForgetKeeps
<1>6. ASSUME NEW c \in Conns, Resume(c)
      PROVE  PromptInv'
  <2>1. UNCHANGED <<open, promptVars>>
    BY <1>6 DEF Resume
  <2>2. PICK replayed, from : Subscribe(c, replayed, from)
    BY <1>6 DEF Resume
  <2> QED
    BY <2>1, <2>2, SubscribeKnows
<1>7. ASSUME NEW c \in Conns, ResumeAfter(c)
      PROVE  PromptInv'
  <2>1. UNCHANGED <<open, promptVars>>
    BY <1>7 DEF ResumeAfter
  <2>2. CASE c \in subscribed
    <3>1. PICK new : known' = [known EXCEPT ![c] = @ \cup new] /\ subscribed' = subscribed
      BY <1>7, <2>2 DEF ResumeAfter
    <3>2. known' = [d \in Conns |-> known'[d]] /\ \A d \in Conns : known[d] \subseteq known'[d]
      BY <3>1 DEF PromptInv
    <3> QED
      BY <2>1, <3>1, <3>2 DEF PromptInv, PendingPromptIsAnswerable, promptVars
  <2>3. CASE c \notin subscribed
    <3>1. PICK replayed, from : Subscribe(c, replayed, from)
      BY <1>7, <2>3 DEF ResumeAfter
    <3> QED
      BY <2>1, <3>1, SubscribeKnows
  <2> QED
    BY <2>2, <2>3
<1>8. ASSUME NEW c \in Conns, NEW seq, BeginResumeAfter(c, seq)
      PROVE  PromptInv'
  BY <1>8, FewerFollowers DEF BeginResumeAfter, promptVars
<1>9. ASSUME NEW c \in Conns, Unsubscribe(c)
      PROVE  PromptInv'
  BY <1>9, FewerFollowers DEF Unsubscribe, RemoveSink, promptVars
<1>10. ASSUME NEW c \in Conns, CloseConnection(c)
       PROVE  PromptInv'
  <2>1. /\ known' = [known EXCEPT ![c] = {}] /\ open' = open \ {c}
        /\ subscribed' = subscribed \ {c} /\ UNCHANGED promptVars
    BY <1>10 DEF CloseConnection, RemoveSink
  <2>2. known' = [d \in Conns |-> known'[d]] /\ \A d \in Conns \ {c} : known'[d] = known[d]
    BY <2>1 DEF PromptInv
  <2> QED
    BY <2>1, <2>2 DEF PromptInv, PendingPromptIsAnswerable, promptVars
<1> QED
  BY <1>1, <1>2, <1>3, <1>4, <1>5, <1>6, <1>7, <1>8, <1>9, <1>10
     DEF Next, ServerStep, SessionStep, ClientStep

(***************************************************************************)
(* A prompt that is pending can be answered by every connection that       *)
(* follows the thread: each is told of it by AskUser when it follows       *)
(* already, or by the replay or subscribeThread when it resumes, and       *)
(* keeps it until the prompt is settled or an answer to it was refused.    *)
(***************************************************************************)
THEOREM PromptsAnswerable == Spec => []PendingPromptIsAnswerable
<1>1. PromptInv => PendingPromptIsAnswerable
  BY DEF PromptInv
<1> QED
  BY <1>1, InitPrompts, PromptStep, PTL DEF Spec

-----------------------------------------------------------------------------
(* Sets and sequences *)

\* A set of naturals that is not empty has a least member.
LEMMA LeastIs ==
  ASSUME NEW T \in SUBSET Nat, T # {}
  PROVE  Min(T) \in T /\ \A x \in T : Min(T) <= x
<1>1. IsWellFoundedOn(OpToRel(<, Nat), Nat)
  BY NatLessThanWellFounded
<1>2. PICK x \in T : \A y \in T : ~ (<<y, x>> \in OpToRel(<, Nat))
  BY <1>1, WFMin
<1>3. ASSUME NEW y \in T, y < x PROVE FALSE
  <2>1. <<y, x>> \in Nat \X Nat /\ <<y, x>>[1] = y /\ <<y, x>>[2] = x
    OBVIOUS
  <2>2. <<y, x>>[1] < <<y, x>>[2]
    BY <1>3, <2>1
  <2>3. <<y, x>> \in OpToRel(<, Nat)
    BY <2>1, <2>2, Zenon DEF OpToRel
  <2> QED
    BY <1>2, <2>3
<1>4. \A y \in T : x <= y
  BY <1>3, SMT
<1> QED
  BY <1>4 DEF Min

\* A sequence of the members of a finite set.
LEMMA Listed ==
  ASSUME NEW S, IsFiniteSet(S)
  PROVE  /\ SetToSeq(S) \in Seq(S)
         /\ \A i, j \in 1..Len(SetToSeq(S)) : SetToSeq(S)[i] = SetToSeq(S)[j] => i = j
<1>1. PICK f : f \in Bijection(1..Cardinality(S), S) /\ Cardinality(S) \in Nat
  BY FS_CardinalityType, Zenon DEF ExistsBijection
<1>2. f \in [1..Cardinality(S) -> S] /\ IsInjective(f)
  BY <1>1 DEF Bijection, Injection
<1>3. SetToSeq(S) \in [1..Cardinality(S) -> S] /\ IsInjective(SetToSeq(S))
  BY <1>2, Zenon DEF SetToSeq
<1>4. SetToSeq(S) \in Seq(S) /\ Len(SetToSeq(S)) = Cardinality(S)
  BY <1>1, <1>3, IsASeq
<1> QED
  BY <1>3, <1>4 DEF IsInjective

\* The entries of the stream.
LEMMA EntryIs ==
  /\ \A e \in Entry : e.kind \in {"item", "ask", "resolved"}
  /\ \A e \in Entry : e.kind = "item" => e.id \in 1..MaxEntries /\ e = Item(e.id)
  /\ \A e \in Entry : e.kind = "ask" => e.id \in Prompts /\ e = Ask(e.id)
  /\ \A p \in Prompts : Ask(p) \in Entry /\ Resolved(p) \in Entry
  /\ \A p : /\ Ask(p).kind = "ask" /\ Ask(p).id = p
            /\ Resolved(p).kind = "resolved"
            /\ Item(p).kind = "item" /\ Item(p).id = p
BY DEF Entry, Items, Item, Ask, Resolved

LEMMA AsksInIs ==
  ASSUME NEW q \in Seq(Entry)
  PROVE  /\ AsksIn(q) \subseteq Prompts
         /\ \A p \in Prompts : p \in AsksIn(q) <=> \E i \in 1..Len(q) : q[i] = Ask(p)
<1>1. \A i \in 1..Len(q) : q[i] \in Entry
  BY ElementOfSeq
<1>2. \A p : p \in AsksIn(q) <=> \E i \in 1..Len(q) : q[i].kind = "ask" /\ p = q[i].id
  BY DEF AsksIn
<1> QED
  BY <1>1, <1>2, EntryIs

\* What subscribeThread presents of the prompts P.
LEMMA PresentedIs ==
  ASSUME NEW P \in SUBSET Prompts, IsFiniteSet(P),
         NEW s, s = SetToSeq({Ask(p) : p \in P})
  PROVE  /\ s \in Seq(Entry)
         /\ \A i \in 1..Len(s) : \E p \in P : s[i] = Ask(p)
         /\ \A i, j \in 1..Len(s) : s[i] = s[j] => i = j
<1> DEFINE S == {Ask(p) : p \in P}
<1>1. IsFiniteSet(S)
  <2> DEFINE f == [p \in P |-> Ask(p)]
  <2>1. f \in [P -> S] /\ \A x \in S : \E p \in P : f[p] = x
    OBVIOUS
  <2>2. f \in Surjection(P, S)
    BY <2>1 DEF Surjection
  <2> QED
    BY <2>2, FS_Surjection
<1>2. s \in Seq(S) /\ \A i, j \in 1..Len(s) : s[i] = s[j] => i = j
  BY <1>1, Listed
<1>3. S \subseteq Entry
  BY EntryIs
<1>4. \A i \in 1..Len(s) : s[i] \in S
  BY <1>2, ElementOfSeq
<1>5. s \in Seq(Entry)
  BY <1>2, <1>3, SMT
<1> QED
  BY <1>2, <1>4, <1>5

\* A sequence with one more entry, and with two.
LEMMA AppendIs ==
  ASSUME NEW S, NEW s \in Seq(S), NEW e \in S
  PROVE  /\ Append(s, e) \in Seq(S)
         /\ Len(Append(s, e)) = Len(s) + 1
         /\ Append(s, e)[Len(s) + 1] = e
         /\ \A i \in 1..Len(s) : Append(s, e)[i] = s[i]
BY AppendProperties

LEMMA JoinIs ==
  ASSUME NEW S, NEW s \in Seq(S), NEW t \in Seq(S)
  PROVE  /\ s \o t \in Seq(S)
         /\ Len(s \o t) = Len(s) + Len(t)
         /\ Len(s) \in Nat /\ Len(t) \in Nat
         /\ \A i \in 1..Len(s) : (s \o t)[i] = s[i]
         /\ \A i \in 1..Len(t) : (s \o t)[Len(s) + i] = t[i]
         /\ \A i \in Len(s) + 1..Len(s) + Len(t) :
              i - Len(s) \in 1..Len(t) /\ (s \o t)[i] = t[i - Len(s)]
BY ConcatProperties, LenProperties

LEMMA BehindIs ==
  ASSUME NEW S, NEW s \in Seq(S), NEW k \in 0..Len(s)
  PROVE  /\ SubSeq(s, k + 1, Len(s)) \in Seq(S)
         /\ Len(SubSeq(s, k + 1, Len(s))) = Len(s) - k
         /\ \A i \in 1..Len(s) - k : SubSeq(s, k + 1, Len(s))[i] = s[k + i]
<1>1. Len(s) \in Nat /\ \A i \in k + 1..Len(s) : s[i] \in S
  BY LenProperties, ElementOfSeq
<1> QED
  BY <1>1, SubSeqProperties

LEMMA TailIs ==
  ASSUME NEW S, NEW s \in Seq(S), Len(s) > 0
  PROVE  /\ Tail(s) \in Seq(S) /\ Len(Tail(s)) = Len(s) - 1 /\ Head(s) = s[1] /\ s[1] \in S
         /\ Len(s) \in Nat
         /\ \A i \in 1..Len(s) - 1 : Tail(s)[i] = s[i + 1]
<1>1. s # <<>> /\ Len(s) \in Nat
  BY LenProperties, EmptySeq
<1> QED
  BY <1>1, HeadTailProperties, ElementOfSeq

-----------------------------------------------------------------------------
(* Types *)

FeedTypes == TypeOK /\ IsFiniteSet(asked)

LEMMA NothingKept ==
  ASSUME buffer' = <<>>
  PROVE  buffer' \in Seq(Entry) /\ Len(buffer') <= MaxBuffer
<1>1. <<>> \in Seq(Entry) /\ Len(<<>>) = 0
  BY EmptySeq
<1>2. 0 <= MaxBuffer
  BY MaxBufferAssumption
<1> QED
  BY <1>1, <1>2

\* The oldest entry of a full buffer may be dropped; unseen moves behind it.
LEMMA KeepTypes ==
  ASSUME TypeOK, NEW e \in Entry, Keep(e)
  PROVE  /\ buffer' \in Seq(Entry) /\ Len(buffer') <= MaxBuffer
         /\ buffering' \in BOOLEAN /\ unseen' \in Nat
<1>1. buffer \in Seq(Entry) /\ Len(buffer) \in Nat /\ MaxBuffer \in Nat \ {0}
  BY MaxBufferAssumption, LenProperties DEF TypeOK
<1>2. buffer' \in Seq(Entry) /\ Len(buffer') <= MaxBuffer
  <2>1. CASE ~buffering
    BY <2>1 DEF Keep, TypeOK
  <2>2. CASE buffering /\ Overflows
    <3>1. Tail(buffer) \in Seq(Entry) /\ Len(Tail(buffer)) = Len(buffer) - 1
      BY <1>1, <2>2, TailIs DEF Overflows
    <3>2. buffer' = Append(Tail(buffer), e)
      BY <2>2 DEF Keep, BufferNewest
    <3> QED
      BY <1>1, <2>2, <3>1, <3>2, AppendIs DEF Overflows
  <2>3. CASE buffering /\ ~Overflows
    <3>1. buffer' = Append(buffer, e)
      BY <2>3 DEF Keep, BufferNewest
    <3>2. buffer' \in Seq(Entry) /\ Len(buffer') = Len(buffer) + 1
      BY <1>1, <3>1, AppendIs
    <3>3. Len(buffer) <= MaxBuffer /\ Len(buffer) # MaxBuffer
      BY <2>3 DEF Overflows, TypeOK
    <3> QED
      BY <1>1, <3>2, <3>3
  <2> QED
    BY <2>1, <2>2, <2>3
<1>3. unseen' \in Nat
  <2>1. CASE Dropped # {}
    <3>1. Dropped \subseteq Nat
      BY LenProperties DEF Dropped, TypeOK
    <3>2. Min(Dropped) \in Nat
      BY <2>1, <3>1, LeastIs
    <3> QED
      BY <3>2 DEF Keep, TypeOK
  <2>2. CASE Dropped = {}
    BY <2>2 DEF Keep, TypeOK
  <2> QED
    BY <2>1, <2>2
<1> QED
  BY <1>2, <1>3 DEF Keep, TypeOK

LEMMA SendTypes ==
  ASSUME TypeOK, NEW e \in Entry, Send(e)
  PROVE  received' \in [Conns -> Seq(Entry)]
<1>1. \A c \in Conns : Append(received[c], e) \in Seq(Entry)
  BY AppendIs DEF TypeOK
<1> QED
  BY <1>1 DEF Send, TypeOK

LEMMA SubscribeTypes ==
  ASSUME FeedTypes, NEW c \in Conns, NEW replayed \in Seq(Entry), NEW from \in Nat,
         Subscribe(c, replayed, from)
  PROVE  /\ subscribed' \subseteq Conns /\ fresh' \subseteq Conns
         /\ received' \in [Conns -> Seq(Entry)]
         /\ known' \in [Conns -> SUBSET Prompts]
         /\ since' \in [Conns -> Nat]
<1> DEFINE prompts == PromptsToPresent(replayed)
           presented == SetToSeq({Ask(p) : p \in prompts})
<1>1. prompts \subseteq Prompts /\ IsFiniteSet(prompts)
  BY FS_Difference DEF PromptsToPresent, FeedTypes, TypeOK
<1>2. presented \in Seq(Entry)
  BY <1>1, PresentedIs
<1>3. replayed \o presented \in Seq(Entry)
  BY <1>2, JoinIs
<1>4. Registered(replayed) \subseteq Prompts
  BY AsksInIs DEF Registered
<1>5. received' = [received EXCEPT ![c] = replayed \o presented]
  BY DEF Subscribe
<1>6. known' = [known EXCEPT ![c] = @ \cup Registered(replayed) \cup prompts]
  BY DEF Subscribe
<1> HIDE DEF presented, prompts
<1>7. received' \in [Conns -> Seq(Entry)]
  BY <1>3, <1>5 DEF FeedTypes, TypeOK
<1>8. known' \in [Conns -> SUBSET Prompts]
  <2>1. known[c] \cup Registered(replayed) \cup prompts \subseteq Prompts
    BY <1>1, <1>4 DEF FeedTypes, TypeOK
  <2> QED
    BY <1>6, <2>1 DEF FeedTypes, TypeOK
<1> QED
  BY <1>7, <1>8 DEF Subscribe, FeedTypes, TypeOK

LEMMA RemoveSinkTypes ==
  ASSUME TypeOK, NEW c \in Conns, RemoveSink(c)
  PROVE  /\ subscribed' \subseteq Conns /\ fresh' \subseteq Conns
         /\ received' \in [Conns -> Seq(Entry)] /\ since' \in [Conns -> Nat]
         /\ buffering' \in BOOLEAN /\ unseen' \in Nat
         /\ buffer' \in Seq(Entry) /\ Len(buffer') <= MaxBuffer
<1>1. <<>> \in Seq(Entry) /\ Len(<<>>) = 0
  BY EmptySeq
<1>2. received' \in [Conns -> Seq(Entry)] /\ since' \in [Conns -> Nat]
  BY <1>1 DEF RemoveSink, TypeOK
<1>3. unseen' \in Nat
  BY LenProperties DEF RemoveSink, TypeOK
<1>4. buffering' \in BOOLEAN
  BY Zenon DEF RemoveSink, TypeOK
<1>5. buffer' \in Seq(Entry) /\ Len(buffer') <= MaxBuffer
  <2>1. buffer' = <<>> \/ buffer' = buffer
    BY DEF RemoveSink
  <2> QED
    BY <2>1, NothingKept DEF TypeOK
<1> QED
  BY <1>2, <1>3, <1>4, <1>5 DEF RemoveSink, TypeOK

LEMMA PresentedTypes ==
  ASSUME TypeOK, NEW p \in Prompts
  PROVE  Presented(p) \in [Conns -> SUBSET Prompts]
BY DEF Presented, TypeOK

LEMMA InitTypes == Init => FeedTypes
<1> SUFFICES ASSUME Init PROVE FeedTypes
  OBVIOUS
<1>1. <<>> \in Seq(Entry) /\ Len(<<>>) = 0
  BY EmptySeq
<1>2. Len(buffer) <= MaxBuffer
  BY <1>1, MaxBufferAssumption DEF Init
<1>3. buffering \in BOOLEAN /\ IsFiniteSet(asked)
  BY FS_EmptySet, Zenon DEF Init
<1>4. received \in [Conns -> Seq(Entry)] /\ since \in [Conns -> Nat] /\ afterSeq \in [Conns -> Nat]
  BY <1>1 DEF Init
<1>5. resuming \in [Conns -> {"no", "waiting", "ready"}] /\ known \in [Conns -> SUBSET Prompts]
  BY DEF Init
<1>6. /\ stream \in Seq(Entry) /\ journal \in Seq(Entry) /\ batch \in Seq(Entry)
      /\ pendingEvents \in Seq(Entry) /\ buffer \in Seq(Entry)
  BY <1>1 DEF Init
<1> QED
  BY <1>2, <1>3, <1>4, <1>5, <1>6 DEF Init, FeedTypes, TypeOK

\* The queue is typed by QueueInv.
LEMMA QueueTyped ==
  ASSUME QueueInv
  PROVE  /\ stream \in Seq(Entry) /\ journal \in Seq(Entry)
         /\ batch \in Seq(Entry) /\ pendingEvents \in Seq(Entry)
         /\ flush \in {"none", "writing", "failed"}
         /\ Len(stream) \in Nat /\ Len(journal) \in Nat /\ Len(journal) <= Len(stream)
BY LenProperties DEF QueueInv, QueueTypes

LEMMA ItemTyped ==
  ASSUME QueueInv, NEW e, e = Item(Len(stream) + 1), Enqueue(<<e>>)
  PROVE  e \in Entry
<1>1. Len(stream) \in Nat /\ Len(<<e>>) = 1
  BY QueueTyped
<1>2. Len(stream) + 1 \in 1..MaxEntries
  BY <1>1 DEF Enqueue
<1> QED
  BY <1>2 DEF Item, Items, Entry

LEMMA TypesStep ==
  FeedTypes /\ QueueInv /\ QueueInv' /\ [Next]_vars => FeedTypes'
<1> SUFFICES ASSUME FeedTypes, QueueInv, QueueInv', [Next]_vars PROVE FeedTypes'
  OBVIOUS
<1> USE DEF FeedTypes
<1>1. /\ stream' \in Seq(Entry) /\ journal' \in Seq(Entry)
      /\ batch' \in Seq(Entry) /\ pendingEvents' \in Seq(Entry)
      /\ flush' \in {"none", "writing", "failed"}
  BY DEF QueueInv, QueueTypes
<1>2. CASE AppendBatch \/ FailAppend
  BY <1>1, <1>2 DEF AppendBatch, FailAppend, Released, TypeOK, bufferVars, promptVars
<1>3. CASE EmitItem
  <2>1. PICK e : e = Item(Len(stream) + 1) /\ Enqueue(<<e>>) /\ Keep(e) /\ Send(e)
    BY <1>3 DEF EmitItem
  <2>2. e \in Entry
    BY <2>1, ItemTyped
  <2> QED
    BY <1>1, <1>3, <2>1, <2>2, KeepTypes, SendTypes DEF EmitItem, TypeOK, promptVars
<1>4. ASSUME NEW p \in Prompts, AskUser(p)
      PROVE  FeedTypes'
  <2>1. /\ Ask(p) \in Entry /\ Keep(Ask(p)) /\ Send(Ask(p))
        /\ known' = Presented(p) /\ asked' = asked \cup {p}
        /\ UNCHANGED <<open, subscribed, resuming, afterSeq, since, fresh, refused>>
    BY <1>4, EntryIs DEF AskUser
  <2>2. IsFiniteSet(asked')
    BY <2>1, FS_AddElement
  <2> QED
    BY <1>1, <2>1, <2>2, KeepTypes, SendTypes, PresentedTypes DEF TypeOK
<1>5. CASE RejectAllPending
  BY <1>1, <1>5, FS_EmptySet DEF RejectAllPending, TypeOK, bufferVars, connVars
<1>6. ASSUME NEW c \in Conns, NEW p \in Prompts, AnswerPrompt(c, p)
      PROVE  FeedTypes'
  <2>1. IsFiniteSet(asked')
    BY <1>6, FS_RemoveElement DEF AnswerPrompt
  <2> QED
    BY <1>1, <1>6, <2>1 DEF AnswerPrompt, TypeOK, bufferVars
<1>7. ASSUME NEW c \in Conns, NEW p \in Prompts, AnswerBlank(c, p)
      PROVE  FeedTypes'
  <2>1. /\ Ask(p) \in Entry /\ Keep(Ask(p)) /\ Send(Ask(p))
        /\ known' = [Presented(p) EXCEPT ![c] = @ \ {p}] /\ refused' = refused \cup {p}
        /\ UNCHANGED <<open, subscribed, resuming, afterSeq, since, fresh, asked>>
    BY <1>7, EntryIs DEF AnswerBlank
  <2>2. known' \in [Conns -> SUBSET Prompts]
    BY <2>1, PresentedTypes
  <2> QED
    BY <1>1, <2>1, <2>2, KeepTypes, SendTypes DEF TypeOK
<1>8. ASSUME NEW c \in Conns, NEW p \in Prompts, AnswerMalformed(c, p)
      PROVE  FeedTypes'
  BY <1>1, <1>8 DEF AnswerMalformed, TypeOK, bufferVars
<1>9. ASSUME NEW c \in Conns, Resume(c)
      PROVE  FeedTypes'
  <2>1. <<>> \in Seq(Entry) /\ Len(<<>>) = 0 /\ buffer \in Seq(Entry)
    BY EmptySeq DEF TypeOK
  <2>2. PICK from : /\ from = IF unseen = 0 THEN Len(stream) ELSE unseen - 1
                    /\ IF subscribed = {}
                         THEN Subscribe(c, buffer, from) /\ buffering' = FALSE /\ buffer' = <<>>
                         ELSE Subscribe(c, <<>>, from) /\ UNCHANGED <<buffering, buffer>>
    BY <1>9 DEF Resume
  <2>3. from \in Nat
    BY <2>2, QueueTyped DEF TypeOK
  <2>4. PICK replayed \in Seq(Entry) : Subscribe(c, replayed, from)
    BY <2>1, <2>2
  <2>5. buffering' \in BOOLEAN
    BY <2>2, Zenon DEF TypeOK
  <2>6. buffer' \in Seq(Entry) /\ Len(buffer') <= MaxBuffer
    <3>1. buffer' = <<>> \/ buffer' = buffer
      BY <2>2
    <3> QED
      BY <3>1, NothingKept DEF TypeOK
  <2>7. unseen' = 0 /\ UNCHANGED <<open, resuming, afterSeq, asked, refused>>
    BY <1>9 DEF Resume, promptVars
  <2> QED
    BY <1>1, <2>3, <2>4, <2>5, <2>6, <2>7, SubscribeTypes DEF TypeOK
<1>10. ASSUME NEW c \in Conns, NEW seq \in 1..Len(journal), BeginResumeAfter(c, seq)
       PROVE  FeedTypes'
  <2>1. seq \in Nat
    BY <1>10
  <2> QED
    BY <1>1, <1>10, <2>1 DEF BeginResumeAfter, WaitForIdle, TypeOK, bufferVars, promptVars
<1>11. ASSUME NEW c \in Conns, ResumeAfter(c)
       PROVE  FeedTypes'
  <2>1. <<>> \in Seq(Entry) /\ Len(<<>>) = 0 /\ MaxBuffer \in Nat
    BY EmptySeq, MaxBufferAssumption
  <2>2. PICK replayed : /\ replayed = SubSeq(journal, afterSeq[c] + 1, Len(journal))
                        /\ IF c \in subscribed
                             THEN /\ received' = [received EXCEPT ![c] = <<>>]
                                  /\ since' = [since EXCEPT ![c] = 0]
                                  /\ known' = [known EXCEPT ![c] = @ \cup Registered(replayed)]
                                  /\ fresh' = fresh \ {c}
                                  /\ buffering' = TRUE
                                  /\ UNCHANGED <<subscribed, unseen>>
                             ELSE /\ Subscribe(c, replayed, afterSeq[c])
                                  /\ buffering' = FALSE
                                  /\ unseen' = (IF c \in open THEN 0 ELSE unseen)
    BY <1>11 DEF ResumeAfter
  <2>3. /\ resuming' = [resuming EXCEPT ![c] = "no"] /\ buffer' = <<>>
        /\ afterSeq' = [afterSeq EXCEPT ![c] = 0]
        /\ UNCHANGED <<open, asked, refused>>
    BY <1>11 DEF ResumeAfter, promptVars
  <2>4. replayed \in Seq(Entry)
    <3>1. Len(journal) \in Nat /\ afterSeq[c] \in Nat
      BY QueueTyped DEF TypeOK
    <3>2. \A i \in afterSeq[c] + 1..Len(journal) : journal[i] \in Entry
      BY <3>1, QueueTyped, ElementOfSeq
    <3> QED
      BY <2>2, <3>1, <3>2, SubSeqProperties
  <2>5. buffer' \in Seq(Entry) /\ Len(buffer') <= MaxBuffer
    BY <2>3, NothingKept
  <2>6. buffering' \in BOOLEAN
    BY <2>2, Zenon
  <2>7. unseen' \in Nat
    BY <2>2, SMT DEF TypeOK
  <2>8. /\ open' \subseteq Conns /\ asked' \subseteq Prompts /\ refused' \subseteq Prompts
        /\ IsFiniteSet(asked')
        /\ resuming' \in [Conns -> {"no", "waiting", "ready"}] /\ afterSeq' \in [Conns -> Nat]
    BY <2>3 DEF TypeOK
  <2>9. CASE c \in subscribed
    <3>1. Registered(replayed) \subseteq Prompts
      BY <2>4, AsksInIs DEF Registered
    <3>2. /\ received' = [received EXCEPT ![c] = <<>>] /\ since' = [since EXCEPT ![c] = 0]
          /\ known' = [known EXCEPT ![c] = @ \cup Registered(replayed)]
          /\ subscribed' = subscribed /\ fresh' = fresh \ {c}
      BY <2>2, <2>9
    <3>3. known' \in [Conns -> SUBSET Prompts]
      BY <3>1, <3>2 DEF TypeOK
    <3>4. /\ received' \in [Conns -> Seq(Entry)] /\ since' \in [Conns -> Nat]
          /\ subscribed' \subseteq Conns /\ fresh' \subseteq Conns
      BY <2>1, <3>2 DEF TypeOK
    <3> QED
      BY <1>1, <2>5, <2>6, <2>7, <2>8, <3>3, <3>4 DEF TypeOK
  <2>10. CASE c \notin subscribed
    <3>1. Subscribe(c, replayed, afterSeq[c]) /\ afterSeq[c] \in Nat
      BY <2>2, <2>10 DEF TypeOK
    <3> QED
      BY <1>1, <2>4, <2>5, <2>6, <2>7, <2>8, <3>1, SubscribeTypes DEF TypeOK
  <2> QED
    BY <2>9, <2>10
<1>12. ASSUME NEW c \in Conns, Unsubscribe(c)
       PROVE  FeedTypes'
  BY <1>1, <1>12, RemoveSinkTypes DEF Unsubscribe, TypeOK, promptVars
<1>13. ASSUME NEW c \in Conns, CloseConnection(c)
       PROVE  FeedTypes'
  <2>1. known' \in [Conns -> SUBSET Prompts]
    BY <1>13 DEF CloseConnection, TypeOK
  <2> QED
    BY <1>1, <1>13, <2>1, RemoveSinkTypes DEF CloseConnection, TypeOK, promptVars
<1>14. CASE UNCHANGED vars
  BY <1>14 DEF vars, journalVars, bufferVars, connVars, promptVars, TypeOK
<1> QED
  BY <1>2, <1>3, <1>4, <1>5, <1>6, <1>7, <1>8, <1>9, <1>10, <1>11, <1>12, <1>13, <1>14
     DEF Next, ServerStep, SessionStep, ClientStep

(***************************************************************************)
(* The feed's types, what is pending being finite: the buffer never        *)
(* exceeds its bound, and what a connection is sent are entries.           *)
(***************************************************************************)
THEOREM TypesHold == Spec => []TypeOK
<1>1. Init => FeedTypes /\ QueueInv
  BY InitTypes, InitQueue
<1>2. FeedTypes /\ QueueInv /\ [Next]_vars => (FeedTypes /\ QueueInv)'
  BY TypesStep, QueueStep
<1>3. FeedTypes => TypeOK
  BY DEF FeedTypes
<1> QED
  BY <1>1, <1>2, <1>3, PTL DEF Spec

-----------------------------------------------------------------------------
(* What is asked *)

\* No prompt is twice in q but those of r, an answer to which was refused.
AskedOnce(q, r) ==
  \A p \in Prompts \ r : \A i, j \in 1..Len(q) : q[i] = Ask(p) /\ q[j] = Ask(p) => i = j

\* What q asks is in s.
AsksFrom(s, q) == \A i \in 1..Len(q) : q[i].kind = "ask" => \E n \in 1..Len(s) : s[n] = q[i]

AsksOnce ==
  /\ AskedOnce(stream, refused) /\ \A p \in asked : \E n \in 1..Len(stream) : stream[n] = Ask(p)
  /\ AskedOnce(buffer, refused) /\ AsksFrom(stream, buffer)
  /\ \A c \in Conns : AskedOnce(received[c], refused) /\ AsksFrom(stream, received[c])

LEMMA NothingAsked ==
  ASSUME NEW s, NEW r
  PROVE  AskedOnce(<<>>, r) /\ AsksFrom(s, <<>>)
<1>1. Len(<<>>) = 0
  BY EmptySeq
<1> QED
  BY <1>1 DEF AskedOnce, AsksFrom

LEMMA MoreRefused ==
  ASSUME NEW q, NEW r, NEW t, AskedOnce(q, r), r \subseteq t
  PROVE  AskedOnce(q, t)
BY DEF AskedOnce

LEMMA MoreAsked ==
  ASSUME NEW s \in Seq(Entry), NEW t \in Seq(Entry), NEW q, AsksFrom(s, q)
  PROVE  AsksFrom(s \o t, q)
<1>1. /\ Len(s \o t) = Len(s) + Len(t) /\ Len(s) \in Nat /\ Len(t) \in Nat
      /\ \A i \in 1..Len(s) : (s \o t)[i] = s[i]
  BY JoinIs
<1> QED
  BY <1>1 DEF AsksFrom

LEMMA JoinAsks ==
  ASSUME NEW q \in Seq(Entry), NEW t \in Seq(Entry), NEW r,
         AskedOnce(q, r), AskedOnce(t, r),
         \A p \in Prompts \ r : \A i \in 1..Len(q), j \in 1..Len(t) :
           ~(q[i] = Ask(p) /\ t[j] = Ask(p))
  PROVE  AskedOnce(q \o t, r)
<1> DEFINE u == q \o t
<1>1. /\ Len(u) = Len(q) + Len(t) /\ Len(q) \in Nat /\ Len(t) \in Nat
      /\ \A i \in 1..Len(q) : u[i] = q[i]
      /\ \A i \in Len(q) + 1..Len(q) + Len(t) :
           i - Len(q) \in 1..Len(t) /\ u[i] = t[i - Len(q)]
  BY JoinIs
<1> HIDE DEF u
<1> SUFFICES ASSUME NEW p \in Prompts \ r, NEW i \in 1..Len(u), NEW j \in 1..Len(u),
                    u[i] = Ask(p), u[j] = Ask(p)
             PROVE  i = j
  BY DEF AskedOnce, u
<1>2. CASE i <= Len(q) /\ j <= Len(q)
  <2>1. i \in 1..Len(q) /\ j \in 1..Len(q)
    BY <1>1, <1>2
  <2> QED
    BY <1>1, <2>1 DEF AskedOnce
<1>3. CASE i <= Len(q) /\ j > Len(q)
  <2>1. i \in 1..Len(q) /\ j \in Len(q) + 1..Len(q) + Len(t)
    BY <1>1, <1>3
  <2> QED
    BY <1>1, <2>1
<1>4. CASE i > Len(q) /\ j <= Len(q)
  <2>1. j \in 1..Len(q) /\ i \in Len(q) + 1..Len(q) + Len(t)
    BY <1>1, <1>4
  <2> QED
    BY <1>1, <2>1
<1>5. CASE i > Len(q) /\ j > Len(q)
  <2>1. i \in Len(q) + 1..Len(q) + Len(t) /\ j \in Len(q) + 1..Len(q) + Len(t)
    BY <1>1, <1>5
  <2>2. i - Len(q) = j - Len(q)
    BY <1>1, <2>1 DEF AskedOnce
  <2> QED
    BY <1>1, <2>2
<1> QED
  BY <1>1, <1>2, <1>3, <1>4, <1>5

LEMMA JoinAsksFrom ==
  ASSUME NEW q \in Seq(Entry), NEW t \in Seq(Entry), NEW s, AsksFrom(s, q), AsksFrom(s, t)
  PROVE  AsksFrom(s, q \o t)
<1> DEFINE u == q \o t
<1>1. /\ Len(u) = Len(q) + Len(t) /\ Len(q) \in Nat /\ Len(t) \in Nat
      /\ \A i \in 1..Len(q) : u[i] = q[i]
      /\ \A i \in Len(q) + 1..Len(q) + Len(t) :
           i - Len(q) \in 1..Len(t) /\ u[i] = t[i - Len(q)]
  BY JoinIs
<1> HIDE DEF u
<1>2. \A i \in 1..Len(u) : i \in 1..Len(q) \/ i \in Len(q) + 1..Len(q) + Len(t)
  BY <1>1
<1>3. AsksFrom(s, u)
  BY <1>1, <1>2 DEF AsksFrom
<1> QED
  BY <1>3 DEF u

LEMMA AppendAsks ==
  ASSUME NEW q \in Seq(Entry), NEW e \in Entry, NEW r, AskedOnce(q, r),
         \A p \in Prompts \ r : e = Ask(p) => \A i \in 1..Len(q) : q[i] # e
  PROVE  AskedOnce(Append(q, e), r)
<1> DEFINE u == Append(q, e)
<1>1. /\ Len(u) = Len(q) + 1 /\ u[Len(q) + 1] = e /\ Len(q) \in Nat
      /\ \A i \in 1..Len(q) : u[i] = q[i]
  BY AppendIs, LenProperties
<1> HIDE DEF u
<1>2. \A i \in 1..Len(u) : i \in 1..Len(q) \/ i = Len(q) + 1
  BY <1>1
<1>3. AskedOnce(u, r)
  BY <1>1, <1>2 DEF AskedOnce
<1> QED
  BY <1>3 DEF u

LEMMA AppendAsksFrom ==
  ASSUME NEW q \in Seq(Entry), NEW e \in Entry, NEW s, AsksFrom(s, q),
         \E n \in 1..Len(s) : s[n] = e
  PROVE  AsksFrom(s, Append(q, e))
<1> DEFINE u == Append(q, e)
<1>1. /\ Len(u) = Len(q) + 1 /\ u[Len(q) + 1] = e /\ Len(q) \in Nat
      /\ \A i \in 1..Len(q) : u[i] = q[i]
  BY AppendIs, LenProperties
<1> HIDE DEF u
<1>2. \A i \in 1..Len(u) : i \in 1..Len(q) \/ i = Len(q) + 1
  BY <1>1
<1>3. AsksFrom(s, u)
  BY <1>1, <1>2 DEF AsksFrom
<1> QED
  BY <1>3 DEF u

\* What is behind some place of a sequence asks nothing that it does not ask.
LEMMA PartAsks ==
  ASSUME NEW q, NEW t, NEW k \in Nat, NEW r, NEW s,
         Len(q) \in Nat, Len(t) \in Nat, k + Len(t) <= Len(q),
         \A i \in 1..Len(t) : t[i] = q[k + i]
  PROVE  /\ AskedOnce(q, r) => AskedOnce(t, r)
         /\ AsksFrom(s, q) => AsksFrom(s, t)
<1>1. \A i \in 1..Len(t) : k + i \in 1..Len(q) /\ t[i] = q[k + i]
  OBVIOUS
<1>2. \A i, j \in 1..Len(t) : k + i = k + j => i = j
  OBVIOUS
<1>3. ASSUME AskedOnce(q, r), NEW p \in Prompts \ r,
             NEW i \in 1..Len(t), NEW j \in 1..Len(t), t[i] = Ask(p), t[j] = Ask(p)
      PROVE  i = j
  <2>1. q[k + i] = Ask(p) /\ q[k + j] = Ask(p) /\ k + i \in 1..Len(q) /\ k + j \in 1..Len(q)
    BY <1>1, <1>3
  <2>2. k + i = k + j
    BY <1>3, <2>1 DEF AskedOnce
  <2> QED
    BY <1>2, <2>2
<1>4. ASSUME AsksFrom(s, q) PROVE AsksFrom(s, t)
  BY <1>1, <1>4 DEF AsksFrom
<1>5. AskedOnce(q, r) => AskedOnce(t, r)
  BY <1>3 DEF AskedOnce
<1> QED
  BY <1>4, <1>5

\* What a full buffer drops is its first entry.
LEMMA KeepAsks ==
  ASSUME TypeOK, NEW e \in Entry, Keep(e), NEW r, NEW s,
         AskedOnce(buffer, r), AsksFrom(s, buffer), \E n \in 1..Len(s) : s[n] = e,
         \A p \in Prompts \ r : e = Ask(p) => \A i \in 1..Len(buffer) : buffer[i] # e
  PROVE  AskedOnce(buffer', r) /\ AsksFrom(s, buffer')
<1>1. buffer \in Seq(Entry) /\ Len(buffer) \in Nat
  BY LenProperties DEF TypeOK
<1>2. CASE ~buffering
  BY <1>2 DEF Keep
<1>3. CASE buffering /\ Overflows
  <2> DEFINE t == Tail(buffer)
  <2>1. buffer' = Append(t, e) /\ Len(buffer) > 0
    BY <1>1, <1>3, MaxBufferAssumption DEF Keep, BufferNewest, Overflows
  <2>2. t \in Seq(Entry) /\ Len(t) = Len(buffer) - 1 /\ \A i \in 1..Len(t) : t[i] = buffer[i + 1]
    BY <1>1, <2>1, TailIs
  <2> HIDE DEF t
  <2>3. \A i \in 1..Len(t) : t[i] = buffer[1 + i] /\ 1 + i \in 1..Len(buffer)
    BY <1>1, <2>2
  <2>4. AskedOnce(t, r) /\ AsksFrom(s, t)
    <3>1. Len(t) \in Nat /\ 1 + Len(t) <= Len(buffer) /\ 1 \in Nat
      BY <1>1, <2>1, <2>2
    <3> QED
      BY <1>1, <2>3, <3>1, PartAsks
  <2>5. \A p \in Prompts \ r : e = Ask(p) => \A i \in 1..Len(t) : t[i] # e
    BY <2>3
  <2> QED
    BY <2>1, <2>2, <2>4, <2>5, AppendAsks, AppendAsksFrom
<1>4. CASE buffering /\ ~Overflows
  <2>1. buffer' = Append(buffer, e)
    BY <1>4 DEF Keep, BufferNewest
  <2> QED
    BY <1>1, <2>1, AppendAsks, AppendAsksFrom
<1> QED
  BY <1>2, <1>3, <1>4

\* What is given to the journal, e and perhaps what settles it, and shown to all.
LEMMA EmitAsks ==
  ASSUME FeedTypes, QueueInv, AsksOnce, NEW e \in Entry, NEW entries \in Seq(Entry),
         Len(entries) > 0, entries[1] = e,
         \A i \in 1..Len(entries) : i # 1 => entries[i].kind = "resolved",
         Enqueue(entries), Keep(e), Send(e), refused \subseteq refused',
         \A p \in Prompts \ refused' : e = Ask(p) => \A n \in 1..Len(stream) : stream[n] # e,
         \A p \in asked' : p \in asked \/ e = Ask(p)
  PROVE  AsksOnce'
<1> DEFINE s == stream \o entries
           r == refused'
<1>1. stream \in Seq(Entry) /\ Len(stream) \in Nat /\ buffer \in Seq(Entry) /\ TypeOK
  BY QueueTyped DEF FeedTypes, TypeOK
<1>2. stream' = s
  BY DEF Enqueue
<1>3. /\ s \in Seq(Entry) /\ Len(s) = Len(stream) + Len(entries) /\ Len(entries) \in Nat
      /\ \A i \in 1..Len(stream) : s[i] = stream[i]
      /\ \A i \in 1..Len(entries) : s[Len(stream) + i] = entries[i]
  BY <1>1, JoinIs
<1>4. Len(stream) + 1 \in 1..Len(s) /\ s[Len(stream) + 1] = e
  BY <1>1, <1>3
<1>5. AskedOnce(stream, r) /\ AskedOnce(buffer, r) /\ \A c \in Conns : AskedOnce(received[c], r)
  BY MoreRefused DEF AsksOnce
<1>6. \A p \in Prompts : \A i \in 1..Len(entries) : entries[i] = Ask(p) => i = 1 /\ e = Ask(p)
  BY EntryIs
<1>7. AskedOnce(s, r)
  <2>1. AskedOnce(entries, r)
    BY <1>6 DEF AskedOnce
  <2>2. \A p \in Prompts \ r : \A i \in 1..Len(stream), j \in 1..Len(entries) :
          ~(stream[i] = Ask(p) /\ entries[j] = Ask(p))
    BY <1>6
  <2> QED
    BY <1>1, <1>5, <2>1, <2>2, JoinAsks
<1>8. /\ AsksFrom(s, buffer) /\ \A c \in Conns : AsksFrom(s, received[c])
      /\ AsksFrom(stream, buffer) /\ \A c \in Conns : AsksFrom(stream, received[c])
  BY <1>1, MoreAsked DEF AsksOnce
<1>9. ASSUME NEW q, AsksFrom(stream, q)
      PROVE  \A p \in Prompts \ r : e = Ask(p) => \A i \in 1..Len(q) : q[i] # e
  BY <1>9, EntryIs DEF AsksFrom
<1>10. \A p \in asked' : \E n \in 1..Len(s) : s[n] = Ask(p)
  BY <1>1, <1>3, <1>4 DEF AsksOnce
<1> HIDE DEF s, r
<1>11. AskedOnce(buffer', r) /\ AsksFrom(s, buffer')
  BY <1>1, <1>4, <1>5, <1>8, <1>9, KeepAsks
<1>12. ASSUME NEW c \in Conns
       PROVE  AskedOnce(received'[c], r) /\ AsksFrom(s, received'[c])
  <2>1. received[c] \in Seq(Entry)
    BY <1>1 DEF TypeOK
  <2>2. received'[c] = Append(received[c], e) \/ received'[c] = received[c]
    BY DEF Send
  <2>3. AskedOnce(Append(received[c], e), r) /\ AsksFrom(s, Append(received[c], e))
    BY <1>4, <1>5, <1>8, <1>9, <2>1, AppendAsks, AppendAsksFrom
  <2> QED
    BY <1>5, <1>8, <2>2, <2>3
<1> QED
  BY <1>2, <1>7, <1>10, <1>11, <1>12 DEF AsksOnce, r

\* The queue, the buffer and what was received stay as they are.
LEMMA SameAsks ==
  ASSUME AsksOnce, UNCHANGED <<stream, received>>,
         refused \subseteq refused', asked' \subseteq asked,
         buffer' = buffer \/ buffer' = <<>>
  PROVE  AsksOnce'
<1>1. AskedOnce(buffer', refused') /\ AsksFrom(stream, buffer')
  BY NothingAsked, MoreRefused DEF AsksOnce
<1>2. AskedOnce(stream, refused') /\ \A c \in Conns : AskedOnce(received[c], refused')
  BY MoreRefused DEF AsksOnce
<1> QED
  BY <1>1, <1>2 DEF AsksOnce

\* One connection receives something else.
LEMMA ReceivedAsks ==
  ASSUME FeedTypes, AsksOnce, NEW c \in Conns, NEW q,
         AskedOnce(q, refused), AsksFrom(stream, q),
         received' = [received EXCEPT ![c] = q],
         UNCHANGED <<stream, asked, refused>>, buffer' = buffer \/ buffer' = <<>>
  PROVE  AsksOnce'
<1>1. AskedOnce(buffer', refused') /\ AsksFrom(stream, buffer')
  BY NothingAsked DEF AsksOnce
<1>2. \A d \in Conns : received'[d] = received[d] \/ received'[d] = q
  BY DEF FeedTypes, TypeOK
<1> QED
  BY <1>1, <1>2 DEF AsksOnce

\* Prompts that the replay holds are not presented again.
LEMMA SubscribeAsks ==
  ASSUME FeedTypes, AsksOnce, NEW c \in Conns, NEW replayed \in Seq(Entry), NEW from,
         Subscribe(c, replayed, from), AskedOnce(replayed, refused), AsksFrom(stream, replayed),
         UNCHANGED <<stream, asked, refused>>, buffer' = buffer \/ buffer' = <<>>
  PROVE  AsksOnce'
<1> DEFINE P == PromptsToPresent(replayed)
           presented == SetToSeq({Ask(p) : p \in P})
<1>1. P = asked \ AsksIn(replayed) /\ P \in SUBSET Prompts /\ IsFiniteSet(P)
  BY FS_Difference DEF PromptsToPresent, FeedTypes, TypeOK
<1>2. received' = [received EXCEPT ![c] = replayed \o presented]
  BY DEF Subscribe
<1>3. /\ presented \in Seq(Entry)
      /\ \A i \in 1..Len(presented) : \E p \in P : presented[i] = Ask(p)
      /\ \A i, j \in 1..Len(presented) : presented[i] = presented[j] => i = j
  BY <1>1, PresentedIs
<1> HIDE DEF presented, P
<1>4. AskedOnce(presented, refused)
  BY <1>3 DEF AskedOnce
<1>5. AsksFrom(stream, presented)
  BY <1>1, <1>3 DEF AsksFrom, AsksOnce
<1>6. \A p \in Prompts : \A i \in 1..Len(replayed), j \in 1..Len(presented) :
        ~(replayed[i] = Ask(p) /\ presented[j] = Ask(p))
  <2> SUFFICES ASSUME NEW p \in Prompts, NEW i \in 1..Len(replayed), NEW j \in 1..Len(presented),
                      replayed[i] = Ask(p), presented[j] = Ask(p)
               PROVE  FALSE
    OBVIOUS
  <2>1. p \in AsksIn(replayed)
    BY AsksInIs
  <2>2. PICK o \in P : presented[j] = Ask(o)
    BY <1>3
  <2>3. o = p
    BY <2>2 DEF Ask
  <2> QED
    BY <1>1, <2>1, <2>2, <2>3
<1>7. AskedOnce(replayed \o presented, refused) /\ AsksFrom(stream, replayed \o presented)
  BY <1>3, <1>4, <1>5, <1>6, JoinAsks, JoinAsksFrom
<1> QED
  BY <1>2, <1>7, ReceivedAsks

LEMMA RemoveSinkAsks ==
  ASSUME FeedTypes, AsksOnce, NEW c \in Conns, RemoveSink(c), UNCHANGED <<stream, asked, refused>>
  PROVE  AsksOnce'
<1>1. received' = [received EXCEPT ![c] = <<>>] /\ (buffer' = buffer \/ buffer' = <<>>)
  BY DEF RemoveSink
<1> QED
  BY <1>1, NothingAsked, ReceivedAsks

\* The journal behind a cursor is part of the stream.
LEMMA ReplayedIs ==
  ASSUME QueueInv, NEW k \in Nat, NEW t, t = SubSeq(journal, k + 1, Len(journal))
  PROVE  /\ t \in Seq(Entry) /\ Len(t) \in Nat
         /\ Len(t) = IF k + 1 <= Len(journal) THEN Len(journal) - k ELSE 0
         /\ k + Len(t) <= Len(stream) \/ Len(t) = 0
         /\ \A i \in 1..Len(t) : t[i] = stream[k + i]
<1>1. /\ stream \in Seq(Entry) /\ journal \in Seq(Entry) /\ Len(stream) \in Nat
      /\ Len(journal) \in Nat /\ Len(journal) <= Len(stream)
      /\ journal = SubSeq(stream, 1, Len(journal))
  BY QueueTyped DEF QueueInv, JournalIsThePast
<1>2. \A i \in 1..Len(journal) : journal[i] \in Entry /\ stream[i] \in Entry
  BY <1>1, ElementOfSeq
<1>3. \A i \in 1..Len(journal) : SubSeq(stream, 1, Len(journal))[i] = stream[1 + i - 1]
  BY <1>1, <1>2, SubSeqProperties
<1>4. \A i \in 1..Len(journal) : journal[i] = stream[i]
  BY <1>1, <1>3
<1>5. /\ t \in Seq(Entry)
      /\ Len(t) = IF k + 1 <= Len(journal) THEN Len(journal) - (k + 1) + 1 ELSE 0
      /\ \A i \in 1..Len(journal) - (k + 1) + 1 : t[i] = journal[k + 1 + i - 1]
  <2>1. k + 1 \in Int /\ Len(journal) \in Int /\ \A i \in k + 1..Len(journal) : journal[i] \in Entry
    BY <1>1, <1>2
  <2> QED
    BY <2>1, SubSeqProperties
<1>6. \A i \in 1..Len(t) : k + i \in 1..Len(journal) /\ t[i] = journal[k + i]
  BY <1>1, <1>5
<1>7. Len(t) = IF k + 1 <= Len(journal) THEN Len(journal) - k ELSE 0
  BY <1>1, <1>5
<1>8. Len(t) \in Nat /\ (k + Len(t) <= Len(stream) \/ Len(t) = 0)
  <2>1. Len(journal) \in Nat /\ Len(stream) \in Nat /\ Len(journal) <= Len(stream)
    BY <1>1
  <2>2. CASE k + 1 <= Len(journal)
    <3>1. /\ Len(t) = Len(journal) - k /\ Len(journal) - k \in Nat
          /\ k + (Len(journal) - k) = Len(journal)
      BY <1>7, <2>1, <2>2
    <3> QED
      BY <2>1, <3>1
  <2>3. CASE ~(k + 1 <= Len(journal))
    BY <1>7, <2>3
  <2> QED
    BY <2>2, <2>3
<1>9. \A i \in 1..Len(t) : t[i] = stream[k + i]
  BY <1>4, <1>6
<1> QED
  BY <1>5, <1>7, <1>8, <1>9

LEMMA ReplayedAsks ==
  ASSUME FeedTypes, QueueInv, AsksOnce, NEW c \in Conns
  PROVE  LET t == SubSeq(journal, afterSeq[c] + 1, Len(journal))
         IN  t \in Seq(Entry) /\ AskedOnce(t, refused) /\ AsksFrom(stream, t)
<1> DEFINE t == SubSeq(journal, afterSeq[c] + 1, Len(journal))
           k == afterSeq[c]
<1>1. k \in Nat
  BY DEF FeedTypes, TypeOK
<1>2. /\ t \in Seq(Entry) /\ Len(t) \in Nat /\ (k + Len(t) <= Len(stream) \/ Len(t) = 0)
      /\ \A i \in 1..Len(t) : t[i] = stream[k + i]
  BY <1>1, ReplayedIs
<1>3. Len(stream) \in Nat /\ AskedOnce(stream, refused) /\ AsksFrom(stream, stream)
  BY QueueTyped DEF AsksOnce, AsksFrom
<1> HIDE DEF t, k
<1>4. AskedOnce(t, refused) /\ AsksFrom(stream, t)
  <2>1. CASE k + Len(t) <= Len(stream)
    BY <1>1, <1>2, <1>3, <2>1, PartAsks
  <2>2. CASE Len(t) = 0
    BY <2>2 DEF AskedOnce, AsksFrom
  <2> QED
    BY <1>2, <2>1, <2>2
<1> QED
  BY <1>2, <1>4 DEF t

LEMMA InitAsks == Init => AsksOnce
<1> SUFFICES ASSUME Init PROVE AsksOnce
  OBVIOUS
<1>1. stream = <<>> /\ buffer = <<>> /\ asked = {} /\ \A c \in Conns : received[c] = <<>>
  BY DEF Init
<1> QED
  BY <1>1, NothingAsked DEF AsksOnce

LEMMA AsksStep ==
  FeedTypes /\ QueueInv /\ AsksOnce /\ [Next]_vars => AsksOnce'
<1> SUFFICES ASSUME FeedTypes, QueueInv, AsksOnce, [Next]_vars PROVE AsksOnce'
  OBVIOUS
<1>1. CASE AppendBatch \/ FailAppend
  BY <1>1, SameAsks DEF AppendBatch, FailAppend, bufferVars, promptVars
<1>2. CASE EmitItem
  <2>1. PICK e : e = Item(Len(stream) + 1) /\ Enqueue(<<e>>) /\ Keep(e) /\ Send(e)
    BY <1>2 DEF EmitItem
  <2>2. e \in Entry /\ \A p : e # Ask(p)
    BY <2>1, ItemTyped, EntryIs
  <2>3. /\ <<e>> \in Seq(Entry) /\ Len(<<e>>) > 0 /\ <<e>>[1] = e
        /\ \A i \in 1..Len(<<e>>) : i # 1 => <<e>>[i].kind = "resolved"
    BY <2>2
  <2>4. asked' = asked /\ refused' = refused
    BY <1>2 DEF EmitItem, promptVars
  <2> QED
    BY <2>1, <2>2, <2>3, <2>4, EmitAsks
<1>3. ASSUME NEW p \in Prompts, AskUser(p)
      PROVE  AsksOnce'
  <2>1. /\ Enqueue(<<Ask(p)>>) /\ Keep(Ask(p)) /\ Send(Ask(p))
        /\ asked' = asked \cup {p} /\ refused' = refused
        /\ \A n \in 1..Len(stream) : stream[n] # Ask(p)
    BY <1>3 DEF AskUser
  <2>2. Ask(p) \in Entry
    BY EntryIs
  <2>3. /\ <<Ask(p)>> \in Seq(Entry) /\ Len(<<Ask(p)>>) > 0 /\ <<Ask(p)>>[1] = Ask(p)
        /\ \A i \in 1..Len(<<Ask(p)>>) : i # 1 => <<Ask(p)>>[i].kind = "resolved"
    BY <2>2
  <2> QED
    BY <2>1, <2>2, <2>3, EmitAsks
<1>4. ASSUME NEW c \in Conns, NEW p \in Prompts, AnswerBlank(c, p)
      PROVE  AsksOnce'
  <2>1. /\ Enqueue(<<Ask(p), Resolved(p)>>) /\ Keep(Ask(p)) /\ Send(Ask(p))
        /\ asked' = asked /\ refused' = refused \cup {p}
    BY <1>4 DEF AnswerBlank
  <2>2. Ask(p) \in Entry /\ Resolved(p) \in Entry /\ Resolved(p).kind = "resolved"
    BY EntryIs
  <2>3. /\ <<Ask(p), Resolved(p)>> \in Seq(Entry) /\ Len(<<Ask(p), Resolved(p)>>) > 0
        /\ <<Ask(p), Resolved(p)>>[1] = Ask(p)
        /\ \A i \in 1..Len(<<Ask(p), Resolved(p)>>) :
             i # 1 => <<Ask(p), Resolved(p)>>[i].kind = "resolved"
    BY <2>2
  <2>4. \A o \in Prompts \ refused' : Ask(p) # Ask(o)
    BY <2>1 DEF Ask
  <2> QED
    BY <2>1, <2>2, <2>3, <2>4, EmitAsks
<1>5. ASSUME NEW c \in Conns, NEW p \in Prompts, AnswerPrompt(c, p)
      PROVE  AsksOnce'
  <2>1. /\ stream' = stream \o <<Resolved(p)>> /\ asked' = asked \ {p}
        /\ UNCHANGED <<buffer, received, refused>>
    BY <1>5 DEF AnswerPrompt, Enqueue, bufferVars
  <2>2. Resolved(p) \in Entry /\ stream \in Seq(Entry) /\ \A o : Resolved(p) # Ask(o)
    BY EntryIs, QueueTyped
  <2>3. /\ <<Resolved(p)>> \in Seq(Entry) /\ Len(<<Resolved(p)>>) = 1
        /\ <<Resolved(p)>>[1] = Resolved(p)
    BY <2>2
  <2>4. AskedOnce(<<Resolved(p)>>, refused)
    BY <2>2, <2>3 DEF AskedOnce
  <2>5. AskedOnce(stream', refused)
    <3>1. \A o \in Prompts \ refused : \A i \in 1..Len(stream), j \in 1..Len(<<Resolved(p)>>) :
            ~(stream[i] = Ask(o) /\ <<Resolved(p)>>[j] = Ask(o))
      BY <2>2, <2>3
    <3>2. AskedOnce(stream, refused)
      BY DEF AsksOnce
    <3> QED
      BY <2>1, <2>2, <2>3, <2>4, <3>1, <3>2, JoinAsks
  <2>6. AsksFrom(stream', buffer) /\ \A d \in Conns : AsksFrom(stream', received[d])
    BY <2>1, <2>2, <2>3, MoreAsked DEF AsksOnce
  <2>7. \A o \in asked' : \E n \in 1..Len(stream') : stream'[n] = Ask(o)
    <3>1. /\ Len(stream') = Len(stream) + 1 /\ Len(stream) \in Nat
          /\ \A i \in 1..Len(stream) : stream'[i] = stream[i]
      BY <2>1, <2>2, <2>3, JoinIs
    <3> QED
      BY <2>1, <3>1 DEF AsksOnce
  <2> QED
    BY <2>1, <2>5, <2>6, <2>7 DEF AsksOnce
<1>6. CASE RejectAllPending
  BY <1>6, SameAsks DEF RejectAllPending, journalVars, bufferVars, connVars
<1>7. ASSUME NEW c \in Conns, NEW p \in Prompts, AnswerMalformed(c, p)
      PROVE  AsksOnce'
  BY <1>7, SameAsks DEF AnswerMalformed, journalVars, bufferVars
<1>8. ASSUME NEW c \in Conns, Resume(c)
      PROVE  AsksOnce'
  <2>1. PICK from :
          IF subscribed = {}
            THEN Subscribe(c, buffer, from) /\ buffering' = FALSE /\ buffer' = <<>>
            ELSE Subscribe(c, <<>>, from) /\ UNCHANGED <<buffering, buffer>>
    BY <1>8 DEF Resume
  <2>2. UNCHANGED <<stream, asked, refused>>
    BY <1>8 DEF Resume, journalVars, promptVars
  <2>3. PICK replayed \in {buffer, <<>>} :
          Subscribe(c, replayed, from) /\ (buffer' = buffer \/ buffer' = <<>>)
    BY <2>1
  <2>4. /\ replayed \in Seq(Entry)
        /\ AskedOnce(replayed, refused) /\ AsksFrom(stream, replayed)
    BY NothingAsked, EmptySeq DEF AsksOnce, FeedTypes, TypeOK
  <2> QED
    BY <2>2, <2>3, <2>4, SubscribeAsks
<1>9. ASSUME NEW c \in Conns, NEW seq, BeginResumeAfter(c, seq)
      PROVE  AsksOnce'
  BY <1>9, SameAsks DEF BeginResumeAfter, journalVars, bufferVars, promptVars
<1>10. ASSUME NEW c \in Conns, ResumeAfter(c)
       PROVE  AsksOnce'
  <2> DEFINE replayed == SubSeq(journal, afterSeq[c] + 1, Len(journal))
  <2>1. UNCHANGED <<stream, asked, refused>> /\ buffer' = <<>>
    BY <1>10 DEF ResumeAfter, journalVars, promptVars
  <2>2. CASE c \in subscribed
    <3>1. received' = [received EXCEPT ![c] = <<>>]
      BY <1>10, <2>2 DEF ResumeAfter
    <3> QED
      BY <2>1, <3>1, NothingAsked, ReceivedAsks
  <2>3. CASE c \notin subscribed
    <3>1. Subscribe(c, replayed, afterSeq[c])
      BY <1>10, <2>3 DEF ResumeAfter
    <3>2. replayed \in Seq(Entry) /\ AskedOnce(replayed, refused) /\ AsksFrom(stream, replayed)
      BY ReplayedAsks
    <3> QED
      BY <2>1, <3>1, <3>2, SubscribeAsks
  <2> QED
    BY <2>2, <2>3
<1>11. ASSUME NEW c \in Conns, Unsubscribe(c) \/ CloseConnection(c)
       PROVE  AsksOnce'
  BY <1>11, RemoveSinkAsks DEF Unsubscribe, CloseConnection, journalVars, promptVars
<1>12. CASE UNCHANGED vars
  BY <1>12, SameAsks DEF vars, journalVars, bufferVars, connVars, promptVars
<1> QED
  BY <1>1, <1>2, <1>3, <1>4, <1>5, <1>6, <1>7, <1>8, <1>9, <1>10, <1>11, <1>12
     DEF Next, ServerStep, SessionStep, ClientStep

(***************************************************************************)
(* A resumed connection is presented a prompt once: what the replay or the *)
(* buffer holds is not presented again from the list of what is pending,   *)
(* and a tool puts a question once.                                        *)
(***************************************************************************)
THEOREM PromptsPresentedOnce == Spec => []PromptPresentedOnce
<1>1. Init => FeedTypes /\ QueueInv /\ AsksOnce
  BY InitTypes, InitQueue, InitAsks
<1>2. FeedTypes /\ QueueInv /\ AsksOnce /\ [Next]_vars => (FeedTypes /\ QueueInv /\ AsksOnce)'
  BY TypesStep, QueueStep, AsksStep
<1>3. FeedTypes /\ AsksOnce => PromptPresentedOnce
  BY DEF FeedTypes, TypeOK, AsksOnce, AskedOnce, PromptPresentedOnce
<1> QED
  BY <1>1, <1>2, <1>3, PTL DEF Spec

-----------------------------------------------------------------------------
(* What a connection has been sent of the stream *)

\* Items are numbered by their place in the stream.
Numbered(s) == \A n \in 1..Len(s) : s[n].kind = "item" => s[n].id = n

\* The items of q are those of s behind its first k entries.
Covers(s, q, k) ==
  /\ \A i \in 1..Len(q) : q[i].kind = "item" => q[i].id \in k + 1..Len(s) /\ s[q[i].id] = q[i]
  /\ \A n \in k + 1..Len(s) : s[n].kind = "item" => \E i \in 1..Len(q) : q[i] = s[n]
  /\ InOrder(q)

LEMMA CoversNothing ==
  ASSUME NEW s \in Seq(Entry)
  PROVE  Covers(s, <<>>, Len(s))
<1>1. Len(<<>>) = 0 /\ Len(s) \in Nat
  BY EmptySeq, LenProperties
<1>2. \A n \in Len(s) + 1..Len(s) : FALSE
  BY <1>1
<1> QED
  BY <1>1, <1>2 DEF Covers, InOrder

\* The stream grows by entries that are no items.
LEMMA CoversQuiet ==
  ASSUME NEW s \in Seq(Entry), NEW t \in Seq(Entry), NEW q, NEW k \in Nat, Covers(s, q, k),
         \A i \in 1..Len(t) : t[i].kind # "item"
  PROVE  Covers(s \o t, q, k)
<1> DEFINE u == s \o t
<1>1. /\ Len(u) = Len(s) + Len(t) /\ Len(s) \in Nat /\ Len(t) \in Nat
      /\ \A i \in 1..Len(s) : u[i] = s[i]
      /\ \A i \in Len(s) + 1..Len(s) + Len(t) :
           i - Len(s) \in 1..Len(t) /\ u[i] = t[i - Len(s)]
  BY JoinIs
<1> HIDE DEF u
<1>2. ASSUME NEW i \in 1..Len(q), q[i].kind = "item"
      PROVE  q[i].id \in k + 1..Len(u) /\ u[q[i].id] = q[i]
  <2>1. q[i].id \in k + 1..Len(s) /\ s[q[i].id] = q[i]
    BY <1>2 DEF Covers
  <2>2. q[i].id \in 1..Len(s) /\ q[i].id \in k + 1..Len(u)
    BY <1>1, <2>1
  <2> QED
    BY <1>1, <2>1, <2>2
<1>3. ASSUME NEW n \in k + 1..Len(u), u[n].kind = "item"
      PROVE  \E i \in 1..Len(q) : q[i] = u[n]
  <2>1. n \in 1..Len(s)
    <3>1. CASE n \in Len(s) + 1..Len(s) + Len(t)
      BY <1>1, <1>3, <3>1
    <3> QED
      BY <1>1, <3>1
  <2>2. n \in k + 1..Len(s) /\ s[n].kind = "item" /\ u[n] = s[n]
    BY <1>1, <1>3, <2>1
  <2> QED
    BY <2>2 DEF Covers
<1>4. Covers(u, q, k)
  BY <1>2, <1>3 DEF Covers
<1> QED
  BY <1>4 DEF u

\* Prompts are presented behind what is replayed.
LEMMA CoversMore ==
  ASSUME NEW s, NEW q \in Seq(Entry), NEW t \in Seq(Entry), NEW k, Covers(s, q, k),
         \A i \in 1..Len(t) : t[i].kind # "item"
  PROVE  Covers(s, q \o t, k)
<1> DEFINE u == q \o t
<1>1. /\ Len(u) = Len(q) + Len(t) /\ Len(q) \in Nat /\ Len(t) \in Nat
      /\ \A i \in 1..Len(q) : u[i] = q[i]
      /\ \A i \in Len(q) + 1..Len(q) + Len(t) :
           i - Len(q) \in 1..Len(t) /\ u[i] = t[i - Len(q)]
  BY JoinIs
<1> HIDE DEF u
<1>2. \A i \in 1..Len(u) : u[i].kind = "item" => i \in 1..Len(q) /\ u[i] = q[i]
  <2> TAKE i \in 1..Len(u)
  <2>1. CASE i \in 1..Len(q)
    BY <1>1, <2>1
  <2>2. CASE i \in Len(q) + 1..Len(q) + Len(t)
    BY <1>1, <2>2
  <2> QED
    BY <1>1, <2>1, <2>2
<1>3. \A i \in 1..Len(q) : i \in 1..Len(u) /\ u[i] = q[i]
  BY <1>1
<1>4. InOrder(u)
  BY <1>2 DEF Covers, InOrder
<1>5. \A i \in 1..Len(u) : u[i].kind = "item" => u[i].id \in k + 1..Len(s) /\ s[u[i].id] = u[i]
  BY <1>2 DEF Covers
<1>6. ASSUME NEW n \in k + 1..Len(s), s[n].kind = "item"
      PROVE  \E i \in 1..Len(u) : u[i] = s[n]
  <2>1. PICK i \in 1..Len(q) : q[i] = s[n]
    BY <1>6 DEF Covers
  <2> QED
    BY <1>3, <2>1
<1> QED
  BY <1>4, <1>5, <1>6 DEF Covers, u

\* An entry is emitted and sent.
LEMMA CoversNext ==
  ASSUME NEW s \in Seq(Entry), NEW e \in Entry, NEW q \in Seq(Entry), NEW k \in 0..Len(s),
         Covers(s, q, k), e.kind = "item" => e.id = Len(s) + 1,
         NEW t \in Seq(Entry), Len(t) > 0, t[1] = e,
         \A i \in 1..Len(t) : i # 1 => t[i].kind = "resolved"
  PROVE  Covers(s \o t, Append(q, e), k)
<1> DEFINE u == s \o t
           v == Append(q, e)
<1>1. /\ Len(u) = Len(s) + Len(t) /\ Len(s) \in Nat /\ Len(t) \in Nat
      /\ \A i \in 1..Len(s) : u[i] = s[i]
      /\ \A i \in 1..Len(t) : u[Len(s) + i] = t[i]
      /\ \A i \in Len(s) + 1..Len(s) + Len(t) :
           i - Len(s) \in 1..Len(t) /\ u[i] = t[i - Len(s)]
  BY JoinIs
<1>2. /\ Len(v) = Len(q) + 1 /\ v[Len(q) + 1] = e /\ Len(q) \in Nat
      /\ \A i \in 1..Len(q) : v[i] = q[i]
  BY AppendIs, LenProperties
<1> HIDE DEF u, v
<1>3. Len(s) + 1 \in 1..Len(u) /\ Len(s) + 1 \in k + 1..Len(u) /\ u[Len(s) + 1] = e
  BY <1>1
<1>4. \A i \in 1..Len(v) : i \in 1..Len(q) \/ i = Len(q) + 1
  BY <1>2
<1>5. ASSUME NEW i \in 1..Len(q), q[i].kind = "item"
      PROVE  q[i].id \in k + 1..Len(u) /\ u[q[i].id] = q[i] /\ q[i].id < Len(s) + 1
  <2>1. q[i].id \in k + 1..Len(s) /\ s[q[i].id] = q[i]
    BY <1>5 DEF Covers
  <2>2. q[i].id \in 1..Len(s) /\ q[i].id \in k + 1..Len(u)
    BY <1>1, <2>1
  <2> QED
    BY <1>1, <2>1, <2>2
<1>6. \A i \in 1..Len(v) : v[i].kind = "item" => v[i].id \in k + 1..Len(u) /\ u[v[i].id] = v[i]
  BY <1>2, <1>3, <1>4, <1>5
<1>7. ASSUME NEW n \in k + 1..Len(u), u[n].kind = "item"
      PROVE  \E i \in 1..Len(v) : v[i] = u[n]
  <2>1. CASE n \in 1..Len(s)
    <3>1. n \in k + 1..Len(s) /\ s[n].kind = "item" /\ u[n] = s[n]
      BY <1>1, <1>7, <2>1
    <3>2. PICK i \in 1..Len(q) : q[i] = s[n]
      BY <3>1 DEF Covers
    <3>3. i \in 1..Len(v) /\ v[i] = u[n]
      BY <1>2, <3>1, <3>2
    <3> QED
      BY <3>3
  <2>2. CASE n \in Len(s) + 1..Len(s) + Len(t)
    <3>1. n - Len(s) = 1
      BY <1>1, <1>7, <2>2
    <3>2. n = Len(s) + 1
      BY <1>1, <2>2, <3>1
    <3>3. Len(q) + 1 \in 1..Len(v) /\ v[Len(q) + 1] = u[n]
      BY <1>2, <1>3, <3>2
    <3> QED
      BY <3>3
  <2> QED
    BY <1>1, <2>1, <2>2
<1>8. InOrder(v)
  <2> SUFFICES ASSUME NEW i \in 1..Len(v), NEW j \in 1..Len(v), i < j,
                      v[i].kind = "item", v[j].kind = "item"
               PROVE  v[i].id < v[j].id
    BY DEF InOrder
  <2>1. i \in 1..Len(q)
    BY <1>2
  <2>2. CASE j \in 1..Len(q)
    BY <1>2, <2>1, <2>2 DEF Covers, InOrder
  <2>3. CASE j = Len(q) + 1
    BY <1>2, <1>5, <2>1, <2>3
  <2> QED
    BY <1>4, <2>2, <2>3
<1> QED
  BY <1>6, <1>7, <1>8 DEF Covers, u, v

\* The journal behind a cursor is the stream behind it.
LEMMA CoversReplay ==
  ASSUME NEW s \in Seq(Entry), Numbered(s), NEW q, NEW k \in 0..Len(s),
         Len(q) = Len(s) - k, \A i \in 1..Len(q) : q[i] = s[k + i]
  PROVE  Covers(s, q, k)
<1>1. Len(s) \in Nat /\ k \in Nat
  BY LenProperties
<1>2. \A i \in 1..Len(q) : k + i \in 1..Len(s) /\ k + i \in k + 1..Len(s) /\ q[i] = s[k + i]
  BY <1>1
<1>3. \A i \in 1..Len(q) : q[i].kind = "item" => q[i].id = k + i
  BY <1>2 DEF Numbered
<1>4. \A i, j \in 1..Len(q) : i < j => k + i < k + j
  BY <1>1
<1>5. InOrder(q)
  BY <1>3, <1>4 DEF InOrder
<1>6. \A n \in k + 1..Len(s) : n - k \in 1..Len(q) /\ k + (n - k) = n
  BY <1>1
<1>7. \A n \in k + 1..Len(s) : q[n - k] = s[n] /\ n - k \in 1..Len(q)
  BY <1>2, <1>6
<1>8. \A i \in 1..Len(q) : q[i].kind = "item" => q[i].id \in k + 1..Len(s) /\ s[q[i].id] = q[i]
  BY <1>2, <1>3
<1> QED
  BY <1>5, <1>7, <1>8 DEF Covers

\* Covers says what SubscriberMissesNothing says of a connection.
LEMMA CoversItems ==
  ASSUME NEW s \in Seq(Entry), NEW q \in Seq(Entry), NEW k \in 0..Len(s), Covers(s, q, k)
  PROVE  ItemsIn(q) = ItemsIn(SubSeq(s, k + 1, Len(s))) /\ InOrder(q)
<1> DEFINE t == SubSeq(s, k + 1, Len(s))
<1>1. Len(s) \in Nat /\ k \in Nat
  BY LenProperties
<1>2. Len(t) = Len(s) - k /\ \A i \in 1..Len(t) : t[i] = s[k + i]
  BY BehindIs
<1> HIDE DEF t
<1>3. \A x : x \in ItemsIn(q) <=> \E i \in 1..Len(q) : q[i].kind = "item" /\ x = q[i]
  BY DEF ItemsIn
<1>4. \A x : x \in ItemsIn(t) <=> \E i \in 1..Len(t) : t[i].kind = "item" /\ x = t[i]
  BY DEF ItemsIn
<1>5. \A n \in k + 1..Len(s) : n - k \in 1..Len(t) /\ t[n - k] = s[n]
  <2>1. \A n \in k + 1..Len(s) : n - k \in 1..Len(t) /\ k + (n - k) = n
    BY <1>1, <1>2
  <2> QED
    BY <1>2, <2>1
<1>6. \A i \in 1..Len(t) : k + i \in k + 1..Len(s) /\ t[i] = s[k + i]
  BY <1>1, <1>2
<1>7. \A x \in ItemsIn(q) : x \in ItemsIn(t)
  <2> TAKE x \in ItemsIn(q)
  <2>1. PICK i \in 1..Len(q) : q[i].kind = "item" /\ x = q[i]
    BY <1>3
  <2>2. x.id \in k + 1..Len(s) /\ s[x.id] = x
    BY <2>1 DEF Covers
  <2> QED
    BY <1>4, <1>5, <2>1, <2>2
<1>8. \A x \in ItemsIn(t) : x \in ItemsIn(q)
  <2> TAKE x \in ItemsIn(t)
  <2>1. PICK i \in 1..Len(t) : t[i].kind = "item" /\ x = t[i]
    BY <1>4
  <2>2. k + i \in k + 1..Len(s) /\ s[k + i] = x /\ x.kind = "item"
    BY <1>6, <2>1
  <2>3. \E j \in 1..Len(q) : q[j] = x
    BY <2>2 DEF Covers
  <2> QED
    BY <1>3, <2>2, <2>3
<1>9. ItemsIn(q) = ItemsIn(t)
  BY <1>7, <1>8
<1> QED
  BY <1>9 DEF t, Covers

-----------------------------------------------------------------------------
(* What the buffer keeps of the stream *)

\* f says where in s, behind its first k entries, the entries of q are: in this
\* order, and all of them but what only the journal is given.
Places(f, s, q, k) ==
  /\ f \in [1..Len(q) -> k + 1..Len(s)]
  /\ \A i \in 1..Len(q) : q[i] = s[f[i]] /\ s[f[i]].kind # "resolved"
  /\ \A i, j \in 1..Len(q) : i < j => f[i] < f[j]
  /\ \A n \in k + 1..Len(s) : s[n].kind # "resolved" => \E i \in 1..Len(q) : f[i] = n

Mirrored(s, q, k) == \E f : Places(f, s, q, k)

LEMMA MirrorsNothing ==
  ASSUME NEW s \in Seq(Entry)
  PROVE  Mirrored(s, <<>>, Len(s))
<1>1. Len(<<>>) = 0 /\ Len(s) \in Nat
  BY EmptySeq, LenProperties
<1>2. \A n \in Len(s) + 1..Len(s) : FALSE
  BY <1>1
<1>3. \A i \in 1..0 : FALSE
  OBVIOUS
<1>4. [i \in 1..0 |-> 0] \in [1..0 -> Len(s) + 1..Len(s)]
  BY <1>3
<1>5. Places([i \in 1..0 |-> 0], s, <<>>, Len(s))
  BY <1>1, <1>2, <1>3, <1>4 DEF Places
<1> QED
  BY <1>5 DEF Mirrored

LEMMA MirrorsQuiet ==
  ASSUME NEW s \in Seq(Entry), NEW t \in Seq(Entry), NEW q, NEW k \in Nat, Mirrored(s, q, k),
         \A i \in 1..Len(t) : t[i].kind = "resolved"
  PROVE  Mirrored(s \o t, q, k)
<1> DEFINE u == s \o t
<1>1. /\ Len(u) = Len(s) + Len(t) /\ Len(s) \in Nat /\ Len(t) \in Nat
      /\ \A i \in 1..Len(s) : u[i] = s[i]
      /\ \A i \in Len(s) + 1..Len(s) + Len(t) :
           i - Len(s) \in 1..Len(t) /\ u[i] = t[i - Len(s)]
  BY JoinIs
<1> HIDE DEF u
<1>2. PICK f : Places(f, s, q, k)
  BY DEF Mirrored
<1>3. \A n \in k + 1..Len(s) : n \in k + 1..Len(u) /\ n \in 1..Len(s)
  BY <1>1
<1>4. f \in [1..Len(q) -> k + 1..Len(u)]
  BY <1>2, <1>3 DEF Places
<1>5. \A i \in 1..Len(q) : q[i] = u[f[i]] /\ u[f[i]].kind # "resolved"
  BY <1>1, <1>2, <1>3 DEF Places
<1>6. ASSUME NEW n \in k + 1..Len(u), u[n].kind # "resolved"
      PROVE  \E i \in 1..Len(q) : f[i] = n
  <2>1. n \notin Len(s) + 1..Len(s) + Len(t)
    BY <1>1, <1>6
  <2>2. n \in k + 1..Len(s) /\ s[n].kind # "resolved"
    BY <1>1, <1>6, <2>1
  <2> QED
    BY <1>2, <2>2 DEF Places
<1>7. Places(f, u, q, k)
  BY <1>2, <1>4, <1>5, <1>6 DEF Places
<1> QED
  BY <1>7 DEF u, Mirrored

LEMMA MirrorsNext ==
  ASSUME NEW s \in Seq(Entry), NEW e \in Entry, NEW q \in Seq(Entry), NEW k \in 0..Len(s),
         Mirrored(s, q, k), e.kind # "resolved",
         NEW t \in Seq(Entry), Len(t) > 0, t[1] = e,
         \A i \in 1..Len(t) : i # 1 => t[i].kind = "resolved"
  PROVE  Mirrored(s \o t, Append(q, e), k)
<1> DEFINE u == s \o t
           v == Append(q, e)
<1>1. /\ Len(u) = Len(s) + Len(t) /\ Len(s) \in Nat /\ Len(t) \in Nat
      /\ \A i \in 1..Len(s) : u[i] = s[i]
      /\ \A i \in 1..Len(t) : u[Len(s) + i] = t[i]
      /\ \A i \in Len(s) + 1..Len(s) + Len(t) :
           i - Len(s) \in 1..Len(t) /\ u[i] = t[i - Len(s)]
  BY JoinIs
<1>2. /\ Len(v) = Len(q) + 1 /\ v[Len(q) + 1] = e /\ Len(q) \in Nat
      /\ \A i \in 1..Len(q) : v[i] = q[i]
  BY AppendIs, LenProperties
<1> HIDE DEF u, v
<1>3. PICK f : Places(f, s, q, k)
  BY DEF Mirrored
<1> DEFINE g == [i \in 1..Len(v) |-> IF i <= Len(q) THEN f[i] ELSE Len(s) + 1]
<1>4. /\ \A i \in 1..Len(q) : i \in 1..Len(v) /\ g[i] = f[i]
      /\ Len(q) + 1 \in 1..Len(v) /\ g[Len(q) + 1] = Len(s) + 1
  BY <1>2
<1>5. \A i \in 1..Len(q) : f[i] \in k + 1..Len(u) /\ f[i] \in 1..Len(s) /\ f[i] < Len(s) + 1
  <2>1. \A n \in k + 1..Len(s) : n \in k + 1..Len(u) /\ n \in 1..Len(s) /\ n < Len(s) + 1
    BY <1>1
  <2> QED
    BY <1>3, <2>1 DEF Places
<1>6. Len(s) + 1 \in k + 1..Len(u) /\ u[Len(s) + 1] = e
  BY <1>1
<1>7. \A i \in 1..Len(v) : i \in 1..Len(q) \/ i = Len(q) + 1
  BY <1>2
<1>8. g \in [1..Len(v) -> k + 1..Len(u)]
  <2>1. \A i \in 1..Len(v) : g[i] \in k + 1..Len(u)
    BY <1>4, <1>5, <1>6, <1>7
  <2> QED
    BY <2>1
<1> HIDE DEF g
<1>9. \A i \in 1..Len(v) : v[i] = u[g[i]] /\ u[g[i]].kind # "resolved"
  <2> TAKE i \in 1..Len(v)
  <2>1. CASE i \in 1..Len(q)
    <3>1. q[i] = s[f[i]] /\ s[f[i]].kind # "resolved"
      BY <1>3, <2>1 DEF Places
    <3> QED
      BY <1>1, <1>2, <1>4, <1>5, <2>1, <3>1
  <2>2. CASE i = Len(q) + 1
    BY <1>2, <1>4, <1>6, <2>2
  <2> QED
    BY <1>7, <2>1, <2>2
<1>10. \A i, j \in 1..Len(v) : i < j => g[i] < g[j]
  <2> SUFFICES ASSUME NEW i \in 1..Len(v), NEW j \in 1..Len(v), i < j PROVE g[i] < g[j]
    OBVIOUS
  <2>1. i \in 1..Len(q)
    BY <1>2
  <2>2. CASE j \in 1..Len(q)
    BY <1>3, <1>4, <2>1, <2>2 DEF Places
  <2>3. CASE j = Len(q) + 1
    BY <1>4, <1>5, <2>1, <2>3
  <2> QED
    BY <1>7, <2>2, <2>3
<1>11. ASSUME NEW n \in k + 1..Len(u), u[n].kind # "resolved"
       PROVE  \E i \in 1..Len(v) : g[i] = n
  <2>1. CASE n \in 1..Len(s)
    <3>1. n \in k + 1..Len(s) /\ s[n].kind # "resolved"
      BY <1>1, <1>11, <2>1
    <3>2. PICK i \in 1..Len(q) : f[i] = n
      BY <1>3, <3>1 DEF Places
    <3> QED
      BY <1>4, <3>2
  <2>2. CASE n \in Len(s) + 1..Len(s) + Len(t)
    <3>1. n - Len(s) = 1
      BY <1>1, <1>11, <2>2
    <3>2. n = Len(s) + 1
      BY <1>1, <2>2, <3>1
    <3> QED
      BY <1>4, <3>2
  <2> QED
    BY <1>1, <2>1, <2>2
<1>12. Places(g, u, v, k)
  BY <1>8, <1>9, <1>10, <1>11 DEF Places
<1> QED
  BY <1>12 DEF Mirrored, u, v

\* What is dropped from the front of q is the first of its kind in s.
LEMMA MirrorsTail ==
  ASSUME NEW s \in Seq(Entry), NEW q \in Seq(Entry), NEW k \in Nat, Len(q) > 0,
         Mirrored(s, q, k), NEW D, D = {n \in 1..Len(s) : k + 1 <= n /\ s[n] = Head(q)}
  PROVE  /\ D # {} /\ Min(D) \in k + 1..Len(s)
         /\ Mirrored(s, Tail(q), Min(D))
<1> DEFINE t == Tail(q)
<1>1. /\ t \in Seq(Entry) /\ Len(t) = Len(q) - 1 /\ Head(q) = q[1]
      /\ Len(q) \in Nat /\ \A i \in 1..Len(t) : t[i] = q[i + 1]
  BY TailIs
<1> HIDE DEF t
<1>2. Len(s) \in Nat /\ 1 \in 1..Len(q)
  BY <1>1, LenProperties
<1>3. PICK f : Places(f, s, q, k)
  BY DEF Mirrored
<1>4. \A n \in D : n \in k + 1..Len(s) /\ s[n] = q[1]
  BY <1>1, <1>2
<1>5. f[1] \in D /\ f[1] \in k + 1..Len(s) /\ s[f[1]].kind # "resolved" /\ s[f[1]] = q[1]
  <2>1. f[1] \in k + 1..Len(s) /\ q[1] = s[f[1]] /\ s[f[1]].kind # "resolved"
    BY <1>2, <1>3 DEF Places
  <2> QED
    BY <1>1, <1>2, <2>1
<1>6. \A n \in D : f[1] <= n
  <2> TAKE n \in D
  <2>1. n \in k + 1..Len(s) /\ s[n].kind # "resolved"
    BY <1>4, <1>5
  <2>2. PICK i \in 1..Len(q) : f[i] = n
    BY <1>3, <2>1 DEF Places
  <2>3. i = 1 \/ 1 < i
    OBVIOUS
  <2>4. 1 < i => f[1] < f[i]
    BY <1>2, <1>3 DEF Places
  <2>5. f[1] \in Nat /\ n \in Nat
    BY <1>2, <1>5, <2>1
  <2> QED
    BY <2>2, <2>3, <2>4, <2>5
<1>7. Min(D) = f[1]
  <2>1. Min(D) \in D /\ \A n \in D : Min(D) <= n
    BY <1>5, <1>6 DEF Min
  <2>2. Min(D) <= f[1] /\ f[1] <= Min(D)
    BY <1>5, <1>6, <2>1
  <2>3. Min(D) \in k + 1..Len(s) /\ f[1] \in k + 1..Len(s)
    BY <1>4, <1>5, <2>1
  <2>4. Min(D) \in Nat /\ f[1] \in Nat
    BY <1>2, <2>3
  <2> QED
    BY <2>2, <2>4
<1> DEFINE m == f[1]
           g == [i \in 1..Len(t) |-> f[i + 1]]
<1>8. \A i \in 1..Len(t) : i + 1 \in 1..Len(q) /\ 1 < i + 1 /\ g[i] = f[i + 1]
  BY <1>1
<1>9. \A i \in 1..Len(t) : g[i] \in m + 1..Len(s)
  <2> TAKE i \in 1..Len(t)
  <2>1. f[1] < f[i + 1] /\ f[i + 1] \in k + 1..Len(s)
    BY <1>2, <1>3, <1>8 DEF Places
  <2> QED
    BY <1>2, <1>5, <1>8, <2>1
<1>10. g \in [1..Len(t) -> m + 1..Len(s)]
  BY <1>9
<1> HIDE DEF g
<1>11. \A i \in 1..Len(t) : t[i] = s[g[i]] /\ s[g[i]].kind # "resolved"
  BY <1>1, <1>3, <1>8 DEF Places
<1>12. \A i, j \in 1..Len(t) : i < j => g[i] < g[j]
  <2>1. \A i, j \in 1..Len(t) : i < j => i + 1 < j + 1
    OBVIOUS
  <2> QED
    BY <1>3, <1>8, <2>1 DEF Places
<1>13. ASSUME NEW n \in m + 1..Len(s), s[n].kind # "resolved"
       PROVE  \E i \in 1..Len(t) : g[i] = n
  <2>1. n \in k + 1..Len(s) /\ n # f[1]
    BY <1>2, <1>5
  <2>2. PICK i \in 1..Len(q) : f[i] = n
    BY <1>3, <1>13, <2>1 DEF Places
  <2>3. i - 1 \in 1..Len(t) /\ (i - 1) + 1 = i
    BY <1>1, <2>1, <2>2
  <2>4. g[i - 1] = n
    BY <1>8, <2>2, <2>3
  <2> QED
    BY <2>3, <2>4
<1>14. Places(g, s, t, m)
  BY <1>10, <1>11, <1>12, <1>13 DEF Places
<1> QED
  BY <1>5, <1>7, <1>14 DEF Mirrored, t

\* What the buffer kept is what was missed.
LEMMA MirrorsCovers ==
  ASSUME NEW s \in Seq(Entry), Numbered(s), NEW q, NEW k \in Nat, Mirrored(s, q, k)
  PROVE  Covers(s, q, k)
<1>1. PICK f : Places(f, s, q, k)
  BY DEF Mirrored
<1>2. \A n \in k + 1..Len(s) : n \in 1..Len(s)
  BY LenProperties
<1>3. \A i \in 1..Len(q) : f[i] \in k + 1..Len(s) /\ q[i] = s[f[i]]
  BY <1>1 DEF Places
<1>4. \A i \in 1..Len(q) : q[i].kind = "item" => q[i].id = f[i]
  BY <1>2, <1>3 DEF Numbered
<1>5. InOrder(q)
  BY <1>1, <1>4 DEF Places, InOrder
<1>6. \A i \in 1..Len(q) : q[i].kind = "item" => q[i].id \in k + 1..Len(s) /\ s[q[i].id] = q[i]
  BY <1>3, <1>4
<1>7. ASSUME NEW n \in k + 1..Len(s), s[n].kind = "item"
      PROVE  \E i \in 1..Len(q) : q[i] = s[n]
  <2>1. PICK i \in 1..Len(q) : f[i] = n
    BY <1>1, <1>7 DEF Places
  <2> QED
    BY <1>3, <2>1
<1> QED
  BY <1>5, <1>6, <1>7 DEF Covers

-----------------------------------------------------------------------------
(* Resuming, following and leaving *)

\* Nothing is promised once an append failed or a sink was left behind.
Reliable == NoDeadSinks /\ flush # "failed"

\* A cursor is in the journal, and what goes on with it does not find it written to.
Waits ==
  \A c \in Conns : /\ resuming[c] # "no" => afterSeq[c] <= Len(journal)
                   /\ resuming[c] = "ready" => flush # "writing"

Followed == \A c \in fresh : since[c] <= Len(stream) /\ Covers(stream, received[c], since[c])

\* While nobody follows the thread the buffer mirrors what was missed.
Kept ==
  /\ subscribed # {} => unseen = 0
  /\ unseen # 0 => unseen <= Len(stream) + 1 /\ buffering /\ Mirrored(stream, buffer, unseen - 1)
  /\ subscribed = {} /\ unseen = 0 => ~buffering /\ buffer = <<>>

Sent == Numbered(stream) /\ (Reliable => Followed /\ Kept)

FeedInv == FeedTypes /\ QueueInv /\ Waits /\ Sent

LEMMA InitFeed == Init => Waits /\ Sent
<1> SUFFICES ASSUME Init PROVE Waits /\ Sent
  OBVIOUS
<1>1. Len(stream) = 0
  BY EmptySeq DEF Init
<1>2. Waits
  BY DEF Init, Waits
<1>3. Numbered(stream)
  BY <1>1 DEF Numbered
<1>4. Followed
  BY DEF Init, Followed
<1>5. Kept
  BY DEF Init, Kept
<1> QED
  BY <1>2, <1>3, <1>4, <1>5 DEF Sent

\* An append begins only when no handler is about to go on.
LEMMA WaitsKeep ==
  ASSUME Waits, resuming' = resuming, afterSeq' = afterSeq,
         journal' = journal, Idle \/ flush' = flush
  PROVE  Waits'
BY DEF Waits, Idle

LEMMA WaitsStep ==
  FeedTypes /\ QueueInv /\ Waits /\ [Next]_vars => Waits'
<1> SUFFICES ASSUME FeedTypes, QueueInv, Waits, [Next]_vars PROVE Waits'
  OBVIOUS
<1>1. CASE AppendBatch
  <2>1. /\ Len(journal') = Len(journal) + Len(batch) /\ Len(journal) \in Nat /\ Len(batch) \in Nat
        /\ afterSeq' = afterSeq /\ \A c \in Conns : afterSeq[c] \in Nat
    BY <1>1, QueueTyped, JoinIs DEF AppendBatch, FeedTypes, TypeOK
  <2>2. Idle /\ \/ flush' = "none" /\ resuming' = Released
                \/ flush' = flush /\ resuming' = resuming
    BY <1>1 DEF AppendBatch
  <2>3. \A c \in Conns : resuming'[c] # "no" => resuming[c] # "no"
    BY <2>2 DEF Released, FeedTypes, TypeOK
  <2>4. \A c \in Conns : afterSeq[c] <= Len(journal) => afterSeq[c] <= Len(journal')
    BY <2>1
  <2> QED
    BY <2>1, <2>2, <2>3, <2>4 DEF Waits, Idle
<1>2. CASE FailAppend
  <2>1. /\ flush' = "failed" /\ resuming' = Released /\ afterSeq' = afterSeq
        /\ journal' = journal
    BY <1>2 DEF FailAppend
  <2>2. \A c \in Conns : resuming'[c] # "no" => resuming[c] # "no"
    BY <2>1 DEF Released, FeedTypes, TypeOK
  <2> QED
    BY <2>1, <2>2 DEF Waits
<1>3. CASE EmitItem \/ \E p \in Prompts : AskUser(p)
  <2>1. Idle /\ journal' = journal /\ resuming' = resuming /\ afterSeq' = afterSeq
    BY <1>3 DEF EmitItem, AskUser, Enqueue
  <2> QED
    BY <2>1, WaitsKeep
<1>4. CASE \E c \in Conns, p \in Prompts : AnswerPrompt(c, p) \/ AnswerBlank(c, p)
  <2>1. Idle /\ journal' = journal /\ resuming' = resuming /\ afterSeq' = afterSeq
    BY <1>4 DEF AnswerPrompt, AnswerBlank, Enqueue
  <2> QED
    BY <2>1, WaitsKeep
<1>5. CASE RejectAllPending \/ \E c \in Conns, p \in Prompts : AnswerMalformed(c, p)
  <2>1. Idle /\ journal' = journal /\ resuming' = resuming /\ afterSeq' = afterSeq
    BY <1>5 DEF RejectAllPending, AnswerMalformed, journalVars, connVars
  <2> QED
    BY <2>1, WaitsKeep
<1>6. CASE \E c \in Conns : Resume(c) \/ Unsubscribe(c) \/ CloseConnection(c)
  <2>1. Idle /\ journal' = journal /\ resuming' = resuming /\ afterSeq' = afterSeq
    BY <1>6 DEF Resume, Unsubscribe, CloseConnection, journalVars
  <2> QED
    BY <2>1, WaitsKeep
<1>7. ASSUME NEW c \in Conns, NEW seq \in 1..Len(journal), BeginResumeAfter(c, seq)
      PROVE  Waits'
  <2>1. /\ Idle /\ journal' = journal /\ flush' = flush
        /\ resuming' = [resuming EXCEPT ![c] = WaitForIdle]
        /\ afterSeq' = [afterSeq EXCEPT ![c] = seq]
    BY <1>7 DEF BeginResumeAfter, journalVars
  <2>2. seq <= Len(journal) /\ (WaitForIdle = "ready" => flush # "writing")
    BY QueueTyped DEF WaitForIdle
  <2> QED
    BY <2>1, <2>2 DEF Waits, Idle, FeedTypes, TypeOK
<1>8. ASSUME NEW c \in Conns, ResumeAfter(c)
      PROVE  Waits'
  <2>1. /\ journal' = journal /\ flush' = flush
        /\ resuming' = [resuming EXCEPT ![c] = "no"]
        /\ afterSeq' = [afterSeq EXCEPT ![c] = 0]
    BY <1>8 DEF ResumeAfter, journalVars
  <2> QED
    BY <2>1 DEF Waits, FeedTypes, TypeOK
<1>9. CASE UNCHANGED vars
  BY <1>9, WaitsKeep DEF vars, journalVars, connVars
<1> QED
  BY <1>1, <1>2, <1>3, <1>4, <1>5, <1>6, <1>7, <1>8, <1>9
     DEF Next, ServerStep, SessionStep, ClientStep

\* The stream, the buffer and what was received stay as they are.
LEMMA SameSent ==
  ASSUME Sent, UNCHANGED <<stream, buffer, buffering, unseen, subscribed, received, since, fresh>>,
         Reliable' => Reliable
  PROVE  Sent'
<1>1. Followed => Followed'
  BY DEF Followed
<1>2. Kept => Kept'
  BY DEF Kept
<1> QED
  BY <1>1, <1>2 DEF Sent

\* An append that failed is not forgotten.
LEMMA EnqueueReliable ==
  ASSUME NEW entries, Enqueue(entries), open' = open, subscribed' = subscribed, Reliable'
  PROVE  Reliable
<1>1. flush # "failed"
  BY DEF Enqueue, Reliable
<1> QED
  BY <1>1 DEF Reliable, NoDeadSinks

\* The entries of the stream are numbered when they are emitted.
LEMMA EnqueueNumbered ==
  ASSUME QueueInv, Numbered(stream), NEW entries \in Seq(Entry), Enqueue(entries),
         \A i \in 1..Len(entries) : entries[i].kind = "item" => entries[i].id = Len(stream) + i
  PROVE  Numbered(stream')
<1>1. /\ stream' = stream \o entries /\ stream \in Seq(Entry)
      /\ Len(stream') = Len(stream) + Len(entries) /\ Len(stream) \in Nat /\ Len(entries) \in Nat
      /\ \A i \in 1..Len(stream) : stream'[i] = stream[i]
      /\ \A i \in Len(stream) + 1..Len(stream) + Len(entries) :
           i - Len(stream) \in 1..Len(entries) /\ stream'[i] = entries[i - Len(stream)]
  BY QueueTyped, JoinIs DEF Enqueue
<1> SUFFICES ASSUME NEW n \in 1..Len(stream'), stream'[n].kind = "item" PROVE stream'[n].id = n
  BY DEF Numbered
<1>2. CASE n \in 1..Len(stream)
  BY <1>1, <1>2 DEF Numbered
<1>3. CASE n \in Len(stream) + 1..Len(stream) + Len(entries)
  <2>1. stream'[n].id = Len(stream) + (n - Len(stream))
    BY <1>1, <1>3
  <2> QED
    BY <1>1, <1>3, <2>1
<1> QED
  BY <1>1, <1>2, <1>3

\* While the thread is not followed, what is emitted is kept, and the oldest dropped.
LEMMA KeepKept ==
  ASSUME FeedTypes, QueueInv, Kept, NEW e \in Entry, Keep(e), e.kind # "resolved",
         NEW t \in Seq(Entry), Len(t) > 0, t[1] = e,
         \A i \in 1..Len(t) : i # 1 => t[i].kind = "resolved",
         stream' = stream \o t, subscribed' = subscribed
  PROVE  Kept'
<1>1. /\ stream \in Seq(Entry) /\ buffer \in Seq(Entry) /\ unseen \in Nat
      /\ Len(stream) \in Nat /\ Len(buffer) \in Nat
  BY QueueTyped, LenProperties DEF FeedTypes, TypeOK
<1>2. Len(stream') = Len(stream) + Len(t) /\ Len(t) \in Nat
  BY <1>1, JoinIs
<1>3. CASE unseen = 0
  <2>1. Dropped = {}
    BY <1>3 DEF Dropped
  <2>2. unseen' = 0 /\ buffering' = buffering
    BY <1>3, <2>1 DEF Keep
  <2>3. subscribed = {} => ~buffering /\ buffer = <<>> /\ buffer' = buffer
    BY <1>3 DEF Kept, Keep
  <2> QED
    BY <2>2, <2>3 DEF Kept
<1>4. CASE unseen # 0
  <2> DEFINE k == unseen - 1
  <2>1. /\ subscribed = {} /\ unseen <= Len(stream) + 1 /\ buffering
        /\ Mirrored(stream, buffer, k) /\ k \in Nat /\ k \in 0..Len(stream) /\ k + 1 = unseen
    BY <1>1, <1>4 DEF Kept
  <2>2. CASE Overflows
    <3> DEFINE m == Min(Dropped)
               q == Tail(buffer)
    <3>1. Len(buffer) > 0
      BY <1>1, <2>2, MaxBufferAssumption DEF Overflows
    <3>2. Dropped = {n \in 1..Len(stream) : k + 1 <= n /\ stream[n] = Head(buffer)}
      BY <1>1, <1>4 DEF Dropped
    <3>3. Dropped # {} /\ m \in k + 1..Len(stream) /\ Mirrored(stream, q, m)
      <4> HIDE DEF k
      <4> QED
        BY <1>1, <2>1, <3>1, <3>2, MirrorsTail
    <3>4. buffer' = Append(q, e) /\ unseen' = m + 1 /\ buffering'
      BY <2>1, <2>2, <3>3 DEF Keep, BufferNewest
    <3>5. q \in Seq(Entry)
      BY <1>1, <3>1, TailIs
    <3>6. m \in 0..Len(stream)
      BY <1>1, <2>1, <3>3
    <3> HIDE DEF m, q, k
    <3>7. Mirrored(stream', buffer', m)
      BY <1>1, <3>3, <3>4, <3>5, <3>6, MirrorsNext
    <3>8. unseen' - 1 = m /\ unseen' # 0 /\ unseen' <= Len(stream') + 1
      BY <1>1, <1>2, <3>4, <3>6
    <3> QED
      BY <2>1, <3>4, <3>7, <3>8 DEF Kept
  <2>3. CASE ~Overflows
    <3>1. buffer' = Append(buffer, e) /\ unseen' = unseen /\ buffering'
      BY <2>1, <2>3 DEF Keep, BufferNewest
    <3> HIDE DEF k
    <3>2. Mirrored(stream', buffer', k)
      BY <1>1, <2>1, <3>1, MirrorsNext
    <3>3. unseen' <= Len(stream') + 1 /\ Mirrored(stream', buffer', unseen' - 1)
      BY <1>1, <1>2, <2>1, <3>1, <3>2 DEF k
    <3> QED
      BY <1>4, <2>1, <3>1, <3>3 DEF Kept
  <2> QED
    BY <2>2, <2>3
<1> QED
  BY <1>3, <1>4

\* What is emitted is kept, and sent to those who follow the thread.
LEMMA EmitSent ==
  ASSUME FeedTypes, QueueInv, Sent, NEW e \in Entry, e.kind # "resolved",
         e.kind = "item" => e.id = Len(stream) + 1,
         NEW t \in Seq(Entry), Len(t) > 0, t[1] = e,
         \A i \in 1..Len(t) : i # 1 => t[i].kind = "resolved",
         Enqueue(t), Keep(e), Send(e), UNCHANGED <<open, subscribed, since, fresh>>
  PROVE  Sent'
<1>1. /\ stream' = stream \o t /\ stream \in Seq(Entry)
      /\ Len(stream) \in Nat /\ received \in [Conns -> Seq(Entry)] /\ since \in [Conns -> Nat]
      /\ fresh \subseteq Conns
  BY QueueTyped DEF Enqueue, FeedTypes, TypeOK
<1>2. \A i \in 1..Len(t) : t[i].kind = "item" => t[i].id = Len(stream) + i
  <2> TAKE i \in 1..Len(t)
  <2>1. CASE i = 1
    BY <2>1
  <2>2. CASE i # 1
    BY <2>2
  <2> QED
    BY <2>1, <2>2
<1>3. Numbered(stream')
  BY <1>2, EnqueueNumbered DEF Sent
<1>4. ASSUME Reliable' PROVE Followed' /\ Kept'
  <2>1. Followed /\ Kept
    BY <1>4, EnqueueReliable DEF Sent
  <2>2. Len(stream') = Len(stream) + Len(t) /\ Len(t) \in Nat
    BY <1>1, JoinIs
  <2>3. ASSUME NEW c \in fresh
        PROVE  since[c] <= Len(stream') /\ Covers(stream', received'[c], since[c])
    <3>1. received'[c] = Append(received[c], e) /\ received[c] \in Seq(Entry) /\ since[c] \in Nat
      BY <1>1 DEF Send
    <3>2. since[c] <= Len(stream) /\ Covers(stream, received[c], since[c])
      BY <2>1 DEF Followed
    <3>3. since[c] \in 0..Len(stream) /\ since[c] <= Len(stream')
      BY <1>1, <2>2, <3>1, <3>2
    <3>4. Covers(stream \o t, Append(received[c], e), since[c])
      BY <1>1, <3>1, <3>2, <3>3, CoversNext
    <3> QED
      BY <1>1, <3>1, <3>3, <3>4
  <2> QED
    BY <1>1, <2>1, <2>3, KeepKept DEF Followed
<1> QED
  BY <1>3, <1>4 DEF Sent

\* What settles a prompt is for the journal and one connection.
LEMMA QuietSent ==
  ASSUME FeedTypes, QueueInv, Sent, NEW t \in Seq(Entry),
         \A i \in 1..Len(t) : t[i].kind = "resolved",
         Enqueue(t), UNCHANGED <<bufferVars, open, subscribed, received, since, fresh>>
  PROVE  Sent'
<1>1. /\ stream' = stream \o t /\ stream \in Seq(Entry)
      /\ Len(stream) \in Nat /\ since \in [Conns -> Nat] /\ unseen \in Nat /\ fresh \subseteq Conns
      /\ UNCHANGED <<buffer, buffering, unseen>>
  BY QueueTyped DEF Enqueue, FeedTypes, TypeOK, bufferVars
<1>2. Numbered(stream')
  BY EnqueueNumbered DEF Sent
<1>3. ASSUME Reliable' PROVE Followed' /\ Kept'
  <2>1. Followed /\ Kept
    BY <1>3, EnqueueReliable DEF Sent
  <2>2. Len(stream') = Len(stream) + Len(t) /\ Len(t) \in Nat
    BY <1>1, JoinIs
  <2>3. ASSUME NEW c \in fresh
        PROVE  since[c] <= Len(stream') /\ Covers(stream', received[c], since[c])
    <3>1. since[c] <= Len(stream) /\ Covers(stream, received[c], since[c]) /\ since[c] \in Nat
      BY <1>1, <2>1 DEF Followed
    <3>2. since[c] <= Len(stream')
      BY <1>1, <2>2, <3>1
    <3>3. \A i \in 1..Len(t) : t[i].kind # "item"
      OBVIOUS
    <3>4. Covers(stream \o t, received[c], since[c])
      BY <1>1, <3>1, <3>3, CoversQuiet
    <3> QED
      BY <1>1, <3>2, <3>4
  <2>4. ASSUME unseen # 0
        PROVE  unseen <= Len(stream') + 1 /\ buffering /\ Mirrored(stream', buffer, unseen - 1)
    <3>1. unseen <= Len(stream) + 1 /\ buffering /\ Mirrored(stream, buffer, unseen - 1)
      BY <2>1, <2>4 DEF Kept
    <3>2. unseen - 1 \in Nat
      BY <1>1, <2>4
    <3> QED
      BY <1>1, <2>2, <3>1, <3>2, MirrorsQuiet
  <2>5. Kept'
    BY <1>1, <2>1, <2>4 DEF Kept
  <2> QED
    BY <2>3, <2>5 DEF Followed
<1> QED
  BY <1>2, <1>3 DEF Sent

\* A connection that resumes is sent what it missed, and follows from then on.
LEMMA SubscribeFollows ==
  ASSUME FeedTypes, Followed, NEW c \in Conns, NEW replayed \in Seq(Entry), NEW from \in Nat,
         Subscribe(c, replayed, from), from <= Len(stream), Covers(stream, replayed, from),
         stream' = stream
  PROVE  Followed'
<1> DEFINE P == PromptsToPresent(replayed)
           presented == SetToSeq({Ask(p) : p \in P})
<1>1. P \in SUBSET Prompts /\ IsFiniteSet(P)
  BY FS_Difference DEF PromptsToPresent, FeedTypes, TypeOK
<1>2. /\ received' = [received EXCEPT ![c] = replayed \o presented]
      /\ since' = [since EXCEPT ![c] = from] /\ fresh' = fresh \cup {c}
  BY DEF Subscribe
<1>3. presented \in Seq(Entry) /\ \A i \in 1..Len(presented) : \E p \in P : presented[i] = Ask(p)
  BY <1>1, PresentedIs
<1> HIDE DEF presented, P
<1>4. \A i \in 1..Len(presented) : presented[i].kind # "item"
  BY <1>3, EntryIs
<1>5. Covers(stream, replayed \o presented, from)
  BY <1>3, <1>4, CoversMore
<1>6. /\ received'[c] = replayed \o presented /\ since'[c] = from
      /\ \A d \in Conns \ {c} : received'[d] = received[d] /\ since'[d] = since[d]
      /\ fresh \subseteq Conns
  BY <1>2 DEF FeedTypes, TypeOK
<1> QED
  BY <1>2, <1>5, <1>6 DEF Followed

LEMMA ResumeSent ==
  ASSUME FeedTypes, QueueInv, Sent, NEW c \in Conns, Resume(c)
  PROVE  Sent'
<1> DEFINE from == IF unseen = 0 THEN Len(stream) ELSE unseen - 1
<1>1. /\ stream \in Seq(Entry) /\ Len(stream) \in Nat /\ unseen \in Nat
      /\ buffer \in Seq(Entry) /\ <<>> \in Seq(Entry)
  BY QueueTyped, EmptySeq DEF FeedTypes, TypeOK
<1>2. /\ IF subscribed = {}
           THEN Subscribe(c, buffer, from) /\ buffering' = FALSE /\ buffer' = <<>>
           ELSE Subscribe(c, <<>>, from) /\ UNCHANGED <<buffering, buffer>>
      /\ unseen' = 0 /\ stream' = stream /\ flush' = flush /\ open' = open
      /\ subscribed' = subscribed \cup {c}
  BY DEF Resume, journalVars, Subscribe
<1>3. ASSUME Reliable' PROVE Followed' /\ Kept'
  <2>1. Reliable
    BY <1>2, <1>3 DEF Reliable, NoDeadSinks
  <2>2. Followed /\ Kept /\ Numbered(stream)
    BY <2>1 DEF Sent
  <2>3. from \in Nat /\ from <= Len(stream)
    BY <1>1, <2>2 DEF Kept
  <2>4. CASE subscribed = {}
    <3>1. Covers(stream, buffer, from)
      <4>1. CASE unseen = 0
        BY <1>1, <2>2, <2>4, <4>1, CoversNothing DEF Kept
      <4>2. CASE unseen # 0
        BY <1>1, <2>2, <2>3, <4>2, MirrorsCovers DEF Kept
      <4> QED
        BY <4>1, <4>2
    <3> HIDE DEF from
    <3>2. Followed'
      BY <1>1, <1>2, <2>2, <2>3, <2>4, <3>1, SubscribeFollows
    <3> QED
      BY <1>2, <3>2 DEF Kept
  <2>5. CASE subscribed # {}
    <3>1. from = Len(stream) /\ Covers(stream, <<>>, from)
      BY <1>1, <2>2, <2>5, CoversNothing DEF Kept
    <3> HIDE DEF from
    <3>2. Followed'
      BY <1>1, <1>2, <2>2, <2>3, <2>5, <3>1, SubscribeFollows
    <3> QED
      BY <1>2, <3>2 DEF Kept
  <2> QED
    BY <2>4, <2>5
<1> QED
  BY <1>2, <1>3 DEF Sent

\* With a cursor, the replay is read when the journal holds the whole stream.
LEMMA ResumeAfterSent ==
  ASSUME FeedTypes, QueueInv, Waits, Sent, NEW c \in Conns, ResumeAfter(c)
  PROVE  Sent'
<1> DEFINE k == afterSeq[c]
           replayed == SubSeq(journal, k + 1, Len(journal))
<1>1. /\ stream \in Seq(Entry) /\ Len(stream) \in Nat /\ k \in Nat
      /\ k <= Len(journal) /\ flush # "writing" /\ flush \in {"none", "writing", "failed"}
  BY QueueTyped DEF ResumeAfter, Waits, FeedTypes, TypeOK
<1>2. /\ IF c \in subscribed
           THEN /\ received' = [received EXCEPT ![c] = <<>>]
                /\ since' = [since EXCEPT ![c] = 0]
                /\ fresh' = fresh \ {c}
                /\ UNCHANGED <<subscribed, unseen>>
           ELSE /\ Subscribe(c, replayed, k)
                /\ unseen' = (IF c \in open THEN 0 ELSE unseen)
      /\ stream' = stream /\ flush' = flush /\ open' = open
  BY DEF ResumeAfter, journalVars
<1>3. subscribed' = subscribed \cup {c}
  <2>1. CASE c \in subscribed
    BY <1>2, <2>1
  <2>2. CASE c \notin subscribed
    BY <1>2, <2>2 DEF Subscribe
  <2> QED
    BY <2>1, <2>2
<1>4. ASSUME Reliable' PROVE Followed' /\ Kept'
  <2>1. Reliable /\ c \in open
    BY <1>2, <1>3, <1>4 DEF Reliable, NoDeadSinks
  <2>2. Followed /\ Kept /\ Numbered(stream)
    BY <2>1 DEF Sent
  <2>3. journal = stream
    BY <1>1, <2>1 DEF Reliable, QueueInv, JournalIsThePast
  <2>4. CASE c \in subscribed
    <3>1. /\ fresh' = fresh \ {c} /\ unseen' = 0
          /\ \A d \in Conns \ {c} : received'[d] = received[d] /\ since'[d] = since[d]
          /\ fresh \subseteq Conns
      BY <1>2, <2>2, <2>4 DEF Kept, FeedTypes, TypeOK
    <3> QED
      BY <1>2, <1>3, <2>2, <3>1 DEF Followed, Kept
  <2>5. CASE c \notin subscribed
    <3>1. Subscribe(c, replayed, k) /\ unseen' = 0
      BY <1>2, <2>1, <2>5
    <3>2. k <= Len(stream) /\ k \in 0..Len(stream)
      BY <1>1, <2>3
    <3>3. /\ replayed \in Seq(Entry) /\ Len(replayed) = Len(stream) - k
          /\ \A i \in 1..Len(replayed) : replayed[i] = stream[k + i]
      BY <1>1, <2>3, <3>2, BehindIs
    <3> HIDE DEF replayed, k
    <3>4. Covers(stream, replayed, k)
      BY <1>1, <2>2, <3>2, <3>3, CoversReplay
    <3>5. Followed'
      BY <1>1, <1>2, <2>2, <3>1, <3>2, <3>3, <3>4, SubscribeFollows
    <3> QED
      BY <1>3, <3>1, <3>5 DEF Kept
  <2> QED
    BY <2>4, <2>5
<1> QED
  BY <1>2, <1>4 DEF Sent

\* When the last follower leaves, the buffer begins where the stream ends.
LEMMA LeaveSent ==
  ASSUME FeedTypes, QueueInv, Sent, NEW c \in Conns, RemoveSink(c),
         c \in open, open \subseteq open' \cup {c}, open' \subseteq open,
         stream' = stream, flush' = flush
  PROVE  Sent'
<1>1. /\ stream \in Seq(Entry) /\ Len(stream) \in Nat /\ fresh \subseteq Conns
      /\ received \in [Conns -> Seq(Entry)] /\ since \in [Conns -> Nat]
  BY QueueTyped DEF FeedTypes, TypeOK
<1>2. /\ subscribed' = subscribed \ {c} /\ fresh' = fresh \ {c}
      /\ \A d \in Conns \ {c} : received'[d] = received[d] /\ since'[d] = since[d]
  BY <1>1 DEF RemoveSink
<1>3. ASSUME Reliable' PROVE Followed' /\ Kept'
  <2>1. Reliable /\ subscribed \subseteq open
    BY <1>2, <1>3 DEF Reliable, NoDeadSinks
  <2>2. Followed /\ Kept
    BY <2>1 DEF Sent
  <2>3. Followed'
    BY <1>1, <1>2, <2>2 DEF Followed
  <2>4. CASE subscribed = {c}
    <3>1. /\ subscribed' = {} /\ unseen' = Len(stream) + 1 /\ buffer' = <<>> /\ buffering'
      BY <1>2, <2>1, <2>4 DEF RemoveSink
    <3>2. unseen' - 1 = Len(stream) /\ unseen' # 0
      BY <1>1, <3>1
    <3>3. Mirrored(stream', buffer', unseen' - 1)
      BY <1>1, <3>1, <3>2, MirrorsNothing
    <3> QED
      BY <1>1, <2>3, <3>1, <3>2, <3>3 DEF Kept
  <2>5. CASE subscribed # {c}
    <3>1. buffering' = buffering /\ buffer' = buffer /\ unseen' = unseen
      BY <2>1, <2>5 DEF RemoveSink
    <3>2. subscribed' = {} <=> subscribed = {}
      BY <1>2, <2>5
    <3> QED
      BY <2>2, <2>3, <3>1, <3>2 DEF Kept
  <2> QED
    BY <2>4, <2>5
<1> QED
  BY <1>3 DEF Sent

LEMMA SentStep ==
  FeedTypes /\ QueueInv /\ Waits /\ Sent /\ [Next]_vars => Sent'
<1> SUFFICES ASSUME FeedTypes, QueueInv, Waits, Sent, [Next]_vars PROVE Sent'
  OBVIOUS
<1>1. CASE AppendBatch \/ FailAppend
  <2>1. /\ UNCHANGED <<stream, buffer, buffering, unseen, subscribed, received, since, fresh, open>>
        /\ flush # "failed"
    BY <1>1 DEF AppendBatch, FailAppend, bufferVars
  <2>2. Reliable' => Reliable
    BY <2>1 DEF Reliable, NoDeadSinks
  <2> QED
    BY <2>1, <2>2, SameSent
<1>2. CASE EmitItem
  <2>1. PICK e : e = Item(Len(stream) + 1) /\ Enqueue(<<e>>) /\ Keep(e) /\ Send(e)
    BY <1>2 DEF EmitItem
  <2>2. e \in Entry /\ e.kind = "item" /\ e.id = Len(stream) + 1
    BY <2>1, ItemTyped, EntryIs
  <2>3. /\ <<e>> \in Seq(Entry) /\ Len(<<e>>) > 0 /\ <<e>>[1] = e
        /\ \A i \in 1..Len(<<e>>) : i # 1 => <<e>>[i].kind = "resolved"
    BY <2>2
  <2>4. UNCHANGED <<open, subscribed, since, fresh>>
    BY <1>2 DEF EmitItem
  <2> QED
    BY <2>1, <2>2, <2>3, <2>4, EmitSent
<1>3. ASSUME NEW p \in Prompts, AskUser(p)
      PROVE  Sent'
  <2>1. /\ Enqueue(<<Ask(p)>>) /\ Keep(Ask(p)) /\ Send(Ask(p))
        /\ UNCHANGED <<open, subscribed, since, fresh>>
    BY <1>3 DEF AskUser
  <2>2. Ask(p) \in Entry /\ Ask(p).kind = "ask"
    BY EntryIs
  <2>3. /\ <<Ask(p)>> \in Seq(Entry) /\ Len(<<Ask(p)>>) > 0 /\ <<Ask(p)>>[1] = Ask(p)
        /\ \A i \in 1..Len(<<Ask(p)>>) : i # 1 => <<Ask(p)>>[i].kind = "resolved"
    BY <2>2
  <2> QED
    BY <2>1, <2>2, <2>3, EmitSent
<1>4. ASSUME NEW c \in Conns, NEW p \in Prompts, AnswerBlank(c, p)
      PROVE  Sent'
  <2>1. /\ Enqueue(<<Ask(p), Resolved(p)>>) /\ Keep(Ask(p)) /\ Send(Ask(p))
        /\ UNCHANGED <<open, subscribed, since, fresh>>
    BY <1>4 DEF AnswerBlank
  <2>2. /\ Ask(p) \in Entry /\ Resolved(p) \in Entry
        /\ Ask(p).kind = "ask" /\ Resolved(p).kind = "resolved"
    BY EntryIs
  <2>3. /\ <<Ask(p), Resolved(p)>> \in Seq(Entry) /\ Len(<<Ask(p), Resolved(p)>>) > 0
        /\ <<Ask(p), Resolved(p)>>[1] = Ask(p)
        /\ \A i \in 1..Len(<<Ask(p), Resolved(p)>>) :
             i # 1 => <<Ask(p), Resolved(p)>>[i].kind = "resolved"
    BY <2>2
  <2> QED
    BY <2>1, <2>2, <2>3, EmitSent
<1>5. ASSUME NEW c \in Conns, NEW p \in Prompts, AnswerPrompt(c, p)
      PROVE  Sent'
  <2>1. /\ Enqueue(<<Resolved(p)>>)
        /\ UNCHANGED <<bufferVars, open, subscribed, received, since, fresh>>
    BY <1>5 DEF AnswerPrompt
  <2>2. Resolved(p) \in Entry /\ Resolved(p).kind = "resolved"
    BY EntryIs
  <2>3. /\ <<Resolved(p)>> \in Seq(Entry)
        /\ \A i \in 1..Len(<<Resolved(p)>>) : <<Resolved(p)>>[i].kind = "resolved"
    BY <2>2
  <2> QED
    BY <2>1, <2>3, QuietSent
<1>6. CASE RejectAllPending \/ \E c \in Conns, p \in Prompts : AnswerMalformed(c, p)
  <2>1. UNCHANGED <<stream, flush, buffer, buffering, unseen, subscribed, received, since, fresh,
                    open>>
    BY <1>6 DEF RejectAllPending, AnswerMalformed, journalVars, bufferVars, connVars
  <2>2. Reliable' => Reliable
    BY <2>1 DEF Reliable, NoDeadSinks
  <2> QED
    BY <2>1, <2>2, SameSent
<1>7. ASSUME NEW c \in Conns, NEW seq, BeginResumeAfter(c, seq)
      PROVE  Sent'
  <2>1. UNCHANGED <<stream, flush, buffer, buffering, unseen, subscribed, received, since, fresh,
                    open>>
    BY <1>7 DEF BeginResumeAfter, journalVars, bufferVars
  <2>2. Reliable' => Reliable
    BY <2>1 DEF Reliable, NoDeadSinks
  <2> QED
    BY <2>1, <2>2, SameSent
<1>8. ASSUME NEW c \in Conns, Resume(c)
      PROVE  Sent'
  BY <1>8, ResumeSent
<1>9. ASSUME NEW c \in Conns, ResumeAfter(c)
      PROVE  Sent'
  BY <1>9, ResumeAfterSent
<1>10. ASSUME NEW c \in Conns, Unsubscribe(c)
       PROVE  Sent'
  <2>1. RemoveSink(c) /\ c \in open /\ open' = open /\ stream' = stream /\ flush' = flush
    BY <1>10 DEF Unsubscribe, journalVars
  <2> QED
    BY <2>1, LeaveSent
<1>11. ASSUME NEW c \in Conns, CloseConnection(c)
       PROVE  Sent'
  <2>1. RemoveSink(c) /\ c \in open /\ open' = open \ {c} /\ stream' = stream /\ flush' = flush
    BY <1>11 DEF CloseConnection, journalVars
  <2> QED
    BY <2>1, LeaveSent
<1>12. CASE UNCHANGED vars
  <2>1. UNCHANGED <<stream, flush, buffer, buffering, unseen, subscribed, received, since, fresh,
                    open>>
    BY <1>12 DEF vars, journalVars, bufferVars, connVars
  <2>2. Reliable' => Reliable
    BY <2>1 DEF Reliable, NoDeadSinks
  <2> QED
    BY <2>1, <2>2, SameSent
<1> QED
  BY <1>1, <1>2, <1>3, <1>4, <1>5, <1>6, <1>7, <1>8, <1>9, <1>10, <1>11, <1>12
     DEF Next, ServerStep, SessionStep, ClientStep

(***************************************************************************)
(* A connection that resumed has every item from its cursor on, or since   *)
(* the buffer began or what it still holds, once and in order: the journal *)
(* is read when all that was emitted is in it, the buffer mirrors what was *)
(* emitted while nobody followed the thread, and what comes later is sent. *)
(***************************************************************************)
THEOREM NothingIsMissed == Spec => []SubscriberMissesNothing
<1>1. Init => FeedInv
  BY InitTypes, InitQueue, InitFeed DEF FeedInv
<1>2. FeedInv /\ [Next]_vars => FeedInv'
  BY TypesStep, QueueStep, WaitsStep, SentStep DEF FeedInv
<1>3. FeedInv => SubscriberMissesNothing
  <2> SUFFICES ASSUME FeedInv, NoDeadSinks, flush # "failed", NEW c \in fresh
               PROVE  /\ ItemsIn(received[c]) = ItemsIn(SubSeq(stream, since[c] + 1, Len(stream)))
                      /\ InOrder(received[c])
    BY DEF SubscriberMissesNothing
  <2>1. since[c] <= Len(stream) /\ Covers(stream, received[c], since[c])
    BY DEF FeedInv, Sent, Reliable, Followed
  <2>2. /\ stream \in Seq(Entry) /\ received[c] \in Seq(Entry) /\ since[c] \in Nat
        /\ Len(stream) \in Nat
    BY QueueTyped DEF FeedInv, FeedTypes, TypeOK
  <2>3. since[c] \in 0..Len(stream)
    BY <2>1, <2>2
  <2> QED
    BY <2>1, <2>2, <2>3, CoversItems
<1> QED
  BY <1>1, <1>2, <1>3, PTL DEF Spec
=============================================================================
