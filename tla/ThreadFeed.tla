----------------------------- MODULE ThreadFeed -----------------------------
(***************************************************************************)
(* The feed of one thread: the events its session emits, the journal they  *)
(* are written to, the buffer that keeps them while nobody is connected,   *)
(* and the connections that resume the thread, are shown its events and    *)
(* answer its prompts.                                                     *)
(*                                                                         *)
(* The server is one JavaScript thread. A step is what a handler does up   *)
(* to an await that reaches the event loop; a handler whose await resolved *)
(* goes on before any other begins.                                        *)
(***************************************************************************)
EXTENDS Naturals, SequencesExt

CONSTANTS
  Conns,         \* the connections; a client that reconnects is another one
  Prompts,       \* identities for the prompts tools put to the user
  MaxEntries,    \* bound on the journal's entries
  MaxBuffer      \* MAX_DISCONNECTED_REPLAY_EVENTS

ASSUME MaxBufferAssumption == MaxBuffer \in Nat \ {0}

VARIABLES
  stream,         \* all that was given to the journal, in order
  journal,        \* thread_journal_events, seq by seq
  batch,          \* what is being appended to it
  pendingEvents,  \* what came in meanwhile
  flush,          \* "none", "writing", or "failed": the queue's promise is rejected
  buffering,      \* bufferDisconnectedEvents
  buffer,         \* disconnectedReplayEvents
  open,           \* the connections that are open
  subscribed,     \* the connections with a sink on the thread
  resuming,       \* thread/resume with a cursor: "no", "waiting" for the journal, "ready"
  afterSeq,       \* its cursor
  known,          \* pendingServerRequests of a connection
  asked,          \* pendingAsk of the session
  refused,        \* the prompts an answer to which was refused
  received,       \* what a fresh connection was sent since it resumed
  since,          \* the length of the stream from where it must have all of it
  fresh,          \* the connections that resumed when they were not subscribed
  unseen          \* the position in the stream of the first entry nobody was sent
                  \* and the buffer has not dropped; 0 while the thread is followed

journalVars == <<stream, journal, batch, pendingEvents, flush>>
bufferVars == <<buffering, buffer, unseen>>
connVars == <<open, subscribed, resuming, afterSeq, known, received, since, fresh>>
promptVars == <<asked, refused>>
vars == <<journalVars, bufferVars, connVars, promptVars>>

Items == [kind : {"item"}, id : 1..MaxEntries]
Entry == Items \cup [kind : {"ask", "resolved"}, id : Prompts]

TypeOK ==
  /\ stream \in Seq(Entry)
  /\ journal \in Seq(Entry)
  /\ batch \in Seq(Entry)
  /\ pendingEvents \in Seq(Entry)
  /\ flush \in {"none", "writing", "failed"}
  /\ buffering \in BOOLEAN
  /\ buffer \in Seq(Entry) /\ Len(buffer) <= MaxBuffer
  /\ open \subseteq Conns
  /\ subscribed \subseteq Conns
  /\ resuming \in [Conns -> {"no", "waiting", "ready"}]
  /\ afterSeq \in [Conns -> Nat]
  /\ known \in [Conns -> SUBSET Prompts]
  /\ asked \subseteq Prompts
  /\ refused \subseteq Prompts
  /\ received \in [Conns -> Seq(Entry)]
  /\ since \in [Conns -> Nat]
  /\ fresh \subseteq Conns
  /\ unseen \in Nat

Init ==
  /\ stream = <<>>
  /\ journal = <<>>
  /\ batch = <<>>
  /\ pendingEvents = <<>>
  /\ flush = "none"
  /\ buffering = FALSE
  /\ buffer = <<>>
  /\ open = Conns
  /\ subscribed = {}
  /\ resuming = [c \in Conns |-> "no"]
  /\ afterSeq = [c \in Conns |-> 0]
  /\ known = [c \in Conns |-> {}]
  /\ asked = {}
  /\ refused = {}
  /\ received = [c \in Conns |-> <<>>]
  /\ since = [c \in Conns |-> 0]
  /\ fresh = {}
  /\ unseen = 0

\* No handler is between its await and what follows it.
Idle == \A c \in Conns : resuming[c] # "ready"

-----------------------------------------------------------------------------
(* ThreadJournal *)

\* enqueue; after a failed append the thread still counts as being flushed.
Enqueue(entries) ==
  /\ Len(stream) + Len(entries) <= MaxEntries
  /\ stream' = stream \o entries
  /\ IF flush = "none"
       THEN flush' = "writing" /\ batch' = entries /\ UNCHANGED pendingEvents
       ELSE pendingEvents' = pendingEvents \o entries /\ UNCHANGED <<flush, batch>>
  /\ UNCHANGED journal

\* waitForIdle: what waits for the queue's promise goes on when it settles.
Released == [c \in Conns |-> IF resuming[c] = "waiting" THEN "ready" ELSE resuming[c]]

\* Mutant: one batch, whatever came in meanwhile.
FlushedOnce == TRUE
Flushed == pendingEvents = <<>>

AppendBatch ==
  /\ Idle
  /\ flush = "writing"
  /\ journal' = journal \o batch
  /\ IF Flushed
       THEN /\ flush' = "none"
            /\ batch' = <<>>
            /\ resuming' = Released
            /\ UNCHANGED pendingEvents
       ELSE /\ batch' = pendingEvents
            /\ pendingEvents' = <<>>
            /\ UNCHANGED <<flush, resuming>>
  /\ UNCHANGED <<stream, bufferVars, open, subscribed, afterSeq, known, received,
                 since, fresh, promptVars>>

FailAppend ==
  /\ Idle
  /\ flush = "writing"
  /\ flush' = "failed"
  /\ batch' = <<>>
  /\ resuming' = Released
  /\ UNCHANGED <<stream, journal, pendingEvents, bufferVars, open, subscribed,
                 afterSeq, known, received, since, fresh, promptVars>>

-----------------------------------------------------------------------------
(* The session emits: to the buffer, the journal's sink and the connections *)

Overflows == Len(buffer) = MaxBuffer

\* Mutant: the buffer is not cut.
BufferAll(e) == Append(buffer, e)
BufferNewest(e) == IF Overflows THEN Append(Tail(buffer), e) ELSE Append(buffer, e)

\* Where the oldest buffered entry may be in the stream.
Dropped == {i \in 1..Len(stream) : 0 < unseen /\ unseen <= i /\ stream[i] = Head(buffer)}

Keep(e) ==
  /\ buffer' = (IF buffering THEN BufferNewest(e) ELSE buffer)
  /\ unseen' = (IF buffering /\ Overflows /\ Dropped # {} THEN Min(Dropped) + 1 ELSE unseen)
  /\ UNCHANGED buffering

Send(e) == received' = [c \in Conns |-> IF c \in fresh THEN Append(received[c], e)
                                        ELSE received[c]]

Item(n) == [kind |-> "item", id |-> n]
Ask(p) == [kind |-> "ask", id |-> p]
Resolved(p) == [kind |-> "resolved", id |-> p]

EmitItem ==
  /\ Idle
  /\ LET e == Item(Len(stream) + 1) IN Enqueue(<<e>>) /\ Keep(e) /\ Send(e)
  /\ UNCHANGED <<open, subscribed, resuming, afterSeq, known, since, fresh, promptVars>>

\* onServerRequest of the connections that have a sink.
Presented(p) == [c \in Conns |-> IF c \in subscribed THEN known[c] \cup {p} ELSE known[c]]

AskUser(p) ==
  /\ Idle
  /\ \A i \in 1..Len(stream) : stream[i] # Ask(p)
  /\ asked' = asked \cup {p}
  /\ Enqueue(<<Ask(p)>>) /\ Keep(Ask(p)) /\ Send(Ask(p))
  /\ known' = Presented(p)
  /\ UNCHANGED <<open, subscribed, resuming, afterSeq, since, fresh, refused>>

\* The turn is cancelled or ends.
RejectAllPending ==
  /\ Idle
  /\ asked # {}
  /\ asked' = {}
  /\ UNCHANGED <<journalVars, bufferVars, connVars, refused>>

-----------------------------------------------------------------------------
(* routeResponse *)

\* serverRequest/resolved goes to this connection and to the journal. The
\* prompt may have been settled already.
AnswerPrompt(c, p) ==
  /\ Idle
  /\ c \in open
  /\ p \in known[c]
  /\ asked' = asked \ {p}
  /\ known' = [known EXCEPT ![c] = @ \ {p}]
  /\ Enqueue(<<Resolved(p)>>)
  /\ UNCHANGED <<bufferVars, open, subscribed, resuming, afterSeq, received, since,
                 fresh, refused>>

\* A blank answer: handleAskResponse emits the prompt again, which presents it to
\* every connection; then this one forgets it.
AnswerBlank(c, p) ==
  /\ Idle
  /\ c \in open
  /\ p \in known[c] \cap asked
  /\ refused' = refused \cup {p}
  /\ Keep(Ask(p)) /\ Send(Ask(p))
  /\ known' = [Presented(p) EXCEPT ![c] = @ \ {p}]
  /\ Enqueue(<<Ask(p), Resolved(p)>>)
  /\ UNCHANGED <<open, subscribed, resuming, afterSeq, since, fresh, asked>>

\* Neither answer nor content: an error for this connection, which forgets the prompt.
AnswerMalformed(c, p) ==
  /\ Idle
  /\ c \in open
  /\ p \in known[c]
  /\ refused' = refused \cup {p}
  /\ known' = [known EXCEPT ![c] = @ \ {p}]
  /\ UNCHANGED <<journalVars, bufferVars, open, subscribed, resuming, afterSeq, received,
                 since, fresh, asked>>

-----------------------------------------------------------------------------
(* thread/resume *)

AsksIn(entries) == {entries[i].id : i \in {j \in 1..Len(entries) : entries[j].kind = "ask"}}

\* Mutant: prompts that the replay already showed are presented again.
PromptsNotSkipped(replayed) == asked
PromptsToPresent(replayed) == asked \ AsksIn(replayed)

\* Mutant: a replayed request is sent and not registered.
RegisterNone(replayed) == {}
Registered(replayed) == AsksIn(replayed)

\* subscribeThread: a sink, what the replay holds, then the pending prompts.
Subscribe(c, replayed, from) ==
  LET prompts == PromptsToPresent(replayed)
      presented == SetToSeq({Ask(p) : p \in prompts}) IN
    /\ subscribed' = subscribed \cup {c}
    /\ received' = [received EXCEPT ![c] = replayed \o presented]
    /\ known' = [known EXCEPT ![c] = @ \cup Registered(replayed) \cup prompts]
    /\ since' = [since EXCEPT ![c] = from]
    /\ fresh' = fresh \cup {c}

\* Without a cursor: the buffer is drained if the thread has no other connection.
Resume(c) ==
  /\ Idle
  /\ c \in open \ subscribed
  /\ resuming[c] = "no"
  /\ LET from == IF unseen = 0 THEN Len(stream) ELSE unseen - 1 IN
       IF subscribed = {}
         THEN Subscribe(c, buffer, from) /\ buffering' = FALSE /\ buffer' = <<>>
         ELSE Subscribe(c, <<>>, from) /\ UNCHANGED <<buffering, buffer>>
  /\ unseen' = 0
  /\ UNCHANGED <<journalVars, open, resuming, afterSeq, promptVars>>

\* Mutant: the journal is not waited for.
DoNotWait == "ready"
WaitForIdle == IF flush = "writing" THEN "waiting" ELSE "ready"

BeginResumeAfter(c, seq) ==
  /\ Idle
  /\ c \in open
  /\ resuming[c] = "no"
  /\ resuming' = [resuming EXCEPT ![c] = WaitForIdle]
  /\ afterSeq' = [afterSeq EXCEPT ![c] = seq]
  /\ UNCHANGED <<journalVars, bufferVars, open, subscribed, known, received, since,
                 fresh, promptVars>>

\* beginDisconnectedReplayBuffer, journal.replay, subscribe. A connection that
\* already has a sink is sent the replay and nothing else, and the buffer that was
\* begun stays. Whether the connection is still there is not looked at.
ResumeAfter(c) ==
  LET replayed == SubSeq(journal, afterSeq[c] + 1, Len(journal)) IN
    /\ resuming[c] = "ready"
    /\ resuming' = [resuming EXCEPT ![c] = "no"]
    /\ IF c \in subscribed
         THEN /\ received' = [received EXCEPT ![c] = <<>>]
              /\ since' = [since EXCEPT ![c] = 0]
              /\ known' = [known EXCEPT ![c] = @ \cup Registered(replayed)]
              /\ fresh' = fresh \ {c}
              /\ buffering' = TRUE
              /\ UNCHANGED <<subscribed, unseen>>
         ELSE /\ Subscribe(c, replayed, afterSeq[c])
              /\ buffering' = FALSE
              /\ unseen' = (IF c \in open THEN 0 ELSE unseen)
    /\ buffer' = <<>>
    /\ afterSeq' = [afterSeq EXCEPT ![c] = 0]
    /\ UNCHANGED <<journalVars, open, promptVars>>

-----------------------------------------------------------------------------
(* Leaving *)

\* removeBindingSink and maybeBeginDisconnectedReplayBuffer.
RemoveSink(c) ==
  /\ subscribed' = subscribed \ {c}
  /\ fresh' = fresh \ {c}
  /\ received' = [received EXCEPT ![c] = <<>>]
  /\ since' = [since EXCEPT ![c] = 0]
  /\ IF subscribed = {c}
       THEN buffering' = TRUE /\ buffer' = <<>>
       ELSE UNCHANGED <<buffering, buffer>>
  /\ unseen' = (IF subscribed \cap open = {c} THEN Len(stream) + 1 ELSE unseen)

Unsubscribe(c) ==
  /\ Idle
  /\ c \in open \cap subscribed
  /\ RemoveSink(c)
  /\ UNCHANGED <<journalVars, open, resuming, afterSeq, known, promptVars>>

CloseConnection(c) ==
  /\ Idle
  /\ c \in open
  /\ open' = open \ {c}
  /\ RemoveSink(c)
  /\ known' = [known EXCEPT ![c] = {}]
  /\ UNCHANGED <<journalVars, resuming, afterSeq, promptVars>>

ServerStep == AppendBatch \/ FailAppend \/ \E c \in Conns : ResumeAfter(c)

SessionStep == EmitItem \/ RejectAllPending \/ \E p \in Prompts : AskUser(p)

ClientStep(c) ==
  \/ Resume(c)
  \/ \E seq \in 1..Len(journal) : BeginResumeAfter(c, seq)
  \/ Unsubscribe(c)
  \/ CloseConnection(c)
  \/ \E p \in Prompts : AnswerPrompt(c, p) \/ AnswerBlank(c, p) \/ AnswerMalformed(c, p)

Next == ServerStep \/ SessionStep \/ \E c \in Conns : ClientStep(c)

Spec == Init /\ [][Next]_vars

-----------------------------------------------------------------------------
(* Properties *)

\* The items among the entries, and that they come in the order of their numbers.
ItemsIn(entries) == {entries[i] : i \in {j \in 1..Len(entries) : entries[j].kind = "item"}}
InOrder(entries) ==
  \A i, j \in 1..Len(entries) :
    i < j /\ entries[i].kind = "item" /\ entries[j].kind = "item" => entries[i].id < entries[j].id

\* No connection was closed while its resume waited: that leaves a sink behind.
NoDeadSinks == subscribed \subseteq open

(***************************************************************************)
(* A connection that resumed has been sent every item from its cursor on,  *)
(* or since the buffer began, each once and in order (items are numbered   *)
(* by their place in the stream): replayed, buffered and live items fit    *)
(* together. (Unless an append failed.)                                    *)
(***************************************************************************)
SubscriberMissesNothing ==
  NoDeadSinks /\ flush # "failed" =>
    \A c \in fresh :
      /\ ItemsIn(received[c]) = ItemsIn(SubSeq(stream, since[c] + 1, Len(stream)))
      /\ InOrder(received[c])

(***************************************************************************)
(* A prompt that is pending can be answered by every connection that       *)
(* follows the thread, whenever and however it resumed.                    *)
(***************************************************************************)
PendingPromptIsAnswerable ==
  \A c \in subscribed \cap open : asked \ refused \subseteq known[c]

(***************************************************************************)
(* A resumed connection is presented a prompt once, though the journal,    *)
(* the buffer and the list of pending prompts all may hold it.             *)
(***************************************************************************)
PromptPresentedOnce ==
  \A c \in fresh : \A p \in Prompts \ refused :
    \A i, j \in 1..Len(received[c]) : received[c][i] = Ask(p) /\ received[c][j] = Ask(p) => i = j

(***************************************************************************)
(* The journal, with what is on its way to it, is all the session emitted, *)
(* in order, and when the queue is idle nothing is left to write; after a  *)
(* failed append it is still what was emitted up to some point.            *)
(***************************************************************************)
JournalIsThePast ==
  /\ journal = SubSeq(stream, 1, Len(journal))
  /\ flush # "failed" => journal \o batch \o pendingEvents = stream
  /\ flush = "none" => journal = stream
=============================================================================
