----------------------------- MODULE ClientLink -----------------------------
(***************************************************************************)
(* The client's end of the JSON-RPC connection: JsonRpcSocket with its     *)
(* handshake, timeouts, reconnection and queue of retryable operations, as *)
(* the clients use it that let it reconnect, and the desktop client, which *)
(* calls connect again before a request when the socket was not opened.    *)
(* Server and network may accept, answer, refuse, say nothing or go away.  *)
(***************************************************************************)
EXTENDS Naturals, Sequences, FiniteSets

CONSTANTS
  Slots,        \* bound on the WebSockets and reconnections at a time, numbers
  MaxAttempts,  \* maxReconnectAttempts
  MaxQueued,    \* maxQueuedMessages
  MaxOps        \* bound on the requests and notifications

ASSUME ClientLinkAssumption ==
  /\ Slots \subseteq Nat \ {0} /\ Slots # {} /\ IsFiniteSet(Slots)
  /\ {MaxAttempts, MaxQueued, MaxOps} \subseteq Nat

VARIABLES
  me,     \* the fields of the JsonRpcSocket
  net,    \* its WebSockets, by slot: where each is, and its handshake
  op,     \* the operations, numbered as they were asked for
  wire,   \* operations sent to a server, in order
  again   \* connect was called while a reconnection was due

vars == <<me, net, op, wire, again>>

\* A WebSocket: readyState, with "closing" until its close event; the socket the
\* initialize request of its open handler went to, or 0; whether its server has
\* accepted one.
NoSocket == [at |-> "none", shake |-> 0, greeted |-> FALSE]

\* After the constructor and the connect that follows it; opened is the flag the
\* desktop client keeps from onOpen and onClose.
Init ==
  /\ LET s == CHOOSE s \in Slots : TRUE IN
       /\ me = [ws |-> s, initialized |-> FALSE, attempt |-> 0, timers |-> {}, handle |-> 0,
                openTimer |-> s, shakeTimer |-> 0, intentional |-> FALSE, exhausted |-> FALSE,
                ready |-> "pending", opened |-> FALSE, queue |-> <<>>]
       /\ net = [t \in Slots |-> IF t = s THEN [NoSocket EXCEPT !.at = "connecting"] ELSE NoSocket]
  /\ op = <<>>
  /\ wire = <<>>
  /\ again = FALSE

-----------------------------------------------------------------------------
(* The parts handlers share *)

\* Mutant: no timeout is armed.
ArmNoOpenTimeout(m, s) == m

ArmOpenTimeout(m, s) == [m EXCEPT !.openTimer = s]

\* Mutant: no timeout is armed.
ArmNoHandshakeTimeout(m, s) == m

ArmHandshakeTimeout(m, s) == [m EXCEPT !.shakeTimer = s]

ClearConnectionTimeouts(m) == [m EXCEPT !.openTimer = 0, !.shakeTimer = 0]

IsOpen(m, n) == m.ws # 0 /\ n[m.ws].at = "open"
IsReady(m, n) == m.initialized /\ IsOpen(m, n)

\* WebSockets and reconnections that are due; only a further connect adds to them.
Links == Cardinality({s \in Slots : net[s] # NoSocket}) + Cardinality(me.timers)

\* doConnect, in a free slot
Free == {s \in Slots : net[s] = NoSocket}
DoConnect(m) ==
  /\ Free # {}
  /\ LET s == CHOOSE s \in Free : TRUE
     IN /\ net' = [net EXCEPT ![s].at = "connecting"]
        /\ me' = ArmOpenTimeout([m EXCEPT !.ws = s, !.initialized = FALSE, !.exhausted = FALSE], s)

\* failInitialization: a socket that is still current is closed; its close event
\* does the rest.
FailInitialization(m, n, s) ==
  IF m.ws = s /\ ~m.initialized
    THEN /\ me' = ClearConnectionTimeouts(m)
         /\ net' = [n EXCEPT ![s].at = "closing"]
    ELSE /\ me' = m
         /\ net' = n

\* rejectPendingRequests: whatever socket they were sent to
RejectPending(ops) == [r \in DOMAIN ops |-> IF ops[r].at = "pending" THEN [ops[r] EXCEPT !.at = "failed"] ELSE ops[r]]
Unshaken(n) == [s \in Slots |-> [n[s] EXCEPT !.shake = 0]]

\* Mutant: the requests are left alone.
KeepQueued(ops) == ops

\* rejectQueuedRequests: notifications are dropped.
RejectQueued(ops) == [r \in DOMAIN ops |-> IF ops[r].at = "queued" THEN [ops[r] EXCEPT !.at = "failed"] ELSE ops[r]]

\* What an operation is once it is sent to s: nobody waits for a notification.
Sent(o, s) == IF o.kind = "request" THEN [o EXCEPT !.at = "pending", !.on = s] ELSE [o EXCEPT !.at = "done"]

\* Mutant: the queue is kept.
QueueKept(queue) == queue

\* flushQueuedOperations takes the queue.
QueueTaken(queue) == <<>>

\* Mutant: one attempt too many.
OutOfAttemptsLate(m) == m.attempt > MaxAttempts

OutOfAttempts(m) == m.attempt >= MaxAttempts

\* scheduleReconnect: the handle is that of the last timer set.
Later(m) ==
  LET id == CHOOSE k \in 1..Cardinality(m.timers) + 1 : k \notin m.timers
  IN [m EXCEPT !.attempt = @ + 1, !.timers = @ \cup {id}, !.handle = id]

\* Mutant: the reconnection stays due.
NotCancelled(m) == [m EXCEPT !.handle = 0, !.attempt = 0]

\* cancelReconnect
CancelReconnect(m) == [m EXCEPT !.timers = @ \ {m.handle}, !.handle = 0, !.attempt = 0]

-----------------------------------------------------------------------------
(* Server and network *)

\* The open handler: initialize goes to whatever socket is current.
Opens(s) ==
  LET m == ArmHandshakeTimeout([me EXCEPT !.openTimer = 0], s)
      n == [net EXCEPT ![s].at = "open"]
  IN /\ net[s].at = "connecting"
     /\ me' = m
     /\ net' = IF IsOpen(m, n) THEN [n EXCEPT ![s].shake = m.ws] ELSE n
     /\ UNCHANGED <<op, wire, again>>

\* The first initialize of a connection is answered, and performHandshake goes on
\* with the socket that is current by now: the queue is sent.
Initialized(s) ==
  LET t == net[s].shake
      n == [net EXCEPT ![s].shake = 0, ![t].greeted = TRUE]
      m == [me EXCEPT !.shakeTimer = 0, !.initialized = TRUE, !.attempt = 0, !.opened = TRUE,
                      !.ready = IF @ = "pending" THEN "resolved" ELSE @, !.queue = QueueTaken(@)]
  IN /\ t # 0 /\ net[t].at = "open" /\ ~net[t].greeted
     /\ IF IsOpen(me, net)
          THEN /\ me' = m
               /\ net' = n
               /\ op' = [r \in DOMAIN op |-> IF op[r].at = "queued" THEN Sent(op[r], me.ws) ELSE op[r]]
               /\ wire' = wire \o me.queue
          ELSE FailInitialization(me, n, s) /\ UNCHANGED <<op, wire>>
     /\ UNCHANGED again

\* An error answers it: bad parameters, or a second one.
Refused(s) ==
  LET t == net[s].shake IN
  /\ t # 0 /\ net[t].at = "open"
  /\ FailInitialization(me, [net EXCEPT ![s].shake = 0], s)
  /\ UNCHANGED <<op, wire, again>>

\* handleResponse
Answered(r) ==
  /\ op[r].at = "pending" /\ net[op[r].on].at = "open"
  /\ op' = [op EXCEPT ![r].at = "done"]
  /\ UNCHANGED <<me, net, wire, again>>

Drops(s) ==
  /\ net[s].at \in {"connecting", "open"}
  /\ net' = [net EXCEPT ![s].at = "closing"]
  /\ UNCHANGED <<me, op, wire, again>>

\* The close handler, of whatever socket: the current one is given up.
CloseEvent(s) ==
  LET m == ClearConnectionTimeouts([me EXCEPT !.initialized = FALSE, !.ws = 0])
      reset == IF me.initialized THEN [m EXCEPT !.ready = "pending"] ELSE m
      over == [m EXCEPT !.ready = IF @ = "pending" THEN "rejected" ELSE @, !.opened = FALSE, !.queue = <<>>]
      tired == [reset EXCEPT !.ready = IF @ = "pending" THEN "rejected" ELSE @, !.opened = FALSE, !.queue = <<>>,
                             !.exhausted = TRUE]
  IN /\ net[s].at = "closing"
     /\ net' = Unshaken([net EXCEPT ![s] = NoSocket])
     /\ \/ /\ ~me.intentional /\ ~OutOfAttempts(me)
           /\ me' = Later(reset)
           /\ op' = RejectPending(op)
        \/ /\ ~me.intentional /\ OutOfAttempts(me)
           /\ me' = tired
           /\ op' = RejectQueued(RejectPending(op))
        \/ /\ me.intentional
           /\ me' = over
           /\ op' = RejectQueued(RejectPending(op))
     /\ UNCHANGED <<wire, again>>

-----------------------------------------------------------------------------
(* Timers *)

OpenTimesOut ==
  /\ me.openTimer # 0
  /\ FailInitialization([me EXCEPT !.openTimer = 0], net, me.openTimer)
  /\ UNCHANGED <<op, wire, again>>

HandshakeTimesOut ==
  /\ me.shakeTimer # 0
  /\ FailInitialization([me EXCEPT !.shakeTimer = 0], net, me.shakeTimer)
  /\ UNCHANGED <<op, wire, again>>

Reconnects(id) ==
  /\ id \in me.timers
  /\ DoConnect([me EXCEPT !.timers = @ \ {id}, !.handle = 0])
  /\ UNCHANGED <<op, wire, again>>

-----------------------------------------------------------------------------
(* The application *)

\* request and notify: sent now, queued until the handshake, or refused.
Asks(kind, retryable) ==
  LET o == [kind |-> kind, at |-> "failed", on |-> 0]
      r == Len(op) + 1
      mayQueue == ~me.exhausted /\ retryable /\ ~me.intentional /\ Len(me.queue) < MaxQueued
  IN /\ r <= MaxOps
     /\ \/ /\ IsReady(me, net)
           /\ op' = Append(op, Sent(o, me.ws))
           /\ wire' = Append(wire, r)
           /\ UNCHANGED me
        \/ /\ ~IsReady(me, net) /\ mayQueue
           /\ op' = Append(op, [o EXCEPT !.at = "queued"])
           /\ me' = [me EXCEPT !.queue = Append(@, r)]
           /\ UNCHANGED wire
        \/ /\ ~IsReady(me, net) /\ ~mayQueue
           /\ op' = Append(op, o)
           /\ UNCHANGED <<me, wire>>
     /\ UNCHANGED <<net, again>>

\* ensureWorkspaceJsonRpcSocket: connect, once more, if the socket is not known to
\* have opened; a timer that is set stays set.
EnsureConnected ==
  /\ ~me.intentional /\ ~me.opened /\ me.ws = 0
  /\ Links < Cardinality(Slots)
  /\ DoConnect([me EXCEPT !.ready = "pending"])
  /\ again' = (again \/ me.timers # {})
  /\ UNCHANGED <<op, wire>>

\* close, after which the object is not used again.
Close ==
  LET m == ClearConnectionTimeouts(CancelReconnect(me)) IN
  /\ ~me.intentional
  /\ me' = [m EXCEPT !.intentional = TRUE, !.exhausted = FALSE, !.initialized = FALSE, !.ws = 0, !.queue = <<>>]
  /\ net' = Unshaken(IF me.ws # 0 THEN [net EXCEPT ![me.ws].at = "closing"] ELSE net)
  /\ op' = RejectQueued(RejectPending(op))
  /\ UNCHANGED <<wire, again>>

-----------------------------------------------------------------------------
SocketStep(s) == Opens(s) \/ Initialized(s) \/ Refused(s) \/ Drops(s) \/ CloseEvent(s)

Next ==
  \/ \E s \in Slots : SocketStep(s)
  \/ \E r \in DOMAIN op : Answered(r)
  \/ OpenTimesOut \/ HandshakeTimesOut
  \/ \E id \in 1..Cardinality(Slots) : Reconnects(id)
  \/ \E kind \in {"request", "note"}, retryable \in BOOLEAN : Asks(kind, retryable)
  \/ EnsureConnected \/ Close

\* Timers fire and sockets that close say so. Neither server nor network owes an
\* answer.
Fairness ==
  /\ \A s \in Slots : WF_vars(CloseEvent(s))
  /\ WF_vars(OpenTimesOut) /\ WF_vars(HandshakeTimesOut)
  /\ \A id \in 1..Cardinality(Slots) : WF_vars(Reconnects(id))

Spec == Init /\ [][Next]_vars /\ Fairness
-----------------------------------------------------------------------------
\* The sockets, timers, counters and operations are of their types, and no more
\* attempts are made than allowed.
TypeOK ==
  /\ me \in [ws : Slots \cup {0}, initialized : BOOLEAN, attempt : 0..MaxAttempts,
             timers : SUBSET (1..Cardinality(Slots)), handle : 0..Cardinality(Slots),
             openTimer : Slots \cup {0}, shakeTimer : Slots \cup {0}, intentional : BOOLEAN,
             exhausted : BOOLEAN, ready : {"pending", "resolved", "rejected"}, opened : BOOLEAN,
             queue : Seq(1..MaxOps)]
  /\ net \in [Slots -> [at : {"none", "connecting", "open", "closing"}, shake : Slots \cup {0},
                        greeted : BOOLEAN]]
  /\ op \in Seq([kind : {"request", "note"}, at : {"queued", "pending", "done", "failed"},
                 on : Slots \cup {0}])
  /\ Len(op) <= MaxOps /\ Len(me.queue) <= MaxQueued

\* Nothing waits for what cannot come: a queued operation has a connection that is
\* being made or will be, and a request that was sent a socket whose close event
\* would still reject it, also when sockets overlap.
WaitingHasAHope ==
  \A r \in DOMAIN op :
    /\ op[r].at = "queued" => me.ws # 0 \/ me.timers # {}
    /\ op[r].at = "pending" => net[op[r].on].at # "none"

\* What the servers are sent is what was asked for, in that order, nothing twice,
\* across queueing and reconnection (request, flushQueuedOperations).
WireFollowsCalls == \A i, j \in DOMAIN wire : i < j => wire[i] < wire[j]

\* One connection at a time, or one reconnection that is due, and after close neither,
\* unless connect was called again meanwhile: timeouts, late close events, failed
\* handshakes and close leave no socket or timer behind.
OneConnection ==
  \/ again
  \/ /\ Links <= 1
     /\ me.intentional => me.timers = {} /\ \A s \in Slots : net[s].at \in {"none", "closing"}

\* A queued operation is sent or refused in the end, with a server that never
\* answers too: each attempt has its timeouts, and attempts run out.
QueuedEnds == me.queue # <<>> ~> me.queue = <<>> \/ again

\* So is readiness decided, unless the client closes the socket.
ReadySettles == me.ready = "pending" ~> me.ready # "pending" \/ me.intentional \/ again
=============================================================================
