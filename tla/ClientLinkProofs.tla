-------------------------- MODULE ClientLinkProofs --------------------------
(***************************************************************************)
(* Proofs about ClientLink, for any number of sockets, attempts, queued    *)
(* and asked-for operations: its types, that nothing waits for what cannot *)
(* come, that operations are sent in order, and that one connection is     *)
(* kept at a time.                                                         *)
(***************************************************************************)
EXTENDS ClientLink, SequenceTheorems, FiniteSetTheorems, TLAPS

Operation == [kind : {"request", "note"}, at : {"queued", "pending", "done", "failed"},
              on : Slots \cup {0}]

Socket == [at : {"none", "connecting", "open", "closing"}, shake : Slots \cup {0},
           greeted : BOOLEAN]

Fields == [ws : Slots \cup {0}, initialized : BOOLEAN, attempt : 0..MaxAttempts,
           timers : SUBSET (1..Cardinality(Slots)), handle : 0..Cardinality(Slots),
           openTimer : Slots \cup {0}, shakeTimer : Slots \cup {0}, intentional : BOOLEAN,
           exhausted : BOOLEAN, ready : {"pending", "resolved", "rejected"}, opened : BOOLEAN,
           queue : Seq(1..MaxOps)]

\* The sockets that are not gone.
Busy == {s \in Slots : net[s] # NoSocket}

\* A slot without a socket is in no state, and the current socket is one.
SocketsLive ==
  /\ \A s \in Slots : net[s].at = "none" => net[s] = NoSocket
  /\ me.ws # 0 => net[me.ws].at # "none"

Typed ==
  /\ me \in Fields
  /\ net \in [Slots -> Socket]
  /\ op \in Seq(Operation)
  /\ Len(op) <= MaxOps /\ Len(me.queue) <= MaxQueued

TypeInv ==
  /\ Typed
  /\ SocketsLive
  /\ Links <= Cardinality(Slots)

-----------------------------------------------------------------------------
(* Sequences of operations *)

LEMMA Constants ==
  /\ 0 \notin Slots /\ Slots \subseteq Nat /\ Slots # {}
  /\ IsFiniteSet(Slots) /\ Cardinality(Slots) \in Nat
  /\ MaxAttempts \in Nat /\ MaxQueued \in Nat /\ MaxOps \in Nat
BY ClientLinkAssumption, FS_CardinalityType

\* A function on the numbers of a sequence's elements is a sequence.
LEMMA MapIsSeq ==
  ASSUME NEW S, NEW n \in Nat, NEW f \in [1..n -> S]
  PROVE  f \in Seq(S) /\ Len(f) = n /\ DOMAIN f = 1..n
<1>1. f \in Seq(S)
  BY SeqDef
<1>2. DOMAIN f = 1..n
  OBVIOUS
<1>3. QED
  BY <1>1, <1>2, LenProperties

\* Rejecting keeps operations operations, and their number.
LEMMA Rejects ==
  ASSUME NEW ops \in Seq(Operation)
  PROVE  /\ RejectPending(ops) \in Seq(Operation) /\ Len(RejectPending(ops)) = Len(ops)
         /\ RejectQueued(ops) \in Seq(Operation) /\ Len(RejectQueued(ops)) = Len(ops)
<1>1. Len(ops) \in Nat /\ DOMAIN ops = 1..Len(ops) /\ \A r \in 1..Len(ops) : ops[r] \in Operation
  BY LenProperties, ElementOfSeq
<1>2. RejectPending(ops) \in [1..Len(ops) -> Operation]
  BY <1>1 DEF RejectPending, Operation
<1>3. RejectQueued(ops) \in [1..Len(ops) -> Operation]
  BY <1>1 DEF RejectQueued, Operation
<1>4. QED
  BY <1>1, <1>2, <1>3, MapIsSeq

-----------------------------------------------------------------------------
(* Types *)

\* Sets of slots and of timers are finite.
LEMMA SlotSets ==
  /\ \A T \in SUBSET Slots : IsFiniteSet(T) /\ Cardinality(T) \in Nat
  /\ \A T \in SUBSET (1..Cardinality(Slots)) : IsFiniteSet(T) /\ Cardinality(T) \in Nat
<1>1. IsFiniteSet(1..Cardinality(Slots))
  BY Constants, FS_Interval
<1>2. QED
  BY <1>1, Constants, FS_Subset, FS_CardinalityType

\* What stays when sockets change within their slots.
LEMMA NetMoves ==
  ASSUME TypeInv, me' \in Fields, Len(me'.queue) <= MaxQueued, UNCHANGED op,
         net' \in [Slots -> Socket],
         \A s \in Slots : net[s].at = "none" <=> net'[s].at = "none",
         \A s \in Slots : net'[s].at = "none" => net'[s] = NoSocket,
         me'.ws # 0 => net'[me'.ws].at # "none",
         me'.timers = me.timers
  PROVE  TypeInv'
<1>1. Typed'
  BY DEF TypeInv, Typed
<1>2. Links' = Links
  <2>1. \A s \in Slots : net[s] # NoSocket <=> net'[s] # NoSocket
    BY DEF TypeInv, SocketsLive, NoSocket
  <2>2. QED
    BY <2>1 DEF Links
<1>3. QED
  BY <1>1, <1>2 DEF TypeInv, SocketsLive

\* doConnect needs room for one more link.
LEMMA ConnectKeeps ==
  ASSUME TypeInv, NEW m \in Fields, Len(m.queue) <= MaxQueued, DoConnect(m), UNCHANGED op,
         Cardinality(Busy) + Cardinality(m.timers) < Cardinality(Slots)
  PROVE  TypeInv'
<1>1. PICK s \in Slots : /\ net[s] = NoSocket
                         /\ net' = [net EXCEPT ![s].at = "connecting"]
                         /\ me' = ArmOpenTimeout([m EXCEPT !.ws = s, !.initialized = FALSE, !.exhausted = FALSE], s)
  BY DEF DoConnect, Free
<1>2. /\ me' \in Fields /\ me'.queue = m.queue /\ me'.ws = s /\ me'.timers = m.timers
  BY <1>1 DEF Fields, ArmOpenTimeout
<1>3. net \in [Slots -> Socket]
  BY DEF TypeInv, Typed
<1>4. /\ net' \in [Slots -> Socket] /\ net'[s].at = "connecting"
      /\ \A t \in Slots : t # s => net'[t] = net[t]
  BY <1>1, <1>3 DEF Socket
<1>5. Typed'
  BY <1>2, <1>4 DEF TypeInv, Typed
<1>6. Busy' = Busy \cup {s} /\ s \notin Busy
  BY <1>1, <1>4 DEF Busy, NoSocket
<1>7. Cardinality(Busy') = Cardinality(Busy) + 1
  BY <1>6, SlotSets, FS_AddElement DEF Busy
<1>8. Links' <= Cardinality(Slots)
  <2>1. Links' = Cardinality(Busy') + Cardinality(m.timers)
    BY <1>2 DEF Links, Busy
  <2>2. Cardinality(Busy) \in Nat /\ Cardinality(m.timers) \in Nat
    BY SlotSets DEF Busy, Fields
  <2>3. QED
    BY <2>1, <2>2, <1>7, Constants
<1>9. SocketsLive'
  BY <1>2, <1>4 DEF TypeInv, SocketsLive
<1>10. QED
  BY <1>5, <1>8, <1>9 DEF TypeInv

\* failInitialization, from fields and sockets on the way there.
LEMMA FailKeeps ==
  ASSUME TypeInv, NEW m \in Fields, NEW n \in [Slots -> Socket], NEW s \in Slots,
         FailInitialization(m, n, s), UNCHANGED op,
         m.queue = me.queue, m.timers = me.timers, m.ws = me.ws,
         \A t \in Slots : net[t].at = "none" <=> n[t].at = "none",
         \A t \in Slots : n[t].at = "none" => n[t] = NoSocket
  PROVE  TypeInv'
<1>1. CASE m.ws = s /\ ~m.initialized
  <2>1. me' = ClearConnectionTimeouts(m) /\ net' = [n EXCEPT ![s].at = "closing"]
    BY <1>1 DEF FailInitialization
  <2>2. me' \in Fields /\ me'.queue = m.queue /\ me'.timers = m.timers /\ me'.ws = m.ws
    BY <2>1 DEF Fields, ClearConnectionTimeouts
  <2>3. /\ net' \in [Slots -> Socket] /\ net'[s].at = "closing"
        /\ \A t \in Slots : t # s => net'[t] = n[t]
    BY <2>1 DEF Socket
  <2>4. net[s].at # "none"
    BY <1>1, Constants DEF TypeInv, SocketsLive
  <2>5. QED
    BY <1>1, <2>2, <2>3, <2>4, NetMoves DEF TypeInv, Typed
<1>2. CASE ~(m.ws = s /\ ~m.initialized)
  <2>1. me' = m /\ net' = n
    BY <1>2 DEF FailInitialization
  <2>2. me'.ws \in Slots \cup {0} /\ (me'.ws # 0 => net[me'.ws].at # "none")
    BY <2>1 DEF TypeInv, SocketsLive, Fields
  <2>3. QED
    BY <2>1, <2>2, NetMoves DEF TypeInv, Typed
<1>3. QED
  BY <1>1, <1>2

\* New fields or operations, with the sockets as they are.
LEMMA FieldsMove ==
  ASSUME TypeInv, Typed', UNCHANGED net, me'.ws \in {me.ws, 0}, me'.timers = me.timers
  PROVE  TypeInv'
BY DEF TypeInv, SocketsLive, Links

LEMMA OpensTyped ==
  ASSUME TypeInv, NEW s \in Slots, Opens(s)
  PROVE  TypeInv'
<1> DEFINE m == ArmHandshakeTimeout([me EXCEPT !.openTimer = 0], s)
           n == [net EXCEPT ![s].at = "open"]
<1>1. me \in Fields /\ net \in [Slots -> Socket] /\ net[s].at = "connecting"
  BY DEF TypeInv, Typed, Opens
<1>2. m \in Fields /\ m.ws = me.ws /\ m.queue = me.queue /\ m.timers = me.timers
  BY <1>1 DEF Fields, ArmHandshakeTimeout
<1>3. n \in [Slots -> Socket] /\ n[s].at = "open" /\ \A t \in Slots : t # s => n[t] = net[t]
  BY <1>1 DEF Socket
<1>4. me' = m /\ net' = (IF IsOpen(m, n) THEN [n EXCEPT ![s].shake = m.ws] ELSE n) /\ op' = op
  BY DEF Opens
<1> HIDE DEF m, n
<1>5. /\ net' \in [Slots -> Socket] /\ net'[s].at = "open"
      /\ \A t \in Slots : t # s => net'[t] = net[t]
  BY <1>2, <1>3, <1>4 DEF Socket, Fields
<1>6. \A t \in Slots : net'[t].at = "none" <=> net[t].at = "none"
  BY <1>1, <1>5
<1>7. me'.ws # 0 => net'[me'.ws].at # "none"
  BY <1>1, <1>2, <1>4, <1>6 DEF TypeInv, SocketsLive, Fields
<1>8. QED
  BY <1>1, <1>2, <1>4, <1>5, <1>6, <1>7, NetMoves DEF TypeInv, Typed, SocketsLive

\* The answer to initialize: the socket that asked is not gone.
LEMMA AskedIsLive ==
  ASSUME TypeInv, NEW s \in Slots, net[s].shake # 0
  PROVE  net[s].at # "none" /\ net[s].shake \in Slots
BY DEF TypeInv, Typed, SocketsLive, NoSocket, Socket

\* Sending the queued operations keeps operations operations.
LEMMA SendsTyped ==
  ASSUME NEW ops \in Seq(Operation), NEW w \in Slots
  PROVE  LET sent == [r \in DOMAIN ops |-> IF ops[r].at = "queued" THEN Sent(ops[r], w) ELSE ops[r]]
         IN  sent \in Seq(Operation) /\ Len(sent) = Len(ops)
<1> DEFINE sent == [r \in DOMAIN ops |-> IF ops[r].at = "queued" THEN Sent(ops[r], w) ELSE ops[r]]
<1>1. Len(ops) \in Nat /\ DOMAIN ops = 1..Len(ops) /\ \A r \in 1..Len(ops) : ops[r] \in Operation
  BY LenProperties, ElementOfSeq
<1>2. \A r \in 1..Len(ops) : Sent(ops[r], w) \in Operation
  BY <1>1 DEF Sent, Operation
<1>3. sent \in [1..Len(ops) -> Operation]
  BY <1>1, <1>2
<1>4. QED
  BY <1>1, <1>3, MapIsSeq

LEMMA InitializedTyped ==
  ASSUME TypeInv, NEW s \in Slots, Initialized(s)
  PROVE  TypeInv'
<1> DEFINE t == net[s].shake
           n == [net EXCEPT ![s].shake = 0, ![t].greeted = TRUE]
<1>1. /\ me \in Fields /\ net \in [Slots -> Socket] /\ net[s].at # "none" /\ t \in Slots
      /\ net[t].at = "open"
  BY AskedIsLive DEF TypeInv, Typed, Initialized
<1>2. /\ n \in [Slots -> Socket]
      /\ \A u \in Slots : n[u].at = net[u].at
      /\ \A u \in Slots : u # s /\ u # t => n[u] = net[u]
  <2> DEFINE n0 == [net EXCEPT ![s].shake = 0]
  <2>1. n0 \in [Slots -> Socket] /\ \A u \in Slots : n0[u].at = net[u].at /\ (u # s => n0[u] = net[u])
    BY <1>1 DEF Socket
  <2>2. n = [n0 EXCEPT ![t].greeted = TRUE]
    OBVIOUS
  <2> HIDE DEF n0, n, t
  <2>3. n \in [Slots -> Socket] /\ \A u \in Slots : n[u].at = n0[u].at /\ (u # t => n[u] = n0[u])
    BY <1>1, <2>1, <2>2 DEF Socket
  <2>4. QED
    BY <2>1, <2>3
<1>3. \A u \in Slots : n[u].at = "none" => n[u] = NoSocket
  BY <1>1, <1>2 DEF TypeInv, SocketsLive
<1>4. CASE IsOpen(me, net)
  <2>1. /\ me' = [me EXCEPT !.shakeTimer = 0, !.initialized = TRUE, !.attempt = 0, !.opened = TRUE,
                            !.ready = IF @ = "pending" THEN "resolved" ELSE @,
                            !.queue = QueueTaken(@)]
        /\ net' = n
        /\ op' = [r \in DOMAIN op |-> IF op[r].at = "queued" THEN Sent(op[r], me.ws) ELSE op[r]]
    BY <1>4 DEF Initialized
  <2> HIDE DEF n
  <2>2. me.ws \in Slots
    BY <1>1, <1>4 DEF IsOpen, Fields
  <2>3. <<>> \in Seq(1..MaxOps) /\ Len(<<>>) = 0
    BY EmptySeq
  <2>4. me' \in Fields /\ me'.ws = me.ws /\ me'.timers = me.timers /\ me'.queue = <<>>
    <3>1. PICK ready \in {"pending", "resolved", "rejected"} :
            me' = [me EXCEPT !.shakeTimer = 0, !.initialized = TRUE, !.attempt = 0, !.opened = TRUE,
                             !.ready = ready, !.queue = <<>>]
      BY <1>1, <2>1 DEF QueueTaken, Fields
    <3>2. 0 \in 0..MaxAttempts
      BY Constants
    <3>3. QED
      BY <1>1, <2>3, <3>1, <3>2 DEF Fields
  <2>5. op' \in Seq(Operation) /\ Len(op') = Len(op)
    BY <2>1, <2>2, SendsTyped DEF TypeInv, Typed
  <2>6. Typed'
    BY <1>2, <2>1, <2>3, <2>4, <2>5, Constants DEF TypeInv, Typed
  <2>7. SocketsLive'
    BY <1>2, <1>3, <2>1, <2>2, <2>4 DEF TypeInv, SocketsLive
  <2>8. Links' = Links
    <3>1. \A u \in Slots : net[u] # NoSocket <=> net'[u] # NoSocket
      BY <1>2, <1>3, <2>1 DEF TypeInv, SocketsLive, NoSocket
    <3>2. QED
      BY <2>4, <3>1 DEF Links
  <2>9. QED
    BY <2>6, <2>7, <2>8 DEF TypeInv
<1>5. CASE ~IsOpen(me, net)
  <2>1. FailInitialization(me, n, s) /\ UNCHANGED op
    BY <1>5 DEF Initialized
  <2> HIDE DEF n
  <2>2. QED
    BY <1>1, <1>2, <1>3, <2>1, FailKeeps
<1>6. QED
  BY <1>4, <1>5

LEMMA RefusedTyped ==
  ASSUME TypeInv, NEW s \in Slots, Refused(s)
  PROVE  TypeInv'
<1> DEFINE n == [net EXCEPT ![s].shake = 0]
<1>1. me \in Fields /\ net \in [Slots -> Socket] /\ net[s].at # "none"
  BY AskedIsLive DEF TypeInv, Typed, Refused
<1>2. /\ n \in [Slots -> Socket]
      /\ \A u \in Slots : n[u].at = net[u].at /\ (u # s => n[u] = net[u])
  BY <1>1 DEF Socket
<1>3. \A u \in Slots : n[u].at = "none" => n[u] = NoSocket
  BY <1>1, <1>2 DEF TypeInv, SocketsLive
<1>4. FailInitialization(me, n, s) /\ UNCHANGED op
  BY DEF Refused
<1> HIDE DEF n
<1>5. QED
  BY <1>1, <1>2, <1>3, <1>4, FailKeeps

LEMMA AnsweredTyped ==
  ASSUME TypeInv, NEW r \in DOMAIN op, Answered(r)
  PROVE  TypeInv'
<1>1. Len(op) \in Nat /\ DOMAIN op = 1..Len(op) /\ \A q \in 1..Len(op) : op[q] \in Operation
  BY LenProperties, ElementOfSeq DEF TypeInv, Typed
<1>2. op' = [op EXCEPT ![r].at = "done"] /\ UNCHANGED <<me, net>>
  BY DEF Answered
<1>3. op' \in [1..Len(op) -> Operation]
  BY <1>1, <1>2 DEF Operation
<1>4. op' \in Seq(Operation) /\ Len(op') = Len(op)
  BY <1>1, <1>3, MapIsSeq
<1>5. QED
  BY <1>2, <1>4, FieldsMove DEF TypeInv, Typed

LEMMA DropsTyped ==
  ASSUME TypeInv, NEW s \in Slots, Drops(s)
  PROVE  TypeInv'
<1>1. me \in Fields /\ net \in [Slots -> Socket] /\ net[s].at \in {"connecting", "open"}
  BY DEF TypeInv, Typed, Drops
<1>2. /\ net' \in [Slots -> Socket] /\ net'[s].at = "closing"
      /\ \A u \in Slots : u # s => net'[u] = net[u]
      /\ UNCHANGED <<me, op>>
  BY <1>1 DEF Drops, Socket
<1>3. me'.ws # 0 => net'[me'.ws].at # "none"
  BY <1>1, <1>2 DEF TypeInv, SocketsLive, Fields
<1>4. QED
  BY <1>1, <1>2, <1>3, NetMoves DEF TypeInv, Typed, SocketsLive

LEMMA TimeoutTyped ==
  ASSUME TypeInv, OpenTimesOut \/ HandshakeTimesOut
  PROVE  TypeInv'
<1>1. me \in Fields /\ net \in [Slots -> Socket] /\ UNCHANGED op
  BY DEF TypeInv, Typed, OpenTimesOut, HandshakeTimesOut
<1>2. PICK m \in Fields, s \in Slots :
        /\ FailInitialization(m, net, s)
        /\ m.queue = me.queue /\ m.timers = me.timers /\ m.ws = me.ws
  <2>1. CASE OpenTimesOut
    <3>1. /\ [me EXCEPT !.openTimer = 0] \in Fields /\ me.openTimer \in Slots
          /\ FailInitialization([me EXCEPT !.openTimer = 0], net, me.openTimer)
      BY <1>1, <2>1 DEF OpenTimesOut, Fields
    <3>2. QED
      BY <1>1, <3>1 DEF Fields
  <2>2. CASE HandshakeTimesOut
    <3>1. /\ [me EXCEPT !.shakeTimer = 0] \in Fields /\ me.shakeTimer \in Slots
          /\ FailInitialization([me EXCEPT !.shakeTimer = 0], net, me.shakeTimer)
      BY <1>1, <2>2 DEF HandshakeTimesOut, Fields
    <3>2. QED
      BY <1>1, <3>1 DEF Fields
  <2>3. QED
    BY <2>1, <2>2
<1>3. QED
  BY <1>1, <1>2, FailKeeps DEF TypeInv, SocketsLive

LEMMA ReconnectsTyped ==
  ASSUME TypeInv, NEW id, Reconnects(id)
  PROVE  TypeInv'
<1> DEFINE m == [me EXCEPT !.timers = @ \ {id}, !.handle = 0]
<1>1. me \in Fields /\ Len(me.queue) <= MaxQueued /\ id \in me.timers /\ DoConnect(m) /\ UNCHANGED op
  BY DEF TypeInv, Typed, Reconnects
<1>2. m \in Fields /\ m.timers = me.timers \ {id} /\ m.queue = me.queue
  <2>1. PICK rest \in SUBSET (1..Cardinality(Slots)) : rest = me.timers \ {id}
    BY <1>1 DEF Fields
  <2>2. m = [me EXCEPT !.timers = rest, !.handle = 0] /\ 0 \in 0..Cardinality(Slots)
    BY <2>1, Constants
  <2>3. QED
    BY <1>1, <2>1, <2>2 DEF Fields
<1>3. Cardinality(m.timers) = Cardinality(me.timers) - 1
  BY <1>1, <1>2, SlotSets, FS_RemoveElement DEF Fields
<1>4. Cardinality(Busy) + Cardinality(m.timers) < Cardinality(Slots)
  <2>1. /\ Cardinality(Busy) \in Nat /\ Cardinality(me.timers) \in Nat
        /\ Cardinality(Busy) + Cardinality(me.timers) <= Cardinality(Slots)
    BY <1>1, SlotSets DEF Busy, Fields, TypeInv, Links
  <2>2. QED
    BY <1>3, <2>1, Constants
<1> HIDE DEF m
<1>5. QED
  BY <1>1, <1>2, <1>4, ConnectKeeps

LEMMA EnsureTyped ==
  ASSUME TypeInv, EnsureConnected
  PROVE  TypeInv'
<1> DEFINE m == [me EXCEPT !.ready = "pending"]
<1>1. me \in Fields /\ Len(me.queue) <= MaxQueued /\ DoConnect(m) /\ UNCHANGED op
  BY DEF TypeInv, Typed, EnsureConnected
<1>2. m \in Fields /\ m.timers = me.timers /\ m.queue = me.queue
  BY <1>1 DEF Fields
<1>3. Cardinality(Busy) + Cardinality(m.timers) < Cardinality(Slots)
  BY <1>2 DEF Busy, Links, EnsureConnected
<1> HIDE DEF m
<1>4. QED
  BY <1>1, <1>2, <1>3, ConnectKeeps

LEMMA UnshakenTyped ==
  ASSUME NEW n \in [Slots -> Socket]
  PROVE  /\ Unshaken(n) \in [Slots -> Socket]
         /\ \A s \in Slots : Unshaken(n)[s].at = n[s].at
         /\ \A s \in Slots : n[s] = NoSocket => Unshaken(n)[s] = NoSocket
<1>1. 0 \in Slots \cup {0}
  OBVIOUS
<1>2. \A s \in Slots : /\ [n[s] EXCEPT !.shake = 0] \in Socket
                       /\ [n[s] EXCEPT !.shake = 0].at = n[s].at
                       /\ n[s] = NoSocket => [n[s] EXCEPT !.shake = 0] = NoSocket
  <2>1. ASSUME NEW x \in Socket
        PROVE  [x EXCEPT !.shake = 0] \in Socket /\ [x EXCEPT !.shake = 0].at = x.at
    BY <1>1 DEF Socket
  <2>2. [NoSocket EXCEPT !.shake = 0] = NoSocket
    BY DEF NoSocket
  <2>3. QED
    BY <2>1, <2>2
<1>3. QED
  BY <1>2 DEF Unshaken

\* scheduleReconnect finds a timer that is not set.
LEMMA LaterTyped ==
  ASSUME NEW m \in Fields, m.attempt < MaxAttempts, Cardinality(m.timers) < Cardinality(Slots)
  PROVE  \E id \in 1..Cardinality(Slots) :
           /\ id \notin m.timers
           /\ Later(m) = [m EXCEPT !.attempt = m.attempt + 1, !.timers = m.timers \cup {id}, !.handle = id]
           /\ Later(m) \in Fields
<1> DEFINE N == Cardinality(m.timers)
           id == CHOOSE k \in 1..N + 1 : k \notin m.timers
<1>1. IsFiniteSet(m.timers) /\ N \in Nat /\ N + 1 <= Cardinality(Slots) /\ Cardinality(Slots) \in Nat
  BY SlotSets, Constants DEF Fields
<1>2. \E k \in 1..N + 1 : k \notin m.timers
  <2>1. SUFFICES ASSUME 1..(N + 1) \subseteq m.timers PROVE FALSE
    BY <1>1
  <2>2. Cardinality(1..(N + 1)) <= N
    BY <1>1, <2>1, FS_Subset
  <2>3. Cardinality(1..(N + 1)) = N + 1
    BY <1>1, FS_Interval
  <2>4. QED
    BY <1>1, <2>2, <2>3
<1>3. id \in 1..N + 1 /\ id \notin m.timers
  BY <1>2
<1>4. Later(m) = [m EXCEPT !.attempt = @ + 1, !.timers = @ \cup {id}, !.handle = id]
  BY DEF Later
<1> HIDE DEF id
<1>5. /\ id \in 1..Cardinality(Slots)
      /\ m.attempt + 1 \in 0..MaxAttempts
      /\ m.timers \cup {id} \in SUBSET (1..Cardinality(Slots))
      /\ id \in 0..Cardinality(Slots)
  BY <1>1, <1>3, Constants DEF Fields
<1>6. [m EXCEPT !.attempt = m.attempt + 1, !.timers = m.timers \cup {id}, !.handle = id] \in Fields
  BY <1>5 DEF Fields
<1>7. QED
  BY <1>3, <1>4, <1>5, <1>6

\* What the close handler does to the fields and the operations: another attempt is
\* due, or nothing is waited for any more.
AnotherAttempt ==
  /\ ~me.intentional /\ ~OutOfAttempts(me)
  /\ op' = RejectPending(op)
  /\ \E m \in Fields :
       /\ me' = Later(m)
       /\ m.ws = 0 /\ m.initialized = FALSE /\ m.queue = me.queue
       /\ m.timers = me.timers /\ m.handle = me.handle /\ m.attempt = me.attempt
       /\ m.intentional = me.intentional /\ m.exhausted = me.exhausted

NoMoreAttempts ==
  /\ me.intentional \/ me'.exhausted
  /\ op' = RejectQueued(RejectPending(op))
  /\ me' \in Fields /\ me'.ws = 0 /\ me'.initialized = FALSE /\ me'.queue = <<>>
  /\ me'.timers = me.timers /\ me'.handle = me.handle
  /\ me'.intentional = me.intentional

LEMMA CloseCases ==
  ASSUME TypeInv, NEW s \in Slots, CloseEvent(s)
  PROVE  /\ net[s].at = "closing"
         /\ net' \in [Slots -> Socket]
         /\ net'[s] = NoSocket
         /\ \A t \in Slots : t # s => /\ net'[t].at = net[t].at
                                      /\ net[t] = NoSocket => net'[t] = NoSocket
         /\ UNCHANGED <<wire, again>>
         /\ AnotherAttempt \/ NoMoreAttempts
<1> DEFINE m == ClearConnectionTimeouts([me EXCEPT !.initialized = FALSE, !.ws = 0])
           reset == IF me.initialized THEN [m EXCEPT !.ready = "pending"] ELSE m
<1>1. me \in Fields /\ net \in [Slots -> Socket] /\ net[s].at = "closing" /\ UNCHANGED <<wire, again>>
  BY DEF TypeInv, Typed, CloseEvent
<1>2. /\ net' \in [Slots -> Socket] /\ net'[s] = NoSocket
      /\ \A t \in Slots : t # s => /\ net'[t].at = net[t].at
                                   /\ net[t] = NoSocket => net'[t] = NoSocket
  <2> DEFINE n == [net EXCEPT ![s] = NoSocket]
  <2>1. NoSocket \in Socket
    BY DEF NoSocket, Socket
  <2>2. n \in [Slots -> Socket] /\ n[s] = NoSocket /\ \A t \in Slots : t # s => n[t] = net[t]
    BY <1>1, <2>1
  <2>3. net' = Unshaken(n)
    BY DEF CloseEvent
  <2> HIDE DEF n
  <2>4. QED
    BY <2>2, <2>3, UnshakenTyped
<1>3. /\ m \in Fields /\ m.ws = 0 /\ m.initialized = FALSE /\ m.queue = me.queue
      /\ m.timers = me.timers /\ m.handle = me.handle /\ m.attempt = me.attempt
      /\ m.intentional = me.intentional /\ m.exhausted = me.exhausted
  BY <1>1 DEF Fields, ClearConnectionTimeouts
<1>4. /\ reset \in Fields /\ reset.ws = 0 /\ reset.initialized = FALSE /\ reset.queue = me.queue
      /\ reset.timers = me.timers /\ reset.handle = me.handle /\ reset.attempt = me.attempt
      /\ reset.intentional = me.intentional /\ reset.exhausted = me.exhausted
  <2> HIDE DEF m
  <2>1. QED
    BY <1>3 DEF Fields
<1>5. <<>> \in Seq(1..MaxOps)
  BY EmptySeq
<1>6. \/ /\ ~me.intentional /\ ~OutOfAttempts(me)
         /\ me' = Later(reset) /\ op' = RejectPending(op)
      \/ /\ ~me.intentional /\ OutOfAttempts(me)
         /\ me' = [reset EXCEPT !.ready = IF @ = "pending" THEN "rejected" ELSE @, !.opened = FALSE,
                                !.queue = <<>>, !.exhausted = TRUE]
         /\ op' = RejectQueued(RejectPending(op))
      \/ /\ me.intentional
         /\ me' = [m EXCEPT !.ready = IF @ = "pending" THEN "rejected" ELSE @, !.opened = FALSE,
                            !.queue = <<>>]
         /\ op' = RejectQueued(RejectPending(op))
  BY DEF CloseEvent
<1> HIDE DEF m, reset
<1>7. ASSUME NEW x \in Fields, NEW y,
             y = [x EXCEPT !.ready = IF @ = "pending" THEN "rejected" ELSE @, !.opened = FALSE,
                           !.queue = <<>>]
      PROVE  /\ y \in Fields /\ y.ws = x.ws /\ y.initialized = x.initialized /\ y.queue = <<>>
             /\ y.timers = x.timers /\ y.handle = x.handle /\ y.intentional = x.intentional
  <2>1. PICK r \in {"pending", "resolved", "rejected"} :
          y = [x EXCEPT !.ready = r, !.opened = FALSE, !.queue = <<>>]
    BY <1>7 DEF Fields
  <2>2. QED
    BY <1>5, <2>1 DEF Fields
<1>8. ASSUME NEW x \in Fields, NEW y,
             y = [x EXCEPT !.ready = IF @ = "pending" THEN "rejected" ELSE @, !.opened = FALSE,
                           !.queue = <<>>, !.exhausted = TRUE]
      PROVE  /\ y \in Fields /\ y.ws = x.ws /\ y.initialized = x.initialized /\ y.queue = <<>>
             /\ y.timers = x.timers /\ y.handle = x.handle /\ y.intentional = x.intentional
             /\ y.exhausted
  <2>1. PICK r \in {"pending", "resolved", "rejected"} :
          y = [x EXCEPT !.ready = r, !.opened = FALSE, !.queue = <<>>, !.exhausted = TRUE]
    BY <1>8 DEF Fields
  <2>2. QED
    BY <1>5, <2>1 DEF Fields
<1>9. ASSUME ~me.intentional /\ ~OutOfAttempts(me) PROVE AnotherAttempt
  BY <1>4, <1>6, <1>9 DEF AnotherAttempt
<1>10. ASSUME ~me.intentional /\ OutOfAttempts(me) PROVE NoMoreAttempts
  BY <1>4, <1>6, <1>8, <1>10 DEF NoMoreAttempts
<1>11. ASSUME me.intentional PROVE NoMoreAttempts
  BY <1>3, <1>6, <1>7, <1>11 DEF NoMoreAttempts
<1>12. QED
  BY <1>1, <1>2, <1>9, <1>10, <1>11

LEMMA CloseEventTyped ==
  ASSUME TypeInv, NEW s \in Slots, CloseEvent(s)
  PROVE  TypeInv'
<1>1. Busy' = Busy \ {s} /\ s \in Busy
  <2>1. net[s] # NoSocket /\ net'[s] = NoSocket
    BY CloseCases DEF NoSocket
  <2>2. ASSUME NEW t \in Slots, t # s PROVE net'[t] = NoSocket <=> net[t] = NoSocket
    BY <2>2, CloseCases DEF TypeInv, SocketsLive, NoSocket
  <2>3. QED
    BY <2>1, <2>2 DEF Busy
<1>2. Cardinality(Busy') = Cardinality(Busy) - 1 /\ Cardinality(Busy) \in Nat
  BY <1>1, SlotSets, FS_RemoveElement DEF Busy
<1>3. Cardinality(me.timers) \in Nat /\ IsFiniteSet(me.timers) /\ Cardinality(Slots) \in Nat
  BY SlotSets, Constants DEF TypeInv, Typed, Fields
<1>4. Cardinality(Busy) + Cardinality(me.timers) <= Cardinality(Slots)
  BY DEF TypeInv, Links, Busy
<1>5. Cardinality(Busy') \in Nat
  BY <1>1, SlotSets DEF Busy
<1>6. op' \in Seq(Operation) /\ Len(op') = Len(op)
  BY CloseCases, Rejects DEF TypeInv, Typed, AnotherAttempt, NoMoreAttempts
<1>7. /\ me' \in Fields /\ me'.ws = 0 /\ (me'.queue = me.queue \/ me'.queue = <<>>)
      /\ Cardinality(me'.timers) <= Cardinality(me.timers) + 1 /\ Cardinality(me'.timers) \in Nat
  <2>1. CASE AnotherAttempt
    <3>1. PICK m \in Fields : /\ me' = Later(m) /\ m.ws = 0 /\ m.queue = me.queue
                              /\ m.timers = me.timers /\ m.attempt = me.attempt
      BY <2>1 DEF AnotherAttempt
    <3>2. m.attempt < MaxAttempts
      BY <2>1, <3>1, Constants DEF AnotherAttempt, OutOfAttempts, Fields
    <3>3. Cardinality(m.timers) < Cardinality(Slots)
      BY <1>2, <1>3, <1>4, <1>5, <3>1
    <3>4. PICK id \in 1..Cardinality(Slots) :
           /\ id \notin m.timers
           /\ me' = [m EXCEPT !.attempt = m.attempt + 1, !.timers = m.timers \cup {id}, !.handle = id]
           /\ me' \in Fields
      BY <3>1, <3>2, <3>3, LaterTyped
    <3>5. me'.ws = 0 /\ me'.queue = me.queue /\ me'.timers = me.timers \cup {id}
      BY <3>1, <3>4 DEF Fields
    <3>6. Cardinality(me'.timers) = Cardinality(me.timers) + 1
      BY <1>3, <3>1, <3>4, <3>5, FS_AddElement
    <3>7. QED
      BY <1>3, <3>4, <3>5, <3>6
  <2>2. CASE NoMoreAttempts
    BY <1>3, <2>2 DEF NoMoreAttempts
  <2>3. QED
    BY <2>1, <2>2, CloseCases
<1>8. Len(<<>>) = 0 /\ MaxQueued \in Nat
  BY EmptySeq, Constants
<1>9. Typed'
  <2>1. net' \in [Slots -> Socket] /\ Len(op) <= MaxOps /\ Len(me.queue) <= MaxQueued
    BY CloseCases DEF TypeInv, Typed
  <2>2. Len(me'.queue) <= MaxQueued
    BY <1>7, <1>8, <2>1
  <2>3. QED
    BY <1>6, <1>7, <2>1, <2>2 DEF Typed
<1>10. Links' <= Cardinality(Slots)
  <2>1. Links' = Cardinality(Busy') + Cardinality(me'.timers)
    BY DEF Links, Busy
  <2>2. QED
    BY <1>2, <1>3, <1>4, <1>5, <1>7, <2>1
<1>11. SocketsLive'
  BY <1>7, CloseCases DEF TypeInv, SocketsLive
<1>12. QED
  BY <1>9, <1>10, <1>11 DEF TypeInv

\* What request and notify do: the operation gets the next number, and is sent,
\* queued or refused.
LEMMA AsksCases ==
  ASSUME TypeInv, NEW kind \in {"request", "note"}, NEW retryable \in BOOLEAN, Asks(kind, retryable)
  PROVE  \E o \in Operation :
           /\ op' = Append(op, o) /\ Len(op) + 1 <= MaxOps /\ UNCHANGED <<net, again>>
           /\ \/ /\ IsReady(me, net) /\ o.at \in {"pending", "done"}
                 /\ o.at = "pending" => o.on = me.ws
                 /\ wire' = Append(wire, Len(op) + 1) /\ UNCHANGED me
              \/ /\ ~IsReady(me, net) /\ o.at = "queued"
                 /\ ~me.exhausted /\ ~me.intentional /\ Len(me.queue) < MaxQueued
                 /\ me' = [me EXCEPT !.queue = Append(@, Len(op) + 1)] /\ UNCHANGED wire
              \/ /\ o.at = "failed" /\ UNCHANGED <<me, wire>>
<1> DEFINE o == [kind |-> kind, at |-> "failed", on |-> 0]
<1>1. o \in Operation /\ [o EXCEPT !.at = "queued"] \in Operation
  BY DEF Operation
<1>2. me.ws \in Slots \cup {0}
  BY DEF TypeInv, Typed, Fields
<1>3. Sent(o, me.ws) \in Operation /\ Sent(o, me.ws).at \in {"pending", "done"}
      /\ (Sent(o, me.ws).at = "pending" => Sent(o, me.ws).on = me.ws)
  BY <1>2 DEF Operation, Sent
<1>4. [o EXCEPT !.at = "queued"].at = "queued" /\ o.at = "failed"
  OBVIOUS
<1>5. /\ Len(op) + 1 <= MaxOps /\ UNCHANGED <<net, again>>
      /\ \/ /\ IsReady(me, net) /\ op' = Append(op, Sent(o, me.ws))
            /\ wire' = Append(wire, Len(op) + 1) /\ UNCHANGED me
         \/ /\ ~IsReady(me, net) /\ op' = Append(op, [o EXCEPT !.at = "queued"])
            /\ ~me.exhausted /\ ~me.intentional /\ Len(me.queue) < MaxQueued
            /\ me' = [me EXCEPT !.queue = Append(@, Len(op) + 1)] /\ UNCHANGED wire
         \/ op' = Append(op, o) /\ UNCHANGED <<me, wire>>
  BY DEF Asks
<1> HIDE DEF o
<1>6. QED
  BY <1>1, <1>3, <1>4, <1>5

LEMMA AsksTyped ==
  ASSUME TypeInv, NEW kind \in {"request", "note"}, NEW retryable \in BOOLEAN, Asks(kind, retryable)
  PROVE  TypeInv'
<1>1. PICK o \in Operation :
        /\ op' = Append(op, o) /\ Len(op) + 1 <= MaxOps /\ UNCHANGED <<net, again>>
        /\ \/ UNCHANGED me
           \/ /\ Len(me.queue) < MaxQueued
              /\ me' = [me EXCEPT !.queue = Append(@, Len(op) + 1)]
  BY AsksCases
<1>2. /\ op \in Seq(Operation) /\ me \in Fields /\ net \in [Slots -> Socket]
      /\ Len(op) \in Nat /\ me.queue \in Seq(1..MaxOps) /\ Len(me.queue) \in Nat
      /\ Len(me.queue) <= MaxQueued
  BY LenProperties DEF TypeInv, Typed, Fields
<1>3. op' \in Seq(Operation) /\ Len(op') = Len(op) + 1
  BY <1>1, <1>2, AppendProperties
<1>4. Len(op) + 1 \in 1..MaxOps
  BY <1>1, <1>2, Constants
<1>5. Append(me.queue, Len(op) + 1) \in Seq(1..MaxOps) /\ Len(Append(me.queue, Len(op) + 1)) = Len(me.queue) + 1
  BY <1>2, <1>4, AppendProperties
<1>6. me' \in Fields /\ me'.ws = me.ws /\ me'.timers = me.timers /\ Len(me'.queue) <= MaxQueued
  <2>1. CASE UNCHANGED me
    BY <1>2, <2>1
  <2>2. CASE Len(me.queue) < MaxQueued /\ me' = [me EXCEPT !.queue = Append(@, Len(op) + 1)]
    <3>1. PICK q \in Seq(1..MaxOps) : q = Append(me.queue, Len(op) + 1) /\ Len(q) = Len(me.queue) + 1
      BY <1>5
    <3>2. me' = [me EXCEPT !.queue = q]
      BY <2>2, <3>1
    <3>3. me' \in Fields /\ me'.ws = me.ws /\ me'.timers = me.timers /\ me'.queue = q
      BY <1>2, <3>1, <3>2 DEF Fields
    <3>4. QED
      BY <1>2, <2>2, <3>1, <3>3, Constants
  <2>3. QED
    BY <1>1, <2>1, <2>2
<1>7. Typed'
  BY <1>1, <1>2, <1>3, <1>6 DEF Typed
<1>8. QED
  BY <1>1, <1>6, <1>7, FieldsMove

\* close gives the current socket up and cancels what is due.
LEMMA CloseFacts ==
  ASSUME TypeInv, Close
  PROVE  /\ me' \in Fields /\ me'.ws = 0 /\ me'.initialized = FALSE /\ me'.queue = <<>>
         /\ me'.timers = me.timers \ {me.handle} /\ me'.intentional
         /\ net' \in [Slots -> Socket]
         /\ \A s \in Slots : net'[s].at = IF s = me.ws THEN "closing" ELSE net[s].at
         /\ \A s \in Slots : net[s] = NoSocket => net'[s] = NoSocket
         /\ op' = RejectQueued(RejectPending(op)) /\ UNCHANGED <<wire, again>>
<1> DEFINE c == CancelReconnect(me)
           m == ClearConnectionTimeouts(c)
           n == IF me.ws # 0 THEN [net EXCEPT ![me.ws].at = "closing"] ELSE net
<1>1. me \in Fields /\ net \in [Slots -> Socket]
  BY DEF TypeInv, Typed
<1>2. c \in Fields /\ c.timers = me.timers \ {me.handle}
  <2>1. PICK rest \in SUBSET (1..Cardinality(Slots)) : rest = me.timers \ {me.handle}
    BY <1>1 DEF Fields
  <2>2. c = [me EXCEPT !.timers = rest, !.handle = 0, !.attempt = 0]
    BY <2>1 DEF CancelReconnect
  <2>3. 0 \in 0..Cardinality(Slots) /\ 0 \in 0..MaxAttempts
    BY Constants
  <2> HIDE DEF c
  <2>4. QED
    BY <1>1, <2>1, <2>2, <2>3 DEF Fields
<1>3. m \in Fields /\ m.timers = me.timers \ {me.handle}
  <2> HIDE DEF c
  <2>1. QED
    BY <1>2 DEF Fields, ClearConnectionTimeouts
<1>4. /\ n \in [Slots -> Socket]
      /\ \A s \in Slots : n[s].at = IF s = me.ws THEN "closing" ELSE net[s].at
      /\ \A s \in Slots : s # me.ws => n[s] = net[s]
  BY <1>1, Constants DEF Fields, Socket
<1>5. /\ me' = [m EXCEPT !.intentional = TRUE, !.exhausted = FALSE, !.initialized = FALSE, !.ws = 0, !.queue = <<>>]
      /\ net' = Unshaken(n) /\ op' = RejectQueued(RejectPending(op)) /\ UNCHANGED <<wire, again>>
  BY DEF Close
<1> HIDE DEF m, n
<1>6. <<>> \in Seq(1..MaxOps)
  BY EmptySeq
<1>7. /\ me' \in Fields /\ me'.ws = 0 /\ me'.initialized = FALSE /\ me'.queue = <<>>
      /\ me'.timers = me.timers \ {me.handle} /\ me'.intentional
  BY <1>3, <1>5, <1>6 DEF Fields
<1>8. \A s \in Slots : net[s] = NoSocket => n[s] = NoSocket
  <2>1. NoSocket.at = "none"
    BY DEF NoSocket
  <2>2. \A s \in Slots : net[s] = NoSocket => s # me.ws
    BY <2>1, Constants DEF TypeInv, SocketsLive
  <2>3. QED
    BY <1>4, <2>2
<1>9. QED
  BY <1>4, <1>5, <1>7, <1>8, UnshakenTyped

LEMMA CloseTyped ==
  ASSUME TypeInv, Close
  PROVE  TypeInv'
<1>1. me \in Fields /\ Cardinality(me.timers) \in Nat /\ Cardinality(Busy) \in Nat
  BY SlotSets DEF TypeInv, Typed, Fields, Busy
<1>2. Cardinality(me'.timers) \in Nat /\ Cardinality(me'.timers) <= Cardinality(me.timers)
  <2>1. me.timers \in SUBSET (1..Cardinality(Slots)) /\ IsFiniteSet(me.timers)
    BY <1>1, SlotSets DEF Fields
  <2>2. me'.timers \in SUBSET me.timers
    BY CloseFacts
  <2>3. me'.timers \in SUBSET (1..Cardinality(Slots))
    BY <2>1, <2>2
  <2>4. QED
    BY <2>1, <2>2, <2>3, SlotSets, FS_Subset
<1>3. Busy' = Busy
  <2>1. ASSUME NEW s \in Slots PROVE net'[s] = NoSocket <=> net[s] = NoSocket
    <3>1. NoSocket.at = "none"
      BY DEF NoSocket
    <3>2. CASE net'[s] = NoSocket
      <4>1. net[s].at = "none"
        BY <2>1, <3>1, <3>2, CloseFacts
      <4>2. QED
        BY <2>1, <3>2, <4>1 DEF TypeInv, SocketsLive
    <3>3. QED
      BY <2>1, <3>2, CloseFacts
  <2>2. QED
    BY <2>1 DEF Busy
<1>4. Links' <= Cardinality(Slots)
  <2>1. Links = Cardinality(Busy) + Cardinality(me.timers)
        /\ Links' = Cardinality(Busy') + Cardinality(me'.timers)
    BY DEF Links, Busy
  <2>2. QED
    BY <1>1, <1>2, <1>3, <2>1, Constants DEF TypeInv
<1>5. op' \in Seq(Operation) /\ Len(op') = Len(op)
  BY CloseFacts, Rejects DEF TypeInv, Typed
<1>6. Len(<<>>) = 0 /\ MaxQueued \in Nat
  BY EmptySeq, Constants
<1>7. Typed'
  <2>1. Len(op) <= MaxOps
    BY DEF TypeInv, Typed
  <2>2. Len(me'.queue) <= MaxQueued
    BY <1>6, CloseFacts
  <2>3. QED
    BY <1>5, <2>1, <2>2, CloseFacts DEF Typed
<1>8. SocketsLive'
  BY CloseFacts DEF TypeInv, SocketsLive
<1>9. QED
  BY <1>4, <1>7, <1>8 DEF TypeInv

LEMMA InitTyped == Init => TypeInv
<1> SUFFICES ASSUME Init PROVE TypeInv
  OBVIOUS
<1> DEFINE w == CHOOSE s \in Slots : TRUE
<1>1. w \in Slots /\ w # 0
  BY Constants
<1>2. /\ me = [ws |-> w, initialized |-> FALSE, attempt |-> 0, timers |-> {}, handle |-> 0,
               openTimer |-> w, shakeTimer |-> 0, intentional |-> FALSE, exhausted |-> FALSE,
               ready |-> "pending", opened |-> FALSE, queue |-> <<>>]
      /\ net = [t \in Slots |-> IF t = w THEN [NoSocket EXCEPT !.at = "connecting"] ELSE NoSocket]
      /\ op = <<>>
  BY DEF Init
<1> HIDE DEF w
<1>3. <<>> \in Seq(1..MaxOps) /\ <<>> \in Seq(Operation) /\ Len(<<>>) = 0
  BY EmptySeq
<1>4. 0 \in 0..MaxAttempts /\ 0 \in 0..Cardinality(Slots) /\ 0 <= MaxOps /\ 0 <= MaxQueued
  BY Constants
<1>5. me \in Fields
  BY <1>1, <1>2, <1>3, <1>4 DEF Fields
<1>6. net \in [Slots -> Socket] /\ net[w].at = "connecting" /\ \A t \in Slots : t # w => net[t] = NoSocket
  BY <1>1, <1>2 DEF NoSocket, Socket
<1>7. Typed
  BY <1>2, <1>3, <1>4, <1>5, <1>6 DEF Typed
<1>8. SocketsLive
  BY <1>1, <1>2, <1>6 DEF SocketsLive
<1>9. Links <= Cardinality(Slots)
  <2>1. Busy = {w}
    <3>1. NoSocket.at = "none"
      BY DEF NoSocket
    <3>2. QED
      BY <1>1, <1>6, <3>1 DEF Busy
  <2>2. Cardinality(Busy) = 1 /\ Cardinality({}) = 0
    BY <2>1, FS_Singleton, FS_EmptySet
  <2>3. Links = 1
    BY <1>2, <2>2 DEF Links, Busy
  <2>4. Cardinality(Slots) # 0
    BY <1>1, Constants, FS_EmptySet
  <2>5. QED
    BY <2>3, <2>4, Constants
<1>10. QED
  BY <1>7, <1>8, <1>9 DEF TypeInv

LEMMA NextTyped == TypeInv /\ [Next]_vars => TypeInv'
<1> SUFFICES ASSUME TypeInv, [Next]_vars PROVE TypeInv'
  OBVIOUS
<1>1. ASSUME NEW s \in Slots, SocketStep(s) PROVE TypeInv'
  BY <1>1, OpensTyped, InitializedTyped, RefusedTyped, DropsTyped, CloseEventTyped DEF SocketStep
<1>2. CASE UNCHANGED vars
  BY <1>2 DEF vars, TypeInv, Typed, SocketsLive, Links
<1>3. QED
  BY <1>1, <1>2, AnsweredTyped, TimeoutTyped, ReconnectsTyped, AsksTyped, EnsureTyped, CloseTyped
     DEF Next

(***************************************************************************)
(* The fields, sockets and operations are of their types: no more attempts *)
(* than allowed, no more queued operations than the queue holds.           *)
(***************************************************************************)
THEOREM TypeCorrect == Spec => []TypeOK
<1>1. TypeInv => TypeOK
  BY DEF TypeInv, Typed, TypeOK, Fields, Socket, Operation
<1>2. QED
  BY <1>1, InitTyped, NextTyped, PTL DEF Spec

-----------------------------------------------------------------------------
(* What steps of the network and of the timeouts do not touch *)

SameFields(m) ==
  /\ m.ws = me.ws /\ m.initialized = me.initialized /\ m.timers = me.timers
  /\ m.handle = me.handle /\ m.exhausted = me.exhausted /\ m.intentional = me.intentional
  /\ m.queue = me.queue

\* Sockets open, or close.
NetGoesOn ==
  \A s \in Slots : \/ net'[s].at = net[s].at
                   \/ net[s].at = "connecting" /\ net'[s].at = "open"
                   \/ net[s].at # "none" /\ net'[s].at = "closing"

QuietStep == SameFields(me') /\ NetGoesOn /\ UNCHANGED <<op, wire, again>>

LEMMA FailIsQuiet ==
  ASSUME TypeInv, NEW m \in Fields, NEW n \in [Slots -> Socket], NEW s \in Slots,
         FailInitialization(m, n, s), SameFields(m), \A t \in Slots : n[t].at = net[t].at
  PROVE  SameFields(me') /\ NetGoesOn
<1>1. CASE m.ws = s /\ ~m.initialized
  <2>1. me' = ClearConnectionTimeouts(m) /\ net' = [n EXCEPT ![s].at = "closing"]
    BY <1>1 DEF FailInitialization
  <2>2. SameFields(me')
    BY <2>1 DEF Fields, ClearConnectionTimeouts, SameFields
  <2>3. net'[s].at = "closing" /\ \A t \in Slots : t # s => net'[t] = n[t]
    BY <2>1 DEF Socket
  <2>4. net[s].at # "none"
    BY <1>1, Constants DEF TypeInv, SocketsLive, SameFields
  <2>5. QED
    BY <2>2, <2>3, <2>4 DEF NetGoesOn
<1>2. CASE ~(m.ws = s /\ ~m.initialized)
  BY <1>2 DEF FailInitialization, NetGoesOn
<1>3. QED
  BY <1>1, <1>2

LEMMA NetworkIsQuiet ==
  ASSUME TypeInv, NEW s \in Slots, Opens(s) \/ Refused(s) \/ Drops(s)
  PROVE  QuietStep
<1>1. me \in Fields /\ net \in [Slots -> Socket]
  BY DEF TypeInv, Typed
<1>2. CASE Opens(s)
  <2> DEFINE m == ArmHandshakeTimeout([me EXCEPT !.openTimer = 0], s)
             n == [net EXCEPT ![s].at = "open"]
  <2>1. m \in Fields /\ SameFields(m)
    BY <1>1 DEF Fields, ArmHandshakeTimeout, SameFields
  <2>2. n \in [Slots -> Socket] /\ n[s].at = "open" /\ \A t \in Slots : t # s => n[t] = net[t]
    BY <1>1 DEF Socket
  <2>3. /\ me' = m /\ net' = (IF IsOpen(m, n) THEN [n EXCEPT ![s].shake = m.ws] ELSE n)
        /\ net[s].at = "connecting" /\ UNCHANGED <<op, wire, again>>
    BY <1>2 DEF Opens
  <2> HIDE DEF m, n
  <2>4. net'[s].at = "open" /\ \A t \in Slots : t # s => net'[t] = net[t]
    BY <2>2, <2>3 DEF Socket
  <2>5. QED
    BY <2>1, <2>3, <2>4 DEF QuietStep, NetGoesOn
<1>3. CASE Refused(s)
  <2> DEFINE n == [net EXCEPT ![s].shake = 0]
  <2>1. n \in [Slots -> Socket] /\ \A t \in Slots : n[t].at = net[t].at
    BY <1>1 DEF Socket
  <2>2. FailInitialization(me, n, s) /\ UNCHANGED <<op, wire, again>>
    BY <1>3 DEF Refused
  <2> HIDE DEF n
  <2>3. QED
    BY <1>1, <2>1, <2>2, FailIsQuiet DEF QuietStep, SameFields
<1>4. CASE Drops(s)
  BY <1>1, <1>4 DEF Drops, Socket, QuietStep, SameFields, NetGoesOn
<1>5. QED
  BY <1>2, <1>3, <1>4

LEMMA TimeoutIsQuiet ==
  ASSUME TypeInv, OpenTimesOut \/ HandshakeTimesOut
  PROVE  QuietStep
<1>1. me \in Fields /\ net \in [Slots -> Socket] /\ UNCHANGED <<op, wire, again>>
  BY DEF TypeInv, Typed, OpenTimesOut, HandshakeTimesOut
<1>2. CASE OpenTimesOut
  <2>1. /\ [me EXCEPT !.openTimer = 0] \in Fields /\ me.openTimer \in Slots
        /\ SameFields([me EXCEPT !.openTimer = 0])
        /\ FailInitialization([me EXCEPT !.openTimer = 0], net, me.openTimer)
    BY <1>1, <1>2 DEF OpenTimesOut, Fields, SameFields
  <2>2. QED
    BY <1>1, <2>1, FailIsQuiet DEF QuietStep
<1>3. CASE HandshakeTimesOut
  <2>1. /\ [me EXCEPT !.shakeTimer = 0] \in Fields /\ me.shakeTimer \in Slots
        /\ SameFields([me EXCEPT !.shakeTimer = 0])
        /\ FailInitialization([me EXCEPT !.shakeTimer = 0], net, me.shakeTimer)
    BY <1>1, <1>3 DEF HandshakeTimesOut, Fields, SameFields
  <2>2. QED
    BY <1>1, <2>1, FailIsQuiet DEF QuietStep
<1>4. QED
  BY <1>2, <1>3

\* The handshake either succeeds, and the queue is sent, or is a quiet step.
Greets ==
  /\ me.ws \in Slots /\ net[me.ws].at = "open"
  /\ \A s \in Slots : net'[s].at = net[s].at
  /\ me'.ws = me.ws /\ me'.initialized /\ me'.timers = me.timers /\ me'.handle = me.handle
  /\ me'.exhausted = me.exhausted /\ me'.intentional = me.intentional
  /\ me'.queue = <<>> /\ wire' = wire \o me.queue
  /\ op' = [r \in DOMAIN op |-> IF op[r].at = "queued" THEN Sent(op[r], me.ws) ELSE op[r]]
  /\ UNCHANGED again

LEMMA InitializedCases ==
  ASSUME TypeInv, NEW s \in Slots, Initialized(s)
  PROVE  Greets \/ QuietStep
<1> DEFINE t == net[s].shake
           n == [net EXCEPT ![s].shake = 0, ![t].greeted = TRUE]
<1>1. /\ me \in Fields /\ net \in [Slots -> Socket] /\ t \in Slots
  BY AskedIsLive DEF TypeInv, Typed, Initialized
<1>2. n \in [Slots -> Socket] /\ \A u \in Slots : n[u].at = net[u].at
  <2> DEFINE n0 == [net EXCEPT ![s].shake = 0]
  <2>1. n0 \in [Slots -> Socket] /\ \A u \in Slots : n0[u].at = net[u].at
    BY <1>1 DEF Socket
  <2>2. n = [n0 EXCEPT ![t].greeted = TRUE]
    OBVIOUS
  <2> HIDE DEF n0, n, t
  <2>3. n \in [Slots -> Socket] /\ \A u \in Slots : n[u].at = n0[u].at
    BY <1>1, <2>1, <2>2 DEF Socket
  <2>4. QED
    BY <2>1, <2>3
<1>3. CASE IsOpen(me, net)
  <2>1. /\ me' = [me EXCEPT !.shakeTimer = 0, !.initialized = TRUE, !.attempt = 0, !.opened = TRUE,
                            !.ready = IF @ = "pending" THEN "resolved" ELSE @,
                            !.queue = QueueTaken(@)]
        /\ net' = n
        /\ op' = [r \in DOMAIN op |-> IF op[r].at = "queued" THEN Sent(op[r], me.ws) ELSE op[r]]
        /\ wire' = wire \o me.queue
        /\ UNCHANGED again
    BY <1>3 DEF Initialized
  <2> HIDE DEF n
  <2>2. me.ws \in Slots /\ net[me.ws].at = "open"
    BY <1>1, <1>3 DEF IsOpen, Fields
  <2>3. PICK ready \in {"pending", "resolved", "rejected"} :
          me' = [me EXCEPT !.shakeTimer = 0, !.initialized = TRUE, !.attempt = 0, !.opened = TRUE,
                           !.ready = ready, !.queue = <<>>]
    BY <1>1, <2>1 DEF QueueTaken, Fields
  <2>4. /\ me'.ws = me.ws /\ me'.initialized /\ me'.timers = me.timers /\ me'.handle = me.handle
        /\ me'.exhausted = me.exhausted /\ me'.intentional = me.intentional /\ me'.queue = <<>>
    BY <1>1, <2>3 DEF Fields
  <2>5. QED
    BY <1>2, <2>1, <2>2, <2>4 DEF Greets
<1>4. CASE ~IsOpen(me, net)
  <2>1. FailInitialization(me, n, s) /\ UNCHANGED <<op, wire, again>>
    BY <1>4 DEF Initialized
  <2> HIDE DEF n
  <2>2. QED
    BY <1>1, <1>2, <2>1, FailIsQuiet DEF QuietStep, SameFields
<1>5. QED
  BY <1>3, <1>4

\* doConnect, by the timer or by connect.
Connects ==
  /\ \E s \in Slots : /\ net[s] = NoSocket /\ net'[s].at = "connecting" /\ me'.ws = s
                      /\ \A t \in Slots : t # s => net'[t] = net[t]
  /\ me'.initialized = FALSE /\ me'.exhausted = FALSE
  /\ me'.intentional = me.intentional /\ me'.queue = me.queue
  /\ UNCHANGED <<op, wire>>
  /\ \/ /\ \E id \in me.timers : me'.timers = me.timers \ {id}
        /\ UNCHANGED again
     \/ /\ ~me.intentional /\ me.ws = 0 /\ me'.timers = me.timers
        /\ again' = (again \/ me.timers # {})

LEMMA ConnectCases ==
  ASSUME TypeInv, EnsureConnected \/ \E id \in 1..Cardinality(Slots) : Reconnects(id)
  PROVE  Connects
<1>1. me \in Fields /\ net \in [Slots -> Socket]
  BY DEF TypeInv, Typed
<1>2. ASSUME NEW m \in Fields, DoConnect(m)
      PROVE  /\ \E s \in Slots : /\ net[s] = NoSocket /\ net'[s].at = "connecting" /\ me'.ws = s
                                 /\ \A t \in Slots : t # s => net'[t] = net[t]
             /\ me'.initialized = FALSE /\ me'.exhausted = FALSE
             /\ me'.intentional = m.intentional /\ me'.queue = m.queue /\ me'.timers = m.timers
  <2>1. PICK s \in Slots : /\ net[s] = NoSocket
                           /\ net' = [net EXCEPT ![s].at = "connecting"]
                           /\ me' = ArmOpenTimeout([m EXCEPT !.ws = s, !.initialized = FALSE, !.exhausted = FALSE], s)
    BY <1>2 DEF DoConnect, Free
  <2>2. net'[s].at = "connecting" /\ \A t \in Slots : t # s => net'[t] = net[t]
    BY <1>1, <2>1 DEF Socket
  <2>3. /\ me'.ws = s /\ me'.initialized = FALSE /\ me'.exhausted = FALSE
        /\ me'.intentional = m.intentional /\ me'.queue = m.queue /\ me'.timers = m.timers
    BY <2>1 DEF ArmOpenTimeout, Fields
  <2>4. QED
    BY <2>1, <2>2, <2>3
<1>3. CASE EnsureConnected
  <2> DEFINE m == [me EXCEPT !.ready = "pending"]
  <2>1. m \in Fields /\ SameFields(m)
    BY <1>1 DEF Fields, SameFields
  <2>2. /\ DoConnect(m) /\ UNCHANGED <<op, wire>> /\ ~me.intentional /\ me.ws = 0
        /\ again' = (again \/ me.timers # {})
    BY <1>3 DEF EnsureConnected
  <2> HIDE DEF m
  <2>3. QED
    BY <1>2, <2>1, <2>2 DEF Connects, SameFields
<1>4. ASSUME NEW id \in 1..Cardinality(Slots), Reconnects(id) PROVE Connects
  <2>1. PICK rest \in SUBSET (1..Cardinality(Slots)) : rest = me.timers \ {id}
    BY <1>1 DEF Fields
  <2> DEFINE m == [me EXCEPT !.timers = rest, !.handle = 0]
  <2>2. 0 \in 0..Cardinality(Slots)
    BY Constants
  <2>3. /\ m \in Fields /\ m.timers = me.timers \ {id} /\ m.intentional = me.intentional
        /\ m.queue = me.queue
    BY <1>1, <2>1, <2>2 DEF Fields
  <2>4. id \in me.timers /\ DoConnect(m) /\ UNCHANGED <<op, wire, again>>
    BY <1>4, <2>1 DEF Reconnects
  <2> HIDE DEF m
  <2>5. QED
    BY <1>2, <2>3, <2>4 DEF Connects
<1>5. QED
  BY <1>3, <1>4

-----------------------------------------------------------------------------
(* Nothing waits for what cannot come *)

\* A socket that is wanted is there or will be, and only while one is wanted do
\* operations wait in the queue.
HopeInv ==
  /\ TypeInv
  /\ ~me.exhausted /\ ~me.intentional => me.ws # 0 \/ me.timers # {}
  /\ \A r \in DOMAIN op : op[r].at = "queued" => ~me.exhausted /\ ~me.intentional
  /\ \A r \in DOMAIN op : op[r].at = "pending" => op[r].on \in Slots /\ net[op[r].on].at # "none"

\* What rejecting leaves.
LEMMA RejectsAll ==
  ASSUME NEW ops \in Seq(Operation)
  PROVE  /\ DOMAIN RejectPending(ops) = DOMAIN ops
         /\ DOMAIN RejectQueued(RejectPending(ops)) = DOMAIN ops
         /\ \A r \in DOMAIN ops :
              /\ RejectPending(ops)[r].at # "pending"
              /\ RejectPending(ops)[r].at = "queued" => ops[r].at = "queued"
              /\ RejectQueued(RejectPending(ops))[r].at \notin {"pending", "queued"}
<1>1. ASSUME NEW o \in Operation
      PROVE  [o EXCEPT !.at = "failed"].at = "failed"
  BY DEF Operation
<1>2. \A r \in DOMAIN ops : ops[r] \in Operation
  BY LenProperties, ElementOfSeq
<1>3. /\ DOMAIN RejectPending(ops) = DOMAIN ops
      /\ \A r \in DOMAIN ops :
           RejectPending(ops)[r] = IF ops[r].at = "pending" THEN [ops[r] EXCEPT !.at = "failed"] ELSE ops[r]
  BY DEF RejectPending
<1>4. RejectPending(ops) \in Seq(Operation)
  BY Rejects
<1>5. \A r \in DOMAIN ops : RejectPending(ops)[r] \in Operation
  BY <1>3, <1>4, LenProperties, ElementOfSeq
<1> DEFINE rest == RejectPending(ops)
<1> HIDE DEF rest
<1>6. /\ DOMAIN RejectQueued(rest) = DOMAIN rest
      /\ \A r \in DOMAIN rest :
           RejectQueued(rest)[r] = IF rest[r].at = "queued" THEN [rest[r] EXCEPT !.at = "failed"] ELSE rest[r]
  BY DEF RejectQueued
<1>7. \A r \in DOMAIN ops : rest[r].at # "pending" /\ (rest[r].at = "queued" => ops[r].at = "queued")
  BY <1>1, <1>2, <1>3 DEF rest
<1>8. \A r \in DOMAIN ops : RejectQueued(rest)[r].at \notin {"pending", "queued"}
  BY <1>1, <1>3, <1>5, <1>6, <1>7 DEF rest
<1>9. QED
  BY <1>3, <1>6, <1>7, <1>8 DEF rest

LEMMA InitHope == Init => HopeInv
<1> SUFFICES ASSUME Init PROVE HopeInv
  OBVIOUS
<1>1. TypeInv
  BY InitTyped
<1>2. me.ws # 0 /\ op = <<>>
  BY Constants DEF Init
<1>3. DOMAIN op = {}
  BY <1>2
<1>4. QED
  BY <1>1, <1>2, <1>3 DEF HopeInv

LEMMA NextHope == HopeInv /\ [Next]_vars => HopeInv'
<1> SUFFICES ASSUME HopeInv, [Next]_vars PROVE HopeInv'
  OBVIOUS
<1>1. TypeInv /\ TypeInv'
  BY NextTyped DEF HopeInv
<1>2. /\ op \in Seq(Operation) /\ DOMAIN op = 1..Len(op) /\ Len(op) \in Nat
      /\ \A r \in DOMAIN op : op[r] \in Operation
      /\ me \in Fields
  BY <1>1, LenProperties, ElementOfSeq DEF TypeInv, Typed
<1>3. CASE QuietStep
  BY <1>1, <1>3 DEF HopeInv, QuietStep, SameFields, NetGoesOn
<1>4. CASE Greets
  <2>1. DOMAIN op' = DOMAIN op
    BY <1>4 DEF Greets
  <2>2. ASSUME NEW r \in DOMAIN op
        PROVE  /\ op'[r].at # "queued"
               /\ op'[r].at = "pending" => op'[r] = op[r] \/ op'[r].on = me.ws
    <3>1. op[r] \in Operation /\ op'[r] = IF op[r].at = "queued" THEN Sent(op[r], me.ws) ELSE op[r]
      BY <1>2, <1>4 DEF Greets
    <3>2. Sent(op[r], me.ws).at \in {"pending", "done"}
          /\ (Sent(op[r], me.ws).at = "pending" => Sent(op[r], me.ws).on = me.ws)
      BY <3>1 DEF Sent, Operation
    <3>3. QED
      BY <3>1, <3>2
  <2>3. \A r \in DOMAIN op' : op'[r].at = "pending" => op'[r].on \in Slots /\ net'[op'[r].on].at # "none"
    BY <1>4, <2>1, <2>2 DEF Greets, HopeInv
  <2>4. QED
    BY <1>1, <1>4, <2>1, <2>2, <2>3 DEF Greets, HopeInv
<1>5. CASE Connects
  <2>1. PICK s \in Slots : /\ net[s] = NoSocket /\ net'[s].at = "connecting" /\ me'.ws = s
                           /\ \A t \in Slots : t # s => net'[t] = net[t]
    BY <1>5 DEF Connects
  <2>2. me'.ws # 0
    BY <2>1, Constants
  <2>3. QED
    BY <1>1, <1>5, <2>1, <2>2 DEF Connects, HopeInv
<1>6. ASSUME NEW r \in DOMAIN op, Answered(r) PROVE HopeInv'
  <2>1. op' = [op EXCEPT ![r].at = "done"] /\ UNCHANGED <<me, net>>
    BY <1>6 DEF Answered
  <2>2. /\ DOMAIN op' = DOMAIN op
        /\ \A q \in DOMAIN op : op'[q] = op[q] \/ op'[q].at = "done"
    BY <1>2, <2>1 DEF Operation
  <2>3. QED
    BY <1>1, <2>1, <2>2 DEF HopeInv
<1>7. ASSUME NEW s \in Slots, CloseEvent(s) PROVE HopeInv'
  <2>1. CASE AnotherAttempt
    <3>1. PICK m \in Fields :
            /\ me' = Later(m)
            /\ m.intentional = me.intentional /\ m.exhausted = me.exhausted
      BY <2>1 DEF AnotherAttempt
    <3>2. me'.intentional = me.intentional /\ me'.exhausted = me.exhausted /\ me'.timers # {}
      BY <3>1 DEF Later, Fields
    <3>3. op' = RejectPending(op)
      BY <2>1 DEF AnotherAttempt
    <3>4. QED
      BY <1>1, <1>2, <3>2, <3>3, RejectsAll DEF HopeInv
  <2>2. CASE NoMoreAttempts
    BY <1>1, <1>2, <2>2, RejectsAll DEF NoMoreAttempts, HopeInv
  <2>3. QED
    BY <1>1, <1>7, <2>1, <2>2, CloseCases
<1>8. ASSUME NEW kind \in {"request", "note"}, NEW retryable \in BOOLEAN, Asks(kind, retryable)
      PROVE  HopeInv'
  <2>1. PICK o \in Operation :
          /\ op' = Append(op, o) /\ UNCHANGED net
          /\ \/ /\ IsReady(me, net) /\ o.at \in {"pending", "done"}
                /\ o.at = "pending" => o.on = me.ws
                /\ UNCHANGED me
             \/ /\ o.at = "queued" /\ ~me.exhausted /\ ~me.intentional
                /\ me' = [me EXCEPT !.queue = Append(@, Len(op) + 1)]
             \/ o.at = "failed" /\ UNCHANGED me
    BY <1>1, <1>8, AsksCases
  <2>2. /\ DOMAIN op' = 1..Len(op) + 1
        /\ op'[Len(op) + 1] = o /\ \A r \in DOMAIN op : op'[r] = op[r]
    BY <1>2, <2>1, AppendProperties, LenProperties
  <2>3. /\ me'.ws = me.ws /\ me'.timers = me.timers
        /\ me'.exhausted = me.exhausted /\ me'.intentional = me.intentional
    BY <1>2, <2>1 DEF Fields
  <2>4. o.at = "pending" => o.on \in Slots /\ net[o.on].at # "none"
    BY <1>2, <2>1 DEF IsReady, IsOpen, Fields
  <2>5. \A r \in DOMAIN op' : r \in DOMAIN op \/ op'[r] = o
    BY <1>2, <2>2
  <2>6. \A r \in DOMAIN op' : op'[r].at = "queued" => ~me.exhausted /\ ~me.intentional
    BY <2>1, <2>2, <2>5 DEF HopeInv
  <2>7. \A r \in DOMAIN op' : op'[r].at = "pending" => op'[r].on \in Slots /\ net[op'[r].on].at # "none"
    BY <2>2, <2>4, <2>5 DEF HopeInv
  <2>8. QED
    BY <1>1, <2>1, <2>3, <2>6, <2>7 DEF HopeInv
<1>9. CASE Close
  BY <1>1, <1>2, <1>9, CloseFacts, RejectsAll DEF HopeInv
<1>10. CASE UNCHANGED vars
  BY <1>1, <1>10 DEF vars, HopeInv
<1>11. ASSUME NEW s \in Slots, SocketStep(s) PROVE HopeInv'
  BY <1>1, <1>3, <1>4, <1>7, <1>11, NetworkIsQuiet, InitializedCases DEF SocketStep
<1>12. CASE OpenTimesOut \/ HandshakeTimesOut
  BY <1>1, <1>3, <1>12, TimeoutIsQuiet
<1>13. CASE EnsureConnected \/ \E id \in 1..Cardinality(Slots) : Reconnects(id)
  BY <1>1, <1>5, <1>13, ConnectCases
<1>14. QED
  BY <1>6, <1>8, <1>9, <1>10, <1>11, <1>12, <1>13 DEF Next

(***************************************************************************)
(* A queued operation has a connection that is being made or will be, and  *)
(* a request that was sent a socket whose close event would reject it,     *)
(* also when connect is called while a reconnection is due.                *)
(***************************************************************************)
THEOREM HopeHolds == Spec => []WaitingHasAHope
<1>1. HopeInv => WaitingHasAHope
  BY DEF HopeInv, WaitingHasAHope
<1>2. QED
  BY <1>1, InitHope, NextHope, PTL DEF Spec
-----------------------------------------------------------------------------
(* Operations are sent in order *)

Increasing(q) == \A i, j \in DOMAIN q : i < j => q[i] < q[j]

\* What waits in the queue was asked for after what was sent, and nothing waits
\* while operations are sent at once.
OrderInv ==
  /\ TypeInv
  /\ wire \in Seq(Nat)
  /\ \A i \in DOMAIN wire : wire[i] <= Len(op)
  /\ \A i \in DOMAIN me.queue : me.queue[i] <= Len(op)
  /\ Increasing(wire) /\ Increasing(me.queue)
  /\ \A i \in DOMAIN wire, j \in DOMAIN me.queue : wire[i] < me.queue[j]
  /\ me.initialized => me.ws \in Slots /\ net[me.ws].at \in {"open", "closing"}
  /\ IsReady(me, net) => me.queue = <<>>

\* One more operation, after all the others.
LEMMA AppendsInOrder ==
  ASSUME NEW q \in Seq(Nat), NEW n \in Nat, Increasing(q), \A i \in DOMAIN q : q[i] < n
  PROVE  /\ Append(q, n) \in Seq(Nat) /\ Increasing(Append(q, n))
         /\ \A i \in DOMAIN Append(q, n) : (i \in DOMAIN q /\ Append(q, n)[i] = q[i]) \/ Append(q, n)[i] = n
<1>1. Len(q) \in Nat /\ DOMAIN q = 1..Len(q)
  BY LenProperties
<1>2. Append(q, n) \in Seq(Nat) /\ DOMAIN Append(q, n) = 1..Len(q) + 1
  BY AppendProperties, LenProperties
<1>3. (\A i \in 1..Len(q) : Append(q, n)[i] = q[i]) /\ Append(q, n)[Len(q) + 1] = n
  BY AppendProperties
<1> DEFINE longer == Append(q, n)
<1> HIDE DEF longer
<1>4. \A i \in DOMAIN longer : \/ i \in DOMAIN q /\ longer[i] = q[i]
                               \/ i = Len(q) + 1 /\ longer[i] = n
  BY <1>1, <1>2, <1>3 DEF longer
<1>5. Increasing(longer)
  BY <1>1, <1>2, <1>4 DEF Increasing, longer
<1>6. QED
  BY <1>2, <1>4, <1>5 DEF longer

\* One sequence after the other, when all of the first comes before the second.
LEMMA JoinsInOrder ==
  ASSUME NEW p \in Seq(Nat), NEW q \in Seq(Nat), Increasing(p), Increasing(q),
         \A i \in DOMAIN p, j \in DOMAIN q : p[i] < q[j]
  PROVE  /\ p \o q \in Seq(Nat) /\ Increasing(p \o q)
         /\ \A i \in DOMAIN (p \o q) : \/ \E j \in DOMAIN p : (p \o q)[i] = p[j]
                                       \/ \E j \in DOMAIN q : (p \o q)[i] = q[j]
<1>1. /\ Len(p) \in Nat /\ DOMAIN p = 1..Len(p)
      /\ Len(q) \in Nat /\ DOMAIN q = 1..Len(q)
  BY LenProperties
<1>2. p \o q \in Seq(Nat) /\ DOMAIN (p \o q) = 1..Len(p) + Len(q)
  BY ConcatProperties, LenProperties
<1>3. \A i \in 1..Len(p) + Len(q) : (p \o q)[i] = IF i <= Len(p) THEN p[i] ELSE q[i - Len(p)]
  BY ConcatProperties
<1> DEFINE both == p \o q
<1> HIDE DEF both
<1>4. ASSUME NEW i \in DOMAIN both
      PROVE  \/ i <= Len(p) /\ i \in DOMAIN p /\ both[i] = p[i]
             \/ i > Len(p) /\ i - Len(p) \in DOMAIN q /\ both[i] = q[i - Len(p)]
  BY <1>1, <1>2, <1>3 DEF both
<1>5. ASSUME NEW i \in DOMAIN both, NEW j \in DOMAIN both, i < j
      PROVE  both[i] < both[j]
  <2>1. i \in Nat /\ j \in Nat
    BY <1>1, <1>2 DEF both
  <2>2. CASE j <= Len(p)
    BY <1>1, <1>4, <1>5, <2>1, <2>2 DEF Increasing
  <2>3. CASE i > Len(p)
    <3>1. /\ i - Len(p) \in DOMAIN q /\ both[i] = q[i - Len(p)]
          /\ j - Len(p) \in DOMAIN q /\ both[j] = q[j - Len(p)]
      BY <1>1, <1>4, <1>5, <2>1, <2>3
    <3>2. i - Len(p) < j - Len(p)
      BY <1>1, <1>5, <2>1
    <3>3. QED
      BY <3>1, <3>2 DEF Increasing
  <2>4. CASE i <= Len(p) /\ j > Len(p)
    BY <1>1, <1>4, <2>1, <2>4
  <2>5. QED
    BY <1>1, <2>1, <2>2, <2>3, <2>4
<1>6. QED
  BY <1>2, <1>4, <1>5 DEF Increasing, both

LEMMA InitOrder == Init => OrderInv
<1> SUFFICES ASSUME Init PROVE OrderInv
  OBVIOUS
<1>1. TypeInv
  BY InitTyped
<1>2. wire = <<>> /\ me.queue = <<>> /\ me.initialized = FALSE
  BY DEF Init
<1>3. <<>> \in Seq(Nat) /\ DOMAIN wire = {} /\ DOMAIN me.queue = {}
  BY <1>2, EmptySeq
<1>4. QED
  BY <1>1, <1>2, <1>3 DEF OrderInv, Increasing, IsReady

LEMMA NextOrder == OrderInv /\ [Next]_vars => OrderInv'
<1> SUFFICES ASSUME OrderInv, [Next]_vars PROVE OrderInv'
  OBVIOUS
<1>1. TypeInv /\ TypeInv'
  BY NextTyped DEF OrderInv
<1>2. /\ op \in Seq(Operation) /\ Len(op) \in Nat /\ me \in Fields
      /\ me.queue \in Seq(Nat) /\ wire \in Seq(Nat)
  <2>1. 1..MaxOps \subseteq Nat
    BY Constants
  <2>2. Len(me.queue) \in Nat /\ DOMAIN me.queue = 1..Len(me.queue) /\ me.queue \in [1..Len(me.queue) -> 1..MaxOps]
    BY <1>1, LenProperties DEF TypeInv, Typed, Fields
  <2>3. me.queue \in [1..Len(me.queue) -> Nat]
    BY <2>1, <2>2
  <2>4. me.queue \in Seq(Nat)
    BY <2>2, <2>3, MapIsSeq
  <2>5. QED
    BY <1>1, <2>4, LenProperties DEF TypeInv, Typed, OrderInv
<1>3. DOMAIN <<>> = {}
  OBVIOUS
<1>4. ASSUME QuietStep PROVE OrderInv'
  <2>1. ASSUME me'.initialized
        PROVE  me'.ws \in Slots /\ net'[me'.ws].at \in {"open", "closing"}
               /\ (net'[me'.ws].at = "open" => net[me.ws].at = "open")
    BY <1>4, <2>1 DEF OrderInv, QuietStep, SameFields, NetGoesOn
  <2>2. IsReady(me', net') => IsReady(me, net)
    BY <1>4, <2>1 DEF QuietStep, SameFields, IsReady, IsOpen
  <2>3. QED
    BY <1>1, <1>4, <2>1, <2>2 DEF OrderInv, QuietStep, SameFields, Increasing
<1>5. ASSUME Greets PROVE OrderInv'
  <2>1. wire' = wire \o me.queue /\ me'.queue = <<>> /\ me'.ws = me.ws
    BY <1>5 DEF Greets
  <2>2. Len(op') = Len(op)
    BY <1>1, <1>2, <1>5, SendsTyped DEF Greets
  <2>3. /\ wire' \in Seq(Nat) /\ Increasing(wire')
        /\ \A i \in DOMAIN wire' : wire'[i] <= Len(op)
    BY <1>2, <2>1, JoinsInOrder DEF OrderInv
  <2>4. me'.ws \in Slots /\ net'[me'.ws].at = "open"
    BY <1>5 DEF Greets
  <2>5. QED
    BY <1>1, <1>3, <2>1, <2>2, <2>3, <2>4 DEF OrderInv, Increasing
<1>6. ASSUME Connects PROVE OrderInv'
  BY <1>1, <1>6 DEF OrderInv, Connects, Increasing, IsReady
<1>7. ASSUME NEW r \in DOMAIN op, Answered(r) PROVE OrderInv'
  <2>1. Len(op') = Len(op) /\ UNCHANGED <<me, net, wire>>
    <3>1. op' = [op EXCEPT ![r].at = "done"] /\ UNCHANGED <<me, net, wire>>
      BY <1>7 DEF Answered
    <3>2. DOMAIN op' = DOMAIN op
      BY <3>1
    <3>3. op' \in Seq(Operation)
      BY <1>1 DEF TypeInv, Typed
    <3>4. DOMAIN op = 1..Len(op) /\ DOMAIN op' = 1..Len(op') /\ Len(op') \in Nat
      BY <1>2, <3>3, LenProperties
    <3>5. QED
      BY <1>2, <3>1, <3>2, <3>4
  <2>2. QED
    BY <1>1, <2>1 DEF OrderInv, Increasing, IsReady, IsOpen
<1>8. ASSUME NEW s \in Slots, CloseEvent(s) PROVE OrderInv'
  <2>1. Len(op') = Len(op)
    BY <1>1, <1>2, <1>8, CloseCases, Rejects DEF AnotherAttempt, NoMoreAttempts
  <2>2. me'.initialized = FALSE /\ (me'.queue = me.queue \/ me'.queue = <<>>)
    <3>1. CASE AnotherAttempt
      <4>1. PICK m \in Fields : me' = Later(m) /\ m.initialized = FALSE /\ m.queue = me.queue
        BY <3>1 DEF AnotherAttempt
      <4>2. QED
        BY <4>1 DEF Later, Fields
    <3>2. CASE NoMoreAttempts
      BY <3>2 DEF NoMoreAttempts
    <3>3. QED
      BY <1>1, <1>8, <3>1, <3>2, CloseCases
  <2>3. UNCHANGED wire
    BY <1>1, <1>8, CloseCases
  <2>4. QED
    BY <1>1, <1>3, <2>1, <2>2, <2>3 DEF OrderInv, Increasing, IsReady
<1>9. ASSUME NEW kind \in {"request", "note"}, NEW retryable \in BOOLEAN, Asks(kind, retryable)
      PROVE  OrderInv'
  <2> DEFINE r == Len(op) + 1
  <2>1. PICK o \in Operation :
          /\ op' = Append(op, o) /\ UNCHANGED net
          /\ \/ IsReady(me, net) /\ wire' = Append(wire, r) /\ UNCHANGED me
             \/ /\ ~IsReady(me, net)
                /\ me' = [me EXCEPT !.queue = Append(@, r)] /\ UNCHANGED wire
             \/ UNCHANGED <<me, wire>>
    BY <1>1, <1>9, AsksCases
  <2>2. Len(op') = r /\ r \in Nat /\ Len(op) < r
    BY <1>2, <2>1, AppendProperties
  <2>3. /\ \A i \in DOMAIN wire : wire[i] \in Nat /\ wire[i] < r /\ wire[i] <= r
        /\ \A i \in DOMAIN me.queue : me.queue[i] \in Nat /\ me.queue[i] < r /\ me.queue[i] <= r
    <3>1. /\ \A i \in DOMAIN wire : wire[i] \in Nat
          /\ \A i \in DOMAIN me.queue : me.queue[i] \in Nat
      BY <1>2, LenProperties, ElementOfSeq
    <3>2. QED
      BY <1>2, <2>2, <3>1 DEF OrderInv
  <2> HIDE DEF r
  <2>4. CASE IsReady(me, net) /\ wire' = Append(wire, r) /\ UNCHANGED me
    <3>1. /\ wire' \in Seq(Nat) /\ Increasing(wire')
          /\ \A i \in DOMAIN wire' : (i \in DOMAIN wire /\ wire'[i] = wire[i]) \/ wire'[i] = r
      BY <1>2, <2>2, <2>3, <2>4, AppendsInOrder DEF OrderInv
    <3>2. \A i \in DOMAIN wire' : wire'[i] <= Len(op')
      BY <2>2, <2>3, <3>1
    <3>3. me'.queue = <<>>
      BY <2>4 DEF OrderInv
    <3>4. QED
      BY <1>1, <1>3, <2>1, <2>4, <3>1, <3>2, <3>3 DEF OrderInv, Increasing
  <2>5. CASE ~IsReady(me, net) /\ me' = [me EXCEPT !.queue = Append(@, r)] /\ UNCHANGED wire
    <3>1. me'.queue = Append(me.queue, r) /\ me'.ws = me.ws /\ me'.initialized = me.initialized
      BY <1>2, <2>5 DEF Fields
    <3>2. /\ Increasing(me'.queue)
          /\ \A i \in DOMAIN me'.queue : \/ i \in DOMAIN me.queue /\ me'.queue[i] = me.queue[i]
                                         \/ me'.queue[i] = r
      BY <1>2, <2>2, <2>3, <3>1, AppendsInOrder DEF OrderInv
    <3>3. \A i \in DOMAIN me'.queue : me'.queue[i] <= Len(op')
      BY <2>2, <2>3, <3>2
    <3>4. \A i \in DOMAIN wire, j \in DOMAIN me'.queue : wire[i] < me'.queue[j]
      BY <2>3, <3>2 DEF OrderInv
    <3>5. \A i \in DOMAIN wire : wire[i] <= Len(op')
      BY <2>2, <2>3
    <3>6. ~IsReady(me', net')
      BY <2>1, <2>5, <3>1 DEF IsReady, IsOpen
    <3>7. QED
      BY <1>1, <2>1, <2>5, <3>1, <3>2, <3>3, <3>4, <3>5, <3>6 DEF OrderInv, Increasing
  <2>6. CASE UNCHANGED <<me, wire>>
    BY <1>1, <2>1, <2>2, <2>3, <2>6 DEF OrderInv, Increasing, IsReady, IsOpen
  <2>7. QED
    BY <2>1, <2>4, <2>5, <2>6
<1>10. ASSUME Close PROVE OrderInv'
  <2>1. /\ me'.initialized = FALSE /\ me'.queue = <<>> /\ UNCHANGED wire
        /\ op' = RejectQueued(RejectPending(op))
    BY <1>1, <1>10, CloseFacts
  <2>2. Len(op') = Len(op)
    BY <1>2, <2>1, Rejects
  <2>3. QED
    BY <1>1, <1>3, <2>1, <2>2 DEF OrderInv, Increasing, IsReady
<1>11. CASE UNCHANGED vars
  BY <1>1, <1>11 DEF vars, OrderInv, Increasing, IsReady, IsOpen
<1>12. ASSUME NEW s \in Slots, SocketStep(s) PROVE OrderInv'
  BY <1>1, <1>4, <1>5, <1>8, <1>12, NetworkIsQuiet, InitializedCases DEF SocketStep
<1>13. CASE OpenTimesOut \/ HandshakeTimesOut
  BY <1>1, <1>4, <1>13, TimeoutIsQuiet
<1>14. CASE EnsureConnected \/ \E id \in 1..Cardinality(Slots) : Reconnects(id)
  BY <1>1, <1>6, <1>14, ConnectCases
<1>15. QED
  BY <1>7, <1>9, <1>10, <1>11, <1>12, <1>13, <1>14 DEF Next

(***************************************************************************)
(* Servers are sent the operations in the order they were asked for, none  *)
(* twice, whatever was queued, flushed and asked for on open connections.  *)
(***************************************************************************)
THEOREM OrderHolds == Spec => []WireFollowsCalls
<1>1. OrderInv => WireFollowsCalls
  BY DEF OrderInv, Increasing, WireFollowsCalls
<1>2. QED
  BY <1>1, InitOrder, NextOrder, PTL DEF Spec
-----------------------------------------------------------------------------
(* One connection at a time *)

NoneBut(x) == \A s \in Slots : s # x => net[s].at = "none"

\* The current socket, or the one reconnection whose handle is kept, or a closed
\* socket whose close event is still to come.
Single ==
  \/ /\ me.intentional /\ me.ws = 0 /\ me.timers = {}
     /\ \E x \in Slots : NoneBut(x) /\ net[x].at \in {"none", "closing"}
  \/ ~me.intentional /\ me.ws \in Slots /\ me.timers = {} /\ NoneBut(me.ws)
  \/ /\ ~me.intentional /\ me.ws = 0 /\ me.timers \in {{}, {me.handle}}
     /\ \A s \in Slots : net[s].at = "none"

OneInv == TypeInv /\ (again \/ Single)

LEMMA SingleIsOne == TypeInv /\ (again \/ Single) => OneConnection
<1> SUFFICES ASSUME TypeInv, Single
             PROVE  Links <= 1 /\ (me.intentional => me.timers = {} /\ \A s \in Slots : net[s].at \in {"none", "closing"})
  BY DEF OneConnection
<1>1. \A s \in Slots : net[s].at = "none" => s \notin Busy
  BY DEF TypeInv, SocketsLive, Busy
<1>2. Links = Cardinality(Busy) + Cardinality(me.timers)
  BY DEF Links, Busy
<1>3. /\ Cardinality({}) = 0 /\ \A x : IsFiniteSet({x}) /\ Cardinality({x}) = 1
      /\ Cardinality(Busy) \in Nat
  BY FS_EmptySet, FS_Singleton, SlotSets DEF Busy
<1>4. ASSUME NEW x \in Slots, NoneBut(x) PROVE Cardinality(Busy) <= 1
  <2>1. Busy \in SUBSET {x}
    BY <1>1, <1>4 DEF NoneBut, Busy
  <2>2. Cardinality(Busy) <= Cardinality({x}) /\ Cardinality({x}) = 1
    BY <1>3, <2>1, FS_Subset
  <2>3. QED
    BY <2>2
<1>5. (\A s \in Slots : net[s].at = "none") => Busy = {}
  BY <1>1 DEF Busy
<1>6. Links <= 1
  <2>1. CASE me.timers = {} /\ \E x \in Slots : NoneBut(x)
    BY <1>2, <1>3, <1>4, <2>1
  <2>2. CASE me.timers \in {{}, {me.handle}} /\ \A s \in Slots : net[s].at = "none"
    <3>1. Cardinality(me.timers) \in {0, 1}
      BY <1>3, <2>2
    <3>2. Cardinality(Busy) = 0
      BY <1>3, <1>5, <2>2
    <3>3. QED
      BY <1>2, <3>1, <3>2
  <2>3. QED
    BY <2>1, <2>2 DEF Single
<1>7. QED
  BY <1>6 DEF Single, NoneBut

LEMMA InitOne == Init => OneInv
<1> SUFFICES ASSUME Init PROVE OneInv
  OBVIOUS
<1> DEFINE w == CHOOSE s \in Slots : TRUE
<1>1. w \in Slots
  BY Constants
<1>2. /\ me.ws = w /\ ~me.intentional /\ me.timers = {}
      /\ net = [t \in Slots |-> IF t = w THEN [NoSocket EXCEPT !.at = "connecting"] ELSE NoSocket]
  BY DEF Init
<1> HIDE DEF w
<1>3. NoneBut(w)
  BY <1>2 DEF NoneBut, NoSocket
<1>4. QED
  BY <1>1, <1>2, <1>3, InitTyped DEF OneInv, Single

LEMMA NextOne == OneInv /\ [Next]_vars => OneInv'
<1> SUFFICES ASSUME OneInv, [Next]_vars PROVE OneInv'
  OBVIOUS
<1>1. TypeInv /\ TypeInv' /\ me \in Fields
  BY NextTyped DEF OneInv, TypeInv, Typed
<1>2. ASSUME me'.ws = me.ws, me'.timers = me.timers, me'.handle = me.handle,
             me'.intentional = me.intentional, NetGoesOn, UNCHANGED again
      PROVE  OneInv'
  <2>1. ASSUME Single PROVE Single'
    <3>1. CASE me.intentional
      <4>1. PICK x \in Slots : NoneBut(x) /\ net[x].at \in {"none", "closing"}
        BY <2>1, <3>1 DEF Single
      <4>2. NoneBut(x)' /\ net'[x].at \in {"none", "closing"}
        BY <1>2, <4>1 DEF NoneBut, NetGoesOn
      <4>3. QED
        BY <1>2, <2>1, <3>1, <4>2 DEF Single
    <3>2. CASE ~me.intentional
      BY <1>2, <2>1, <3>2 DEF Single, NoneBut, NetGoesOn
    <3>3. QED
      BY <3>1, <3>2
  <2>2. QED
    BY <1>1, <1>2, <2>1 DEF OneInv
<1>3. ASSUME UNCHANGED net PROVE NetGoesOn
  BY <1>3 DEF NetGoesOn
<1>4. ASSUME QuietStep PROVE OneInv'
  BY <1>2, <1>4 DEF QuietStep, SameFields
<1>5. ASSUME Greets PROVE OneInv'
  BY <1>2, <1>5 DEF Greets, NetGoesOn
<1>6. ASSUME Connects PROVE OneInv'
  <2>1. PICK s \in Slots : /\ me'.ws = s
                           /\ \A t \in Slots : t # s => net'[t] = net[t]
    BY <1>6 DEF Connects
  <2>2. ASSUME ~again' PROVE Single'
    <3>1. Single /\ ~again
      <4>1. ~again
        <5>1. CASE again' = again
          BY <2>2, <5>1, Zenon
        <5>2. CASE again' = (again \/ me.timers # {})
          BY <2>2, <5>2, Zenon
        <5>3. QED
          BY <1>6, <5>1, <5>2 DEF Connects
      <4>2. QED
        BY <4>1 DEF OneInv
    <3>2. ~me.intentional /\ (\A t \in Slots : net[t].at = "none") /\ me'.timers = {}
      <4>1. CASE \E id \in me.timers : me'.timers = me.timers \ {id}
        BY <3>1, <4>1 DEF Single
      <4>2. CASE ~me.intentional /\ me.ws = 0 /\ me'.timers = me.timers /\ again' = (again \/ me.timers # {})
        BY <2>2, <3>1, <4>2, Constants DEF Single
      <4>3. QED
        BY <1>6, <4>1, <4>2 DEF Connects
    <3>3. NoneBut(s)'
      BY <2>1, <3>2 DEF NoneBut
    <3>4. QED
      BY <1>6, <2>1, <3>2, <3>3 DEF Single, Connects
  <2>3. QED
    BY <1>1, <2>2 DEF OneInv
<1>7. ASSUME NEW s \in Slots, CloseEvent(s) PROVE OneInv'
  <2>1. /\ net[s].at = "closing" /\ net'[s].at = "none" /\ UNCHANGED again
        /\ \A t \in Slots : t # s => net'[t].at = net[t].at
        /\ AnotherAttempt \/ NoMoreAttempts
    BY <1>1, <1>7, CloseCases DEF NoSocket
  <2>2. ASSUME Single PROVE Single'
    <3>1. (\A t \in Slots : net'[t].at = "none") /\ me.timers = {}
      BY <2>1, <2>2 DEF Single, NoneBut
    <3>2. CASE AnotherAttempt
      <4>1. PICK m \in Fields : /\ me' = Later(m) /\ m.ws = 0 /\ m.timers = me.timers
                                /\ m.intentional = me.intentional
        BY <3>2 DEF AnotherAttempt
      <4>2. me'.ws = 0 /\ me'.timers = me.timers \cup {me'.handle} /\ me'.intentional = me.intentional
        BY <4>1 DEF Later, Fields
      <4>3. ~me.intentional
        BY <3>2 DEF AnotherAttempt
      <4>4. QED
        BY <3>1, <4>2, <4>3 DEF Single
    <3>3. CASE NoMoreAttempts
      <4>1. me'.ws = 0 /\ me'.timers = {} /\ me'.intentional = me.intentional
        BY <3>1, <3>3 DEF NoMoreAttempts
      <4>2. NoneBut(s)'
        BY <3>1 DEF NoneBut
      <4>3. QED
        BY <2>1, <3>1, <4>1, <4>2 DEF Single
    <3>4. QED
      BY <2>1, <3>2, <3>3
  <2>3. QED
    BY <1>1, <2>1, <2>2 DEF OneInv
<1>8. ASSUME NEW r \in DOMAIN op, Answered(r) PROVE OneInv'
  BY <1>2, <1>3, <1>8 DEF Answered
<1>9. ASSUME NEW kind \in {"request", "note"}, NEW retryable \in BOOLEAN, Asks(kind, retryable)
      PROVE  OneInv'
  <2>1. /\ UNCHANGED <<net, again>>
        /\ UNCHANGED me \/ me' = [me EXCEPT !.queue = Append(@, Len(op) + 1)]
    BY <1>1, <1>9, AsksCases
  <2>2. /\ me'.ws = me.ws /\ me'.timers = me.timers /\ me'.handle = me.handle
        /\ me'.intentional = me.intentional
    BY <1>1, <2>1 DEF Fields
  <2>3. QED
    BY <1>2, <1>3, <2>1, <2>2
<1>10. ASSUME Close PROVE OneInv'
  <2>1. /\ me'.ws = 0 /\ me'.timers = me.timers \ {me.handle} /\ me'.intentional
        /\ \A s \in Slots : net'[s].at = IF s = me.ws THEN "closing" ELSE net[s].at
        /\ UNCHANGED again /\ ~me.intentional
    BY <1>1, <1>10, CloseFacts DEF Close
  <2>2. ASSUME Single PROVE Single'
    <3>1. me'.timers = {}
      BY <2>1, <2>2 DEF Single
    <3>2. \E x \in Slots : NoneBut(x)' /\ net'[x].at \in {"none", "closing"}
      <4>1. CASE me.ws \in Slots
        BY <2>1, <2>2, <4>1, Constants DEF Single, NoneBut
      <4>2. CASE me.ws = 0
        <5>1. \A s \in Slots : net[s].at = "none"
          BY <2>1, <2>2, <4>2, Constants DEF Single
        <5>2. PICK x \in Slots : TRUE
          BY Constants
        <5>3. \A s \in Slots : net'[s].at = "none"
          BY <2>1, <4>2, <5>1, Constants
        <5>4. QED
          BY <5>2, <5>3 DEF NoneBut
      <4>3. QED
        BY <1>1, <4>1, <4>2 DEF Fields
    <3>3. QED
      BY <2>1, <3>1, <3>2 DEF Single
  <2>3. QED
    BY <1>1, <2>1, <2>2 DEF OneInv
<1>11. CASE UNCHANGED vars
  BY <1>2, <1>3, <1>11 DEF vars
<1>12. ASSUME NEW s \in Slots, SocketStep(s) PROVE OneInv'
  BY <1>1, <1>4, <1>5, <1>7, <1>12, NetworkIsQuiet, InitializedCases DEF SocketStep
<1>13. CASE OpenTimesOut \/ HandshakeTimesOut
  BY <1>1, <1>4, <1>13, TimeoutIsQuiet
<1>14. CASE EnsureConnected \/ \E id \in 1..Cardinality(Slots) : Reconnects(id)
  BY <1>1, <1>6, <1>14, ConnectCases
<1>15. QED
  BY <1>8, <1>9, <1>10, <1>11, <1>12, <1>13, <1>14 DEF Next

(***************************************************************************)
(* Without a connect while a reconnection is due, there is one socket or   *)
(* one reconnection, and after close no reconnection and no open socket.   *)
(***************************************************************************)
THEOREM OneConnectionHolds == Spec => []OneConnection
<1>1. OneInv => OneConnection
  BY SingleIsOne DEF OneInv
<1>2. QED
  BY <1>1, InitOne, NextOne, PTL DEF Spec
=============================================================================
