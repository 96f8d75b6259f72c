-------------------------- MODULE MemoryDeliveries --------------------------
(***************************************************************************)
(* A ResumeSession client without an outbox: recoverable QoS 1 deliveries, *)
(* kept in memory across connections, that share packet identifiers,       *)
(* inflight places and the business queue with ordinary requests           *)
(* (subscribes and unsubscribes; QoS 1 publishes are refused).             *)
(*                                                                         *)
(* The coroutines of one thread are the application, the supervisor with   *)
(* its replay, and the write loop, reader and watchdog of the connection;  *)
(* an action is what one of them does up to its next suspension.           *)
(*                                                                         *)
(* The broker conforms: it answers each packet it received on a connection *)
(* at most once, at any time while that connection lasts.                  *)
(***************************************************************************)
EXTENDS Integers, Sequences, FiniteSets, SequencesExt

CONSTANTS
    Deliveries,          \* handles: each delivery_id the application submits
    Expiring,            \* those whose Message Expiry may elapse
    Requests,            \* callers of subscribe and unsubscribe
    NoItem,
    SendCapacity, MaxInflight,
    ReceiveMaximums,     \* what a CONNACK may say
    MaxPacketId,         \* 65535 in the code
    ReconnectAttempts

Items     == Deliveries \cup Requests
PacketIds == 1..MaxPacketId

ASSUME DeliveriesAssumption ==
    /\ IsFiniteSet(Deliveries) /\ IsFiniteSet(Requests)
    /\ Expiring \subseteq Deliveries
    /\ Deliveries \cap Requests = {} /\ NoItem \notin Items
    /\ SendCapacity \in Nat \ {0} /\ MaxInflight \in Nat \ {0}
    /\ ReceiveMaximums \subseteq Nat \ {0}
    /\ MaxPacketId \in Nat \ {0}
    /\ ReconnectAttempts \in Nat

VARIABLES
    stage,          \* where the supervisor is
    stopped,        \* Client::stopped
    everReady,      \* of supervise
    failures,       \* its attempts: dials and connections lost since ready
    cause,          \* Session::failure_reason; alive while there is "none"
    order,          \* DeliveryBook::order, with active and reserved
    nextPacketId,   \* DeliveryBook::next_packet_id
    phase, packetId, attempts, deadline,     \* of each DeliveryRecord
    started,        \* ever_started of deliveries, started of requests
    attached,       \* Session::deliveries: records of this generation
    slots,          \* Session::delivery_slots
    pending, requestId,                      \* Session::pending
    nextId,         \* Session::next_id
    outgoing, deferred, businessDepth,       \* the business queue
    credit,         \* Session::qos1_outstanding
    receiveMaximum,
    writer,         \* where the write loop is, with which item, and its DUP
    replay,         \* what replay_deliveries has not put into the queue yet
    copies,         \* history: copies of each delivery handed to a socket
    onWire,         \* history: what was handed over on this connection
    owed, acks,     \* the broker: what it has to answer, answers on their way
    answered        \* history: deliveries the broker has answered

clientVars == <<stage, stopped, everReady, failures>>
bookVars   == <<order, nextPacketId, phase, packetId, attempts, deadline>>
sessionVars == <<attached, slots, pending, requestId, nextId>>
queueVars  == <<outgoing, deferred, businessDepth, credit, receiveMaximum>>
peerVars   == <<owed, acks, answered>>
wireVars   == <<copies, onWire>>
vars == <<clientVars, cause, bookVars, started, sessionVars, queueVars,
          writer, replay, wireVars, peerVars>>

Active == Range(order)
Alive  == cause = "none"

Waiting  == {"Queued", "AwaitingAck", "AwaitingReconnect"}
Terminal == {"Acknowledged", "Rejected", "TerminalNotSent",
             "TerminalOutcomeUnknown"}

TypeOK ==
    /\ stage \in {"dialing", "replaying", "ready", "ended"}
    /\ stopped \in BOOLEAN /\ everReady \in BOOLEAN /\ failures \in Nat
    /\ cause \in {"none", "closed", "lost", "exhausted", "rejected", "fatal",
                  "unexpected"}
    /\ order \in Seq(Deliveries) /\ nextPacketId \in PacketIds
    /\ phase \in [Deliveries -> {"new"} \cup Waiting \cup Terminal]
    /\ packetId \in [Deliveries -> 0..MaxPacketId]
    /\ attempts \in [Deliveries -> Nat]
    /\ deadline \in [Deliveries -> {"none", "start", "ack"}]
    /\ started \subseteq Items
    /\ attached \subseteq Deliveries /\ slots \in Nat
    /\ pending \subseteq Requests
    /\ requestId \in [Requests -> 0..MaxPacketId] /\ nextId \in PacketIds
    /\ outgoing \in Seq(Items) /\ deferred \in Seq(Deliveries)
    /\ businessDepth \in Nat /\ credit \in Nat /\ receiveMaximum \in Nat
    /\ writer \in [at : {"idle", "started", "writing"},
                   item : Items \cup {NoItem}, dup : BOOLEAN]
    /\ replay \in Seq(Deliveries)
    /\ copies \in [Deliveries -> Nat]
    /\ onWire \subseteq Items /\ owed \subseteq Items /\ acks \subseteq Items
    /\ answered \subseteq Deliveries

Idle == [at |-> "idle", item |-> NoItem, dup |-> FALSE]

Init ==
    /\ stage = "dialing" /\ stopped = FALSE /\ everReady = FALSE
    /\ failures = 0 /\ cause = "closed"
    /\ order = <<>> /\ nextPacketId = 1
    /\ phase = [d \in Deliveries |-> "new"]
    /\ packetId = [d \in Deliveries |-> 0]
    /\ attempts = [d \in Deliveries |-> 0]
    /\ deadline = [d \in Deliveries |-> "none"]
    /\ started = {}
    /\ attached = {} /\ slots = 0 /\ pending = {}
    /\ requestId = [r \in Requests |-> 0] /\ nextId = 1
    /\ outgoing = <<>> /\ deferred = <<>> /\ businessDepth = 0
    /\ credit = 0 /\ receiveMaximum = 0
    /\ writer = Idle /\ replay = <<>>
    /\ copies = [d \in Deliveries |-> 0] /\ onWire = {}
    /\ owed = {} /\ acks = {} /\ answered = {}
-----------------------------------------------------------------------------
(* Session::abort_with: the first error wins, the queues are discarded,    *)
(* requests are settled, deliveries are detached.                          *)

CloseSession(error) ==
    /\ cause' = error
    /\ attached' = {} /\ slots' = 0
    /\ pending' = {} /\ started' = started \ Requests
    /\ outgoing' = <<>> /\ deferred' = <<>> /\ businessDepth' = 0
    /\ credit' = 0
    /\ owed' = {} /\ acks' = {}
    /\ UNCHANGED <<nextPacketId, packetId, requestId, nextId,
                   receiveMaximum, copies, onWire, answered>>

Detached == [d \in Deliveries |-> IF d \in attached THEN "AwaitingReconnect"
                                                    ELSE phase[d]]

WithoutDeadlines(S) ==
    [d \in Deliveries |-> IF d \in S THEN "none" ELSE deadline[d]]

Abort(error) ==
    /\ CloseSession(error)
    /\ phase' = Detached /\ deadline' = WithoutDeadlines(attached)
    /\ UNCHANGED <<order, attempts>>

(* The counters of the session never go below zero.                        *)
Less(n) == IF n > 0 THEN n - 1 ELSE 0

(* Mutation: by the state of the record, which a lost connection changes. *)
OutcomeByPhase(d) == IF phase[d] = "AwaitingAck" THEN "TerminalOutcomeUnknown"
                                                 ELSE "TerminalNotSent"

(* DeliveryRecord::finish_terminal.                                        *)
Outcome(d) == IF d \in started THEN "TerminalOutcomeUnknown"
                               ELSE "TerminalNotSent"

(* finish_deliveries_now, and the end of supervise: every record left in   *)
(* the book is settled by how far it ever came.                            *)
Ends ==
    /\ stage' = "ended" /\ stopped' = TRUE
    /\ phase' = [d \in Deliveries |-> IF d \in Active THEN Outcome(d)
                                                      ELSE phase[d]]
    /\ deadline' = WithoutDeadlines(Active)
    /\ order' = <<>> /\ replay' = <<>> /\ writer' = Idle
    /\ UNCHANGED <<everReady, failures, attempts>>
-----------------------------------------------------------------------------
(* Packet identifiers.  Both allocators pass over the identifiers of       *)
(* pending requests and of every delivery in the book, attached or not.    *)

(* Mutation: the book is not consulted. *)
NothingReserved == {}

Reserved == {packetId[d] : d \in Active}

FreeIds == PacketIds \ ({requestId[r] : r \in pending} \cup Reserved)

Successor(i) == IF i = MaxPacketId THEN 1 ELSE i + 1

FirstFree(i, from) ==
    /\ i \in FreeIds
    /\ \A j \in FreeIds : (i - from) % MaxPacketId <= (j - from) % MaxPacketId

(* Session::enqueue_business.                                              *)
Room == businessDepth < SendCapacity

Enqueue(item) ==
    /\ outgoing' = Append(outgoing, item)
    /\ businessDepth' = businessDepth + 1

(* Client::active.                                                         *)
MayCall == ~stopped /\ stage = "ready" /\ Alive
-----------------------------------------------------------------------------
(* The application.                                                        *)

(* The bound submit_delivery checks.                                       *)
PlaceForDelivery == Cardinality(Active) + Cardinality(pending) < MaxInflight

(* Mutation: only connections that became ready count. *)
CountedWhenReady(d) == IF stage = "ready" THEN attempts[d] + 1 ELSE attempts[d]

Counted(d) == attempts[d] + 1

(* DeliveryRecord::attach.                                                 *)
Attach(d) ==
    /\ attempts' = [attempts EXCEPT ![d] = Counted(d)]
    /\ phase' = [phase EXCEPT ![d] = "Queued"]
    /\ deadline' = [deadline EXCEPT ![d] = "start"]
    /\ attached' = attached \cup {d} /\ slots' = slots + 1

(* submit_delivery: it never waits.                                        *)
SubmitDelivery(d) ==
    /\ MayCall /\ phase[d] = "new"
    /\ PlaceForDelivery /\ Room
    /\ \E i \in PacketIds :
         /\ FirstFree(i, nextPacketId)
         /\ packetId' = [packetId EXCEPT ![d] = i]
         /\ nextPacketId' = Successor(i)
    /\ order' = Append(order, d)
    /\ Attach(d)
    /\ Enqueue(d)
    /\ UNCHANGED <<clientVars, cause, started, pending, requestId, nextId,
                   deferred, credit, receiveMaximum, writer, replay,
                   wireVars, peerVars>>

(* The queue is full, or Message Expiry has elapsed: only the identifier   *)
(* passed over remains of it.                                              *)
SubmitRefused(d) ==
    /\ MayCall /\ phase[d] = "new"
    /\ PlaceForDelivery /\ (~Room \/ d \in Expiring)
    /\ \E i \in PacketIds :
         FirstFree(i, nextPacketId) /\ nextPacketId' = Successor(i)
    /\ UNCHANGED <<clientVars, cause, order, phase, packetId, attempts,
                   deadline, started, sessionVars, queueVars, writer, replay,
                   wireVars, peerVars>>

(* Session::request with the identifier of Session::allocate; when the     *)
(* queue is full, its caller gets Backpressure.                            *)
Request(r) ==
    /\ MayCall /\ r \notin pending
    /\ Cardinality(pending) + slots < MaxInflight
    /\ \E i \in PacketIds :
         /\ FirstFree(i, nextId)
         /\ nextId' = Successor(i)
         /\ IF Room
            THEN /\ requestId' = [requestId EXCEPT ![r] = i]
                 /\ pending' = pending \cup {r}
                 /\ Enqueue(r)
            ELSE UNCHANGED <<requestId, pending, outgoing, businessDepth>>
    /\ UNCHANGED <<clientVars, cause, bookVars, started, attached, slots,
                   deferred, credit, receiveMaximum, writer, replay,
                   wireVars, peerVars>>

(* The caller is cancelled or out of time: the connection is given up.     *)
RequestAbandoned(r) ==
    /\ Alive /\ r \in pending
    /\ Abort("lost")
    /\ UNCHANGED <<clientVars, writer, replay>>

(* Client::disconnect, up to the wait for its DISCONNECT packet.           *)
Disconnect ==
    /\ ~stopped
    /\ stopped' = TRUE
    /\ UNCHANGED <<stage, everReady, failures, cause, bookVars, started,
                   sessionVars, queueVars, writer, replay, wireVars, peerVars>>

(* DISCONNECT is written or given up, or there is no connection: the       *)
(* worker is cancelled.                                                    *)
DisconnectEnds ==
    /\ stopped /\ stage # "ended"
    /\ CloseSession(IF Alive THEN "lost" ELSE cause)
    /\ Ends
-----------------------------------------------------------------------------
(* The supervisor.                                                         *)

NoFailureLeft == failures + 1 > ReconnectAttempts

(* A failure that may be tried again: of the dial, or a lost connection.   *)
TryAgain ==
    IF ~everReady \/ NoFailureLeft
    THEN Ends
    ELSE /\ stage' = "dialing" /\ failures' = failures + 1
         /\ replay' = <<>> /\ writer' = Idle
         /\ UNCHANGED <<stopped, everReady, order, phase, attempts, deadline>>

DialFails ==
    /\ stage = "dialing" /\ ~stopped
    /\ TryAgain
    /\ UNCHANGED <<cause, nextPacketId, packetId, started, sessionVars,
                   queueVars, wireVars, peerVars>>

(* The broker has lost the session, or no longer accepts what is to be     *)
(* replayed.                                                               *)
DialFindsNoSession ==
    /\ stage = "dialing" /\ ~stopped /\ everReady
    /\ Ends
    /\ UNCHANGED <<cause, nextPacketId, packetId, started, sessionVars,
                   queueVars, wireVars, peerVars>>

(* A new Session; replay_deliveries copies the book, except for the first. *)
DialConnects ==
    /\ stage = "dialing" /\ ~stopped
    /\ stage' = "replaying" /\ cause' = "none"
    /\ nextId' = 1 /\ receiveMaximum' \in ReceiveMaximums
    /\ onWire' = {}
    /\ replay' = IF everReady THEN order ELSE <<>>
    /\ UNCHANGED <<stopped, everReady, failures, bookVars, started, attached,
                   slots, pending, requestId, outgoing, deferred,
                   businessDepth, credit, writer, copies, peerVars>>

Exhausted(d) == attempts[d] > ReconnectAttempts

Replays(d) == stage = "replaying" /\ Alive /\ replay # <<>> /\ d = Head(replay)

(* replay_deliveries with one record: attached, and into the queue unless  *)
(* that is full.  Between records that find room the code goes on without  *)
(* a pause; other coroutines are let in here.                              *)
ReplayAttaches(d) ==
    /\ Replays(d) /\ d \notin attached /\ ~Exhausted(d)
    /\ Attach(d)
    /\ IF Room THEN Enqueue(d) /\ replay' = Tail(replay)
               ELSE UNCHANGED <<outgoing, businessDepth, replay>>
    /\ UNCHANGED <<clientVars, cause, order, nextPacketId, packetId, started,
                   pending, requestId, nextId, deferred, credit,
                   receiveMaximum, writer, wireVars, peerVars>>

(* enqueue_delivery after its wait for room.                               *)
ReplayEnqueues(d) ==
    /\ Replays(d) /\ d \in attached /\ Room
    /\ Enqueue(d) /\ replay' = Tail(replay)
    /\ UNCHANGED <<clientVars, cause, bookVars, started, sessionVars,
                   deferred, credit, receiveMaximum, writer, wireVars,
                   peerVars>>

(* No attempt is left.                                                     *)
ReplayExhausted(d) ==
    /\ Replays(d) /\ d \notin attached /\ Exhausted(d)
    /\ Abort("exhausted")
    /\ UNCHANGED <<clientVars, writer, replay>>

(* Message Expiry has elapsed: packet() raises once the record is attached, *)
(* and the end of the connection detaches it with the others.              *)
ReplayFindsExpired(d) ==
    /\ Replays(d) /\ d \notin attached /\ ~Exhausted(d) /\ d \in Expiring
    /\ CloseSession("rejected")
    /\ phase' = [Detached EXCEPT ![d] = "AwaitingReconnect"]
    /\ deadline' = WithoutDeadlines(attached \cup {d})
    /\ attempts' = [attempts EXCEPT ![d] = Counted(d)]
    /\ UNCHANGED <<clientVars, order, writer, replay>>

BecomesReady ==
    /\ stage = "replaying" /\ Alive /\ replay = <<>>
    /\ stage' = "ready" /\ everReady' = TRUE /\ failures' = 0
    /\ UNCHANGED <<stopped, cause, bookVars, started, sessionVars, queueVars,
                   writer, replay, wireVars, peerVars>>

(* The connection's tasks have ended.                                      *)
ConnectionEnds ==
    /\ stage \in {"replaying", "ready"} /\ ~Alive
    /\ IF stopped \/ cause # "lost" THEN Ends ELSE TryAgain
    /\ UNCHANGED <<cause, nextPacketId, packetId, started, sessionVars,
                   queueVars, wireVars, peerVars>>
-----------------------------------------------------------------------------
(* The write loop.                                                         *)

HasCredit == credit < receiveMaximum

(* A position next_outgoing may take: any request; the first of all, with  *)
(* credit, while nothing is deferred.                                      *)
Takeable(n) == \/ outgoing[n] \in Requests
               \/ n = 1 /\ deferred = <<>> /\ HasCredit

First(n) == Takeable(n) /\ \A m \in 1..(n - 1) : ~Takeable(m)

DeferredFirst == deferred # <<>> /\ HasCredit

Deferring(items) == deferred \o items

(* The item Session::next_outgoing returns, and what it leaves.            *)
NextOutgoing(item) ==
    IF DeferredFirst
    THEN item = Head(deferred)
    ELSE \E n \in DOMAIN outgoing : First(n) /\ item = outgoing[n]

Takes(item) ==
    /\ NextOutgoing(item)
    /\ businessDepth' = Less(businessDepth)
    /\ IF DeferredFirst
       THEN deferred' = Tail(deferred) /\ UNCHANGED outgoing
       ELSE \E n \in DOMAIN outgoing :
              /\ First(n)
              /\ deferred' = Deferring(SubSeq(outgoing, 1, n - 1))
              /\ outgoing' = SubSeq(outgoing, n + 1, Len(outgoing))

WriterIdles == Alive /\ writer.at = "idle"

(* Mutation: DUP only when an answer was awaited at the time of the loss. *)
DupByPhase(item) == item \in Deliveries /\ phase[item] = "AwaitingAck"

(* write_one's was_started.                                                *)
Dup(item) == item \in started \cap Deliveries

Marked(item) == started \cup {item}

(* write_one up to the writer's future: from here on the bytes may go out. *)
WriterStarts(item) ==
    /\ WriterIdles /\ Takes(item)
    /\ started' = Marked(item)
    /\ writer' = [at |-> "started", item |-> item, dup |-> Dup(item)]
    /\ IF item \in Deliveries
       THEN /\ phase' = [phase EXCEPT ![item] = "AwaitingAck"]
            /\ deadline' = [deadline EXCEPT ![item] = "none"]
            /\ credit' = credit + 1
       ELSE UNCHANGED <<phase, deadline, credit>>
    /\ UNCHANGED <<clientVars, cause, order, nextPacketId, packetId, attempts,
                   sessionVars, receiveMaximum, replay, wireVars, peerVars>>

(* Every delivery that could be taken waits for credit.                    *)
WriterDefers ==
    /\ WriterIdles /\ outgoing # <<>>
    /\ ~DeferredFirst
    /\ \A n \in DOMAIN outgoing : ~Takeable(n)
    /\ deferred' = Deferring(outgoing) /\ outgoing' = <<>>
    /\ UNCHANGED <<clientVars, cause, bookVars, started, sessionVars,
                   businessDepth, credit, receiveMaximum, writer, replay,
                   wireVars, peerVars>>

(* Message Expiry has elapsed in the queue: packet() raises before the     *)
(* record is marked.                                                       *)
WriterFindsExpired ==
    /\ WriterIdles
    /\ \E d \in Expiring : NextOutgoing(d)
    /\ Abort("rejected")
    /\ UNCHANGED <<clientVars, writer, replay>>

(* The bytes go to the socket.                                             *)
WriterHandsOver ==
    /\ Alive /\ writer.at = "started"
    /\ writer' = [writer EXCEPT !.at = "writing"]
    /\ copies' = [d \in Deliveries |-> IF d = writer.item THEN copies[d] + 1
                                                          ELSE copies[d]]
    /\ onWire' = onWire \cup {writer.item}
    /\ owed' = owed \cup {writer.item}
    /\ UNCHANGED <<clientVars, cause, bookVars, started, sessionVars,
                   queueVars, replay, acks, answered>>

(* mark_written: no clock for what was answered before the write returned. *)
AckDeadline(d) == IF phase[d] \in Terminal THEN deadline[d] ELSE "ack"

WriteReturns ==
    /\ Alive /\ writer.at = "writing"
    /\ deadline' = [d \in Deliveries |-> IF d = writer.item THEN AckDeadline(d)
                                                            ELSE deadline[d]]
    /\ writer' = Idle
    /\ UNCHANGED <<clientVars, cause, order, nextPacketId, phase, packetId,
                   attempts, started, sessionVars, queueVars, replay,
                   wireVars, peerVars>>

(* A socket error, or write_timeout_ms.                                    *)
WriteFails ==
    /\ Alive /\ writer.at = "writing"
    /\ Abort("lost")
    /\ UNCHANGED <<clientVars, writer, replay>>
-----------------------------------------------------------------------------
(* The watchdog: a write that does not begin, an answer that does not come. *)

DeliveryTimesOut(d) ==
    /\ Alive /\ d \in attached /\ deadline[d] # "none"
    /\ Abort(IF Exhausted(d) THEN "exhausted" ELSE "lost")
    /\ UNCHANGED <<clientVars, writer, replay>>
-----------------------------------------------------------------------------
(* The broker and the reader.                                              *)

BrokerAnswers(item) ==
    /\ item \in owed
    /\ owed' = owed \ {item} /\ acks' = acks \cup {item}
    /\ answered' = answered \cup ({item} \cap Deliveries)
    /\ UNCHANGED <<clientVars, cause, bookVars, started, sessionVars,
                   queueVars, writer, replay, wireVars>>

(* Mutation: the place is kept. *)
SlotKept == slots

SlotReturned == Less(slots)

CreditReturned == Less(credit)

(* PUBACK: its identifier leads to a record of this connection.            *)
Named(d) == {e \in attached : packetId[e] = packetId[d]}

Completes(e, reply) ==
    /\ phase' = [phase EXCEPT ![e] = reply]
    /\ deadline' = [deadline EXCEPT ![e] = "none"]
    /\ attached' = attached \ {e} /\ slots' = SlotReturned
    /\ credit' = CreditReturned
    /\ \E n \in DOMAIN order : order[n] = e /\ order' = RemoveAt(order, n)

ReadsPuback(d) ==
    /\ Alive /\ d \in acks
    /\ IF \E e \in Named(d) : phase[e] = "AwaitingAck"
       THEN /\ \E e \in Named(d), reply \in {"Acknowledged", "Rejected"} :
                 phase[e] = "AwaitingAck" /\ Completes(e, reply)
            /\ acks' = acks \ {d}
            /\ UNCHANGED <<cause, nextPacketId, packetId, attempts, started,
                           pending, requestId, nextId, outgoing, deferred,
                           businessDepth, receiveMaximum, wireVars, owed,
                           answered>>
       ELSE Abort("unexpected")
    /\ UNCHANGED <<clientVars, writer, replay>>

(* SUBACK and UNSUBACK: to a request that was written.                     *)
Asked(r) == {q \in pending \cap started : requestId[q] = requestId[r]}

ReadsSuback(r) ==
    /\ Alive /\ r \in acks
    /\ IF Asked(r) # {}
       THEN /\ pending' = pending \ Asked(r) /\ started' = started \ Asked(r)
            /\ acks' = acks \ {r}
            /\ UNCHANGED <<cause, bookVars, attached, slots, requestId,
                           nextId, queueVars, wireVars, owed, answered>>
       ELSE Abort("unexpected")
    /\ UNCHANGED <<clientVars, writer, replay>>

(* The stream ends, or the heartbeat gives up; or a failure that is not    *)
(* tried again: a malformed packet, DISCONNECT from the broker, a full     *)
(* queue of events or control packets.                                     *)
ReaderEnds ==
    /\ Alive
    /\ \E error \in {"lost", "fatal"} : Abort(error)
    /\ UNCHANGED <<clientVars, writer, replay>>
-----------------------------------------------------------------------------
Replay == \E d \in Deliveries :
              \/ ReplayAttaches(d) \/ ReplayEnqueues(d)
              \/ ReplayExhausted(d) \/ ReplayFindsExpired(d)

Dial == DialFails \/ DialFindsNoSession \/ DialConnects

Next ==
    \/ \E d \in Deliveries :
         \/ SubmitDelivery(d) \/ SubmitRefused(d) \/ DeliveryTimesOut(d)
         \/ ReadsPuback(d)
    \/ \E r \in Requests : Request(r) \/ RequestAbandoned(r) \/ ReadsSuback(r)
    \/ Disconnect \/ DisconnectEnds
    \/ Dial \/ Replay \/ BecomesReady \/ ConnectionEnds
    \/ \E item \in Items : WriterStarts(item)
    \/ WriterDefers \/ WriterFindsExpired \/ WriterHandsOver
    \/ WriteReturns \/ WriteFails
    \/ \E item \in Items : BrokerAnswers(item)
    \/ ReaderEnds

Spec == Init /\ [][Next]_vars
-----------------------------------------------------------------------------
(* Safety.                                                                 *)

(* An identifier is in use for one exchange at a time, across both         *)
(* allocators, their wrap-around and a new connection, where the requests  *)
(* start again at 1 among the deliveries kept: every answer of a           *)
(* conforming broker finds the record or the request it belongs to, and    *)
(* never ends the client ("unexpected PUBACK", "before PUBLISH write").    *)
AnswersFindTheirOwner ==
    /\ cause # "unexpected"
    /\ \A item \in owed \cup acks :
         IF item \in Deliveries THEN Named(item) = {item}
                                ELSE Asked(item) = {item}

(* What a handle says at its end is true, whichever connection it ended    *)
(* on: "not sent" that no copy ever reached a socket, so that sending it   *)
(* again duplicates nothing; success or rejection that the broker answered *)
(* it (finish_terminal, against mark_started, detach and the reader).      *)
HandlesTellTheTruth ==
    \A d \in Deliveries :
        /\ phase[d] \in {"new", "TerminalNotSent"} => copies[d] = 0
        /\ phase[d] \in {"Acknowledged", "Rejected"} => d \in answered

(* The limits hold whatever was kept, replayed, deferred, acknowledged or  *)
(* lost: the places given away are counted exactly, and with the requests  *)
(* there are never more than max_inflight, in the book too; what is        *)
(* deferred still occupies the bounded queue; no more copies are           *)
(* unanswered than the CONNACK allows.                                     *)
LimitsHold ==
    /\ slots = Cardinality(attached)
    /\ slots + Cardinality(pending) <= MaxInflight
    /\ Len(order) <= MaxInflight
    /\ businessDepth = Len(outgoing) + Len(deferred)
    /\ businessDepth <= SendCapacity
    /\ Cardinality((owed \cup acks) \cap Deliveries) <= receiveMaximum

Hands(d) == copies'[d] > copies[d]

(* Every copy that leaves is due: on each connection deliveries go out in  *)
(* the order of their admission, those kept before new ones, however       *)
(* replay waits for room and the write loop for credit; a copy without DUP *)
(* is the first one ever; there are at most reconnect_attempts + 1, those  *)
(* on connections lost before readiness included; and none leaves once the *)
(* handle is settled.                                                      *)
CopiesAreDue ==
    [][\A d \in Deliveries : Hands(d) =>
           /\ \E n \in DOMAIN order :
                  order[n] = d /\ \A m \in 1..(n - 1) : order[m] \in onWire
           /\ ~writer.dup => copies[d] = 0
           /\ copies[d] <= ReconnectAttempts]_vars
-----------------------------------------------------------------------------
(* Deliveries in memory promise, through their handles, what durable ones  *)
(* promise through the file, but for a crash of the process.               *)

Said(d) ==
    CASE phase[d] = "new" -> "none"
      [] phase[d] \in Waiting -> IF d \in started THEN "possible" ELSE "unsent"
      [] phase[d] = "TerminalOutcomeUnknown" -> "quarantined"
      [] OTHER -> "erased"

Contract == INSTANCE DeliveryContract WITH
                entry   <- [d \in Deliveries |-> Said(d)],
                wire    <- {d \in Deliveries : copies[d] > 0},
                answers <- answered

ImplementsContract == Contract!Spec
-----------------------------------------------------------------------------
(* Liveness.  The supervisor dials again and its dials end, replay goes on *)
(* when there is room, a write begins, and returns or runs out of time,    *)
(* the watchdog looks at every delivery, and disconnect() has its budget.  *)
(* Nothing is asked of the broker.                                         *)
Fairness ==
    /\ WF_vars(Dial) /\ WF_vars(Replay) /\ WF_vars(BecomesReady)
    /\ WF_vars(ConnectionEnds) /\ WF_vars(DisconnectEnds)
    /\ WF_vars(WriterHandsOver) /\ WF_vars(WriteReturns \/ WriteFails)
    /\ \A d \in Deliveries : WF_vars(DeliveryTimesOut(d))

FairSpec == Spec /\ Fairness

(* Every delivery is settled in the end, although the supervisor's counter *)
(* starts again with each connection that becomes ready: a broker that     *)
(* accepts connections and never answers uses up the delivery's attempts.  *)
Settles == \A d \in Deliveries : phase[d] \in Waiting ~> phase[d] \in Terminal
=============================================================================
