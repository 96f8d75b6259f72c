------------------------------ MODULE Requests ------------------------------
(***************************************************************************)
(* One generation of a CleanSession client and its ordinary requests:      *)
(* QoS 0 and QoS 1 publishes, subscribes and unsubscribes (alike here) and *)
(* the DISCONNECT of Client::disconnect.  Callers, the write loop, the     *)
(* reader and the heartbeat are coroutines of one thread; an action is     *)
(* what one of them does up to its next suspension.                        *)
(*                                                                         *)
(* The peer is a conforming broker: it answers what it was handed, once,   *)
(* in any order, at any time after the bytes went out, or never.           *)
(***************************************************************************)
EXTENDS Integers, Sequences, FiniteSets

CONSTANTS
    Publish0, Publish1, Subscribe,   \* the requests the application makes
    Close,                           \* the DISCONNECT request
    Ping, Puback,                    \* control packets that are no request
    Expiring,         \* publishes whose Message Expiry may elapse in the queue
    NoItem,
    SendCapacity, ControlCapacity, MaxInflight, ReceiveMaximum,
    MaxPacketId,      \* 65535 in the code
    MaxPings,         \* bound: heartbeats of the generation
    MaxIncoming,      \* bound: QoS 1 messages from the broker
    Timers, Faults    \* whether budgets run out, whether the rest may fail

Publishes == Publish0 \cup Publish1
Business  == Publishes \cup Subscribe
Requests  == Business \cup {Close}
Items     == Requests \cup {Ping, Puback}
PacketIds == 1..MaxPacketId

ASSUME RequestsAssumption ==
    /\ IsFiniteSet(Business)
    /\ Publish0 \cap Publish1 = {} /\ Publishes \cap Subscribe = {}
    /\ Expiring \subseteq Publishes
    /\ Close \notin Business
    /\ Ping \notin Requests /\ Puback \notin Requests /\ Ping # Puback
    /\ NoItem \notin Items
    /\ SendCapacity \in Nat \ {0} /\ ControlCapacity \in Nat \ {0}
    /\ MaxInflight \in Nat \ {0} /\ ReceiveMaximum \in Nat \ {0}
    /\ MaxPacketId \in Nat \ {0}
    /\ MaxPings \in Nat /\ MaxIncoming \in Nat
    /\ Timers \in BOOLEAN /\ Faults \in BOOLEAN

VARIABLES
    cause,          \* Session::failure_reason; alive while there is "none"
    pending,        \* Session::pending: request of each identifier, or NoItem
    packetId,       \* Pending::id
    started,        \* Pending::started
    localWrite,     \* Pending::local_write_complete
    result,         \* Pending::result, and what the caller gets
    nextId,
    outgoing, deferred, control,      \* the three queues of the session
    businessDepth,
    credit,         \* Session::qos1_outstanding
    writer,         \* where the write loop is, and with which item
    heartbeat,
    closing,        \* how far Client::disconnect is
    turn, admitted, \* history: admission number of each request, and how many
    handed,         \* history: requests whose bytes went to the socket
    answered,       \* history: those of them the broker has answered
    pings, pongs, pubacks, incoming   \* history: counts of what was exchanged

requestVars == <<pending, packetId, started, localWrite, result, nextId>>
queueVars   == <<outgoing, deferred, control, businessDepth, credit>>
admitVars   == <<turn, admitted>>
wireVars    == <<handed, pings, pubacks>>
peerVars    == <<answered, pongs, incoming>>
vars == <<cause, requestVars, queueVars, writer, heartbeat, closing,
          admitVars, wireVars, peerVars>>

Alive   == cause = "none"
Pending == {pending[i] : i \in DOMAIN pending} \ {NoItem}

Causes  == {"none", "timeout", "cancelled", "rejected", "write", "lost",
            "overflow", "ping", "unexpected", "disconnected"}
Results == {"none", "ok", "refused", "notSent", "unknown", "backpressure"}

TypeOK ==
    /\ cause \in Causes
    /\ pending \in [0..MaxPacketId -> Requests \cup {NoItem}]
    /\ packetId \in [Requests -> 0..MaxPacketId]
    /\ started \subseteq Requests /\ localWrite \subseteq Requests
    /\ result \in [Requests -> Results]
    /\ nextId \in PacketIds
    /\ outgoing \in Seq(Business) /\ deferred \in Seq(Publishes)
    /\ control \in Seq({Close, Ping, Puback})
    /\ businessDepth \in Nat /\ credit \in Nat
    /\ writer \in [at : {"idle", "started", "writing", "wrote", "exited"},
                   item : Items \cup {NoItem}]
    /\ heartbeat \in {"Idle", "Queued", "Writing", "RespondedWhileWriting",
                      "AwaitingResponse"}
    /\ closing \in {"no", "putting", "waiting", "done"}
    /\ turn \in [Requests -> Nat] /\ admitted \in Nat
    /\ handed \subseteq Requests /\ answered \subseteq Requests
    /\ pings \in Nat /\ pongs \in Nat /\ pubacks \in Nat /\ incoming \in Nat

Init ==
    /\ cause = "none"
    /\ pending = [i \in 0..MaxPacketId |-> NoItem]
    /\ packetId = [r \in Requests |-> 0]
    /\ started = {} /\ localWrite = {}
    /\ result = [r \in Requests |-> "none"]
    /\ nextId = 1
    /\ outgoing = <<>> /\ deferred = <<>> /\ control = <<>>
    /\ businessDepth = 0 /\ credit = 0
    /\ writer = [at |-> "idle", item |-> NoItem]
    /\ heartbeat = "Idle" /\ closing = "no"
    /\ turn = [r \in Requests |-> 0] /\ admitted = 0
    /\ handed = {} /\ answered = {}
    /\ pings = 0 /\ pongs = 0 /\ pubacks = 0 /\ incoming = 0
-----------------------------------------------------------------------------
(* Session::abort_with: the first error wins, the queues are discarded and *)
(* every pending request is settled by how far its write came.             *)

(* Mutation: only a write that returned may have reached the broker. *)
OutcomeByLocalWrite(r) ==
    IF r \in localWrite THEN (IF r = Close THEN "ok" ELSE "unknown")
                        ELSE "notSent"

(* Mutation: DISCONNECT is settled like the others. *)
OutcomeOfAny(r) == IF r \in started THEN "unknown" ELSE "notSent"

Outcome(r) == IF r = Close /\ r \in localWrite THEN "ok"
              ELSE IF r \in started THEN "unknown" ELSE "notSent"

Abort(error) ==
    /\ cause' = error
    /\ outgoing' = <<>> /\ deferred' = <<>> /\ control' = <<>>
    /\ businessDepth' = 0 /\ credit' = 0
    /\ heartbeat' = "Idle"
    /\ result' = [r \in Requests |-> IF r \in Pending /\ result[r] = "none"
                                     THEN Outcome(r) ELSE result[r]]
    /\ pending' = [i \in 0..MaxPacketId |-> NoItem]
    /\ UNCHANGED <<packetId, started, localWrite, nextId>>

(* The identifier is free and the request finished; the first result wins. *)
Finish(i, r, reply) ==
    /\ pending' = [pending EXCEPT ![i] = NoItem]
    /\ result' = [result EXCEPT ![r] = IF @ = "none" THEN reply ELSE @]

(* The counters of the session never go below zero.                        *)
Less(n) == IF n > 0 THEN n - 1 ELSE 0
-----------------------------------------------------------------------------
(* Callers.                                                                *)

(* Mutation: an identifier is free again once its packet is written. *)
UnwrittenIds == {i \in PacketIds : pending[i] \in {NoItem} \cup localWrite}

FreeIds == {i \in PacketIds : pending[i] = NoItem}

(* Session::allocate: the first free identifier from nextId on, wrapping.  *)
Ahead(i) == (i - nextId) % MaxPacketId
FirstFree(i) == i \in FreeIds /\ \A j \in FreeIds : Ahead(i) <= Ahead(j)

(* Mutation: no wrap-around. *)
SuccessorOnly(i) == i + 1

Successor(i) == IF i = MaxPacketId THEN 1 ELSE i + 1

Request(r) ==
    /\ result[r] = "none" /\ r \notin Pending
    /\ Alive /\ closing = "no"
    /\ UNCHANGED <<cause, started, localWrite, deferred, control, credit,
                   writer, heartbeat, closing, wireVars, peerVars>>

InflightFull == Cardinality(Pending) >= MaxInflight \/ FreeIds = {}

(* Session::enqueue_business.                                              *)
Room == businessDepth < SendCapacity

(* allocate refuses, or enqueue_business does after it.                    *)
RequestRefused(r) ==
    /\ Request(r)
    /\ \/ InflightFull /\ UNCHANGED nextId
       \/ /\ ~InflightFull /\ ~Room
          /\ \E i \in PacketIds : FirstFree(i) /\ nextId' = Successor(i)
    /\ result' = [result EXCEPT ![r] = "backpressure"]
    /\ UNCHANGED <<pending, packetId, outgoing, businessDepth, admitVars>>

RequestAdmitted(r) ==
    /\ Request(r)
    /\ ~InflightFull /\ Room
    /\ \E i \in PacketIds :
         /\ FirstFree(i)
         /\ pending' = [pending EXCEPT ![i] = r]
         /\ packetId' = [packetId EXCEPT ![r] = i]
         /\ nextId' = Successor(i)
    /\ outgoing' = Append(outgoing, r)
    /\ businessDepth' = businessDepth + 1
    /\ admitted' = admitted + 1 /\ turn' = [turn EXCEPT ![r] = admitted + 1]
    /\ UNCHANGED result

(* The operation_timeout_ms of a waiting caller.  DISCONNECT is not yet on *)
(* the clock while its control queue is full.                              *)
RequestTimesOut(r) ==
    /\ Timers /\ Alive /\ r \in Pending
    /\ r = Close => closing = "waiting"
    /\ Abort("timeout")
    /\ UNCHANGED <<writer, closing, admitVars, wireVars, peerVars>>

RequestCancelled(r) ==
    /\ Faults /\ Alive /\ r \in Pending
    /\ Abort("cancelled")
    /\ UNCHANGED <<writer, closing, admitVars, wireVars, peerVars>>

(* Client::disconnect; a full control queue makes the put wait.            *)
Disconnect ==
    /\ closing = "no"
    /\ IF Alive THEN /\ closing' = "putting"
                     /\ pending' = [pending EXCEPT ![0] = Close]
                ELSE closing' = "done" /\ UNCHANGED pending
    /\ UNCHANGED <<cause, packetId, started, localWrite, result, nextId,
                   queueVars, writer, heartbeat, admitVars, wireVars,
                   peerVars>>

DisconnectQueued ==
    /\ closing = "putting" /\ Alive /\ Len(control) < ControlCapacity
    /\ control' = Append(control, Close)
    /\ closing' = "waiting"
    /\ UNCHANGED <<cause, requestVars, outgoing, deferred, businessDepth,
                   credit, writer, heartbeat, admitVars, wireVars, peerVars>>

(* The request has its result; a WebSocket may linger first.               *)
DisconnectReturns ==
    /\ closing \in {"putting", "waiting"} /\ result[Close] # "none"
    /\ closing' = "done"
    /\ IF Alive THEN Abort("disconnected")
                ELSE UNCHANGED <<cause, requestVars, queueVars, heartbeat>>
    /\ UNCHANGED <<writer, admitVars, wireVars, peerVars>>
-----------------------------------------------------------------------------
(* The write loop.                                                         *)

HasCredit == credit < ReceiveMaximum
MayWrite(r) == HasCredit \/ r \notin Publish1

(* Mutation: a publish that needs no credit overtakes. *)
TakeableWithoutCredit(n) ==
    \/ outgoing[n] \notin Publish1
    \/ n = 1 /\ deferred = <<>> /\ MayWrite(outgoing[1])

(* A position next_outgoing may take: any request that is no publish; the  *)
(* first one of all, with credit, only while nothing is deferred.          *)
Takeable(n) ==
    \/ outgoing[n] \notin Publishes
    \/ n = 1 /\ deferred = <<>> /\ MayWrite(outgoing[1])

First(n) == Takeable(n) /\ \A m \in 1..(n - 1) : ~Takeable(m)

(* Session::next_outgoing: the item, and the queues it leaves behind.      *)
Next1(item, out, def, con) ==
    [item |-> item, outgoing |-> out, deferred |-> def, control |-> con]

NextOutgoing ==
    IF control # <<>>
    THEN Next1(Head(control), outgoing, deferred, Tail(control))
    ELSE IF deferred # <<>> /\ MayWrite(Head(deferred))
    THEN Next1(Head(deferred), outgoing, Tail(deferred), control)
    ELSE IF \E n \in DOMAIN outgoing : Takeable(n)
    THEN LET n == CHOOSE k \in DOMAIN outgoing : First(k)
         IN Next1(outgoing[n], SubSeq(outgoing, n + 1, Len(outgoing)),
                  deferred \o SubSeq(outgoing, 1, n - 1), control)
    ELSE Next1(NoItem, <<>>, deferred \o outgoing, control)

Loop(at) == writer.at = at
WriterAt(at) == writer' = [writer EXCEPT !.at = at]

(* Every publish that could be taken waits for credit.                     *)
WriterDefers ==
    /\ Loop("idle") /\ Alive
    /\ NextOutgoing.item = NoItem /\ outgoing # <<>>
    /\ outgoing' = NextOutgoing.outgoing /\ deferred' = NextOutgoing.deferred
    /\ UNCHANGED <<cause, requestVars, control, businessDepth, credit, writer,
                   heartbeat, closing, admitVars, wireVars, peerVars>>

(* write_one up to the writer's future: from here on the request is        *)
(* started.                                                                *)
WriterStarts ==
    LET item == NextOutgoing.item IN
    /\ Loop("idle") /\ Alive /\ item # NoItem
    /\ outgoing' = NextOutgoing.outgoing /\ deferred' = NextOutgoing.deferred
    /\ control' = NextOutgoing.control
    /\ businessDepth' = IF item \in Business THEN Less(businessDepth)
                                            ELSE businessDepth
    /\ started' = started \cup ({item} \cap Requests)
    /\ credit' = IF item \in Publish1 THEN credit + 1 ELSE credit
    /\ writer' = [at |-> "started", item |-> item]
    /\ UNCHANGED <<cause, pending, packetId, localWrite, result, nextId,
                   heartbeat, closing, admitVars, wireVars, peerVars>>

WriterAborts(error) ==
    /\ Abort(error)
    /\ WriterAt("exited")
    /\ UNCHANGED <<closing, admitVars, wireVars, peerVars>>

(* The item's budget ran out in the queue, or its Message Expiry did, so   *)
(* that refresh raises.                                                    *)
WriterFindsLate ==
    /\ Loop("idle") /\ Alive
    /\ \/ Timers /\ NextOutgoing.item \in Requests /\ WriterAborts("timeout")
       \/ NextOutgoing.item \in Expiring /\ WriterAborts("rejected")

(* The bytes go to the socket, if the generation still has it.             *)
WriterHandsOver ==
    /\ Loop("started") /\ WriterAt("writing")
    /\ heartbeat' = IF writer.item = Ping /\ heartbeat = "Queued"
                    THEN "Writing" ELSE heartbeat
    /\ IF Alive
       THEN /\ handed' = handed \cup ({writer.item} \cap Requests)
            /\ pings' = IF writer.item = Ping THEN pings + 1 ELSE pings
            /\ pubacks' = IF writer.item = Puback THEN pubacks + 1 ELSE pubacks
       ELSE UNCHANGED wireVars
    /\ UNCHANGED <<cause, requestVars, queueVars, closing, admitVars,
                   peerVars>>

WriterWrites ==
    /\ Loop("writing") /\ WriterAt("wrote")
    /\ localWrite' = localWrite \cup ({writer.item} \cap Requests)
    /\ UNCHANGED <<cause, pending, packetId, started, result, nextId,
                   queueVars, heartbeat, closing, admitVars, wireVars,
                   peerVars>>

(* Mutation: the answer is always still to come. *)
AfterPingAlways == "AwaitingResponse"

AfterPing == CASE heartbeat = "RespondedWhileWriting" -> "Idle"
               [] heartbeat = "Writing" -> "AwaitingResponse"
               [] OTHER -> heartbeat

(* Mutation: the write loop goes on after DISCONNECT. *)
LoopAfterAny(item) == "idle"

LoopAfter(item) == IF item = Close THEN "exited" ELSE "idle"

(* write_one goes on after the write.  QoS 0 and DISCONNECT are complete;  *)
(* nothing is written after DISCONNECT.                                    *)
WriteOneReturns ==
    LET item == writer.item IN
    /\ Loop("wrote") /\ Alive
    /\ heartbeat' = IF item = Ping THEN AfterPing ELSE heartbeat
    /\ IF item \in Publish0 \cup {Close} THEN Finish(packetId[item], item, "ok")
                                         ELSE UNCHANGED <<pending, result>>
    /\ writer' = [at |-> LoopAfter(item), item |-> NoItem]
    /\ UNCHANGED <<cause, packetId, started, localWrite, nextId, queueVars,
                   closing, admitVars, wireVars, peerVars>>

(* Mutation: a write has no budget. *)
WriteFailsOnError ==
    /\ Faults
    /\ Loop("writing") /\ Alive
    /\ WriterAborts("write")

(* A socket error, or write_timeout_ms.                                    *)
WriteFails ==
    /\ Timers \/ Faults
    /\ Loop("writing") /\ Alive
    /\ WriterAborts("write")

WriterExits ==
    /\ ~Alive /\ writer.at \in {"idle", "writing", "wrote"}
    /\ WriterAt("exited")
    /\ UNCHANGED <<cause, requestVars, queueVars, heartbeat, closing,
                   admitVars, wireVars, peerVars>>
-----------------------------------------------------------------------------
(* The reader.                                                             *)

(* Mutation: a PUBACK frees the identifier only. *)
CreditKept(q) == credit

CreditReturned(q) == IF q \in Publish1 THEN Less(credit) ELSE credit

(* PUBACK, SUBACK or UNSUBACK: the packet identifier leads to the request. *)
ReadsAck(r) ==
    LET i == packetId[r]
        q == pending[i] IN
    /\ Alive /\ r \in handed \ answered /\ r \in Publish1 \cup Subscribe
    /\ answered' = answered \cup {r}
    /\ IF q \in started /\ q \in (IF r \in Publish1 THEN Publish1 ELSE Subscribe)
       THEN /\ \/ Finish(i, q, "ok")
               \/ q \in Publish1 /\ Finish(i, q, "refused")
            /\ credit' = CreditReturned(q)
            /\ UNCHANGED <<cause, packetId, started, localWrite, nextId,
                           outgoing, deferred, control, businessDepth,
                           heartbeat>>
       ELSE Abort("unexpected")
    /\ UNCHANGED <<writer, closing, admitVars, wireVars, pongs, incoming>>

(* receive_pingresp.                                                       *)
ReadsPong ==
    /\ Alive /\ pongs < pings
    /\ pongs' = pongs + 1
    /\ heartbeat' = CASE heartbeat = "Writing" -> "RespondedWhileWriting"
                      [] heartbeat = "AwaitingResponse" -> "Idle"
                      [] OTHER -> heartbeat
    /\ UNCHANGED <<cause, requestVars, queueVars, writer, closing, admitVars,
                   wireVars, answered, incoming>>

(* control_wire queues a packet or reports that there is no room.          *)
Control(packet) ==
    IF Len(control) < ControlCapacity
    THEN /\ control' = Append(control, packet)
         /\ UNCHANGED <<cause, requestVars, outgoing, deferred, businessDepth,
                        credit>>
    ELSE Abort("overflow")

(* A QoS 1 message is acknowledged.                                        *)
ReadsPublish ==
    /\ Alive /\ incoming < MaxIncoming
    /\ incoming' = incoming + 1
    /\ Control(Puback)
    /\ heartbeat' = IF Len(control) < ControlCapacity THEN heartbeat ELSE "Idle"
    /\ UNCHANGED <<writer, closing, admitVars, wireVars, answered, pongs>>

(* End of stream, an error, or a DISCONNECT from the broker.               *)
ReaderEnds ==
    /\ Faults /\ Alive
    /\ Abort("lost")
    /\ UNCHANGED <<writer, closing, admitVars, wireVars, peerVars>>
-----------------------------------------------------------------------------
(* The heartbeat.  MaxPings bounds the PINGREQs of a behaviour.            *)

HeartbeatPings ==
    /\ Alive /\ heartbeat = "Idle" /\ pings < MaxPings
    /\ Control(Ping)
    /\ heartbeat' = IF Len(control) < ControlCapacity THEN "Queued" ELSE "Idle"
    /\ UNCHANGED <<writer, closing, admitVars, wireVars, peerVars>>

(* ping_response_timeout_ms after the write of the PINGREQ.                *)
HeartbeatTimesOut ==
    /\ Timers /\ Alive /\ heartbeat = "AwaitingResponse"
    /\ Abort("ping")
    /\ UNCHANGED <<writer, closing, admitVars, wireVars, peerVars>>
-----------------------------------------------------------------------------
WriteLoop == \/ WriterDefers \/ WriterStarts \/ WriterHandsOver
             \/ WriterWrites \/ WriteOneReturns

Next ==
    \/ \E r \in Business : RequestRefused(r) \/ RequestAdmitted(r)
    \/ \E r \in Requests : RequestTimesOut(r) \/ RequestCancelled(r)
    \/ Disconnect \/ DisconnectQueued \/ DisconnectReturns
    \/ WriteLoop \/ WriterFindsLate \/ WriteFails \/ WriterExits
    \/ \E r \in Business : ReadsAck(r)
    \/ ReadsPong \/ ReadsPublish \/ ReaderEnds
    \/ HeartbeatPings \/ HeartbeatTimesOut

Spec == Init /\ [][Next]_vars
-----------------------------------------------------------------------------
(* Safety.                                                                 *)

(* A caller is told the truth about its request.  "Not sent" and           *)
(* "backpressure" mean that no byte of it reached the socket, so sending   *)
(* it again makes no second copy; success means that the broker answered   *)
(* it, or for QoS 0 and DISCONNECT that the local write completed          *)
(* (finish and abort_with, against allocate, write_one and the reader).    *)
ResultsAreTrue ==
    \A r \in Requests :
        /\ result[r] \in {"notSent", "backpressure"} => r \notin handed
        /\ result[r] \in {"ok", "refused"} =>
             IF r \in Publish0 \cup {Close} THEN r \in localWrite
                                            ELSE r \in answered

(* Publishes reach the socket in the order in which they were admitted,    *)
(* whatever next_outgoing defers for lack of credit and lets pass; so do   *)
(* the requests that are no publishes, among themselves.                   *)
SameQueue(p, q) == {p, q} \subseteq Publishes \/ {p, q} \subseteq Subscribe

HandedInOrder ==
    \A q \in handed \cap Business, p \in Business :
        SameQueue(p, q) /\ turn[p] \in 1..turn[q] => p \in handed

(* Deferred publishes take no extra room: the two queues together hold no  *)
(* more than send_capacity, which is what business_depth reports.          *)
BusinessBounded ==
    /\ Len(outgoing) + Len(deferred) = businessDepth
    /\ businessDepth <= SendCapacity

(* An identifier is not given away while the answer to its request is      *)
(* still to come: the answers of a conforming broker always find the       *)
(* request they belong to, across the wrap-around of next_id.              *)
AnswersFindRequest ==
    /\ cause # "unexpected"
    /\ \A r \in (handed \cap (Publish1 \cup Subscribe)) \ answered :
         Alive => pending[packetId[r]] = r

(* No second PINGREQ goes out before the first is answered, and the clock  *)
(* of PINGRESP runs only while an answer is due, even if the answer is     *)
(* read before the write of its PINGREQ returns.                           *)
PingsMatch ==
    Alive => /\ pings - pongs \in {0, 1}
             /\ heartbeat = "AwaitingResponse" => pongs < pings
             /\ heartbeat = "Idle" => pongs = pings

(* Nothing goes to the socket after DISCONNECT: no PUBACK, PINGREQ or      *)
(* request that was queued behind it.                                      *)
NothingAfterDisconnect ==
    [][(Close \in handed => UNCHANGED wireVars)]_vars

(* Once DISCONNECT is written, disconnect() succeeds: a reader that ends   *)
(* first cannot make its outcome unknown.                                  *)
DisconnectSucceeds ==
    [][(Close \in localWrite /\ result[Close] = "none"
        => result'[Close] \in {"none", "ok"})]_vars
-----------------------------------------------------------------------------
(* Liveness.                                                               *)

(* A responsive peer: the write loop runs, writes return and the broker    *)
(* answers; no budget is needed.  disconnect() lingers no longer than       *)
(* write_timeout_ms.                                                       *)
Responsive == /\ WF_vars(WriteLoop)
              /\ WF_vars(DisconnectQueued) /\ WF_vars(DisconnectReturns)
              /\ \A r \in Business : WF_vars(ReadsAck(r))
              /\ WF_vars(ReadsPong)

(* A peer that may fall silent and writes that may never return: the write *)
(* loop picks items and the timers of callers and writes fire.             *)
OnTheClock == /\ WF_vars(WriterDefers \/ WriterStarts)
              /\ WF_vars(WriterHandsOver) /\ WF_vars(WriteFails)
              /\ WF_vars(WriteOneReturns)
              /\ WF_vars(DisconnectQueued) /\ WF_vars(DisconnectReturns)
              /\ \A r \in Requests : WF_vars(RequestTimesOut(r))

(* One of the two is enough.                                               *)
EitherSpec == Spec /\ (Responsive \/ OnTheClock)

(* Every request a caller waits for gets a result: credit comes back and   *)
(* no queue starves another, or else a budget ends the generation.         *)
Settles == \A r \in Requests : r \in Pending ~> result[r] # "none"
=============================================================================
