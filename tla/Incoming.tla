------------------------------ MODULE Incoming ------------------------------
(***************************************************************************)
(* Messages from the broker to the application: read_loop, the messages    *)
(* that arrive before a generation is ready, the bounded event queue, the  *)
(* PUBACKs, and the supervisor's part in it (client.mbt, runtime.mbt).     *)
(* Requests and deliveries of the application are other modules' business. *)
(***************************************************************************)
EXTENDS Integers, Sequences

CONSTANTS
    ReceiveCapacity,    \* config.receive_capacity
    ControlCapacity,    \* config.control_capacity
    ReconnectAttempts,  \* config.reconnect_attempts
    MaxMessages,        \* bound: messages the broker publishes
    MaxFaults           \* bound: broken connections and failed dials

ASSUME CapacityAssumption ==
    /\ ReceiveCapacity \in Nat \ {0} /\ ControlCapacity \in Nat \ {0}
    /\ ReconnectAttempts \in Nat
    /\ MaxMessages \in Nat /\ MaxFaults \in Nat

VARIABLES
    resume,     \* config.session_policy is ResumeSession
    sup,        \* supervise: "dialing", "restoring", "ready" or "ended"
    gen,        \* generation, counted by dial
    everReady, attempts,    \* of supervise
    reason,     \* stop_reason
    ready, stopped,         \* of the client
    alive, cause,           \* of the session; failure_reason
    early,      \* session.early_messages
    control,    \* session.control_queue: PUBACKs to be written
    events,     \* the event queue
    sent, kept, net,        \* the broker: messages so far, those of QoS 1
                            \* without PUBACK, those on their way
    faults,     \* faults so far
    told,       \* history: the events the application has got
    acked,      \* history: messages with a PUBACK
    discarded   \* history: early messages that ended with their generation

supervisorVars == <<sup, gen, everReady, attempts, reason>>
sessionVars    == <<alive, cause, control>>
brokerVars     == <<sent, kept, net>>
vars == <<resume, supervisorVars, ready, stopped, sessionVars, early, events,
          brokerVars, faults, told, acked, discarded>>

(* Messages are numbered in the order the broker publishes them.           *)
Message == [n: 1..MaxMessages, qos: {0, 1}]

Connected(g)    == [kind |-> "connected", gen |-> g, n |-> 0]
Disconnected(g) == [kind |-> "disconnected", gen |-> g, n |-> 0]
Received(m)     == [kind |-> "message", gen |-> gen, n |-> m.n]

Event == [kind: {"connected", "disconnected", "message"}, gen: Nat,
          n: 0..MaxMessages]

Causes == {"none", "lost", "server", "backpressure", "protocol"}

TypeOK ==
    /\ resume \in BOOLEAN
    /\ sup \in {"dialing", "restoring", "ready", "ended"}
    /\ gen \in Nat /\ everReady \in BOOLEAN /\ attempts \in Nat
    /\ reason \in Causes \cup {"exhausted"}
    /\ ready \in BOOLEAN /\ stopped \in BOOLEAN
    /\ alive \in BOOLEAN /\ cause \in Causes
    /\ control \in Seq(1..MaxMessages) /\ Len(control) <= ControlCapacity
    /\ early \in Seq(Message) /\ Len(early) <= ReceiveCapacity
    /\ events \in Seq(Event) /\ Len(events) <= ReceiveCapacity
    /\ sent \in 0..MaxMessages /\ kept \subseteq Message /\ net \in Seq(Message)
    /\ faults \in 0..MaxFaults
    /\ told \in Seq(Event)
    /\ acked \subseteq 1..MaxMessages
    /\ discarded \subseteq [gen: Nat, n: 1..MaxMessages]

Init ==
    /\ resume \in BOOLEAN
    /\ sup = "dialing" /\ gen = 0 /\ everReady = FALSE /\ attempts = 0
    /\ reason = "none" /\ ready = FALSE /\ stopped = FALSE
    /\ alive = FALSE /\ cause = "none" /\ control = <<>>
    /\ early = <<>> /\ events = <<>>
    /\ sent = 0 /\ kept = {} /\ net = <<>>
    /\ faults = 0 /\ told = <<>> /\ acked = {} /\ discarded = {}
-----------------------------------------------------------------------------
(* The broker, external.  It keeps a message of QoS 1 until its PUBACK, or *)
(* until a clean session ends.  A client is subscribed once it was ready;  *)
(* a persistent session may have been subscribed by an earlier process.    *)

Publish(qos) ==
    /\ sent < MaxMessages
    /\ resume \/ (alive /\ everReady)
    /\ alive \/ qos = 1
    /\ sent' = sent + 1
    /\ LET m == [n |-> sent + 1, qos |-> qos]
       IN  /\ kept' = IF qos = 1 THEN kept \cup {m} ELSE kept
           /\ net' = IF alive THEN Append(net, m) ELSE net
    /\ UNCHANGED <<resume, supervisorVars, ready, stopped, sessionVars, early,
                   events, faults, told, acked, discarded>>

Ascending(s) == \A i, j \in DOMAIN s : i < j => s[i].n < s[j].n

InOrder(S) == {s \in UNION {[1..k -> S] : k \in 0..MaxMessages} :
                 Ascending(s) /\ {s[i] : i \in DOMAIN s} = S}

AbortWith(error) == alive' = FALSE /\ cause' = error /\ control' = <<>>

(* The connection breaks, a heartbeat or a request times out; or the       *)
(* server says DISCONNECT, which no policy retries here.                   *)
ConnectionBreaks(error) ==
    /\ alive /\ faults < MaxFaults
    /\ faults' = faults + 1
    /\ AbortWith(error)
    /\ UNCHANGED <<resume, supervisorVars, ready, stopped, early, events,
                   brokerVars, told, acked, discarded>>
-----------------------------------------------------------------------------
(* The reader and the writer.                                              *)

(* try_put never waits: what does not fit is refused.                      *)
HasRoom(more) == Len(events) + more <= ReceiveCapacity

(* Mutation: early messages wait for their PUBACK until they are told. *)
AcknowledgeWhenReady(m) ==
    IF m.qos = 0 \/ ~ready THEN UNCHANGED sessionVars
    ELSE IF Len(control) < ControlCapacity
         THEN control' = Append(control, m.n) /\ UNCHANGED <<alive, cause>>
         ELSE AbortWith("protocol")

(* The PUBACK of a message that was taken is queued, or the session ends.  *)
Acknowledge(m) ==
    IF m.qos = 0 THEN UNCHANGED sessionVars
    ELSE IF Len(control) < ControlCapacity
         THEN control' = Append(control, m.n) /\ UNCHANGED <<alive, cause>>
         ELSE AbortWith("protocol")

(* Mutation: a message that finds no room is dropped. *)
EmitOrDrop(m) ==
    /\ events' = IF HasRoom(1) THEN Append(events, Received(m)) ELSE events
    /\ Acknowledge(m)

Emit(m) ==
    \/ HasRoom(1) /\ events' = Append(events, Received(m)) /\ Acknowledge(m)
    \/ ~HasRoom(1) /\ AbortWith("backpressure") /\ UNCHANGED events

PutAside(m) ==
    \/ /\ Len(early) < ReceiveCapacity
       /\ early' = Append(early, m) /\ Acknowledge(m)
    \/ /\ Len(early) >= ReceiveCapacity
       /\ AbortWith("backpressure") /\ UNCHANGED early

ReadPublish ==
    /\ alive /\ net # <<>>
    /\ net' = Tail(net)
    /\ \/ ready /\ Emit(Head(net)) /\ UNCHANGED early
       \/ ~ready /\ PutAside(Head(net)) /\ UNCHANGED events
    /\ UNCHANGED <<resume, supervisorVars, ready, stopped, sent, kept, faults,
                   told, acked, discarded>>

WritePuback ==
    /\ alive /\ control # <<>>
    /\ control' = Tail(control)
    /\ kept' = {m \in kept : m.n # Head(control)}
    /\ acked' = acked \cup {Head(control)}
    /\ UNCHANGED <<resume, supervisorVars, ready, stopped, alive, cause, early,
                   events, sent, net, faults, told, discarded>>
-----------------------------------------------------------------------------
(* The supervisor.                                                         *)

Dial ==
    /\ sup = "dialing" /\ ~stopped
    /\ sup' = "restoring" /\ gen' = gen + 1
    /\ alive' = TRUE /\ cause' = "none" /\ control' = <<>>
    /\ kept' = IF resume THEN kept ELSE {}
    /\ net' \in InOrder(kept')
    /\ UNCHANGED <<resume, everReady, attempts, reason, ready, stopped, early,
                   events, sent, faults, told, acked, discarded>>

(* Mutation: the early messages come first. *)
MessagesFirst == [i \in DOMAIN early |-> Received(early[i])] \o <<Connected(gen)>>

(* Subscriptions are restored and deliveries replayed: the connection and  *)
(* then the early messages are reported, as far as there is room.          *)
Backlog == <<Connected(gen)>> \o [i \in DOMAIN early |-> Received(early[i])]

BecomesReady ==
    /\ sup = "restoring" /\ alive
    /\ ready' = TRUE /\ everReady' = TRUE /\ attempts' = 0
    /\ \/ /\ HasRoom(Len(Backlog))
          /\ events' = events \o Backlog /\ early' = <<>> /\ sup' = "ready"
          /\ UNCHANGED sessionVars
       \/ /\ ~HasRoom(Len(Backlog))
          /\ events' = events \o SubSeq(Backlog, 1, ReceiveCapacity - Len(events))
          /\ AbortWith("backpressure")
          /\ UNCHANGED <<sup, early>>
    /\ UNCHANGED <<resume, gen, reason, stopped, brokerVars, faults, told,
                   acked, discarded>>

RestoreRejected ==
    /\ sup = "restoring" /\ alive /\ everReady /\ ~resume
    /\ AbortWith("protocol")
    /\ UNCHANGED <<resume, supervisorVars, ready, stopped, early, events,
                   brokerVars, faults, told, acked, discarded>>

(* Mutation: the condition inverted. *)
RecordAgain(error) == reason' = IF reason = "none" THEN reason ELSE error

RecordStop(error) == reason' = IF reason = "none" THEN error ELSE reason

Terminal(error) ==
    error \in {"backpressure", "protocol", "server"} \/ ~everReady

(* The error handler: emit itself may raise, and leaves nothing recorded.  *)
Handle(error) ==
    \/ /\ stopped \/ (~Terminal(error) /\ ~HasRoom(1))
       /\ sup' = "ended" /\ UNCHANGED <<events, attempts, reason>>
    \/ /\ ~stopped /\ Terminal(error)
       /\ sup' = "ended" /\ RecordStop(error) /\ UNCHANGED <<events, attempts>>
    \/ /\ ~stopped /\ ~Terminal(error) /\ HasRoom(1)
       /\ events' = Append(events, Disconnected(gen))
       /\ attempts' = attempts + 1
       /\ \/ /\ attempts < ReconnectAttempts
             /\ sup' = "dialing" /\ UNCHANGED reason
          \/ /\ attempts >= ReconnectAttempts
             /\ sup' = "ended" /\ RecordStop("exhausted")

DiscardEarly ==
    /\ discarded' = discarded
         \cup {[gen |-> gen, n |-> early[i].n] : i \in DOMAIN early}
    /\ early' = <<>>

DialFails ==
    /\ sup = "dialing" /\ faults < MaxFaults
    /\ faults' = faults + 1
    /\ Handle("lost")
    /\ UNCHANGED <<resume, gen, everReady, ready, stopped, sessionVars, early,
                   brokerVars, told, acked, discarded>>

SessionEnds ==
    /\ sup \in {"restoring", "ready"} /\ ~alive
    /\ Handle(cause) /\ DiscardEarly
    /\ ready' = FALSE
    /\ UNCHANGED <<resume, gen, everReady, stopped, sessionVars, brokerVars,
                   faults, told, acked>>
-----------------------------------------------------------------------------
(* The application.                                                        *)

NextEvent ==
    /\ events # <<>>
    /\ events' = Tail(events) /\ told' = Append(told, Head(events))
    /\ UNCHANGED <<resume, supervisorVars, ready, stopped, sessionVars, early,
                   brokerVars, faults, acked, discarded>>

(* Client::disconnect up to the answer of its DISCONNECT: the reader still *)
(* runs.  It is called by an application that is connected.                *)
Disconnect ==
    /\ everReady /\ ~stopped /\ sup # "ended"
    /\ stopped' = TRUE /\ ready' = FALSE
    /\ UNCHANGED <<resume, supervisorVars, sessionVars, early, events,
                   brokerVars, faults, told, acked, discarded>>

(* and the rest of it: the session is aborted, the worker cancelled.       *)
DisconnectEnds ==
    /\ stopped /\ sup # "ended"
    /\ sup' = "ended" /\ ready' = FALSE
    /\ IF alive THEN AbortWith("lost") ELSE UNCHANGED sessionVars
    /\ DiscardEarly
    /\ UNCHANGED <<resume, gen, everReady, attempts, reason, stopped, events,
                   brokerVars, faults, told, acked>>

Next ==
    \/ \E qos \in {0, 1} : Publish(qos)
    \/ \E error \in {"lost", "server"} : ConnectionBreaks(error)
    \/ ReadPublish \/ WritePuback
    \/ Dial \/ DialFails \/ BecomesReady \/ RestoreRejected \/ SessionEnds
    \/ NextEvent \/ Disconnect \/ DisconnectEnds

Spec == Init /\ [][Next]_vars

(* The client's tasks run and the network comes back; nothing is assumed   *)
(* of the application.                                                     *)
FairSpec ==
    /\ Spec
    /\ WF_vars(ReadPublish) /\ WF_vars(WritePuback)
    /\ WF_vars(Dial) /\ WF_vars(BecomesReady) /\ WF_vars(SessionEnds)
    /\ WF_vars(DisconnectEnds)
-----------------------------------------------------------------------------
(* What the application has got or can still get, in order.                *)
Story == told \o events

(* Between the reports that a generation is connected and disconnected,    *)
(* and nowhere else, its messages are told, each once and in the order of  *)
(* the broker, whether they came before or after it was ready (read_loop,  *)
(* supervise).                                                             *)
StoryInOrder ==
    \A i \in DOMAIN Story :
       /\ \A j \in 1..(i - 1) : Story[j].gen <= Story[i].gen
       /\ Story[i].kind = "message" =>
            /\ \E j \in 1..(i - 1) : Story[j] = Connected(Story[i].gen)
            /\ \A j \in 1..(i - 1) :
                  Story[j].gen = Story[i].gen =>
                    /\ Story[j].kind # "disconnected"
                    /\ Story[j].n < Story[i].n

(* "client terminates instead of dropping messages" (client.mbt:510): a    *)
(* message the broker was told to forget reaches the application, or came  *)
(* before its generation was ready and was lost with it; after that report *)
(* only the end of the client discards anything.                           *)
OnlyUnreadyIsLost ==
    /\ \A n \in acked :
          \/ \E i \in DOMAIN Story : Story[i].n = n
          \/ \E i \in DOMAIN early : early[i].n = n
          \/ \E d \in discarded : d.n = n
    /\ \A d \in discarded :
          (\E i \in DOMAIN Story : Story[i] = Connected(d.gen))
          => sup = "ended"

(* A client that ends by itself says why, except when there was no room to *)
(* report the broken connection (supervise, emit).                         *)
EndsForACause ==
    [][sup # "ended" /\ sup' = "ended" /\ ~stopped
       => reason' # "none" \/ ~HasRoom(1)]_vars

(* When the faults are over the broker gets rid of every message of QoS 1, *)
(* or the client has ended.                                                *)
Drains == <>[](kept = {} \/ sup = "ended")
=============================================================================
