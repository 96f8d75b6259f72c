-------------------------- MODULE Incoming_proofs --------------------------
(***************************************************************************)
(* Theorems about Incoming, for every capacity, number of messages and     *)
(* number of faults: the types, the order of what the application is told, *)
(* what an acknowledgement means, that each message is acknowledged once   *)
(* and how the client ends.                                                *)
(*                                                                         *)
(* The argument follows a message from the broker to the application: what *)
(* is told of a generation precedes its early messages, and those precede  *)
(* what is still on its way.  Early messages and a report that their       *)
(* generation is connected meet only in a client that is about to end.     *)
(***************************************************************************)
EXTENDS Incoming, SequenceTheorems, TLAPS

Tells(S) ==
    \A i \in DOMAIN S :
       /\ \A j \in 1..(i - 1) : S[j].gen <= S[i].gen
       /\ S[i].kind = "message" =>
            /\ \E j \in 1..(i - 1) : S[j] = Connected(S[i].gen)
            /\ \A j \in 1..(i - 1) :
                  S[j].gen = S[i].gen =>
                    /\ S[j].kind # "disconnected"
                    /\ S[j].n < S[i].n

Says(g) == \E i \in DOMAIN Story : Story[i] = Connected(g)

Known(n) ==
    \/ \E i \in DOMAIN Story : Story[i].n = n
    \/ \E i \in DOMAIN early : early[i].n = n
    \/ \E d \in discarded : d.n = n

Told == Tells(Story) /\ \A i \in DOMAIN Story : Story[i].gen <= gen

Sessions ==
    /\ sup = "dialing" => early = <<>> /\ ~alive /\ ~ready
    /\ alive => sup \in {"restoring", "ready"}

Before(s, t) == \A i \in DOMAIN s, j \in DOMAIN t : s[i].n < t[j].n

UpToSent(s) == \A i \in DOMAIN s : s[i].n <= sent

InLine ==
    /\ \A m \in kept : m.n <= sent
    /\ alive => /\ Ascending(early) /\ Ascending(net) /\ Before(early, net)
                /\ UpToSent(early) /\ UpToSent(net)

NotTold ==
    alive => \A i \in DOMAIN Story : Story[i].gen = gen =>
               /\ sup = "ready" /\ Story[i].kind # "disconnected"
               /\ Story[i].n <= sent
               /\ \A k \in DOMAIN early : Story[i].n < early[k].n
               /\ \A k \in DOMAIN net : Story[i].n < net[k].n

Reports ==
    alive => /\ ready => early = <<>> /\ Says(gen)
             /\ Says(gen) => ready \/ stopped

Discards ==
    \A d \in discarded :
       /\ d.gen <= gen
       /\ d.gen = gen => sup \in {"dialing", "ended"}
       /\ Says(d.gen) => sup = "ended"

EarlyEnds ==
    early # <<>> /\ Says(gen) =>
      stopped \/ (~alive /\ cause = "backpressure")

Answered == acked \cup {control[i] : i \in DOMAIN control}

Accounted == \A n \in Answered : Known(n)

StoryInv == Told /\ Sessions /\ InLine /\ NotTold /\ Reports

LossInv == Discards /\ EarlyEnds /\ Accounted

Caused == sup \in {"restoring", "ready"} /\ ~alive => cause # "none"

IncomingInv == TypeOK /\ StoryInv /\ LossInv /\ Caused
-----------------------------------------------------------------------------
(* Types.                                                                  *)

LEMMA Longer ==
  ASSUME NEW S, NEW s \in Seq(S), NEW e \in S
  PROVE  /\ Append(s, e) \in Seq(S) /\ Len(Append(s, e)) = Len(s) + 1
         /\ \A i \in 1..Len(s) : Append(s, e)[i] = s[i]
         /\ Append(s, e)[Len(s) + 1] = e
  OBVIOUS

LEMMA InOrderType ==
  ASSUME NEW S, S \subseteq Message, NEW s \in InOrder(S)
  PROVE  /\ s \in Seq(Message) /\ Ascending(s)
         /\ \A i \in DOMAIN s : s[i] \in S
<1>1. PICK k \in 0..MaxMessages : s \in [1..k -> S]
  BY DEF InOrder
<1>2. k \in Nat
  BY <1>1, CapacityAssumption
<1>3. s \in Seq(S)
  BY <1>1, <1>2
<1>4. s \in Seq(Message)
  BY <1>3, SeqMonotonic
<1> QED
  BY <1>1, <1>4 DEF InOrder

LEMMA BacklogType ==
  ASSUME TypeOK
  PROVE  /\ Backlog \in Seq(Event) /\ Len(Backlog) = Len(early) + 1
         /\ Backlog[1] = Connected(gen)
         /\ \A i \in 2..Len(Backlog) : Backlog[i] = Received(early[i - 1])
<1> DEFINE B == [i \in DOMAIN early |-> Received(early[i])]
<1>1. early \in Seq(Message) /\ gen \in Nat
  BY DEF TypeOK
<1>2. \A i \in 1..Len(early) : Received(early[i]) \in Event
  <2> TAKE i \in 1..Len(early)
  <2>1. early[i] \in Message
    BY <1>1, ElementOfSeq
  <2> QED
    BY <1>1, <2>1, CapacityAssumption DEF Message, Event, Received
<1>3. B \in Seq(Event) /\ Len(B) = Len(early)
       /\ \A i \in 1..Len(early) : B[i] = Received(early[i])
  <2>1. DOMAIN early = 1..Len(early) /\ Len(early) \in Nat
    BY <1>1
  <2>2. B \in [1..Len(early) -> Event]
    BY <1>2, <2>1
  <2> QED
    BY <2>1, <2>2
<1>4. Connected(gen) \in Event
  BY <1>1, CapacityAssumption DEF Connected, Event
<1>5. <<Connected(gen)>> \in Seq(Event) /\ Len(<<Connected(gen)>>) = 1
       /\ <<Connected(gen)>>[1] = Connected(gen)
  BY <1>4
<1>6. Backlog = <<Connected(gen)>> \o B
  BY DEF Backlog
<1> HIDE DEF B
<1>7. /\ Backlog \in Seq(Event) /\ Len(Backlog) = 1 + Len(B)
      /\ \A i \in 1..(1 + Len(B)) : Backlog[i] =
            IF i <= 1 THEN <<Connected(gen)>>[i] ELSE B[i - 1]
  BY <1>3, <1>5, <1>6, ConcatProperties
<1>8. Len(early) \in Nat
  BY <1>1
<1> QED
  BY <1>3, <1>5, <1>7, <1>8

(* A part of the backlog from its beginning.                               *)
LEMMA BacklogPart ==
  ASSUME TypeOK, NEW k \in 0..Len(Backlog)
  PROVE  /\ SubSeq(Backlog, 1, k) \in Seq(Event)
         /\ Len(SubSeq(Backlog, 1, k)) = k
         /\ \A i \in 1..k : SubSeq(Backlog, 1, k)[i] = Backlog[i]
<1>1. Backlog \in Seq(Event)
  BY BacklogType
<1>2. \A i \in 1..k : Backlog[i] \in Event
  BY <1>1, ElementOfSeq
<1> QED
  BY <1>1, <1>2, SubSeqProperties

LEMMA ReceivedType ==
  ASSUME TypeOK, NEW m \in Message
  PROVE  Received(m) \in Event
  BY CapacityAssumption DEF TypeOK, Message, Event, Received

LEMMA DisconnectedType ==
  ASSUME TypeOK
  PROVE  Disconnected(gen) \in Event
  BY CapacityAssumption DEF TypeOK, Event, Disconnected
-----------------------------------------------------------------------------
LEMMA NoItems ==
  /\ <<>> \in Seq(1..MaxMessages) /\ <<>> \in Seq(Message)
  /\ <<>> \in Seq(Event) /\ Len(<<>>) = 0
  /\ 0 <= ControlCapacity /\ 0 <= ReceiveCapacity
  /\ 0 \in 0..MaxMessages /\ 0 \in 0..MaxFaults
  BY CapacityAssumption, EmptySeq

LEMMA InitTypes == Init => TypeOK
<1> SUFFICES ASSUME Init PROVE TypeOK
  OBVIOUS
<1>1. /\ control = <<>> /\ early = <<>> /\ events = <<>> /\ net = <<>>
      /\ told = <<>> /\ sent = 0 /\ faults = 0 /\ gen = 0 /\ attempts = 0
      /\ kept = {} /\ acked = {} /\ discarded = {}
  BY DEF Init
<1>2. /\ resume \in BOOLEAN /\ everReady \in BOOLEAN /\ ready \in BOOLEAN
      /\ stopped \in BOOLEAN /\ alive \in BOOLEAN
  BY DEF Init
<1>3. /\ sup = "dialing" /\ reason = "none" /\ cause = "none"
  BY DEF Init
<1> QED
  BY <1>1, <1>2, <1>3, NoItems DEF TypeOK, Causes

LEMMA AcknowledgeTypes ==
  ASSUME TypeOK, NEW m \in Message, Acknowledge(m)
  PROVE  /\ alive' \in BOOLEAN /\ cause' \in Causes
         /\ control' \in Seq(1..MaxMessages) /\ Len(control') <= ControlCapacity
<1>1. m.n \in 1..MaxMessages
  BY DEF Message
<1>2. CASE m.qos = 0
  BY <1>2 DEF Acknowledge, TypeOK, sessionVars
<1>3. CASE m.qos # 0 /\ Len(control) < ControlCapacity
  <2>1. /\ control' = Append(control, m.n) /\ UNCHANGED <<alive, cause>>
    BY <1>3 DEF Acknowledge
  <2>2. control \in Seq(1..MaxMessages) /\ Len(control) \in Nat
    BY DEF TypeOK
  <2>3. Len(control) + 1 <= ControlCapacity
    BY <1>3, <2>2, CapacityAssumption
  <2> QED
    BY <1>1, <2>1, <2>2, <2>3, Longer DEF TypeOK
<1>4. CASE m.qos # 0 /\ ~(Len(control) < ControlCapacity)
  <2>1. AbortWith("protocol")
    BY <1>4 DEF Acknowledge
  <2> QED
    BY <2>1, NoItems DEF AbortWith, Causes
<1> QED
  BY <1>2, <1>3, <1>4

LEMMA AbortTypes ==
  ASSUME TypeOK, NEW error \in Causes, AbortWith(error)
  PROVE  /\ alive' \in BOOLEAN /\ cause' \in Causes
         /\ control' \in Seq(1..MaxMessages) /\ Len(control') <= ControlCapacity
BY NoItems DEF AbortWith

LEMMA HandleTypes ==
  ASSUME TypeOK, NEW error \in Causes, Handle(error)
  PROVE  /\ sup' \in {"dialing", "ended"} /\ attempts' \in Nat
         /\ reason' \in Causes \cup {"exhausted"}
         /\ events' \in Seq(Event) /\ Len(events') <= ReceiveCapacity
<1>1. reason \in Causes \cup {"exhausted"} /\ attempts \in Nat
      /\ events \in Seq(Event) /\ Len(events) <= ReceiveCapacity
  BY DEF TypeOK
<1>2. CASE sup' = "ended" /\ UNCHANGED <<events, attempts, reason>>
  BY <1>1, <1>2
<1>3. CASE sup' = "ended" /\ RecordStop(error) /\ UNCHANGED <<events, attempts>>
  BY <1>1, <1>3 DEF RecordStop
<1>4. CASE /\ HasRoom(1) /\ events' = Append(events, Disconnected(gen))
           /\ attempts' = attempts + 1
           /\ \/ sup' = "dialing" /\ UNCHANGED reason
              \/ sup' = "ended" /\ RecordStop("exhausted")
  <2>1. Disconnected(gen) \in Event
    BY DisconnectedType
  <2>2. events' \in Seq(Event) /\ Len(events') = Len(events) + 1
    BY <1>1, <1>4, <2>1
  <2>3. Len(events) + 1 <= ReceiveCapacity
    BY <1>4 DEF HasRoom
  <2>4. reason' \in Causes \cup {"exhausted"}
    BY <1>1, <1>4 DEF RecordStop
  <2> QED
    BY <1>1, <1>4, <2>2, <2>3, <2>4
<1> QED
  BY <1>2, <1>3, <1>4 DEF Handle

LEMMA DiscardTypes ==
  ASSUME TypeOK, DiscardEarly
  PROVE  /\ discarded' \subseteq [gen: Nat, n: 1..MaxMessages]
         /\ early' \in Seq(Message) /\ Len(early') <= ReceiveCapacity
<1>1. \A i \in DOMAIN early : early[i].n \in 1..MaxMessages
  <2>1. early \in Seq(Message)
    BY DEF TypeOK
  <2>2. \A i \in DOMAIN early : early[i] \in Message
    BY <2>1
  <2> QED
    BY <2>2 DEF Message
<1> QED
  BY <1>1, CapacityAssumption DEF TypeOK, DiscardEarly

LEMMA HeadOfNet ==
  ASSUME TypeOK, net # <<>>
  PROVE  /\ Head(net) \in Message /\ Head(net) = net[1]
         /\ Tail(net) \in Seq(Message) /\ Len(Tail(net)) = Len(net) - 1
         /\ \A i \in 1..(Len(net) - 1) : Tail(net)[i] = net[i + 1]
         /\ Len(net) \in Nat \ {0}
<1>1. net \in Seq(Message)
  BY DEF TypeOK
<1> QED
  BY <1>1, HeadTailProperties, EmptySeq

LEMMA ReadTypes ==
  ASSUME TypeOK, ReadPublish
  PROVE  TypeOK'
<1>1. net # <<>> /\ net' = Tail(net)
  BY DEF ReadPublish
<1>2. Head(net) \in Message /\ net' \in Seq(Message)
  BY <1>1, HeadOfNet
<1>3. /\ alive' \in BOOLEAN /\ cause' \in Causes
      /\ control' \in Seq(1..MaxMessages) /\ Len(control') <= ControlCapacity
  <2>1. Acknowledge(Head(net)) \/ AbortWith("backpressure")
    BY DEF ReadPublish, Emit, PutAside
  <2>2. "backpressure" \in Causes
    BY DEF Causes
  <2> QED
    BY <1>2, <2>1, <2>2, AcknowledgeTypes, AbortTypes
<1>4. events' \in Seq(Event) /\ Len(events') <= ReceiveCapacity
  <2>1. \/ HasRoom(1) /\ events' = Append(events, Received(Head(net)))
        \/ events' = events
    BY DEF ReadPublish, Emit
  <2>2. Received(Head(net)) \in Event
    BY <1>2, ReceivedType
  <2>3. events \in Seq(Event) /\ Len(events) \in Nat
        /\ Len(events) <= ReceiveCapacity
    BY DEF TypeOK
  <2>4. HasRoom(1) => Len(events) + 1 <= ReceiveCapacity
    BY DEF HasRoom
  <2> QED
    BY <2>1, <2>2, <2>3, <2>4, Longer
<1>5. early' \in Seq(Message) /\ Len(early') <= ReceiveCapacity
  <2>1. \/ Len(early) < ReceiveCapacity /\ early' = Append(early, Head(net))
        \/ early' = early
    BY DEF ReadPublish, PutAside
  <2>2. early \in Seq(Message) /\ Len(early) \in Nat
        /\ Len(early) <= ReceiveCapacity
    BY DEF TypeOK
  <2>3. Len(early) < ReceiveCapacity => Len(early) + 1 <= ReceiveCapacity
    BY <2>2, CapacityAssumption
  <2> QED
    BY <1>2, <2>1, <2>2, <2>3, Longer
<1>6. UNCHANGED <<resume, sup, gen, everReady, attempts, reason, ready, stopped,
                  sent, kept, faults, told, acked, discarded>>
  BY DEF ReadPublish, supervisorVars
<1> QED
  BY <1>2, <1>3, <1>4, <1>5, <1>6 DEF TypeOK

LEMMA BecomesReadyTypes ==
  ASSUME TypeOK, BecomesReady
  PROVE  TypeOK'
<1>1. /\ events \in Seq(Event) /\ Len(events) \in Nat
      /\ Len(events) <= ReceiveCapacity
  BY DEF TypeOK
<1>2. UNCHANGED <<resume, gen, reason, stopped, sent, kept, net, faults, told,
                  acked, discarded>>
      /\ ready' = TRUE /\ everReady' = TRUE /\ attempts' = 0
  BY DEF BecomesReady, brokerVars
<1>3. Backlog \in Seq(Event) /\ Len(Backlog) \in Nat
  BY BacklogType
<1>4. CASE /\ HasRoom(Len(Backlog))
           /\ events' = events \o Backlog /\ early' = <<>> /\ sup' = "ready"
           /\ UNCHANGED sessionVars
  <2>1. events' \in Seq(Event) /\ Len(events') = Len(events) + Len(Backlog)
    BY <1>1, <1>3, <1>4, ConcatProperties
  <2>2. Len(events') <= ReceiveCapacity
    BY <1>4, <2>1 DEF HasRoom
  <2>3. UNCHANGED <<alive, cause, control>>
    BY <1>4 DEF sessionVars
  <2> QED
    BY <1>2, <1>4, <2>1, <2>2, <2>3, NoItems DEF TypeOK
<1>5. CASE /\ ~HasRoom(Len(Backlog))
           /\ events' = events \o SubSeq(Backlog, 1, ReceiveCapacity - Len(events))
           /\ AbortWith("backpressure")
           /\ UNCHANGED <<sup, early>>
  <2> DEFINE k == ReceiveCapacity - Len(events)
  <2>1. k \in 0..Len(Backlog)
    BY <1>1, <1>3, <1>5, CapacityAssumption DEF HasRoom
  <2>2. SubSeq(Backlog, 1, k) \in Seq(Event) /\ Len(SubSeq(Backlog, 1, k)) = k
    BY <2>1, BacklogPart
  <2>3. events' \in Seq(Event)
        /\ Len(events') = Len(events) + Len(SubSeq(Backlog, 1, k))
    BY <1>1, <1>5, <2>2, ConcatProperties
  <2>4. Len(events') <= ReceiveCapacity
    BY <1>1, <2>2, <2>3, CapacityAssumption
  <2>5. alive' \in BOOLEAN /\ cause' \in Causes
        /\ control' \in Seq(1..MaxMessages) /\ Len(control') <= ControlCapacity
    BY <1>5, AbortTypes DEF Causes
  <2> QED
    BY <1>2, <1>5, <2>3, <2>4, <2>5 DEF TypeOK
<1> QED
  BY <1>4, <1>5 DEF BecomesReady

LEMMA TypesStep == TypeOK /\ [Next]_vars => TypeOK'
<1> SUFFICES ASSUME TypeOK, [Next]_vars PROVE TypeOK'
  OBVIOUS
<1>1. ASSUME NEW qos \in {0, 1}, Publish(qos) PROVE TypeOK'
  <2> DEFINE m == [n |-> sent + 1, qos |-> qos]
  <2>1. sent' = sent + 1 /\ sent' \in 1..MaxMessages
    BY <1>1, CapacityAssumption DEF Publish, TypeOK
  <2>2. m \in Message
    BY <2>1 DEF Message
  <2>3. kept' = kept \/ kept' = kept \cup {m}
    BY <1>1 DEF Publish
  <2>4. net' = net \/ net' = Append(net, m)
    BY <1>1 DEF Publish
  <2>5. net' \in Seq(Message)
    <3>1. net \in Seq(Message)
      BY DEF TypeOK
    <3> HIDE DEF m
    <3> QED
      BY <2>2, <2>4, <3>1, Longer
  <2>6. UNCHANGED <<resume, supervisorVars, ready, stopped, sessionVars, early,
                    events, faults, told, acked, discarded>>
    BY <1>1 DEF Publish
  <2> HIDE DEF m
  <2> QED
    BY <2>1, <2>2, <2>3, <2>5, <2>6 DEF TypeOK, supervisorVars, sessionVars
<1>2. ASSUME NEW error \in {"lost", "server"}, ConnectionBreaks(error)
      PROVE  TypeOK'
  <2>1. alive' \in BOOLEAN /\ cause' \in Causes
        /\ control' \in Seq(1..MaxMessages) /\ Len(control') <= ControlCapacity
    BY <1>2, AbortTypes DEF ConnectionBreaks, Causes
  <2>2. faults' \in 0..MaxFaults
    BY <1>2, CapacityAssumption DEF ConnectionBreaks, TypeOK
  <2> QED
    BY <1>2, <2>1, <2>2 DEF ConnectionBreaks, TypeOK, supervisorVars, brokerVars
<1>3. CASE ReadPublish
  BY <1>3, ReadTypes
<1>4. CASE WritePuback
  <2>1. control \in Seq(1..MaxMessages) /\ control # <<>>
        /\ Len(control) <= ControlCapacity
    BY <1>4 DEF TypeOK, WritePuback
  <2>2. /\ Head(control) \in 1..MaxMessages
        /\ Tail(control) \in Seq(1..MaxMessages)
        /\ Len(Tail(control)) <= ControlCapacity
    BY <2>1, HeadTailProperties, CapacityAssumption
  <2>3. control' = Tail(control) /\ acked' = acked \cup {Head(control)}
        /\ kept' \subseteq kept
    BY <1>4 DEF WritePuback
  <2>4. UNCHANGED <<resume, supervisorVars, ready, stopped, alive, cause, early,
                    events, sent, net, faults, told, discarded>>
    BY <1>4 DEF WritePuback
  <2> QED
    BY <2>2, <2>3, <2>4 DEF TypeOK, supervisorVars
<1>5. CASE Dial
  <2>1. kept' \subseteq Message /\ net' \in InOrder(kept')
    BY <1>5 DEF Dial, TypeOK
  <2>2. net' \in Seq(Message)
    BY <2>1, InOrderType
  <2>3. gen' \in Nat
    BY <1>5 DEF Dial, TypeOK
  <2> QED
    BY <1>5, <2>1, <2>2, <2>3, NoItems DEF Dial, TypeOK, Causes
<1>6. CASE DialFails
  <2>1. /\ sup' \in {"dialing", "ended"} /\ attempts' \in Nat
        /\ reason' \in Causes \cup {"exhausted"}
        /\ events' \in Seq(Event) /\ Len(events') <= ReceiveCapacity
    BY <1>6, HandleTypes DEF DialFails, Causes
  <2>2. faults' \in 0..MaxFaults
    BY <1>6, CapacityAssumption DEF DialFails, TypeOK
  <2>3. UNCHANGED <<resume, gen, everReady, ready, stopped, sessionVars, early,
                    brokerVars, told, acked, discarded>>
    BY <1>6 DEF DialFails
  <2> QED
    BY <2>1, <2>2, <2>3 DEF TypeOK, sessionVars, brokerVars
<1>7. CASE BecomesReady
  BY <1>7, BecomesReadyTypes
<1>8. CASE RestoreRejected
  <2>1. alive' \in BOOLEAN /\ cause' \in Causes
        /\ control' \in Seq(1..MaxMessages) /\ Len(control') <= ControlCapacity
    BY <1>8, AbortTypes DEF RestoreRejected, Causes
  <2> QED
    BY <1>8, <2>1 DEF RestoreRejected, TypeOK, supervisorVars, brokerVars
<1>9. CASE SessionEnds
  <2>1. /\ sup' \in {"dialing", "ended"} /\ attempts' \in Nat
        /\ reason' \in Causes \cup {"exhausted"}
        /\ events' \in Seq(Event) /\ Len(events') <= ReceiveCapacity
    BY <1>9, HandleTypes DEF SessionEnds, TypeOK
  <2>2. /\ discarded' \subseteq [gen: Nat, n: 1..MaxMessages]
        /\ early' \in Seq(Message) /\ Len(early') <= ReceiveCapacity
    BY <1>9, DiscardTypes DEF SessionEnds
  <2>3. ready' = FALSE /\ UNCHANGED <<resume, gen, everReady, stopped,
                    sessionVars, brokerVars, faults, told, acked>>
    BY <1>9 DEF SessionEnds
  <2> QED
    BY <2>1, <2>2, <2>3 DEF TypeOK, sessionVars, brokerVars
<1>10. CASE NextEvent
  <2>1. events \in Seq(Event) /\ events # <<>> /\ Len(events) <= ReceiveCapacity
        /\ told \in Seq(Event)
    BY <1>10 DEF TypeOK, NextEvent
  <2>2. /\ Head(events) \in Event /\ Tail(events) \in Seq(Event)
        /\ Len(Tail(events)) <= ReceiveCapacity
    BY <2>1, HeadTailProperties, CapacityAssumption
  <2>3. events' = Tail(events) /\ told' \in Seq(Event)
    BY <1>10, <2>1, <2>2, Longer DEF NextEvent
  <2>4. UNCHANGED <<resume, supervisorVars, ready, stopped, sessionVars, early,
                    brokerVars, faults, acked, discarded>>
    BY <1>10 DEF NextEvent
  <2> QED
    BY <2>2, <2>3, <2>4 DEF TypeOK, supervisorVars, sessionVars, brokerVars
<1>11. CASE Disconnect
  BY <1>11 DEF Disconnect, TypeOK, supervisorVars, sessionVars, brokerVars
<1>12. CASE DisconnectEnds
  <2>1. alive' \in BOOLEAN /\ cause' \in Causes
        /\ control' \in Seq(1..MaxMessages) /\ Len(control') <= ControlCapacity
    <3>1. AbortWith("lost") \/ UNCHANGED sessionVars
      BY <1>12 DEF DisconnectEnds
    <3>2. "lost" \in Causes
      BY DEF Causes
    <3> QED
      BY <3>1, <3>2, AbortTypes DEF sessionVars, TypeOK
  <2>2. /\ discarded' \subseteq [gen: Nat, n: 1..MaxMessages]
        /\ early' \in Seq(Message) /\ Len(early') <= ReceiveCapacity
    BY <1>12, DiscardTypes DEF DisconnectEnds
  <2>3. sup' = "ended" /\ ready' = FALSE
        /\ UNCHANGED <<resume, gen, everReady, attempts, reason, stopped,
                       events, brokerVars, faults, told, acked>>
    BY <1>12 DEF DisconnectEnds
  <2> QED
    BY <2>1, <2>2, <2>3 DEF TypeOK, brokerVars
<1>13. CASE UNCHANGED vars
  BY <1>13 DEF vars, TypeOK, supervisorVars, sessionVars, brokerVars
<1> QED
  BY <1>1, <1>2, <1>3, <1>4, <1>5, <1>6, <1>7, <1>8, <1>9, <1>10, <1>11, <1>12,
     <1>13 DEF Next
-----------------------------------------------------------------------------
(* The story and how it grows.                                             *)

LEMMA StoryType ==
  ASSUME TypeOK
  PROVE  Story \in Seq(Event) /\ DOMAIN Story = 1..Len(Story)
         /\ Len(Story) \in Nat
<1>1. told \in Seq(Event) /\ events \in Seq(Event)
  BY DEF TypeOK
<1>2. Story \in Seq(Event)
  BY <1>1, ConcatProperties DEF Story
<1> QED
  BY <1>2, LenProperties

LEMMA OneMore ==
  ASSUME NEW S, NEW s \in Seq(S), NEW e \in S
  PROVE  Append(s, e) = s \o <<e>>
  OBVIOUS

LEMMA TakenStory ==
  ASSUME TypeOK, NextEvent
  PROVE  Story' = Story
<1> DEFINE h == Head(events)
           t == Tail(events)
<1>1. told \in Seq(Event) /\ events \in Seq(Event) /\ events # <<>>
  BY DEF TypeOK, NextEvent
<1>2. h \in Event /\ t \in Seq(Event) /\ Len(t) = Len(events) - 1
      /\ \A i \in 1..Len(t) : t[i] = events[i + 1]
  BY <1>1, HeadTailProperties
<1>3. <<h>> \in Seq(Event) /\ Len(<<h>>) = 1 /\ <<h>>[1] = events[1]
  BY <1>1, <1>2
<1>4. told' = told \o <<h>> /\ events' = t
  BY <1>1, <1>2, OneMore DEF NextEvent
<1> HIDE DEF h, t
<1>5. <<h>> \o t = events
  <2>1. /\ <<h>> \o t \in Seq(Event) /\ Len(<<h>> \o t) = 1 + Len(t)
        /\ \A i \in 1..(1 + Len(t)) :
              (<<h>> \o t)[i] = IF i <= 1 THEN <<h>>[i] ELSE t[i - 1]
    BY <1>2, <1>3, ConcatProperties
  <2>2. Len(events) \in Nat /\ Len(<<h>> \o t) = Len(events)
    BY <1>1, <1>2, <2>1
  <2>3. \A i \in 1..Len(events) : (<<h>> \o t)[i] = events[i]
    BY <1>2, <1>3, <2>1, <2>2
  <2> QED
    BY <1>1, <2>1, <2>2, <2>3, SeqEqual
<1>6. (told \o <<h>>) \o t = told \o (<<h>> \o t)
  BY <1>1, <1>2, <1>3, ConcatAssociative
<1> QED
  BY <1>4, <1>5, <1>6 DEF Story

LEMMA GrownStory ==
  ASSUME TypeOK, NEW B \in Seq(Event), told' = told, events' = events \o B
  PROVE  /\ Story' = Story \o B /\ Story \o B \in Seq(Event)
         /\ Len(Story \o B) = Len(Story) + Len(B)
         /\ DOMAIN (Story \o B) = 1..(Len(Story) + Len(B))
         /\ \A i \in 1..(Len(Story) + Len(B)) : (Story \o B)[i] =
               IF i <= Len(Story) THEN Story[i] ELSE B[i - Len(Story)]
<1>1. told \in Seq(Event) /\ events \in Seq(Event)
  BY DEF TypeOK
<1>2. Story' = Story \o B
  BY <1>1, ConcatAssociative DEF Story
<1>3. Story \in Seq(Event)
  BY StoryType
<1> QED
  BY <1>2, <1>3, ConcatProperties, LenProperties

(* Reports of generation g can be added when nothing of a later one was    *)
(* told, and messages when it is connected, not disconnected, and they     *)
(* follow what was told of it.                                             *)
LEMMA Joined ==
  ASSUME NEW S \in Seq(Event), NEW B \in Seq(Event), NEW g \in Nat, Tells(S),
         \A i \in DOMAIN S : S[i].gen <= g,
         \A b \in DOMAIN B : B[b].gen = g,
         \A b \in DOMAIN B : B[b].kind = "message" =>
           /\ \/ \E j \in DOMAIN S : S[j] = Connected(g)
              \/ \E j \in 1..(b - 1) : B[j] = Connected(g)
           /\ \A j \in DOMAIN S : S[j].gen = g =>
                 S[j].kind # "disconnected" /\ S[j].n < B[b].n
           /\ \A j \in 1..(b - 1) :
                 B[j].kind # "disconnected" /\ B[j].n < B[b].n
  PROVE  Tells(S \o B) /\ \A i \in DOMAIN (S \o B) : (S \o B)[i].gen <= g
<1> DEFINE C == S \o B
           l == Len(S)
<1>1. /\ l \in Nat /\ DOMAIN S = 1..l /\ Len(B) \in Nat
      /\ DOMAIN B = 1..Len(B)
  OBVIOUS
<1>2. DOMAIN C = 1..(l + Len(B))
  BY ConcatProperties, LenProperties
<1>3. \A i \in 1..l : C[i] = S[i]
  BY ConcatProperties, <1>1
<1>4. \A i \in (l + 1)..(l + Len(B)) : i - l \in 1..Len(B) /\ C[i] = B[i - l]
  BY ConcatProperties, <1>1
<1>5. \A b \in 1..Len(B) : b + l \in 1..(l + Len(B)) /\ C[b + l] = B[b]
  BY ConcatProperties, <1>1
<1> HIDE DEF C, l
<1>6. \A i \in DOMAIN C : C[i].gen <= g
  <2> TAKE i \in DOMAIN C
  <2>1. CASE i \in 1..l
    BY <1>1, <1>3, <2>1
  <2>2. CASE i \in (l + 1)..(l + Len(B))
    BY <1>1, <1>4, <2>2
  <2> QED
    BY <1>1, <1>2, <2>1, <2>2
<1>7. ASSUME NEW i \in DOMAIN C
      PROVE  /\ \A j \in 1..(i - 1) : C[j].gen <= C[i].gen
             /\ C[i].kind = "message" =>
                  /\ \E j \in 1..(i - 1) : C[j] = Connected(C[i].gen)
                  /\ \A j \in 1..(i - 1) :
                        C[j].gen = C[i].gen =>
                          C[j].kind # "disconnected" /\ C[j].n < C[i].n
  <2>1. CASE i \in 1..l
    <3>1. \A j \in 1..(i - 1) : j \in 1..l
      BY <1>1, <2>1
    <3> QED
      BY <1>1, <1>3, <2>1, <3>1 DEF Tells
  <2>2. CASE i \in (l + 1)..(l + Len(B))
    <3> DEFINE b == i - l
    <3>1. b \in 1..Len(B) /\ C[i] = B[b] /\ C[i].gen = g
      BY <1>1, <1>4, <2>2
    <3>2. \A j \in 1..(i - 1) : j \in DOMAIN C
      BY <1>1, <1>2, <2>2
    <3>3. \A j \in 1..(i - 1) : C[j].gen <= C[i].gen
      BY <1>6, <3>1, <3>2
    <3>4. ASSUME C[i].kind = "message"
          PROVE  \E j \in 1..(i - 1) : C[j] = Connected(g)
      <4>1. CASE \E j \in DOMAIN S : S[j] = Connected(g)
        <5>1. PICK j \in 1..l : S[j] = Connected(g)
          BY <1>1, <4>1
        <5>2. j \in 1..(i - 1)
          BY <1>1, <2>2, <5>1
        <5> QED
          BY <1>3, <5>1, <5>2
      <4>2. CASE \E j \in 1..(b - 1) : B[j] = Connected(g)
        <5>1. PICK j \in 1..(b - 1) : B[j] = Connected(g)
          BY <4>2
        <5>2. j \in 1..Len(B) /\ j + l \in 1..(i - 1)
          BY <1>1, <2>2, <3>1, <5>1
        <5> QED
          BY <1>5, <5>1, <5>2
      <4> QED
        BY <1>1, <3>1, <3>4, <4>1, <4>2
    <3>5. ASSUME C[i].kind = "message", NEW j \in 1..(i - 1), C[j].gen = C[i].gen
          PROVE  C[j].kind # "disconnected" /\ C[j].n < C[i].n
      <4>1. CASE j \in 1..l
        BY <1>1, <1>3, <3>1, <3>5, <4>1
      <4>2. CASE j \in (l + 1)..(i - 1)
        <5>1. j - l \in 1..(b - 1) /\ C[j] = B[j - l]
          BY <1>1, <1>4, <2>2, <4>2
        <5> QED
          BY <1>1, <3>1, <3>5, <5>1
      <4> QED
        BY <1>1, <2>2, <4>1, <4>2
    <3> QED
      BY <3>1, <3>3, <3>4, <3>5
  <2> QED
    BY <1>1, <1>2, <2>1, <2>2
<1> QED
  BY <1>6, <1>7 DEF Tells, C
-----------------------------------------------------------------------------
(* Steps that leave the story and the generation alone.                    *)

LEMMA CalmSays ==
  ASSUME Story' = Story, NEW g
  PROVE  Says(g)' <=> Says(g)
BY DEF Says

LEMMA CalmTold ==
  ASSUME Told, Story' = Story, gen' = gen
  PROVE  Told'
BY DEF Told, Tells

LEMMA SameStory ==
  ASSUME told' = told, events' = events
  PROVE  Story' = Story
BY DEF Story

LEMMA KnownStays ==
  ASSUME Story' = Story, early' = early, discarded' = discarded, NEW n, Known(n)
  PROVE  Known(n)'
BY DEF Known

LEMMA EarlyType ==
  ASSUME TypeOK
  PROVE  /\ DOMAIN early = 1..Len(early) /\ Len(early) \in Nat
         /\ \A i \in DOMAIN early : early[i] \in Message /\ early[i].n \in Int
         /\ DOMAIN net = 1..Len(net) /\ Len(net) \in Nat
         /\ \A i \in DOMAIN net : net[i] \in Message /\ net[i].n \in Int
         /\ sent \in Int
         /\ \A i \in DOMAIN Story : /\ Story[i] \in Event /\ Story[i].n \in Int
                                    /\ Story[i].gen \in Int
<1>1. early \in Seq(Message) /\ net \in Seq(Message) /\ sent \in 0..MaxMessages
  BY DEF TypeOK
<1>2. MaxMessages \in Int
  BY CapacityAssumption
<1>3. \A m \in Message : m.n \in Int
  BY <1>2 DEF Message
<1>4. \A e \in Event : e.n \in Int /\ e.gen \in Int
  BY <1>2 DEF Event
<1>5. \A i \in DOMAIN Story : Story[i] \in Event
  BY StoryType
<1> QED
  BY <1>1, <1>2, <1>3, <1>4, <1>5

LEMMA AscendingMore ==
  ASSUME NEW s \in Seq(Message), NEW m \in Message, Ascending(s),
         \A i \in DOMAIN s : s[i].n < m.n
  PROVE  Ascending(Append(s, m))
<1> DEFINE t == Append(s, m)
<1>1. /\ Len(t) = Len(s) + 1 /\ \A i \in 1..Len(s) : t[i] = s[i]
      /\ t[Len(s) + 1] = m /\ t \in Seq(Message) /\ Len(s) \in Nat
      /\ DOMAIN s = 1..Len(s) /\ DOMAIN t = 1..(Len(s) + 1)
  BY Longer, LenProperties
<1> HIDE DEF t
<1> SUFFICES ASSUME NEW i \in DOMAIN t, NEW j \in DOMAIN t, i < j
             PROVE  t[i].n < t[j].n
  BY DEF Ascending, t
<1>2. i \in 1..Len(s)
  BY <1>1
<1>3. CASE j \in 1..Len(s)
  BY <1>1, <1>2, <1>3 DEF Ascending
<1>4. CASE j = Len(s) + 1
  BY <1>1, <1>2, <1>4
<1> QED
  BY <1>1, <1>3, <1>4

LEMMA PublishStory ==
  ASSUME IncomingInv, NEW qos \in {0, 1}, Publish(qos)
  PROVE  StoryInv' /\ LossInv'
<1> DEFINE m == [n |-> sent + 1, qos |-> qos]
<1>1. TypeOK /\ StoryInv /\ LossInv
  BY DEF IncomingInv
<1>2. /\ UNCHANGED <<sup, gen, ready, stopped, alive, cause, control, early,
                     events, told, acked, discarded>>
      /\ sent' = sent + 1 /\ (kept' = kept \/ kept' = kept \cup {m})
      /\ (net' = net \/ (alive /\ net' = Append(net, m)))
  BY DEF Publish, supervisorVars, sessionVars
<1>3. Story' = Story
  BY <1>2, SameStory
<1>4. m \in Message /\ m.n = sent + 1
  BY <1>1, CapacityAssumption DEF Publish, TypeOK, Message
<1> HIDE DEF m
<1>5. net \in Seq(Message)
  BY <1>1 DEF TypeOK
<1>6. Told'
  BY <1>1, <1>2, <1>3, CalmTold DEF StoryInv
<1>7. Sessions'
  BY <1>1, <1>2 DEF StoryInv, Sessions
<1>8. InLine'
  <2>1. \A k \in kept' : k.n <= sent'
    <3>1. \A k \in kept : k.n <= sent /\ k.n \in Int
      BY <1>1, CapacityAssumption DEF StoryInv, InLine, TypeOK, Message
    <3> QED
      BY <1>1, <1>2, <1>4, <3>1, EarlyType
  <2>2. ASSUME alive
        PROVE  /\ Ascending(early) /\ Ascending(net') /\ Before(early, net')
               /\ UpToSent(early)' /\ UpToSent(net)'
    <3>1. /\ Ascending(early) /\ Ascending(net) /\ Before(early, net)
          /\ UpToSent(early) /\ UpToSent(net)
      BY <1>1, <2>2 DEF StoryInv, InLine
    <3>2. UpToSent(early)'
      BY <1>1, <1>2, <3>1, EarlyType DEF UpToSent
    <3>3. CASE net' = net
      BY <1>1, <1>2, <3>1, <3>2, <3>3, EarlyType DEF UpToSent
    <3>4. CASE net' = Append(net, m)
      <4>1. \A i \in DOMAIN net : net[i].n < m.n
        BY <1>1, <1>4, <3>1, EarlyType DEF UpToSent
      <4>2. Ascending(net')
        BY <1>4, <1>5, <3>1, <3>4, <4>1, AscendingMore
      <4>3. /\ DOMAIN net' = 1..(Len(net) + 1)
            /\ \A i \in 1..Len(net) : net'[i] = net[i]
            /\ net'[Len(net) + 1] = m
        BY <1>4, <1>5, <3>4, Longer, LenProperties
      <4>4. DOMAIN net = 1..Len(net) /\ Len(net) \in Nat
        BY <1>5
      <4>5. \A j \in DOMAIN net' : j \in DOMAIN net \/ j = Len(net) + 1
        BY <4>3, <4>4
      <4>6. Before(early, net')
        BY <1>1, <1>4, <3>1, <4>3, <4>4, <4>5, EarlyType DEF Before, UpToSent
      <4>7. UpToSent(net)'
        BY <1>1, <1>2, <1>4, <3>1, <4>3, <4>4, <4>5, EarlyType DEF UpToSent
      <4> QED
        BY <3>1, <3>2, <4>2, <4>6, <4>7
    <3> QED
      BY <1>2, <3>3, <3>4
  <2> QED
    BY <1>2, <2>1, <2>2 DEF InLine, Before, Ascending, UpToSent
<1>9. NotTold'
  <2> SUFFICES ASSUME alive, NEW i \in DOMAIN Story, Story[i].gen = gen
               PROVE  /\ sup = "ready" /\ Story[i].kind # "disconnected"
                      /\ Story[i].n <= sent'
                      /\ \A k \in DOMAIN early : Story[i].n < early[k].n
                      /\ \A k \in DOMAIN net' : Story[i].n < net'[k].n
    BY <1>2, <1>3 DEF NotTold
  <2>1. /\ sup = "ready" /\ Story[i].kind # "disconnected"
        /\ Story[i].n <= sent
        /\ \A k \in DOMAIN early : Story[i].n < early[k].n
        /\ \A k \in DOMAIN net : Story[i].n < net[k].n
    BY <1>1 DEF StoryInv, NotTold
  <2>2. Story[i].n \in Int /\ sent \in Int
    BY <1>1, EarlyType
  <2>3. CASE net' = net
    BY <1>2, <2>1, <2>2, <2>3
  <2>4. CASE net' = Append(net, m)
    <3>1. /\ DOMAIN net' = 1..(Len(net) + 1) /\ DOMAIN net = 1..Len(net)
          /\ \A k \in 1..Len(net) : net'[k] = net[k]
          /\ net'[Len(net) + 1] = m /\ Len(net) \in Nat
      BY <1>4, <1>5, <2>4, Longer, LenProperties
    <3> QED
      BY <1>2, <1>4, <2>1, <2>2, <3>1
  <2> QED
    BY <1>2, <2>3, <2>4
<1>10. Reports'
  BY <1>1, <1>2, <1>3, CalmSays DEF StoryInv, Reports
<1>11. Discards' /\ EarlyEnds'
  BY <1>1, <1>2, <1>3, CalmSays DEF LossInv, Discards, EarlyEnds
<1>12. Accounted'
  BY <1>1, <1>2, <1>3, KnownStays DEF LossInv, Accounted, Answered
<1> QED
  BY <1>6, <1>7, <1>8, <1>9, <1>10, <1>11, <1>12 DEF StoryInv, LossInv

(* The connection breaks or the restoration is refused.                    *)
LEMMA AbortStory ==
  ASSUME IncomingInv, NEW error, alive, AbortWith(error),
         UNCHANGED <<sup, gen, ready, stopped, early, events, kept, sent, told,
                     acked, discarded>>
  PROVE  StoryInv' /\ LossInv'
<1>1. TypeOK /\ StoryInv /\ LossInv
  BY DEF IncomingInv
<1>2. Story' = Story /\ alive' = FALSE /\ control' = <<>>
  BY SameStory DEF AbortWith
<1>3. Told' /\ Sessions' /\ InLine' /\ NotTold' /\ Reports'
  BY <1>1, <1>2, CalmTold
  DEF StoryInv, Sessions, InLine, NotTold, Reports
<1>4. Discards'
  BY <1>1, <1>2, CalmSays DEF LossInv, Discards
<1>5. EarlyEnds'
  <2>1. early # <<>> /\ Says(gen) => stopped
    BY <1>1 DEF LossInv, EarlyEnds
  <2> QED
    BY <1>2, <2>1, CalmSays DEF EarlyEnds
<1>6. Accounted'
  <2>1. Answered' \subseteq Answered
    BY <1>2 DEF Answered
  <2> QED
    BY <1>1, <1>2, <2>1, KnownStays DEF LossInv, Accounted
<1> QED
  BY <1>3, <1>4, <1>5, <1>6 DEF StoryInv, LossInv

LEMMA PubackStory ==
  ASSUME IncomingInv, WritePuback
  PROVE  StoryInv' /\ LossInv'
<1>1. TypeOK /\ StoryInv /\ LossInv
  BY DEF IncomingInv
<1>2. /\ UNCHANGED <<sup, gen, ready, stopped, alive, cause, early, events,
                     net, sent, told, discarded>>
      /\ control # <<>> /\ control' = Tail(control)
      /\ acked' = acked \cup {Head(control)} /\ kept' \subseteq kept
  BY DEF WritePuback, supervisorVars
<1>3. Story' = Story
  BY <1>2, SameStory
<1>4. Told' /\ Sessions' /\ InLine' /\ NotTold' /\ Reports'
  <2>1. Told' /\ Sessions'
    BY <1>1, <1>2, <1>3, CalmTold DEF StoryInv, Sessions
  <2>2. InLine'
    BY <1>1, <1>2 DEF StoryInv, InLine, Ascending, Before, UpToSent
  <2>3. NotTold'
    BY <1>1, <1>2, <1>3 DEF StoryInv, NotTold
  <2>4. Reports'
    BY <1>1, <1>2, <1>3, CalmSays DEF StoryInv, Reports
  <2> QED
    BY <2>1, <2>2, <2>3, <2>4
<1>5. Discards' /\ EarlyEnds'
  BY <1>1, <1>2, <1>3, CalmSays DEF LossInv, Discards, EarlyEnds
<1>6. Answered' \subseteq Answered
  <2>1. control \in Seq(1..MaxMessages)
    BY <1>1 DEF TypeOK
  <2>2. /\ Len(control) \in Nat /\ DOMAIN control = 1..Len(control)
        /\ Len(control) # 0 /\ Head(control) = control[1]
        /\ DOMAIN Tail(control) = 1..(Len(control) - 1)
        /\ \A i \in 1..(Len(control) - 1) : Tail(control)[i] = control[i + 1]
    BY <1>2, <2>1, HeadTailProperties, EmptySeq, LenProperties
  <2>3. Head(control) \in {control[i] : i \in DOMAIN control}
    BY <2>2
  <2>4. \A i \in DOMAIN Tail(control) : i + 1 \in DOMAIN control
    BY <2>2
  <2> QED
    BY <1>2, <2>2, <2>3, <2>4 DEF Answered
<1>7. Accounted'
  BY <1>1, <1>2, <1>3, <1>6, KnownStays DEF LossInv, Accounted
<1> QED
  BY <1>4, <1>5, <1>7 DEF StoryInv, LossInv

LEMMA TakenStoryInv ==
  ASSUME IncomingInv, NextEvent
  PROVE  StoryInv' /\ LossInv'
<1>1. TypeOK /\ StoryInv /\ LossInv
  BY DEF IncomingInv
<1>2. UNCHANGED <<sup, gen, ready, stopped, alive, cause, control, early,
                  kept, net, sent, acked, discarded>>
  BY DEF NextEvent, supervisorVars, sessionVars, brokerVars
<1>3. Story' = Story
  BY <1>1, TakenStory
<1>4. Told' /\ Sessions' /\ InLine' /\ NotTold' /\ Reports'
  <2>1. Told' /\ Sessions'
    BY <1>1, <1>2, <1>3, CalmTold DEF StoryInv, Sessions
  <2>2. InLine'
    BY <1>1, <1>2 DEF StoryInv, InLine, Ascending, Before, UpToSent
  <2>3. NotTold'
    BY <1>1, <1>2, <1>3 DEF StoryInv, NotTold
  <2>4. Reports'
    BY <1>1, <1>2, <1>3, CalmSays DEF StoryInv, Reports
  <2> QED
    BY <2>1, <2>2, <2>3, <2>4
<1>5. Discards' /\ EarlyEnds'
  BY <1>1, <1>2, <1>3, CalmSays DEF LossInv, Discards, EarlyEnds
<1>6. Accounted'
  BY <1>1, <1>2, <1>3, KnownStays DEF LossInv, Accounted, Answered
<1> QED
  BY <1>4, <1>5, <1>6 DEF StoryInv, LossInv

LEMMA DisconnectStory ==
  ASSUME IncomingInv, Disconnect
  PROVE  StoryInv' /\ LossInv'
<1>1. TypeOK /\ StoryInv /\ LossInv
  BY DEF IncomingInv
<1>2. /\ UNCHANGED <<sup, gen, alive, cause, control, early, events, kept, net,
                     sent, told, acked, discarded>>
      /\ stopped' = TRUE /\ ready' = FALSE
  BY DEF Disconnect, supervisorVars, sessionVars, brokerVars
<1>3. Story' = Story
  BY <1>2, SameStory
<1>4. Told' /\ Sessions' /\ InLine' /\ NotTold' /\ Reports'
  <2>1. Told' /\ Sessions'
    BY <1>1, <1>2, <1>3, CalmTold DEF StoryInv, Sessions
  <2>2. InLine'
    BY <1>1, <1>2 DEF StoryInv, InLine, Ascending, Before, UpToSent
  <2>3. NotTold'
    BY <1>1, <1>2, <1>3 DEF StoryInv, NotTold
  <2>4. Reports'
    BY <1>2 DEF Reports
  <2> QED
    BY <2>1, <2>2, <2>3, <2>4
<1>5. Discards' /\ EarlyEnds'
  BY <1>1, <1>2, <1>3, CalmSays DEF LossInv, Discards, EarlyEnds
<1>6. Accounted'
  BY <1>1, <1>2, <1>3, KnownStays DEF LossInv, Accounted, Answered
<1> QED
  BY <1>4, <1>5, <1>6 DEF StoryInv, LossInv

LEMMA DialStory ==
  ASSUME IncomingInv, Dial
  PROVE  StoryInv' /\ LossInv'
<1>1. TypeOK /\ StoryInv /\ LossInv
  BY DEF IncomingInv
<1>2. /\ UNCHANGED <<ready, stopped, early, events, sent, told, acked,
                     discarded>>
      /\ sup = "dialing" /\ sup' = "restoring" /\ gen' = gen + 1
      /\ alive' = TRUE /\ control' = <<>>
      /\ kept' \subseteq kept /\ net' \in InOrder(kept')
  BY DEF Dial
<1>3. Story' = Story /\ gen \in Nat
  BY <1>1, <1>2, SameStory DEF TypeOK
<1>4. early = <<>> /\ ~ready
  BY <1>1, <1>2 DEF StoryInv, Sessions
<1>5. \A i \in DOMAIN Story : Story[i].gen \in Int /\ Story[i].gen <= gen
  BY <1>1, EarlyType DEF StoryInv, Told
<1>6. ~Says(gen + 1)
  BY <1>3, <1>5 DEF Says, Connected
<1>7. ~(\E i \in DOMAIN Story' : Story'[i] = Connected(gen'))
  BY <1>2, <1>3, <1>6 DEF Says
<1>8. Told'
  BY <1>1, <1>2, <1>3, <1>5 DEF StoryInv, Told, Tells
<1>9. Sessions'
  BY <1>2 DEF Sessions
<1>10. InLine'
  <2>1. kept' \subseteq Message
    BY <1>1, <1>2 DEF TypeOK
  <2>2. Ascending(net') /\ \A i \in DOMAIN net' : net'[i] \in kept'
    BY <1>2, <2>1, InOrderType
  <2>3. \A m \in kept' : m.n <= sent
    BY <1>1, <1>2 DEF StoryInv, InLine
  <2>4. DOMAIN early = {}
    BY <1>4
  <2> QED
    BY <1>2, <2>2, <2>3, <2>4 DEF InLine, Ascending, Before, UpToSent
<1>11. NotTold'
  <2>1. \A i \in DOMAIN Story : Story[i].gen # gen + 1
    BY <1>3, <1>5
  <2> QED
    BY <1>2, <1>3, <2>1 DEF NotTold
<1>12. Reports'
  BY <1>2, <1>4, <1>7 DEF Reports, Says
<1>13. Discards'
  <2> SUFFICES ASSUME NEW d \in discarded
               PROVE  d.gen <= gen + 1 /\ d.gen # gen + 1 /\ ~Says(d.gen)
    BY <1>2, <1>3, CalmSays DEF Discards
  <2>1. d.gen <= gen /\ ~Says(d.gen)
    BY <1>1, <1>2 DEF LossInv, Discards
  <2>2. d.gen \in Nat
    BY <1>1 DEF TypeOK
  <2> QED
    BY <1>3, <2>1, <2>2
<1>14. EarlyEnds'
  BY <1>2, <1>4 DEF EarlyEnds
<1>15. Accounted'
  <2>1. Answered' \subseteq Answered
    BY <1>2 DEF Answered
  <2> QED
    BY <1>1, <1>2, <1>3, <2>1, KnownStays DEF LossInv, Accounted
<1> QED
  BY <1>8, <1>9, <1>10, <1>11, <1>12, <1>13, <1>14, <1>15 DEF StoryInv, LossInv

(* What the error handler tells.                                           *)
LEMMA HandleTells ==
  ASSUME TypeOK, Told, NEW error, Handle(error), told' = told, gen' = gen
  PROVE  /\ Told' /\ sup' \in {"dialing", "ended"}
         /\ \A g : Says(g)' <=> Says(g)
         /\ \A i \in DOMAIN Story : \E j \in DOMAIN Story' : Story'[j] = Story[i]
<1>1. sup' \in {"dialing", "ended"}
  BY DEF Handle
<1>2. CASE events' = events
  <2>1. Story' = Story
    BY <1>2, SameStory
  <2> QED
    BY <1>1, <2>1, CalmTold, CalmSays
<1>3. CASE events' = Append(events, Disconnected(gen))
  <2> DEFINE B == <<Disconnected(gen)>>
  <2>1. Disconnected(gen) \in Event
    BY DisconnectedType
  <2>2. B \in Seq(Event) /\ Len(B) = 1 /\ B[1] = Disconnected(gen)
        /\ DOMAIN B = 1..1
    BY <2>1
  <2>3. events \in Seq(Event) /\ gen \in Nat
    BY DEF TypeOK
  <2>4. events' = events \o B
    BY <1>3, <2>1, <2>3, OneMore
  <2> HIDE DEF B
  <2>5. /\ Story' = Story \o B
        /\ DOMAIN Story' = 1..(Len(Story) + 1)
        /\ \A i \in 1..(Len(Story) + 1) :
              Story'[i] = IF i <= Len(Story) THEN Story[i] ELSE B[i - Len(Story)]
    BY <2>2, <2>4, GrownStory
  <2>6. /\ Story \in Seq(Event) /\ Len(Story) \in Nat
        /\ DOMAIN Story = 1..Len(Story)
    BY StoryType
  <2>7. \A i \in 1..Len(Story) : i \in DOMAIN Story' /\ Story'[i] = Story[i]
    BY <2>5, <2>6
  <2>8. Story'[Len(Story) + 1] = Disconnected(gen)
    BY <2>2, <2>5, <2>6
  <2>9. \A i \in DOMAIN Story' : i \in 1..Len(Story) \/ i = Len(Story) + 1
    BY <2>5, <2>6
  <2>10. \A g : Disconnected(gen) # Connected(g)
    BY DEF Connected, Disconnected
  <2>11. \A g : Says(g)' <=> Says(g)
    BY <2>6, <2>7, <2>8, <2>9, <2>10 DEF Says
  <2>12. \A b \in DOMAIN B : B[b].gen = gen /\ B[b].kind # "message"
    BY <2>2 DEF Disconnected
  <2>13. Tells(Story \o B) /\ \A i \in DOMAIN (Story \o B) : (Story \o B)[i].gen <= gen
    BY <2>2, <2>3, <2>6, <2>12, Joined DEF Told
  <2>14. Told'
    BY <2>5, <2>13 DEF Told, Tells
  <2> QED
    BY <1>1, <2>6, <2>7, <2>11, <2>14
<1> QED
  BY <1>2, <1>3 DEF Handle

LEMMA DialFailsStory ==
  ASSUME IncomingInv, DialFails
  PROVE  StoryInv' /\ LossInv'
<1>1. TypeOK /\ StoryInv /\ LossInv
  BY DEF IncomingInv
<1>2. /\ UNCHANGED <<gen, ready, stopped, alive, cause, control, early, kept,
                     net, sent, told, acked, discarded>>
      /\ sup = "dialing" /\ Handle("lost")
  BY DEF DialFails, sessionVars, brokerVars
<1>3. /\ Told' /\ sup' \in {"dialing", "ended"}
      /\ \A g : Says(g)' <=> Says(g)
      /\ \A i \in DOMAIN Story : \E j \in DOMAIN Story' : Story'[j] = Story[i]
  BY <1>1, <1>2, HandleTells DEF StoryInv
<1>4. early = <<>> /\ ~alive /\ ~ready
  BY <1>1, <1>2 DEF StoryInv, Sessions
<1>5. Sessions' /\ InLine' /\ NotTold' /\ Reports' /\ EarlyEnds'
  BY <1>1, <1>2, <1>4
  DEF StoryInv, Sessions, InLine, NotTold, Reports, EarlyEnds
<1>6. Discards'
  <2>1. \A d \in discarded : d.gen <= gen /\ ~Says(d.gen)
    BY <1>1, <1>2 DEF LossInv, Discards
  <2> QED
    BY <1>2, <1>3, <2>1 DEF Discards
<1>7. Accounted'
  <2>1. Answered' = Answered
    BY <1>2 DEF Answered
  <2>2. \A n : Known(n) => Known(n)'
    BY <1>2, <1>3 DEF Known
  <2> QED
    BY <1>1, <2>1, <2>2 DEF LossInv, Accounted
<1> QED
  BY <1>3, <1>5, <1>6, <1>7 DEF StoryInv, LossInv

LEMMA SessionEndsStory ==
  ASSUME IncomingInv, SessionEnds
  PROVE  StoryInv' /\ LossInv'
<1>1. TypeOK /\ StoryInv /\ LossInv
  BY DEF IncomingInv
<1>2. /\ UNCHANGED <<gen, stopped, alive, cause, control, kept, net, sent,
                     told, acked>>
      /\ sup \in {"restoring", "ready"} /\ ~alive /\ Handle(cause)
      /\ DiscardEarly /\ ready' = FALSE
  BY DEF SessionEnds, sessionVars, brokerVars
<1>3. /\ Told' /\ sup' \in {"dialing", "ended"}
      /\ \A g : Says(g)' <=> Says(g)
      /\ \A i \in DOMAIN Story : \E j \in DOMAIN Story' : Story'[j] = Story[i]
  BY <1>1, <1>2, HandleTells DEF StoryInv
<1>4. /\ early' = <<>>
      /\ discarded' = discarded
           \cup {[gen |-> gen, n |-> early[i].n] : i \in DOMAIN early}
  BY <1>2 DEF DiscardEarly
<1>5. Sessions' /\ InLine' /\ NotTold' /\ Reports' /\ EarlyEnds'
  BY <1>1, <1>2, <1>3, <1>4
  DEF StoryInv, Sessions, InLine, NotTold, Reports, EarlyEnds
<1>6. Discards'
  <2>1. \A d \in discarded : d.gen <= gen /\ ~Says(d.gen)
    BY <1>1, <1>2 DEF LossInv, Discards
  <2>2. ASSUME early # <<>>, Says(gen)
        PROVE  sup' = "ended"
    <3>1. stopped \/ cause = "backpressure"
      BY <1>1, <2>2 DEF LossInv, EarlyEnds
    <3> QED
      BY <1>2, <3>1 DEF Handle, Terminal
  <2>3. ASSUME NEW d \in discarded'
        PROVE  d.gen <= gen /\ (Says(d.gen) => sup' = "ended")
    <3>1. CASE d \in discarded
      BY <2>1, <3>1
    <3>2. CASE d \notin discarded
      <4>1. PICK i \in DOMAIN early : d = [gen |-> gen, n |-> early[i].n]
        BY <1>4, <2>3, <3>2
      <4>2. early # <<>> /\ gen \in Nat
        BY <1>1, <4>1 DEF TypeOK
      <4> QED
        BY <2>2, <4>1, <4>2
    <3> QED
      BY <3>1, <3>2
  <2> QED
    BY <1>2, <1>3, <2>3 DEF Discards
<1>7. Accounted'
  <2>1. Answered' = Answered
    BY <1>2 DEF Answered
  <2>2. ASSUME NEW i \in DOMAIN early
        PROVE  \E d \in discarded' : d.n = early[i].n
    <3> DEFINE d == [gen |-> gen, n |-> early[i].n]
    <3>1. d \in discarded' /\ d.n = early[i].n
      BY <1>4
    <3> QED
      BY <3>1
  <2>3. \A n : Known(n) => Known(n)'
    BY <1>3, <1>4, <2>2 DEF Known
  <2> QED
    BY <1>1, <2>1, <2>3 DEF LossInv, Accounted
<1> QED
  BY <1>3, <1>5, <1>6, <1>7 DEF StoryInv, LossInv

LEMMA DisconnectEndsStory ==
  ASSUME IncomingInv, DisconnectEnds
  PROVE  StoryInv' /\ LossInv'
<1>1. TypeOK /\ StoryInv /\ LossInv
  BY DEF IncomingInv
<1>2. /\ UNCHANGED <<gen, stopped, events, kept, net, sent, told, acked>>
      /\ sup' = "ended" /\ ready' = FALSE /\ DiscardEarly
      /\ alive' = FALSE /\ (control' = control \/ control' = <<>>)
  <2>1. alive \in BOOLEAN
    BY <1>1 DEF TypeOK
  <2> QED
    BY <2>1 DEF DisconnectEnds, AbortWith, sessionVars, brokerVars
<1>3. Story' = Story
  BY <1>2, SameStory
<1>4. /\ early' = <<>>
      /\ discarded' = discarded
           \cup {[gen |-> gen, n |-> early[i].n] : i \in DOMAIN early}
  BY <1>2 DEF DiscardEarly
<1>5. Told' /\ Sessions' /\ InLine' /\ NotTold' /\ Reports' /\ EarlyEnds'
  BY <1>1, <1>2, <1>3, <1>4, CalmTold
  DEF StoryInv, Sessions, InLine, NotTold, Reports, EarlyEnds
<1>6. Discards'
  <2>1. \A d \in discarded : d.gen <= gen
    BY <1>1 DEF LossInv, Discards
  <2>2. gen <= gen
    BY <1>1 DEF TypeOK
  <2>3. \A d \in discarded' : d.gen <= gen
    BY <1>4, <2>1, <2>2
  <2> QED
    BY <1>2, <2>3 DEF Discards
<1>7. Accounted'
  <2>1. Answered' \subseteq Answered
    BY <1>2 DEF Answered
  <2>2. ASSUME NEW i \in DOMAIN early
        PROVE  \E d \in discarded' : d.n = early[i].n
    <3> DEFINE d == [gen |-> gen, n |-> early[i].n]
    <3>1. d \in discarded' /\ d.n = early[i].n
      BY <1>4
    <3> QED
      BY <3>1
  <2>3. \A n : Known(n) => Known(n)'
    BY <1>3, <1>4, <2>2 DEF Known
  <2> QED
    BY <1>1, <2>1, <2>3 DEF LossInv, Accounted
<1> QED
  BY <1>5, <1>6, <1>7 DEF StoryInv, LossInv
-----------------------------------------------------------------------------
(* The reader takes a message.                                             *)

LEMMA AcknowledgeAnswers ==
  ASSUME TypeOK, NEW m \in Message, Acknowledge(m), acked' = acked
  PROVE  /\ Answered' \subseteq Answered \cup {m.n}
         /\ alive' => alive
<1>1. control \in Seq(1..MaxMessages) /\ m.n \in 1..MaxMessages
  BY DEF TypeOK, Message
<1>2. CASE UNCHANGED sessionVars
  BY <1>2 DEF Answered, sessionVars
<1>3. CASE control' = Append(control, m.n) /\ UNCHANGED <<alive, cause>>
  <2>1. /\ DOMAIN control' = 1..(Len(control) + 1) /\ control'[Len(control) + 1] = m.n
        /\ \A i \in 1..Len(control) : control'[i] = control[i]
        /\ DOMAIN control = 1..Len(control) /\ Len(control) \in Nat
    BY <1>1, <1>3, Longer, LenProperties
  <2>2. \A i \in DOMAIN control' : i \in DOMAIN control \/ i = Len(control) + 1
    BY <2>1
  <2> QED
    BY <1>3, <2>1, <2>2 DEF Answered
<1>4. CASE AbortWith("protocol")
  <2>1. alive' = FALSE /\ control' = <<>>
    BY <1>4 DEF AbortWith
  <2> QED
    BY <2>1 DEF Answered
<1> QED
  BY <1>2, <1>3, <1>4 DEF Acknowledge

LEMMA RestOfNet ==
  ASSUME IncomingInv, alive, net # <<>>, NEW m, m = Head(net), net' = Tail(net)
  PROVE  /\ m \in Message /\ m.n <= sent /\ m.n \in Int
         /\ Ascending(net') /\ Before(early, net') /\ UpToSent(net')
         /\ \A k \in DOMAIN net' : m.n < net'[k].n /\ net'[k].n \in Int
         /\ \A k \in DOMAIN early : early[k].n < m.n
         /\ \A i \in DOMAIN Story : Story[i].gen = gen =>
               /\ Story[i].n < m.n
               /\ \A k \in DOMAIN net' : Story[i].n < net'[k].n
<1>1. TypeOK /\ InLine /\ NotTold
  BY DEF IncomingInv, StoryInv
<1>2. /\ m \in Message /\ m = net[1] /\ net' \in Seq(Message)
      /\ Len(net') = Len(net) - 1 /\ Len(net) \in Nat \ {0}
      /\ \A i \in 1..(Len(net) - 1) : net'[i] = net[i + 1]
  BY <1>1, HeadOfNet
<1>3. DOMAIN net = 1..Len(net) /\ DOMAIN net' = 1..(Len(net) - 1)
  BY <1>1, <1>2, EarlyType, LenProperties
<1>4. \A i \in DOMAIN net' : i + 1 \in DOMAIN net /\ net'[i] = net[i + 1]
                              /\ 1 < i + 1
  BY <1>2, <1>3
<1>5. 1 \in DOMAIN net
  BY <1>2, <1>3
<1>6. /\ Ascending(early) /\ Ascending(net) /\ Before(early, net)
      /\ UpToSent(early) /\ UpToSent(net)
  BY <1>1 DEF InLine
<1>7. m.n <= sent /\ m.n \in Int /\ \A k \in DOMAIN early : early[k].n < m.n
  BY <1>1, <1>2, <1>5, <1>6, EarlyType DEF UpToSent, Before
<1>8. \A k \in DOMAIN net' : m.n < net'[k].n /\ net'[k].n \in Int
  BY <1>1, <1>2, <1>4, <1>5, <1>6, EarlyType DEF Ascending
<1>9. Ascending(net')
  <2> SUFFICES ASSUME NEW i \in DOMAIN net', NEW j \in DOMAIN net', i < j
               PROVE  net'[i].n < net'[j].n
    BY DEF Ascending
  <2>1. i + 1 < j + 1
    BY <1>2, <1>3
  <2> QED
    BY <1>4, <1>6, <2>1 DEF Ascending
<1>10. Before(early, net') /\ UpToSent(net')
  BY <1>4, <1>6 DEF Before, UpToSent
<1>11. \A i \in DOMAIN Story : Story[i].gen = gen =>
               /\ Story[i].n < m.n
               /\ \A k \in DOMAIN net' : Story[i].n < net'[k].n
  BY <1>1, <1>2, <1>4, <1>5 DEF NotTold
<1> QED
  BY <1>2, <1>7, <1>8, <1>9, <1>10, <1>11

LEMMA EmitStory ==
  ASSUME IncomingInv, alive, ready, net # <<>>, net' = Tail(net),
         events' = Append(events, Received(Head(net))),
         Acknowledge(Head(net)),
         UNCHANGED <<sup, gen, ready, stopped, early, kept, sent, told,
                     acked, discarded>>
  PROVE  StoryInv' /\ LossInv'
<1> DEFINE m == Head(net)
           B == <<Received(m)>>
<1>1. TypeOK /\ StoryInv /\ LossInv
  BY DEF IncomingInv
<1>2. /\ m \in Message /\ m.n <= sent /\ m.n \in Int
      /\ Ascending(net') /\ UpToSent(net')
      /\ \A k \in DOMAIN net' : m.n < net'[k].n
      /\ \A i \in DOMAIN Story : Story[i].gen = gen =>
            /\ Story[i].n < m.n
            /\ \A k \in DOMAIN net' : Story[i].n < net'[k].n
  BY RestOfNet
<1>3. Received(m) \in Event /\ Received(m).gen = gen /\ Received(m).n = m.n
      /\ Received(m).kind = "message"
  BY <1>1, <1>2, ReceivedType DEF Received
<1>4. B \in Seq(Event) /\ Len(B) = 1 /\ B[1] = Received(m) /\ DOMAIN B = 1..1
  BY <1>3
<1>5. events \in Seq(Event) /\ gen \in Nat
  BY <1>1 DEF TypeOK
<1>6. events' = events \o B
  BY <1>3, <1>5, OneMore
<1>7. Answered' \subseteq Answered \cup {m.n}
  BY <1>1, <1>2, AcknowledgeAnswers
<1> HIDE DEF m, B
<1>8. /\ Story' = Story \o B
      /\ DOMAIN Story' = 1..(Len(Story) + 1)
      /\ \A i \in 1..(Len(Story) + 1) :
            Story'[i] = IF i <= Len(Story) THEN Story[i] ELSE B[i - Len(Story)]
  BY <1>1, <1>4, <1>6, GrownStory
<1>9. /\ Story \in Seq(Event) /\ Len(Story) \in Nat
      /\ DOMAIN Story = 1..Len(Story)
  BY <1>1, StoryType
<1>10. \A i \in DOMAIN Story : i \in DOMAIN Story' /\ Story'[i] = Story[i]
  BY <1>8, <1>9
<1>11. Len(Story) + 1 \in DOMAIN Story' /\ Story'[Len(Story) + 1] = Received(m)
  BY <1>4, <1>8, <1>9
<1>12. \A i \in DOMAIN Story' : i \in DOMAIN Story \/ i = Len(Story) + 1
  BY <1>8, <1>9
<1>13. early = <<>> /\ Says(gen)
  BY <1>1 DEF StoryInv, Reports
<1>14. \A g : Says(g)' <=> Says(g)
  <2>1. \A g : Received(m) # Connected(g)
    BY <1>3 DEF Connected
  <2> QED
    BY <1>10, <1>11, <1>12, <2>1 DEF Says
<1>15. \A i \in DOMAIN Story : Story[i].gen = gen =>
          sup = "ready" /\ Story[i].kind # "disconnected" /\ Story[i].n <= sent
  BY <1>1 DEF StoryInv, NotTold
<1>16. sup = "ready"
  BY <1>13, <1>15 DEF Says, Connected
<1>17. Told'
  <2>1. \A b \in DOMAIN B : b = 1 /\ B[b].gen = gen /\ B[b].n = m.n
    BY <1>3, <1>4
  <2>2. \A b \in DOMAIN B : \A j \in 1..(b - 1) : FALSE
    BY <2>1
  <2>3. Tells(Story \o B)
        /\ \A i \in DOMAIN (Story \o B) : (Story \o B)[i].gen <= gen
    BY <1>1, <1>2, <1>4, <1>5, <1>9, <1>13, <1>15, <2>1, <2>2, Joined
    DEF Told, Says, StoryInv
  <2> QED
    BY <1>8, <2>3 DEF Told, Tells
<1>18. Sessions'
  BY <1>16 DEF Sessions
<1>19. InLine'
  <2>1. DOMAIN early = {}
    BY <1>13
  <2> QED
    BY <1>1, <1>2, <2>1 DEF StoryInv, InLine, Ascending, Before, UpToSent
<1>20. NotTold'
  <2> SUFFICES ASSUME NEW i \in DOMAIN Story', Story'[i].gen = gen
               PROVE  /\ sup = "ready" /\ Story'[i].kind # "disconnected"
                      /\ Story'[i].n <= sent
                      /\ \A k \in DOMAIN early : Story'[i].n < early[k].n
                      /\ \A k \in DOMAIN net' : Story'[i].n < net'[k].n
    BY DEF NotTold
  <2>1. DOMAIN early = {}
    BY <1>13
  <2>2. CASE i \in DOMAIN Story
    BY <1>2, <1>10, <1>15, <2>1, <2>2
  <2>3. CASE i = Len(Story) + 1
    BY <1>2, <1>3, <1>11, <1>16, <2>1, <2>3
  <2> QED
    BY <1>12, <2>2, <2>3
<1>21. Reports' /\ EarlyEnds'
  BY <1>13, <1>14 DEF Reports, EarlyEnds
<1>22. Discards'
  BY <1>1, <1>14 DEF LossInv, Discards
<1>23. Accounted'
  <2>1. \A n : Known(n) => Known(n)'
    BY <1>10 DEF Known
  <2>2. \A n : n = m.n => Known(n)'
    BY <1>3, <1>11 DEF Known
  <2>3. \A n \in Answered : Known(n)
    BY <1>1 DEF LossInv, Accounted
  <2>4. \A n \in Answered' : Known(n)'
    BY <1>7, <2>1, <2>2, <2>3
  <2> QED
    BY <2>4 DEF Accounted
<1> QED
  BY <1>17, <1>18, <1>19, <1>20, <1>21, <1>22, <1>23 DEF StoryInv, LossInv

LEMMA PutAsideStory ==
  ASSUME IncomingInv, alive, ~ready, net # <<>>, net' = Tail(net),
         early' = Append(early, Head(net)), Acknowledge(Head(net)),
         UNCHANGED <<sup, gen, ready, stopped, events, kept, sent, told,
                     acked, discarded>>
  PROVE  StoryInv' /\ LossInv'
<1> DEFINE m == Head(net)
<1>1. TypeOK /\ StoryInv /\ LossInv
  BY DEF IncomingInv
<1>2. /\ m \in Message /\ m.n <= sent /\ m.n \in Int
      /\ Ascending(net') /\ Before(early, net') /\ UpToSent(net')
      /\ \A k \in DOMAIN net' : m.n < net'[k].n
      /\ \A k \in DOMAIN early : early[k].n < m.n
      /\ \A i \in DOMAIN Story : Story[i].gen = gen =>
            /\ Story[i].n < m.n
            /\ \A k \in DOMAIN net' : Story[i].n < net'[k].n
  BY RestOfNet
<1>3. Story' = Story
  BY SameStory
<1>4. Answered' \subseteq Answered \cup {m.n}
  BY <1>1, <1>2, AcknowledgeAnswers
<1>5. early \in Seq(Message)
  BY <1>1 DEF TypeOK
<1>6. early' = Append(early, m)
  OBVIOUS
<1> HIDE DEF m
<1>7. /\ DOMAIN early' = 1..(Len(early) + 1) /\ early'[Len(early) + 1] = m
      /\ \A k \in 1..Len(early) : early'[k] = early[k]
      /\ DOMAIN early = 1..Len(early) /\ Len(early) \in Nat
  BY <1>2, <1>5, <1>6, Longer, LenProperties
<1>8. \A k \in DOMAIN early : k \in DOMAIN early' /\ early'[k] = early[k]
  BY <1>7
<1>9. \A k \in DOMAIN early' : k \in DOMAIN early \/ early'[k] = m
  BY <1>7
<1>10. Told' /\ Sessions'
  <2>1. sup # "dialing" /\ sup \in {"restoring", "ready"}
    BY <1>1 DEF StoryInv, Sessions
  <2> QED
    BY <1>1, <1>3, <2>1, CalmTold DEF StoryInv, Sessions
<1>11. InLine'
  <2>1. Ascending(early) /\ UpToSent(early) /\ \A k \in kept : k.n <= sent
    BY <1>1 DEF StoryInv, InLine
  <2>2. Ascending(early')
    BY <1>2, <1>5, <1>6, <2>1, AscendingMore
  <2>3. UpToSent(early') /\ Before(early', net')
    BY <1>2, <1>8, <1>9, <2>1 DEF UpToSent, Before
  <2> QED
    BY <1>2, <2>1, <2>2, <2>3 DEF InLine, Ascending, UpToSent, Before
<1>12. NotTold'
  <2> SUFFICES ASSUME NEW i \in DOMAIN Story, Story[i].gen = gen
               PROVE  /\ sup = "ready" /\ Story[i].kind # "disconnected"
                      /\ Story[i].n <= sent
                      /\ \A k \in DOMAIN early' : Story[i].n < early'[k].n
                      /\ \A k \in DOMAIN net' : Story[i].n < net'[k].n
    BY <1>3 DEF NotTold
  <2>1. /\ sup = "ready" /\ Story[i].kind # "disconnected"
        /\ Story[i].n <= sent
        /\ \A k \in DOMAIN early : Story[i].n < early[k].n
    BY <1>1 DEF StoryInv, NotTold
  <2> QED
    BY <1>2, <1>8, <1>9, <2>1
<1>13. Reports' /\ EarlyEnds'
  <2>1. Says(gen) => stopped
    BY <1>1 DEF StoryInv, Reports
  <2> QED
    BY <1>3, <2>1, CalmSays DEF Reports, EarlyEnds
<1>14. Discards'
  BY <1>1, <1>3, CalmSays DEF LossInv, Discards
<1>15. Accounted'
  <2>1. \A n : Known(n) => Known(n)'
    BY <1>3, <1>8 DEF Known
  <2>2. \A n : n = m.n => Known(n)'
    <3>1. Len(early) + 1 \in DOMAIN early'
      BY <1>7
    <3> QED
      BY <1>7, <3>1 DEF Known
  <2>3. \A n \in Answered : Known(n)
    BY <1>1 DEF LossInv, Accounted
  <2>4. \A n \in Answered' : Known(n)'
    BY <1>4, <2>1, <2>2, <2>3
  <2> QED
    BY <2>4 DEF Accounted
<1> QED
  BY <1>10, <1>11, <1>12, <1>13, <1>14, <1>15 DEF StoryInv, LossInv

LEMMA ReadStory ==
  ASSUME IncomingInv, ReadPublish
  PROVE  StoryInv' /\ LossInv'
<1>1. /\ alive /\ net # <<>> /\ net' = Tail(net)
      /\ UNCHANGED <<sup, gen, ready, stopped, kept, sent, told, acked, discarded>>
  BY DEF ReadPublish, supervisorVars
<1>2. CASE ready /\ events' = Append(events, Received(Head(net)))
           /\ Acknowledge(Head(net)) /\ UNCHANGED early
  BY <1>1, <1>2, EmitStory
<1>3. CASE ~ready /\ early' = Append(early, Head(net))
           /\ Acknowledge(Head(net)) /\ UNCHANGED events
  BY <1>1, <1>3, PutAsideStory
<1>4. CASE AbortWith("backpressure") /\ UNCHANGED <<early, events>>
  BY <1>1, <1>4, AbortStory
<1> QED
  BY <1>2, <1>3, <1>4 DEF ReadPublish, Emit, PutAside
-----------------------------------------------------------------------------
(* The backlog, or a part of it, is told.                                  *)

LEMMA BacklogStory ==
  ASSUME IncomingInv, sup = "restoring", alive,
         NEW B \in Seq(Event), Len(B) <= Len(early) + 1,
         \A b \in 1..Len(B) : B[b] = Backlog[b],
         told' = told, events' = events \o B, gen' = gen
  PROVE  /\ Told'
         /\ \A i \in DOMAIN Story : i \in DOMAIN Story' /\ Story'[i] = Story[i]
         /\ \A b \in 1..Len(B) : \E i \in DOMAIN Story' : Story'[i] = B[b]
         /\ \A i \in DOMAIN Story' : Story'[i].gen = gen =>
               \E b \in 1..Len(B) : Story'[i] = B[b]
         /\ \A d \in discarded : d.gen <= gen /\ d.gen # gen /\ ~Says(d.gen)'
<1>1. TypeOK /\ StoryInv /\ LossInv
  BY DEF IncomingInv
<1>2. Len(B) \in Nat /\ DOMAIN B = 1..Len(B) /\ gen \in Nat
  BY <1>1 DEF TypeOK
<1>3. /\ Len(Backlog) = Len(early) + 1 /\ Backlog[1] = Connected(gen)
      /\ \A i \in 2..Len(Backlog) : Backlog[i] = Received(early[i - 1])
  BY <1>1, BacklogType
<1>4. /\ Len(early) \in Nat /\ DOMAIN early = 1..Len(early)
      /\ \A i \in DOMAIN early : early[i] \in Message /\ early[i].n \in Int
  BY <1>1, EarlyType
<1>5. 1 <= Len(B) => B[1] = Connected(gen)
  BY <1>2, <1>3
<1>6. \A b \in 2..Len(B) : b - 1 \in DOMAIN early /\ B[b] = Received(early[b - 1])
  BY <1>2, <1>3, <1>4
<1>7. \A b \in DOMAIN B : b = 1 \/ b \in 2..Len(B)
  BY <1>2
<1>7a. 1 <= Len(B) =>
          B[1].gen = gen /\ B[1].kind = "connected" /\ B[1].n = 0
  BY <1>5 DEF Connected
<1>7b. ASSUME NEW b \in 2..Len(B)
       PROVE  B[b].gen = gen /\ B[b].kind = "message" /\ B[b].n = early[b - 1].n
  <2>1. B[b] = Received(early[b - 1])
    BY <1>6
  <2> QED
    BY <2>1 DEF Received
<1>7c. \A b \in DOMAIN B : 1 <= Len(B)
  BY <1>2
<1>8. \A b \in DOMAIN B : B[b].gen = gen
  BY <1>7, <1>7a, <1>7b, <1>7c
<1>9. \A i \in DOMAIN Story : Story[i].gen # gen
  BY <1>1 DEF StoryInv, NotTold
<1>10. \A b \in DOMAIN B : B[b].kind = "message" =>
          /\ b \in 2..Len(B) /\ B[b].n = early[b - 1].n
  BY <1>7, <1>7a, <1>7b, <1>7c
<1>11. ASSUME NEW b \in DOMAIN B, B[b].kind = "message"
       PROVE  /\ \E j \in 1..(b - 1) : B[j] = Connected(gen)
              /\ \A j \in 1..(b - 1) :
                    B[j].kind # "disconnected" /\ B[j].n < B[b].n
  <2>1. b \in 2..Len(B) /\ B[b].n = early[b - 1].n /\ b - 1 \in DOMAIN early
    BY <1>6, <1>10, <1>11
  <2>2. \E j \in 1..(b - 1) : B[j] = Connected(gen)
    BY <1>2, <1>5, <2>1
  <2>3. ASSUME NEW j \in 1..(b - 1)
        PROVE  B[j].kind # "disconnected" /\ B[j].n < B[b].n
    <3>1. CASE j = 1
      <4>1. B[j].kind = "connected" /\ B[j].n = 0
        BY <1>2, <1>5, <2>1, <3>1 DEF Connected
      <4>2. early[b - 1].n \in 1..MaxMessages
        BY <1>4, <2>1 DEF Message
      <4> QED
        BY <2>1, <4>1, <4>2, CapacityAssumption
    <3>2. CASE j # 1
      <4>1. j \in 2..Len(B) /\ j - 1 < b - 1
        BY <1>2, <2>1, <3>2
      <4>2. /\ j - 1 \in DOMAIN early /\ B[j].n = early[j - 1].n
            /\ B[j].kind = "message"
        BY <1>6, <1>7b, <4>1
      <4>3. Ascending(early)
        BY <1>1 DEF StoryInv, InLine
      <4> QED
        BY <2>1, <4>1, <4>2, <4>3 DEF Ascending
    <3> QED
      BY <3>1, <3>2
  <2> QED
    BY <2>2, <2>3
<1>12. /\ Story' = Story \o B
       /\ DOMAIN Story' = 1..(Len(Story) + Len(B))
       /\ \A i \in 1..(Len(Story) + Len(B)) :
             Story'[i] = IF i <= Len(Story) THEN Story[i] ELSE B[i - Len(Story)]
  BY <1>1, GrownStory
<1>13. /\ Story \in Seq(Event) /\ Len(Story) \in Nat
       /\ DOMAIN Story = 1..Len(Story)
  BY <1>1, StoryType
<1>14. \A i \in DOMAIN Story : i \in DOMAIN Story' /\ Story'[i] = Story[i]
  BY <1>2, <1>12, <1>13
<1>15. \A b \in 1..Len(B) : \E i \in DOMAIN Story' : Story'[i] = B[b]
  <2> TAKE b \in 1..Len(B)
  <2>1. b + Len(Story) \in DOMAIN Story' /\ Story'[b + Len(Story)] = B[b]
    BY <1>2, <1>12, <1>13
  <2> QED
    BY <2>1
<1>16. \A i \in DOMAIN Story' : \/ i \in DOMAIN Story
                                \/ \E b \in 1..Len(B) : Story'[i] = B[b]
  <2> TAKE i \in DOMAIN Story'
  <2>1. CASE i \notin DOMAIN Story
    <3>1. i - Len(Story) \in 1..Len(B) /\ Story'[i] = B[i - Len(Story)]
      BY <1>2, <1>12, <1>13, <2>1
    <3> QED
      BY <3>1
  <2> QED
    BY <2>1
<1>17. \A i \in DOMAIN Story' : Story'[i].gen = gen =>
               \E b \in 1..Len(B) : Story'[i] = B[b]
  BY <1>9, <1>14, <1>16
<1>18. Tells(Story \o B)
       /\ \A i \in DOMAIN (Story \o B) : (Story \o B)[i].gen <= gen
  <2>1. Tells(Story) /\ \A i \in DOMAIN Story : Story[i].gen <= gen
    BY <1>1 DEF StoryInv, Told
  <2>2. \A b \in DOMAIN B : B[b].kind = "message" =>
           /\ \/ \E j \in DOMAIN Story : Story[j] = Connected(gen)
              \/ \E j \in 1..(b - 1) : B[j] = Connected(gen)
           /\ \A j \in DOMAIN Story : Story[j].gen = gen =>
                 Story[j].kind # "disconnected" /\ Story[j].n < B[b].n
           /\ \A j \in 1..(b - 1) :
                 B[j].kind # "disconnected" /\ B[j].n < B[b].n
    BY <1>9, <1>11
  <2> QED
    BY <1>2, <1>8, <1>13, <2>1, <2>2, Joined
<1>19. Told'
  BY <1>12, <1>18 DEF Told, Tells
<1>20. ASSUME NEW d \in discarded
       PROVE  d.gen <= gen /\ d.gen # gen /\ ~Says(d.gen)'
  <2>1. d.gen <= gen /\ d.gen # gen /\ ~Says(d.gen)
    BY <1>1 DEF LossInv, Discards
  <2>2. Says(d.gen)' => \E i \in DOMAIN Story' : Story'[i] = Connected(d.gen)
    BY DEF Says
  <2>3. \A b \in 1..Len(B) : B[b] # Connected(d.gen)
    BY <1>2, <1>8, <2>1 DEF Connected
  <2> QED
    BY <1>14, <1>16, <2>1, <2>2, <2>3 DEF Says
<1> QED
  BY <1>14, <1>15, <1>17, <1>19, <1>20

LEMMA ReadyStory ==
  ASSUME IncomingInv, BecomesReady
  PROVE  StoryInv' /\ LossInv'
<1>1. TypeOK /\ StoryInv /\ LossInv
  BY DEF IncomingInv
<1>2. /\ sup = "restoring" /\ alive /\ ready' = TRUE
      /\ UNCHANGED <<gen, stopped, kept, net, sent, told, acked, discarded>>
  BY DEF BecomesReady, brokerVars
<1>3. Backlog \in Seq(Event) /\ Len(Backlog) = Len(early) + 1
      /\ Backlog[1] = Connected(gen)
      /\ \A i \in 2..Len(Backlog) : Backlog[i] = Received(early[i - 1])
  BY <1>1, BacklogType
<1>4. /\ Len(early) \in Nat /\ DOMAIN early = 1..Len(early)
      /\ \A i \in DOMAIN early : early[i] \in Message /\ early[i].n \in Int
  BY <1>1, EarlyType
<1>5. CASE /\ events' = events \o Backlog /\ early' = <<>> /\ sup' = "ready"
           /\ UNCHANGED sessionVars
  <2>1. /\ Told'
        /\ \A i \in DOMAIN Story : i \in DOMAIN Story' /\ Story'[i] = Story[i]
        /\ \A b \in 1..Len(Backlog) : \E i \in DOMAIN Story' : Story'[i] = Backlog[b]
        /\ \A i \in DOMAIN Story' : Story'[i].gen = gen =>
              \E b \in 1..Len(Backlog) : Story'[i] = Backlog[b]
        /\ \A d \in discarded : d.gen <= gen /\ d.gen # gen /\ ~Says(d.gen)'
    <3>1. /\ sup = "restoring" /\ alive /\ told' = told /\ gen' = gen
          /\ events' = events \o Backlog
      BY <1>2, <1>5
    <3>2. Backlog \in Seq(Event) /\ Len(Backlog) <= Len(early) + 1
      BY <1>3, <1>4
    <3> HIDE DEF Backlog
    <3> QED BY <3>1, <3>2, BacklogStory
  <2>2. DOMAIN early' = {} /\ UNCHANGED <<alive, cause, control>>
    BY <1>5 DEF sessionVars
  <2>3. \A b \in 1..Len(Backlog) : b = 1 \/ (b - 1 \in DOMAIN early /\ b \in 2..Len(Backlog))
    BY <1>3, <1>4
  <2>4. Sessions'
    BY <1>5 DEF Sessions
  <2>5. InLine'
    BY <1>1, <1>2, <2>2 DEF StoryInv, InLine, Ascending, Before, UpToSent
  <2>6. NotTold'
    <3> SUFFICES ASSUME NEW i \in DOMAIN Story', Story'[i].gen = gen
                 PROVE  /\ Story'[i].kind # "disconnected" /\ Story'[i].n <= sent
                        /\ \A k \in DOMAIN net : Story'[i].n < net[k].n
      BY <1>2, <1>5, <2>2 DEF NotTold
    <3>1. PICK b \in 1..Len(Backlog) : Story'[i] = Backlog[b]
      BY <2>1
    <3>2. \A k \in DOMAIN net : net[k].n \in 1..MaxMessages
      BY <1>1, EarlyType DEF Message
    <3>3. CASE b = 1
      <4>1. Story'[i].kind = "connected" /\ Story'[i].n = 0
        BY <1>3, <3>1, <3>3 DEF Connected
      <4>2. sent \in 0..MaxMessages /\ MaxMessages \in Nat
        BY <1>1, CapacityAssumption DEF TypeOK
      <4> QED
        BY <3>2, <4>1, <4>2
    <3>4. CASE b # 1
      <4>1. b - 1 \in DOMAIN early /\ Story'[i] = Received(early[b - 1])
        BY <1>3, <2>3, <3>1, <3>4
      <4>2. Story'[i].kind = "message" /\ Story'[i].n = early[b - 1].n
        BY <4>1 DEF Received
      <4> QED
        BY <1>1, <1>2, <4>1, <4>2 DEF StoryInv, InLine, Before, UpToSent
    <3> QED
      BY <3>3, <3>4
  <2>7. Reports'
    <3>1. 1 \in 1..Len(Backlog)
      BY <1>3, <1>4
    <3>2. \E i \in DOMAIN Story' : Story'[i] = Connected(gen')
      BY <1>2, <1>3, <2>1, <3>1
    <3> QED
      BY <1>2, <1>5, <3>2 DEF Reports, Says
  <2>8. Discards' /\ EarlyEnds'
    BY <1>2, <1>5, <2>1 DEF Discards, EarlyEnds
  <2>9. Accounted'
    <3>1. Answered' = Answered
      BY <1>2, <2>2 DEF Answered
    <3>2. ASSUME NEW k \in DOMAIN early
          PROVE  \E i \in DOMAIN Story' : Story'[i].n = early[k].n
      <4>1. /\ k + 1 \in 1..Len(Backlog) /\ k + 1 \in 2..Len(Backlog)
            /\ (k + 1) - 1 = k
        BY <1>3, <1>4
      <4>2. Backlog[k + 1] = Received(early[k])
        BY <1>3, <4>1
      <4>3. PICK i \in DOMAIN Story' : Story'[i] = Backlog[k + 1]
        BY <2>1, <4>1
      <4> QED
        BY <4>2, <4>3 DEF Received
    <3>3. \A n : Known(n) => Known(n)'
      BY <1>2, <2>1, <3>2 DEF Known
    <3> QED
      BY <1>1, <3>1, <3>3 DEF LossInv, Accounted
  <2> QED
    BY <2>1, <2>4, <2>5, <2>6, <2>7, <2>8, <2>9 DEF StoryInv, LossInv
<1>6. CASE /\ ~HasRoom(Len(Backlog))
           /\ events' = events \o SubSeq(Backlog, 1, ReceiveCapacity - Len(events))
           /\ AbortWith("backpressure")
           /\ UNCHANGED <<sup, early>>
  <2> DEFINE k == ReceiveCapacity - Len(events)
             B == SubSeq(Backlog, 1, k)
  <2>1. k \in 0..Len(Backlog)
    <3>1. /\ events \in Seq(Event) /\ Len(events) \in Nat
          /\ Len(events) <= ReceiveCapacity
      BY <1>1 DEF TypeOK
    <3> QED
      BY <1>3, <1>4, <1>6, <3>1, CapacityAssumption DEF HasRoom
  <2>2. B \in Seq(Event) /\ Len(B) = k /\ \A b \in 1..k : B[b] = Backlog[b]
    BY <1>1, <2>1, BacklogPart
  <2>3. events' = events \o B
    BY <1>6
  <2> HIDE DEF B, k
  <2>4. Len(B) <= Len(early) + 1 /\ \A b \in 1..Len(B) : B[b] = Backlog[b]
    BY <1>3, <1>4, <2>1, <2>2
  <2>5. /\ Told'
        /\ \A i \in DOMAIN Story : i \in DOMAIN Story' /\ Story'[i] = Story[i]
        /\ \A d \in discarded : d.gen <= gen /\ d.gen # gen /\ ~Says(d.gen)'
    BY <1>2, <2>2, <2>3, <2>4, BacklogStory
  <2>6. alive' = FALSE /\ cause' = "backpressure" /\ control' = <<>>
        /\ UNCHANGED <<sup, early>>
    BY <1>6 DEF AbortWith
  <2>7. Sessions' /\ InLine' /\ NotTold' /\ Reports' /\ EarlyEnds'
    BY <1>1, <1>2, <2>6
    DEF StoryInv, Sessions, InLine, NotTold, Reports, EarlyEnds
  <2>8. Discards'
    BY <1>2, <2>5 DEF Discards
  <2>9. Accounted'
    <3>1. Answered' \subseteq Answered
      BY <1>2, <2>6 DEF Answered
    <3>2. \A n : Known(n) => Known(n)'
      BY <1>2, <2>5, <2>6 DEF Known
    <3> QED
      BY <1>1, <3>1, <3>2 DEF LossInv, Accounted
  <2> QED
    BY <2>5, <2>7, <2>8, <2>9 DEF StoryInv, LossInv
<1> QED
  BY <1>5, <1>6 DEF BecomesReady
-----------------------------------------------------------------------------
LEMMA CausedStep == Caused /\ [Next]_vars => Caused'
<1> SUFFICES ASSUME Caused, [Next]_vars PROVE Caused'
  OBVIOUS
<1>1. ASSUME NEW error, error # "none", AbortWith(error) PROVE Caused'
  BY <1>1 DEF AbortWith, Caused
<1>2. ASSUME UNCHANGED <<sup, alive, cause>> PROVE Caused'
  BY <1>2 DEF Caused
<1>3. ASSUME NEW m, Acknowledge(m), UNCHANGED sup PROVE Caused'
  BY <1>1, <1>2, <1>3 DEF Acknowledge, sessionVars
<1>4. ASSUME NEW qos \in {0, 1}, Publish(qos) PROVE Caused'
  BY <1>2, <1>4 DEF Publish, supervisorVars, sessionVars
<1>5. ASSUME NEW error \in {"lost", "server"}, ConnectionBreaks(error) PROVE Caused'
  BY <1>1, <1>5 DEF ConnectionBreaks
<1>6. CASE ReadPublish
  <2>1. UNCHANGED sup
    BY <1>6 DEF ReadPublish, supervisorVars
  <2>2. Acknowledge(Head(net)) \/ AbortWith("backpressure")
    BY <1>6 DEF ReadPublish, Emit, PutAside
  <2> QED
    BY <1>1, <1>3, <2>1, <2>2
<1>7. CASE WritePuback
  BY <1>2, <1>7 DEF WritePuback, supervisorVars
<1>8. CASE Dial
  BY <1>8 DEF Dial, Caused
<1>9. CASE BecomesReady
  BY <1>1, <1>9 DEF BecomesReady, Caused, sessionVars
<1>10. CASE RestoreRejected
  BY <1>1, <1>10 DEF RestoreRejected
<1>11. CASE DialFails \/ SessionEnds \/ DisconnectEnds
  BY <1>11 DEF DialFails, SessionEnds, DisconnectEnds, Handle, Caused
<1>12. CASE NextEvent \/ Disconnect \/ UNCHANGED vars
  BY <1>2, <1>12 DEF NextEvent, Disconnect, vars, supervisorVars, sessionVars
<1> QED
  BY <1>4, <1>5, <1>6, <1>7, <1>8, <1>9, <1>10, <1>11, <1>12 DEF Next

LEMMA InitStory == Init => IncomingInv
<1> SUFFICES ASSUME Init PROVE IncomingInv
  OBVIOUS
<1>1. TypeOK
  BY InitTypes
<1>2. /\ sup = "dialing" /\ gen = 0 /\ ready = FALSE /\ alive = FALSE
      /\ early = <<>> /\ kept = {} /\ acked = {} /\ discarded = {}
      /\ control = <<>> /\ told = <<>> /\ events = <<>>
  BY DEF Init
<1>3. DOMAIN Story = {}
  BY <1>2 DEF Story
<1>4. Told /\ Sessions /\ InLine /\ NotTold /\ Reports
  BY <1>2, <1>3 DEF Told, Tells, Sessions, InLine, NotTold, Reports
<1>5. Discards /\ EarlyEnds /\ Caused
  BY <1>2 DEF Discards, EarlyEnds, Caused
<1>6. Accounted
  <2>1. Answered = {}
    BY <1>2 DEF Answered
  <2> QED
    BY <2>1 DEF Accounted
<1> QED
  BY <1>1, <1>4, <1>5, <1>6 DEF IncomingInv, StoryInv, LossInv

LEMMA StoryStep == IncomingInv /\ [Next]_vars => IncomingInv'
<1> SUFFICES ASSUME IncomingInv, [Next]_vars PROVE IncomingInv'
  OBVIOUS
<1>1. TypeOK' /\ Caused'
  BY TypesStep, CausedStep DEF IncomingInv
<1>2. ASSUME NEW qos \in {0, 1}, Publish(qos) PROVE StoryInv' /\ LossInv'
  BY <1>2, PublishStory
<1>3. ASSUME NEW error \in {"lost", "server"}, ConnectionBreaks(error)
      PROVE  StoryInv' /\ LossInv'
  BY <1>3, AbortStory DEF ConnectionBreaks, supervisorVars, brokerVars
<1>4. ASSUME RestoreRejected PROVE StoryInv' /\ LossInv'
  BY <1>4, AbortStory DEF RestoreRejected, supervisorVars, brokerVars
<1>5. ASSUME UNCHANGED vars PROVE StoryInv' /\ LossInv'
  <2>1. UNCHANGED <<sup, gen, ready, stopped, alive, cause, control, early,
                    events, kept, net, sent, told, acked, discarded>>
    BY <1>5 DEF vars, supervisorVars, sessionVars, brokerVars
  <2>2. Story' = Story
    BY <2>1, SameStory
  <2>3. StoryInv /\ LossInv
    BY DEF IncomingInv
  <2>4. Told' /\ Sessions'
    BY <2>1, <2>2, <2>3, CalmTold DEF StoryInv, Sessions
  <2>5. InLine'
    BY <2>1, <2>3 DEF StoryInv, InLine, Ascending, Before, UpToSent
  <2>6. NotTold'
    BY <2>1, <2>2, <2>3 DEF StoryInv, NotTold
  <2>7. Reports'
    BY <2>1, <2>2, <2>3, CalmSays DEF StoryInv, Reports
  <2>8. Discards' /\ EarlyEnds'
    BY <2>1, <2>2, <2>3, CalmSays DEF LossInv, Discards, EarlyEnds
  <2>9. Accounted'
    BY <2>1, <2>2, <2>3, KnownStays DEF LossInv, Accounted, Answered
  <2> QED
    BY <2>4, <2>5, <2>6, <2>7, <2>8, <2>9 DEF StoryInv, LossInv
<1>6. StoryInv' /\ LossInv'
  BY <1>2, <1>3, <1>4, <1>5, ReadStory, PubackStory, DialStory, DialFailsStory,
     ReadyStory, SessionEndsStory, TakenStoryInv, DisconnectStory,
     DisconnectEndsStory
  DEF Next
<1> QED
  BY <1>1, <1>6 DEF IncomingInv

(* Every variable keeps its type: read_loop, emit and the supervisor never *)
(* put more into a queue than it holds.                                    *)
THEOREM IncomingTypes == Spec => []TypeOK
<1>1. Init => TypeOK
  BY InitTypes
<1>2. TypeOK /\ [Next]_vars => TypeOK'
  BY TypesStep
<1> QED
  BY <1>1, <1>2, PTL DEF Spec

(* The inductive invariant: what is told, what waits and what is on its    *)
(* way are in line, and early messages meet a report that their generation *)
(* is connected only in a client that is about to end (read_loop,          *)
(* supervise).                                                             *)
THEOREM IncomingInvariant == Spec => []IncomingInv
<1>1. Init => IncomingInv
  BY InitStory
<1>2. IncomingInv /\ [Next]_vars => IncomingInv'
  BY StoryStep
<1> QED
  BY <1>1, <1>2, PTL DEF Spec

(* The application reads of each generation its connection, then its       *)
(* messages in the order of the broker and each once, then its end         *)
(* (read_loop, supervise).                                                 *)
THEOREM StoryIsInOrder == Spec => []StoryInOrder
<1>1. IncomingInv => StoryInOrder
  BY DEF IncomingInv, StoryInv, Told, Tells, StoryInOrder
<1> QED
  BY <1>1, IncomingInvariant, PTL

(* A message the broker was told to forget reaches the application or was  *)
(* lost before its generation was ready, unless the client ends            *)
(* (read_loop, supervise).                                                 *)
THEOREM AcknowledgedIsTold == Spec => []OnlyUnreadyIsLost
<1>1. IncomingInv => OnlyUnreadyIsLost
  <2> SUFFICES ASSUME IncomingInv PROVE OnlyUnreadyIsLost
    OBVIOUS
  <2>1. \A n \in acked : Known(n)
    BY DEF IncomingInv, LossInv, Accounted, Answered
  <2>2. \A d \in discarded : Says(d.gen) => sup = "ended"
    BY DEF IncomingInv, LossInv, Discards
  <2> QED
    BY <2>1, <2>2 DEF OnlyUnreadyIsLost, Known, Says
<1> QED
  BY <1>1, IncomingInvariant, PTL

(* A client that ends by itself has recorded a cause, unless there was no  *)
(* room to report the broken connection (supervise, emit).                 *)
THEOREM EndHasACause == Spec => EndsForACause
<1> DEFINE Ends == sup # "ended" /\ sup' = "ended" /\ ~stopped
                   => reason' # "none" \/ ~HasRoom(1)
<1>1. ASSUME IncomingInv, Next PROVE Ends
  <2>1. ASSUME NEW error, error # "none", Handle(error) PROVE Ends
    BY <2>1 DEF Handle, RecordStop
  <2>2. CASE DialFails
    BY <2>1, <2>2 DEF DialFails
  <2>3. CASE SessionEnds
    <3>1. cause # "none"
      BY <1>1, <2>3 DEF IncomingInv, Caused, SessionEnds
    <3> QED
      BY <2>1, <2>3, <3>1 DEF SessionEnds
  <2>4. CASE DisconnectEnds
    BY <2>4 DEF DisconnectEnds
  <2>5. CASE Dial \/ BecomesReady
    BY <2>5 DEF Dial, BecomesReady
  <2>6. CASE UNCHANGED sup
    BY <2>6
  <2>7. DialFails \/ SessionEnds \/ DisconnectEnds \/ Dial \/ BecomesReady
        \/ UNCHANGED sup
    BY <1>1 DEF Next, Publish, ConnectionBreaks, ReadPublish, WritePuback,
                RestoreRejected, NextEvent, Disconnect, supervisorVars
  <2> QED
    BY <2>2, <2>3, <2>4, <2>5, <2>6, <2>7
<1>2. IncomingInv /\ [Next]_vars => [Ends]_vars
  BY <1>1
<1> QED
  BY <1>2, IncomingInvariant, PTL DEF Spec, EndsForACause
-----------------------------------------------------------------------------
(* What the client owes the broker.                                        *)

(* On a live connection each message the broker keeps is on its way, or    *)
(* its PUBACK is queued; a PUBACK is queued only for a message that is     *)
(* kept and is not on its way, and once (read_loop, next_outgoing).        *)
EachIsOwedOnce ==
    alive =>
      /\ \A m \in kept : \/ \E k \in DOMAIN net : net[k] = m
                         \/ \E i \in DOMAIN control : control[i] = m.n
      /\ \A i \in DOMAIN control :
            /\ \E m \in kept : m.n = control[i]
            /\ \A j \in DOMAIN control : j # i => control[j] # control[i]
            /\ \A k \in DOMAIN net : net[k].n # control[i]

Owed == \A m \in kept : \/ \E k \in DOMAIN net : net[k] = m
                        \/ \E i \in DOMAIN control : control[i] = m.n

(* What is on its way and acknowledgeable is kept, and comes after every   *)
(* PUBACK in the queue.                                                    *)
NetOwed ==
    \A k \in DOMAIN net :
       /\ net[k].qos = 1 => net[k] \in kept
       /\ \A i \in DOMAIN control : control[i] < net[k].n

PubacksOwed ==
    /\ \A i \in DOMAIN control : \E m \in kept : m.n = control[i]
    /\ \A i, j \in DOMAIN control : i < j => control[i] < control[j]

KeptAreQos1 == \A m \in kept : m.qos = 1

OwedInv == KeptAreQos1 /\ (alive => Owed /\ NetOwed /\ PubacksOwed)

(* The queues of messages and of PUBACKs.                                  *)
LEMMA QueueTypes ==
  ASSUME TypeOK
  PROVE  /\ control \in Seq(1..MaxMessages) /\ net \in Seq(Message)
         /\ DOMAIN control = 1..Len(control) /\ Len(control) \in Nat
         /\ DOMAIN net = 1..Len(net) /\ Len(net) \in Nat
         /\ \A i \in DOMAIN control : control[i] \in Nat
         /\ \A k \in DOMAIN net : net[k] \in Message /\ net[k].n \in Nat
         /\ \A m \in kept : m \in Message /\ m.n \in Nat
         /\ sent \in Nat
<1>1. /\ control \in Seq(1..MaxMessages) /\ net \in Seq(Message)
      /\ kept \subseteq Message /\ sent \in 0..MaxMessages
  BY DEF TypeOK
<1>2. \A m \in Message : m.n \in Nat
  BY CapacityAssumption DEF Message
<1>3. 1..MaxMessages \subseteq Nat
  BY CapacityAssumption
<1>4. /\ DOMAIN control = 1..Len(control) /\ Len(control) \in Nat
      /\ \A i \in DOMAIN control : control[i] \in 1..MaxMessages
  <2>1. DOMAIN control = 1..Len(control) /\ Len(control) \in Nat
    BY <1>1, LenProperties
  <2>2. \A i \in 1..Len(control) : control[i] \in 1..MaxMessages
    BY <1>1, ElementOfSeq
  <2> QED
    BY <2>1, <2>2
<1>5. /\ DOMAIN net = 1..Len(net) /\ Len(net) \in Nat
      /\ \A k \in DOMAIN net : net[k] \in Message
  BY <1>1
<1>6. \A i \in DOMAIN control : control[i] \in Nat
  BY <1>3, <1>4
<1>7. \A k \in DOMAIN net : net[k] \in Message /\ net[k].n \in Nat
  BY <1>2, <1>5
<1>8. \A m \in kept : m \in Message /\ m.n \in Nat
  BY <1>1, <1>2
<1>9. sent \in Nat
  BY <1>1, CapacityAssumption
<1> QED
  BY <1>1, <1>4, <1>5, <1>6, <1>7, <1>8, <1>9

(* The broker publishes.                                                   *)
LEMMA PublishOwed ==
  ASSUME IncomingInv, OwedInv, NEW qos \in {0, 1}, Publish(qos)
  PROVE  OwedInv'
<1> DEFINE m == [n |-> sent + 1, qos |-> qos]
<1>1. /\ UNCHANGED <<alive, control>>
      /\ kept' = IF qos = 1 THEN kept \cup {m} ELSE kept
      /\ net' = IF alive THEN Append(net, m) ELSE net
  BY DEF Publish, sessionVars
<1>2. TypeOK /\ \A k \in kept : k.n <= sent
  BY DEF IncomingInv, StoryInv, InLine
<1>3. m \in Message /\ m.n = sent + 1 /\ m.qos = qos
  BY <1>2, CapacityAssumption DEF Publish, TypeOK, Message
<1> HIDE DEF m
<1>4. KeptAreQos1'
  BY <1>1, <1>3 DEF OwedInv, KeptAreQos1
<1>5. ASSUME alive PROVE Owed' /\ NetOwed' /\ PubacksOwed'
  <2>1. /\ DOMAIN net' = 1..(Len(net) + 1) /\ net'[Len(net) + 1] = m
        /\ \A k \in 1..Len(net) : net'[k] = net[k]
        /\ DOMAIN net = 1..Len(net) /\ Len(net) \in Nat
    BY <1>1, <1>2, <1>3, <1>5, QueueTypes, Longer
  <2>2. Len(net) + 1 \in DOMAIN net' /\ \A k \in DOMAIN net : k \in DOMAIN net'
    BY <2>1
  <2>3. Owed'
    BY <1>1, <1>5, <2>1, <2>2 DEF OwedInv, Owed
  <2>4. PubacksOwed'
    BY <1>1, <1>5 DEF OwedInv, PubacksOwed
  <2>5. \A i \in DOMAIN control : control[i] < m.n
    <3> TAKE i \in DOMAIN control
    <3>1. PICK q \in kept : q.n = control[i]
      BY <1>5 DEF OwedInv, PubacksOwed
    <3> QED
      BY <1>2, <1>3, <3>1, QueueTypes
  <2>6. \A k \in DOMAIN net' : k \in DOMAIN net \/ k = Len(net) + 1
    BY <2>1
  <2>7. NetOwed'
    BY <1>1, <1>3, <1>5, <2>1, <2>5, <2>6 DEF OwedInv, NetOwed
  <2> QED
    BY <2>3, <2>4, <2>7
<1> QED
  BY <1>1, <1>4, <1>5 DEF OwedInv

(* The reader takes a message and queues its PUBACK.                       *)
LEMMA ReadOwed ==
  ASSUME IncomingInv, OwedInv, ReadPublish, alive'
  PROVE  OwedInv'
<1> DEFINE m == Head(net)
<1>1. /\ alive /\ net # <<>> /\ net' = Tail(net) /\ kept' = kept
      /\ Acknowledge(m)
  BY DEF ReadPublish, Emit, PutAside, AbortWith
<1>2. IF m.qos = 0 THEN control' = control ELSE control' = Append(control, m.n)
  BY <1>1 DEF Acknowledge, AbortWith, sessionVars
<1>3. TypeOK
  BY DEF IncomingInv
<1>4. /\ m \in Message /\ m = net[1]
      /\ DOMAIN net' = 1..(Len(net) - 1) /\ DOMAIN net = 1..Len(net)
      /\ \A k \in 1..(Len(net) - 1) : net'[k] = net[k + 1]
      /\ Len(net) \in Nat \ {0}
  BY <1>1, <1>3, HeadOfNet, QueueTypes
<1>5. \A k \in DOMAIN net' : m.n < net'[k].n
  BY <1>1, RestOfNet
<1> HIDE DEF m
<1>6. KeptAreQos1' /\ Owed /\ NetOwed /\ PubacksOwed
  BY <1>1 DEF OwedInv, KeptAreQos1
<1>7. \A k \in DOMAIN net' : net'[k].qos = 1 => net'[k] \in kept
  BY <1>4, <1>6 DEF NetOwed
<1>8. \A k \in DOMAIN net', i \in DOMAIN control : control[i] < net'[k].n
  BY <1>4, <1>6 DEF NetOwed
<1>9. \A q \in kept : \/ q = m
                      \/ \E k \in DOMAIN net' : net'[k] = q
                      \/ \E i \in DOMAIN control : control[i] = q.n
  <2> SUFFICES ASSUME NEW k \in DOMAIN net, k # 1
               PROVE  k - 1 \in DOMAIN net' /\ net'[k - 1] = net[k]
    BY <1>4, <1>6 DEF Owed
  <2> QED
    BY <1>4
<1>10. CASE m.qos = 0
  <2>1. control' = control
    BY <1>2, <1>10
  <2>2. m \notin kept
    BY <1>1, <1>6, <1>10 DEF KeptAreQos1
  <2> QED
    BY <1>1, <1>6, <1>7, <1>8, <1>9, <2>1, <2>2
    DEF OwedInv, Owed, NetOwed, PubacksOwed
<1>11. CASE m.qos # 0
  <2>1. m.qos = 1 /\ m \in kept /\ m.n \in 1..MaxMessages
    BY <1>4, <1>6, <1>11 DEF Message, NetOwed
  <2>2. /\ DOMAIN control' = 1..(Len(control) + 1)
        /\ control'[Len(control) + 1] = m.n
        /\ \A i \in 1..Len(control) : control'[i] = control[i]
        /\ DOMAIN control = 1..Len(control) /\ Len(control) \in Nat
    BY <1>2, <1>3, <1>11, <2>1, QueueTypes, Longer
  <2>3. /\ Len(control) + 1 \in DOMAIN control'
        /\ \A i \in DOMAIN control : i \in DOMAIN control'
        /\ \A i \in DOMAIN control' :
              i \in DOMAIN control \/ i = Len(control) + 1
    BY <2>2
  <2>4. Owed'
    BY <1>1, <1>9, <2>2, <2>3 DEF Owed
  <2>5. NetOwed'
    BY <1>1, <1>5, <1>7, <1>8, <2>2, <2>3 DEF NetOwed
  <2>6. PubacksOwed'
    <3>1. \A i \in DOMAIN control : control[i] < m.n
      BY <1>4, <1>6 DEF NetOwed
    <3>2. ASSUME NEW i \in DOMAIN control', NEW j \in DOMAIN control', i < j
          PROVE  control'[i] < control'[j]
      <4>1. i \in DOMAIN control
        BY <2>2, <3>2
      <4>2. CASE j \in DOMAIN control
        BY <1>6, <2>2, <3>2, <4>1, <4>2 DEF PubacksOwed
      <4>3. CASE j = Len(control) + 1
        BY <2>2, <3>1, <4>1, <4>3
      <4> QED
        BY <2>3, <4>2, <4>3
    <3>3. \A i \in DOMAIN control' : \E q \in kept' : q.n = control'[i]
      BY <1>1, <1>6, <2>1, <2>2, <2>3 DEF PubacksOwed
    <3> QED
      BY <3>2, <3>3 DEF PubacksOwed
  <2> QED
    BY <1>6, <2>4, <2>5, <2>6 DEF OwedInv
<1> QED
  BY <1>10, <1>11

(* The writer sends a PUBACK, and the broker forgets its message.          *)
LEMMA PubackOwed ==
  ASSUME IncomingInv, OwedInv, WritePuback
  PROVE  OwedInv'
<1>1. /\ alive /\ control # <<>> /\ control' = Tail(control)
      /\ kept' = {q \in kept : q.n # Head(control)}
      /\ UNCHANGED <<alive, net>>
  BY DEF WritePuback
<1>2. KeptAreQos1' /\ Owed /\ NetOwed /\ PubacksOwed
  BY <1>1 DEF OwedInv, KeptAreQos1
<1>3. /\ control \in Seq(1..MaxMessages) /\ DOMAIN control = 1..Len(control)
      /\ \A i \in DOMAIN control : control[i] \in Nat
      /\ \A k \in DOMAIN net : net[k].n \in Nat
  BY QueueTypes DEF IncomingInv
<1>4. /\ Len(control) \in Nat \ {0} /\ Head(control) = control[1]
      /\ DOMAIN control' = 1..(Len(control) - 1)
      /\ \A i \in 1..(Len(control) - 1) : control'[i] = control[i + 1]
  BY <1>1, <1>3, HeadTailProperties, EmptySeq, LenProperties
<1>5. 1 \in DOMAIN control
      /\ \A i \in DOMAIN control' : i + 1 \in DOMAIN control /\ 1 < i + 1
                                    /\ control'[i] = control[i + 1]
  BY <1>3, <1>4
<1>6. \A i \in DOMAIN control' : Head(control) # control'[i]
  BY <1>2, <1>3, <1>4, <1>5 DEF PubacksOwed
<1>7. \A k \in DOMAIN net : net[k].n # Head(control)
  BY <1>2, <1>3, <1>4, <1>5 DEF NetOwed
<1>8. Owed'
  <2> SUFFICES ASSUME NEW q \in kept, q.n # Head(control),
                      NEW i \in DOMAIN control, control[i] = q.n
               PROVE  \E j \in DOMAIN control' : control'[j] = q.n
    BY <1>1, <1>2 DEF Owed
  <2>1. i # 1
    BY <1>4
  <2>2. i - 1 \in DOMAIN control' /\ control'[i - 1] = q.n
    BY <1>3, <1>4, <2>1
  <2> QED
    BY <2>2
<1>9. NetOwed'
  BY <1>1, <1>2, <1>5, <1>7 DEF NetOwed
<1>10. PubacksOwed'
  <2>1. \A i \in DOMAIN control' : \E q \in kept' : q.n = control'[i]
    <3> TAKE i \in DOMAIN control'
    <3>1. PICK q \in kept : q.n = control[i + 1]
      BY <1>2, <1>5 DEF PubacksOwed
    <3> QED
      BY <1>1, <1>5, <1>6, <3>1
  <2>2. ASSUME NEW i \in DOMAIN control', NEW j \in DOMAIN control', i < j
        PROVE  control'[i] < control'[j]
    <3>1. i + 1 < j + 1
      BY <1>4, <2>2
    <3> QED
      BY <1>2, <1>5, <3>1 DEF PubacksOwed
  <2> QED
    BY <2>1, <2>2 DEF PubacksOwed
<1> QED
  BY <1>2, <1>8, <1>9, <1>10 DEF OwedInv

(* A new connection brings what the broker keeps once more.                *)
LEMMA DialOwed ==
  ASSUME IncomingInv, OwedInv, Dial
  PROVE  OwedInv'
<1>1. /\ kept' \subseteq kept /\ net' \in InOrder(kept') /\ control' = <<>>
  BY DEF Dial
<1>2. {net'[k] : k \in DOMAIN net'} = kept'
  BY <1>1 DEF InOrder
<1>3. \A q : q \in kept' <=> \E k \in DOMAIN net' : net'[k] = q
  BY <1>2
<1>4. DOMAIN control' = {}
  BY <1>1
<1>5. Owed'
  BY <1>3 DEF Owed
<1>6. NetOwed' /\ PubacksOwed'
  BY <1>3, <1>4 DEF NetOwed, PubacksOwed
<1>7. KeptAreQos1'
  BY <1>1 DEF OwedInv, KeptAreQos1
<1> QED
  BY <1>5, <1>6, <1>7 DEF OwedInv

(* What the client owes is kept by every step.                             *)
LEMMA OwedStep == IncomingInv /\ OwedInv /\ [Next]_vars => OwedInv'
<1> SUFFICES ASSUME IncomingInv, OwedInv, [Next]_vars PROVE OwedInv'
  OBVIOUS
<1>1. CASE UNCHANGED <<alive, control, kept, net>>
  BY <1>1 DEF OwedInv, KeptAreQos1, Owed, NetOwed, PubacksOwed
<1>2. CASE ~alive' /\ UNCHANGED kept
  BY <1>2 DEF OwedInv, KeptAreQos1
<1>3. CASE ReadPublish
  BY <1>2, <1>3, ReadOwed DEF ReadPublish
<1>4. CASE BecomesReady
  BY <1>1, <1>2, <1>4 DEF BecomesReady, AbortWith, sessionVars, brokerVars
<1>5. CASE \/ RestoreRejected
           \/ \E error \in {"lost", "server"} : ConnectionBreaks(error)
  BY <1>2, <1>5 DEF RestoreRejected, ConnectionBreaks, AbortWith, brokerVars
<1>6. CASE DisconnectEnds
  BY <1>1, <1>2, <1>6 DEF DisconnectEnds, AbortWith, sessionVars, brokerVars
<1>7. CASE DialFails \/ SessionEnds \/ NextEvent \/ Disconnect \/ UNCHANGED vars
  BY <1>1, <1>7 DEF DialFails, SessionEnds, NextEvent, Disconnect, vars,
     sessionVars, brokerVars
<1> QED
  BY <1>3, <1>4, <1>5, <1>6, <1>7, PublishOwed, PubackOwed, DialOwed DEF Next

(* On a live connection the client owes the broker exactly one PUBACK for  *)
(* each message it took, and nothing the broker keeps is forgotten: when   *)
(* nothing is on its way and no PUBACK waits, the broker keeps nothing     *)
(* (read_loop, next_outgoing).                                             *)
THEOREM AnsweredOnce == Spec => []EachIsOwedOnce
<1>1. Init => OwedInv
  BY DEF Init, OwedInv, KeptAreQos1
<1>2. IncomingInv /\ OwedInv => EachIsOwedOnce
  <2> SUFFICES ASSUME IncomingInv, OwedInv, alive PROVE EachIsOwedOnce
    BY DEF EachIsOwedOnce
  <2>1. Owed /\ NetOwed /\ PubacksOwed
    BY DEF OwedInv
  <2>2. /\ \A i \in DOMAIN control : control[i] \in Nat
        /\ \A k \in DOMAIN net : net[k].n \in Nat
        /\ DOMAIN control \subseteq Nat
    BY QueueTypes DEF IncomingInv
  <2>3. \A i, j \in DOMAIN control : j # i => control[j] # control[i]
    <3> TAKE i, j \in DOMAIN control
    <3> HAVE j # i
    <3>1. i < j \/ j < i
      BY <2>2
    <3> QED
      BY <2>1, <2>2, <3>1 DEF PubacksOwed
  <2>4. \A i \in DOMAIN control, k \in DOMAIN net : net[k].n # control[i]
    BY <2>1, <2>2 DEF NetOwed
  <2> QED
    BY <2>1, <2>3, <2>4 DEF EachIsOwedOnce, Owed, PubacksOwed
<1> QED
  BY <1>1, <1>2, OwedStep, IncomingInvariant, PTL DEF Spec
=============================================================================
