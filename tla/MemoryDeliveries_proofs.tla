----------------------- MODULE MemoryDeliveries_proofs -----------------------
(***************************************************************************)
(* Proofs about MemoryDeliveries: what handles say is true, answers find   *)
(* their owner, the limits hold, every copy that leaves is due, the        *)
(* contract of DeliveryContract is kept, and no open handle is stranded,   *)
(* for any deliveries, requests, capacities and limits.                    *)
(***************************************************************************)
EXTENDS MemoryDeliveries, FiniteSetTheorems, TLAPS

(* What this connection has not started: deferred, queued, to be replayed. *)
Line == (deferred \o outgoing) \o replay

InLine(item) == \E n \in 1..Len(Line) : Line[n] = item

Precedes(s, d, e) == \E m, n \in 1..Len(s) :
                         m < n /\ s[m] = d /\ s[n] = e

InFlight == {d \in attached : phase[d] = "AwaitingAck"}

(* The type invariant in parts, one for each group of variables.           *)
ClientTyped ==
    /\ stage \in {"dialing", "replaying", "ready", "ended"}
    /\ stopped \in BOOLEAN /\ everReady \in BOOLEAN /\ failures \in Nat
    /\ cause \in {"none", "closed", "lost", "exhausted", "rejected", "fatal",
                  "unexpected"}

BookTyped ==
    /\ order \in Seq(Deliveries) /\ nextPacketId \in PacketIds
    /\ phase \in [Deliveries -> {"new"} \cup Waiting \cup Terminal]
    /\ packetId \in [Deliveries -> 0..MaxPacketId]
    /\ attempts \in [Deliveries -> Nat]
    /\ deadline \in [Deliveries -> {"none", "start", "ack"}]

SessionTyped ==
    /\ started \subseteq Items
    /\ attached \subseteq Deliveries /\ slots \in Nat
    /\ pending \subseteq Requests
    /\ requestId \in [Requests -> 0..MaxPacketId] /\ nextId \in PacketIds

QueueTyped ==
    /\ outgoing \in Seq(Items) /\ deferred \in Seq(Deliveries)
    /\ businessDepth \in Nat /\ credit \in Nat /\ receiveMaximum \in Nat

WireTyped ==
    /\ writer \in [at : {"idle", "started", "writing"},
                   item : Items \cup {NoItem}, dup : BOOLEAN]
    /\ replay \in Seq(Deliveries)
    /\ copies \in [Deliveries -> Nat]
    /\ onWire \subseteq Items

PeerTyped ==
    /\ owed \subseteq Items /\ acks \subseteq Items
    /\ answered \subseteq Deliveries

LEMMA TypeParts ==
    ASSUME TypeOK
    PROVE  /\ ClientTyped /\ BookTyped /\ SessionTyped /\ QueueTyped
           /\ WireTyped /\ PeerTyped
<1>1. ClientTyped
  BY DEF TypeOK, ClientTyped
<1>2. BookTyped
  BY DEF TypeOK, BookTyped
<1>3. SessionTyped
  BY DEF TypeOK, SessionTyped
<1>4. QueueTyped
  BY DEF TypeOK, QueueTyped
<1>5. WireTyped /\ PeerTyped
  BY DEF TypeOK, WireTyped, PeerTyped
<1> QED BY <1>1, <1>2, <1>3, <1>4, <1>5

LEMMA PartsType ==
    ASSUME ClientTyped', BookTyped', SessionTyped', QueueTyped', WireTyped',
           PeerTyped'
    PROVE  TypeOK'
  BY DEF TypeOK, ClientTyped, BookTyped, SessionTyped, QueueTyped, WireTyped,
         PeerTyped

(* A part whose variables stay keeps its type.                             *)
LEMMA ClientTypeStays ==
    ASSUME TypeOK, UNCHANGED <<clientVars, cause>>
    PROVE  ClientTyped'
  BY TypeParts DEF ClientTyped, clientVars

LEMMA BookTypeStays ==
    ASSUME TypeOK, UNCHANGED bookVars
    PROVE  BookTyped'
  BY TypeParts DEF BookTyped, bookVars

LEMMA SessionTypeStays ==
    ASSUME TypeOK, UNCHANGED <<started, sessionVars>>
    PROVE  SessionTyped'
  BY TypeParts DEF SessionTyped, sessionVars

LEMMA QueueTypeStays ==
    ASSUME TypeOK, UNCHANGED queueVars
    PROVE  QueueTyped'
  BY TypeParts DEF QueueTyped, queueVars

LEMMA WireTypeStays ==
    ASSUME TypeOK, UNCHANGED <<writer, replay, wireVars>>
    PROVE  WireTyped'
  BY TypeParts DEF WireTyped, wireVars

LEMMA PeerTypeStays ==
    ASSUME TypeOK, UNCHANGED peerVars
    PROVE  PeerTyped'
  BY TypeParts DEF PeerTyped, peerVars

(* The book holds each record once, and exactly those that wait.           *)
Book ==
    /\ \A m, n \in 1..Len(order) : order[m] = order[n] => m = n
    /\ \A d \in Deliveries : d \in Active <=> phase[d] \in Waiting
    /\ attached \subseteq Active
    /\ \A d \in attached : phase[d] \in {"Queued", "AwaitingAck"}
    /\ \A d \in Active \ attached : phase[d] = "AwaitingReconnect"

(* Identifiers in use differ.                                              *)
IdsDiffer ==
    /\ \A d, e \in Active : packetId[d] = packetId[e] => d = e
    /\ \A q, r \in pending : requestId[q] = requestId[r] => q = r
    /\ \A d \in Active, r \in pending : packetId[d] # requestId[r]

(* What the supervisor's place says.                                       *)
Stages ==
    /\ stage \in {"dialing", "ended"} => ~Alive /\ writer = Idle
    /\ stage # "ready" => pending = {}
    /\ stage = "ready" => everReady /\ replay = <<>>
    /\ ~everReady => order = <<>>

(* Nothing of a connection is left when it has ended.                      *)
DeadIsEmpty ==
    ~Alive => /\ attached = {} /\ pending = {}
              /\ outgoing = <<>> /\ deferred = <<>>
              /\ owed = {} /\ acks = {}

(* The counters.                                                           *)
Counts ==
    /\ slots = Cardinality(attached)
    /\ slots + Cardinality(pending) <= MaxInflight
    /\ Len(order) = Cardinality(Active) /\ Len(order) <= MaxInflight
    /\ businessDepth = Len(outgoing) + Len(deferred)
    /\ businessDepth <= SendCapacity
    /\ credit = Cardinality(InFlight)
    /\ credit <= receiveMaximum

(* An exchange: from the start of the write to the broker's answer.        *)
Open(item) == IF item \in Deliveries THEN item \in InFlight
                                     ELSE item \in pending \cap started

Exchanges ==
    /\ \A item \in owed \cup acks : Open(item)
    /\ owed \cap acks = {}
    /\ Alive /\ writer.at = "started" =>
          /\ writer.item \in Items
          /\ Open(writer.item) /\ writer.item \notin owed \cup acks
          /\ writer.item \in Deliveries =>
                /\ writer.item \notin onWire
                /\ ~writer.dup => copies[writer.item] = 0
    /\ Alive => \A d \in InFlight :
                   d \in onWire \/ (writer.at = "started" /\ writer.item = d)
    /\ Alive => \A d \in onWire \cap Deliveries :
                   phase[d] \in {"AwaitingAck"} \cup Terminal
    /\ cause # "unexpected"

(* The line keeps the order of the book, behind what was started.          *)
LineOnce == \A m, n \in 1..Len(Line) : Line[m] = Line[n] => m = n

LineSorted ==
    \A m, n \in 1..Len(Line) :
        m < n /\ Line[m] \in Deliveries /\ Line[n] \in Deliveries
           => Precedes(order, Line[m], Line[n])

LineExact ==
    \A d \in Deliveries : InLine(d) <=> d \in Active /\ phase[d] # "AwaitingAck"

StartedFirst ==
    \A m, n \in 1..Len(order) :
        m < n /\ phase[order[n]] = "AwaitingAck"
           => phase[order[m]] = "AwaitingAck"

LineUp == Alive => LineOnce /\ LineSorted /\ LineExact /\ StartedFirst

Queues ==
    /\ \A n \in 1..Len(outgoing) :
          IF outgoing[n] \in Deliveries THEN outgoing[n] \in attached
                                        ELSE outgoing[n] \in pending \ started
    /\ \A n \in 1..Len(deferred) : deferred[n] \in attached
    /\ started \cap Requests \subseteq pending

(* What has happened to each delivery so far.                              *)
History ==
    \A d \in Deliveries :
        /\ copies[d] > 0 => d \in started
        /\ d \in started => phase[d] \notin {"new", "TerminalNotSent"}
        /\ phase[d] \in {"AwaitingAck", "TerminalOutcomeUnknown"}
              => d \in started
        /\ phase[d] \in {"Acknowledged", "Rejected"} => d \in answered
        /\ d \in owed \cup acks => copies[d] > 0
        /\ d \in answered => copies[d] > 0
        /\ d \in acks => d \in answered
        /\ copies[d] <= attempts[d] /\ attempts[d] <= ReconnectAttempts + 1
        /\ phase[d] = "new" => attempts[d] = 0
        /\ d \in attached /\ d \notin onWire => copies[d] < attempts[d]

Kept == /\ Book /\ IdsDiffer /\ Stages /\ DeadIsEmpty /\ Counts
        /\ Exchanges /\ LineUp /\ Queues /\ History

IInv == TypeOK /\ Kept
-----------------------------------------------------------------------------
(* Sequences.                                                              *)

LEMMA Elements ==
    ASSUME NEW S, NEW s \in Seq(S)
    PROVE  \A x : x \in Range(s) <=> \E n \in 1..Len(s) : s[n] = x
BY DEF Range

LEMMA Append1 ==
    ASSUME NEW S, NEW s \in Seq(S), NEW x \in S
    PROVE  /\ Append(s, x) \in Seq(S) /\ Len(Append(s, x)) = Len(s) + 1
           /\ \A n \in 1..Len(s) : Append(s, x)[n] = s[n]
           /\ Append(s, x)[Len(s) + 1] = x
OBVIOUS

LEMMA RangeAppend ==
    ASSUME NEW S, NEW s \in Seq(S), NEW x \in S
    PROVE  Range(Append(s, x)) = Range(s) \cup {x}
<1> DEFINE t == Append(s, x)
<1>1. /\ t \in Seq(S) /\ Len(t) = Len(s) + 1
      /\ \A n \in 1..Len(s) : t[n] = s[n]
      /\ t[Len(s) + 1] = x
  BY Append1
<1> HIDE DEF t
<1>2. \A y : y \in Range(t) <=> \E n \in 1..(Len(s) + 1) : t[n] = y
  BY <1>1, Elements
<1>3. \A y : y \in Range(s) <=> \E n \in 1..Len(s) : s[n] = y
  BY Elements
<1>4. Len(s) \in Nat
  OBVIOUS
<1>5. ASSUME NEW y PROVE y \in Range(t) <=> y \in Range(s) \cup {x}
  <2>1. (\E n \in 1..(Len(s) + 1) : t[n] = y)
           <=> (\E n \in 1..Len(s) : t[n] = y) \/ t[Len(s) + 1] = y
    BY <1>4
  <2> QED BY <1>1, <1>2, <1>3, <2>1
<1>6. Range(t) = Range(s) \cup {x}
  BY <1>5
<1> QED BY <1>6 DEF t

(* The sequence without its k-th element.                                  *)
Without(k, s, t) ==
    /\ Len(t) = Len(s) - 1
    /\ \A n \in 1..(Len(s) - 1) : t[n] = IF n < k THEN s[n] ELSE s[n + 1]

LEMMA Concat ==
    ASSUME NEW S, NEW s \in Seq(S), NEW t \in Seq(S)
    PROVE  /\ s \o t \in Seq(S) /\ Len(s \o t) = Len(s) + Len(t)
           /\ \A n \in 1..Len(s) : (s \o t)[n] = s[n]
           /\ \A n \in 1..(Len(s) + Len(t)) :
                 n > Len(s) => (s \o t)[n] = t[n - Len(s)]
OBVIOUS

LEMMA Cut ==
    ASSUME NEW S, NEW s \in Seq(S), NEW k \in 1..Len(s)
    PROVE  /\ SubSeq(s, 1, k - 1) \in Seq(S)
           /\ SubSeq(s, k + 1, Len(s)) \in Seq(S)
           /\ Len(SubSeq(s, 1, k - 1)) = k - 1
           /\ Len(SubSeq(s, k + 1, Len(s))) = Len(s) - k
           /\ \A n \in 1..(k - 1) : SubSeq(s, 1, k - 1)[n] = s[n]
           /\ \A n \in 1..(Len(s) - k) :
                 SubSeq(s, k + 1, Len(s))[n] = s[n + k]
OBVIOUS

LEMMA Removed ==
    ASSUME NEW S, NEW s \in Seq(S), NEW k \in 1..Len(s)
    PROVE  RemoveAt(s, k) \in Seq(S) /\ Without(k, s, RemoveAt(s, k))
<1> DEFINE B == SubSeq(s, 1, k - 1)
           C == SubSeq(s, k + 1, Len(s))
<1>1. /\ B \in Seq(S) /\ C \in Seq(S) /\ Len(B) = k - 1 /\ Len(C) = Len(s) - k
      /\ \A n \in 1..(k - 1) : B[n] = s[n]
      /\ \A n \in 1..(Len(s) - k) : C[n] = s[n + k]
  BY Cut
<1>2. RemoveAt(s, k) = B \o C
  BY DEF RemoveAt
<1> HIDE DEF B, C
<1> DEFINE t == B \o C
<1>3. /\ t \in Seq(S) /\ Len(t) = Len(B) + Len(C)
      /\ \A n \in 1..Len(B) : t[n] = B[n]
      /\ \A n \in 1..(Len(B) + Len(C)) : n > Len(B) => t[n] = C[n - Len(B)]
  BY <1>1, Concat
<1> HIDE DEF t
<1>4. Len(t) = Len(s) - 1 /\ Len(s) \in Nat
  BY <1>1, <1>3
<1>5. ASSUME NEW n \in 1..(Len(s) - 1)
      PROVE  t[n] = IF n < k THEN s[n] ELSE s[n + 1]
  <2>1. CASE n < k
    BY <1>1, <1>3, <1>4, <2>1
  <2>2. CASE ~(n < k)
    <3>1. t[n] = C[n - Len(B)]
      <4>1. n \in 1..(Len(B) + Len(C)) /\ n > Len(B)
        BY <1>1, <1>4, <2>2
      <4> QED BY <1>3, <4>1
    <3>2. n - Len(B) \in 1..(Len(s) - k) /\ (n - Len(B)) + k = n + 1
      BY <1>1, <1>4, <2>2
    <3>3. C[n - Len(B)] = s[n + 1]
      BY <1>1, <3>2
    <3> QED BY <2>2, <3>1, <3>3
  <2> QED BY <2>1, <2>2
<1>6. t \in Seq(S) /\ Without(k, s, t)
  BY <1>3, <1>4, <1>5 DEF Without
<1> QED BY <1>2, <1>6 DEF t

(* The elements of the three queues in the line.                           *)
LEMMA LineParts ==
    ASSUME NEW S, NEW a \in Seq(S), NEW b \in Seq(S), NEW c \in Seq(S)
    PROVE  /\ (a \o b) \o c \in Seq(S)
           /\ Len((a \o b) \o c) = Len(a) + Len(b) + Len(c)
           /\ \A n \in 1..Len(a) : ((a \o b) \o c)[n] = a[n]
           /\ \A n \in 1..Len(b) : ((a \o b) \o c)[Len(a) + n] = b[n]
           /\ \A n \in 1..Len(c) :
                 ((a \o b) \o c)[Len(a) + Len(b) + n] = c[n]
OBVIOUS

(* A sequence is the line when it agrees with the three queues.            *)
Joins(s, a, b, c) ==
    /\ Len(s) = Len(a) + Len(b) + Len(c)
    /\ \A n \in 1..Len(a) : s[n] = a[n]
    /\ \A n \in 1..Len(b) : s[Len(a) + n] = b[n]
    /\ \A n \in 1..Len(c) : s[Len(a) + Len(b) + n] = c[n]

LEMMA SameParts ==
    ASSUME NEW S, NEW a \in Seq(S), NEW b \in Seq(S), NEW c \in Seq(S),
           NEW s \in Seq(S), Joins(s, a, b, c)
    PROVE  s = (a \o b) \o c
<1> DEFINE t == (a \o b) \o c
<1>0. /\ Len(s) = Len(a) + Len(b) + Len(c)
      /\ \A n \in 1..Len(a) : s[n] = a[n]
      /\ \A n \in 1..Len(b) : s[Len(a) + n] = b[n]
      /\ \A n \in 1..Len(c) : s[Len(a) + Len(b) + n] = c[n]
  BY DEF Joins
<1>1. /\ t \in Seq(S) /\ Len(t) = Len(a) + Len(b) + Len(c)
      /\ \A n \in 1..Len(a) : t[n] = a[n]
      /\ \A n \in 1..Len(b) : t[Len(a) + n] = b[n]
      /\ \A n \in 1..Len(c) : t[Len(a) + Len(b) + n] = c[n]
  BY LineParts
<1> HIDE DEF t
<1>2. ASSUME NEW n \in 1..Len(s) PROVE s[n] = t[n]
  <2>0. Len(a) \in Nat /\ Len(b) \in Nat /\ Len(c) \in Nat
    OBVIOUS
  <2>1. CASE n <= Len(a)
    BY <1>0, <1>1, <2>0, <2>1
  <2>2. CASE n > Len(a) /\ n <= Len(a) + Len(b)
    <3> DEFINE m == n - Len(a)
    <3>1. m \in 1..Len(b) /\ Len(a) + m = n
      BY <2>0, <2>2
    <3> HIDE DEF m
    <3>2. s[n] = b[m]
      BY <1>0, <3>1
    <3>3. t[n] = b[m]
      BY <1>1, <3>1
    <3> QED BY <3>2, <3>3
  <2>3. CASE n > Len(a) + Len(b)
    <3> DEFINE m == n - (Len(a) + Len(b))
    <3>1. m \in 1..Len(c) /\ Len(a) + Len(b) + m = n
      BY <1>0, <2>0, <2>3
    <3> HIDE DEF m
    <3> QED BY <1>0, <1>1, <3>1
  <2> QED BY <1>0, <2>0, <2>1, <2>2, <2>3
<1>3. s = t
  BY <1>0, <1>1, <1>2
<1> QED BY <1>3 DEF t

(* Taking the first deferred item.                                         *)
LEMMA TakeDeferred ==
    ASSUME NEW a \in Seq(Items), NEW b \in Seq(Items), NEW c \in Seq(Items),
           a # <<>>
    PROVE  /\ Head(a) = ((a \o b) \o c)[1]
           /\ Without(1, (a \o b) \o c, (Tail(a) \o b) \o c)
<1> DEFINE s == (a \o b) \o c
           T == Tail(a)
           t == (T \o b) \o c
<1>1. /\ T \in Seq(Items) /\ Len(T) = Len(a) - 1 /\ Len(a) \in Nat \ {0}
      /\ \A n \in 1..(Len(a) - 1) : T[n] = a[n + 1]
      /\ Head(a) = a[1]
  OBVIOUS
<1> HIDE DEF T
<1>2. /\ s \in Seq(Items) /\ Len(s) = Len(a) + Len(b) + Len(c)
      /\ \A n \in 1..Len(a) : s[n] = a[n]
      /\ \A n \in 1..Len(b) : s[Len(a) + n] = b[n]
      /\ \A n \in 1..Len(c) : s[Len(a) + Len(b) + n] = c[n]
  BY LineParts
<1>3. /\ t \in Seq(Items) /\ Len(t) = Len(T) + Len(b) + Len(c)
      /\ \A n \in 1..Len(T) : t[n] = T[n]
      /\ \A n \in 1..Len(b) : t[Len(T) + n] = b[n]
      /\ \A n \in 1..Len(c) : t[Len(T) + Len(b) + n] = c[n]
  <2>1. T \in Seq(Items)
    BY <1>1
  <2> QED BY <2>1
<1>0. Len(a) \in Nat /\ Len(b) \in Nat /\ Len(c) \in Nat
  OBVIOUS
<1> HIDE DEF s, t
<1>4. ASSUME NEW n \in 1..(Len(s) - 1) PROVE t[n] = s[n + 1]
  <2>1. CASE n <= Len(T)
    BY <1>0, <1>1, <1>2, <1>3, <2>1
  <2>2. CASE n > Len(T) /\ n <= Len(T) + Len(b)
    <3> DEFINE m == n - Len(T)
    <3>1. m \in 1..Len(b) /\ Len(T) + m = n /\ Len(a) + m = n + 1
      BY <1>0, <1>1, <2>2
    <3> HIDE DEF m
    <3> QED BY <1>2, <1>3, <3>1
  <2>3. CASE n > Len(T) + Len(b)
    <3> DEFINE m == n - (Len(T) + Len(b))
    <3>1. /\ m \in 1..Len(c) /\ Len(T) + Len(b) + m = n
          /\ Len(a) + Len(b) + m = n + 1
      BY <1>0, <1>1, <1>2, <2>3
    <3> HIDE DEF m
    <3> QED BY <1>2, <1>3, <3>1
  <2> QED BY <1>0, <1>1, <2>1, <2>2, <2>3
<1>5. Len(t) = Len(s) - 1 /\ s[1] = Head(a)
  BY <1>0, <1>1, <1>2, <1>3
<1>6. Without(1, s, t)
  BY <1>2, <1>4, <1>5 DEF Without
<1> QED BY <1>5, <1>6 DEF s, t, T

(* Taking a queued item and deferring those before it.                     *)
LEMMA TakeQueued ==
    ASSUME NEW a \in Seq(Items), NEW b \in Seq(Items), NEW c \in Seq(Items),
           NEW k \in 1..Len(b)
    PROVE  /\ b[k] = ((a \o b) \o c)[Len(a) + k]
           /\ Without(Len(a) + k, (a \o b) \o c,
                      ((a \o SubSeq(b, 1, k - 1)) \o
                          SubSeq(b, k + 1, Len(b))) \o c)
<1> DEFINE s == (a \o b) \o c
           B == SubSeq(b, 1, k - 1)
           C == SubSeq(b, k + 1, Len(b))
           A == a \o B
           t == (A \o C) \o c
<1>0. Len(a) \in Nat /\ Len(b) \in Nat /\ Len(c) \in Nat
  OBVIOUS
<1>1. /\ B \in Seq(Items) /\ C \in Seq(Items)
      /\ Len(B) = k - 1 /\ Len(C) = Len(b) - k
      /\ \A n \in 1..(k - 1) : B[n] = b[n]
      /\ \A n \in 1..(Len(b) - k) : C[n] = b[n + k]
  BY Cut
<1> HIDE DEF B, C
<1>2. /\ A \in Seq(Items) /\ Len(A) = Len(a) + Len(B)
      /\ \A n \in 1..Len(a) : A[n] = a[n]
      /\ \A n \in 1..(Len(a) + Len(B)) : n > Len(a) => A[n] = B[n - Len(a)]
  BY <1>1, Concat
<1> HIDE DEF A
<1>3. /\ s \in Seq(Items) /\ Len(s) = Len(a) + Len(b) + Len(c)
      /\ \A n \in 1..Len(a) : s[n] = a[n]
      /\ \A n \in 1..Len(b) : s[Len(a) + n] = b[n]
      /\ \A n \in 1..Len(c) : s[Len(a) + Len(b) + n] = c[n]
  BY LineParts
<1>4. /\ t \in Seq(Items) /\ Len(t) = Len(A) + Len(C) + Len(c)
      /\ \A n \in 1..Len(A) : t[n] = A[n]
      /\ \A n \in 1..Len(C) : t[Len(A) + n] = C[n]
      /\ \A n \in 1..Len(c) : t[Len(A) + Len(C) + n] = c[n]
  <2>1. A \in Seq(Items) /\ C \in Seq(Items)
    BY <1>1, <1>2
  <2> QED BY <2>1
<1> HIDE DEF s, t
<1>5. /\ Len(A) = Len(a) + k - 1 /\ Len(t) = Len(s) - 1
      /\ s[Len(a) + k] = b[k]
  <2>1. s[Len(a) + k] = b[k]
    BY <1>3
  <2>2. k \in Nat /\ Len(A) = Len(a) + k - 1
    BY <1>0, <1>1, <1>2
  <2>3. Len(C) = Len(b) - k
    BY <1>1
  <2>4. /\ Len(t) = Len(A) + Len(C) + Len(c)
        /\ Len(s) = Len(a) + Len(b) + Len(c)
    BY <1>3, <1>4
  <2>5. Len(t) = Len(s) - 1
    BY <1>0, <2>2, <2>3, <2>4
  <2> QED BY <2>1, <2>2, <2>5
<1>6. ASSUME NEW n \in 1..(Len(s) - 1)
      PROVE  t[n] = IF n < Len(a) + k THEN s[n] ELSE s[n + 1]
  <2>1. CASE n <= Len(a)
    BY <1>0, <1>2, <1>3, <1>4, <1>5, <2>1
  <2>2. CASE n > Len(a) /\ n < Len(a) + k
    <3> DEFINE m == n - Len(a)
    <3>1. /\ m \in 1..(k - 1) /\ m \in 1..Len(b) /\ Len(a) + m = n
          /\ n \in 1..Len(A)
      BY <1>0, <1>1, <1>5, <2>2
    <3>2. t[n] = B[m]
      BY <1>0, <1>1, <1>2, <1>4, <1>5, <2>2, <3>1
    <3> HIDE DEF m
    <3>3. B[m] = b[m] /\ s[n] = b[m]
      BY <1>1, <1>3, <3>1
    <3> QED BY <2>2, <3>2, <3>3
  <2>3. CASE n >= Len(a) + k /\ n < Len(a) + Len(b)
    <3> DEFINE m == n - Len(A)
    <3>1. /\ m \in 1..Len(C) /\ Len(A) + m = n
          /\ m + k \in 1..Len(b) /\ Len(a) + (m + k) = n + 1
      BY <1>0, <1>1, <1>5, <2>3
    <3> HIDE DEF m
    <3>2. t[n] = C[m] /\ C[m] = b[m + k] /\ s[n + 1] = b[m + k]
      BY <1>1, <1>3, <1>4, <3>1
    <3> QED BY <1>0, <2>3, <3>2
  <2>4. CASE n >= Len(a) + Len(b)
    <3> DEFINE m == n - (Len(A) + Len(C))
    <3>1. /\ m \in 1..Len(c) /\ Len(A) + Len(C) + m = n
          /\ Len(a) + Len(b) + m = n + 1 /\ ~(n < Len(a) + k)
      BY <1>0, <1>1, <1>3, <1>5, <2>4
    <3> HIDE DEF m
    <3> QED BY <1>3, <1>4, <3>1
  <2> QED BY <1>0, <2>1, <2>2, <2>3, <2>4
<1>7. Without(Len(a) + k, s, t)
  BY <1>5, <1>6 DEF Without
<1> QED BY <1>5, <1>7 DEF s, t, A, B, C

(* The head of the third queue moved to the end of the second.             *)
LEMMA MoveHead ==
    ASSUME NEW a \in Seq(Items), NEW b \in Seq(Items), NEW c \in Seq(Items),
           c # <<>>
    PROVE  (a \o Append(b, Head(c))) \o Tail(c) = (a \o b) \o c
<1> DEFINE s == (a \o b) \o c
           B == Append(b, Head(c))
           C == Tail(c)
<1>0. Len(a) \in Nat /\ Len(b) \in Nat /\ Len(c) \in Nat \ {0}
  OBVIOUS
<1>1. /\ C \in Seq(Items) /\ Len(C) = Len(c) - 1
      /\ Head(c) = c[1] /\ Head(c) \in Items
      /\ \A n \in 1..(Len(c) - 1) : C[n] = c[n + 1]
  OBVIOUS
<1>2. /\ B \in Seq(Items) /\ Len(B) = Len(b) + 1
      /\ \A n \in 1..Len(b) : B[n] = b[n]
      /\ B[Len(b) + 1] = c[1]
  BY <1>1, Append1
<1>3. /\ s \in Seq(Items) /\ Len(s) = Len(a) + Len(b) + Len(c)
      /\ \A n \in 1..Len(a) : s[n] = a[n]
      /\ \A n \in 1..Len(b) : s[Len(a) + n] = b[n]
      /\ \A n \in 1..Len(c) : s[Len(a) + Len(b) + n] = c[n]
  BY LineParts
<1> HIDE DEF s, B, C
<1>4. Len(s) = Len(a) + Len(B) + Len(C)
  BY <1>0, <1>1, <1>2, <1>3
<1>5. ASSUME NEW n \in 1..Len(B) PROVE s[Len(a) + n] = B[n]
  <2>1. CASE n \in 1..Len(b)
    BY <1>2, <1>3, <2>1
  <2>2. CASE n = Len(b) + 1
    <3>1. s[Len(a) + Len(b) + 1] = c[1]
      BY <1>0, <1>3
    <3>2. Len(a) + n = Len(a) + Len(b) + 1
      BY <1>0, <2>2
    <3> QED BY <1>2, <2>2, <3>1, <3>2
  <2> QED BY <1>0, <1>2, <2>1, <2>2
<1>6. ASSUME NEW n \in 1..Len(C) PROVE s[Len(a) + Len(B) + n] = C[n]
  <2>1. n + 1 \in 1..Len(c) /\ Len(a) + Len(B) + n = Len(a) + Len(b) + (n + 1)
    BY <1>0, <1>1, <1>2
  <2> QED BY <1>1, <1>3, <2>1
<1>7. s = (a \o B) \o C
  <2>1. B \in Seq(Items) /\ C \in Seq(Items) /\ s \in Seq(Items)
    BY <1>1, <1>2, <1>3
  <2>2. \A n \in 1..Len(a) : s[n] = a[n]
    BY <1>3
  <2>3. Joins(s, a, B, C)
    BY <1>4, <1>5, <1>6, <2>2 DEF Joins
  <2> QED BY <2>1, <2>3, SameParts
<1> QED BY <1>7 DEF s, B, C

LEMMA DeferAll ==
    ASSUME NEW a \in Seq(Items), NEW b \in Seq(Items), NEW c \in Seq(Items)
    PROVE  ((a \o b) \o <<>>) \o c = (a \o b) \o c
OBVIOUS

LEMMA AppendQueued ==
    ASSUME NEW S, NEW a \in Seq(S), NEW b \in Seq(S), NEW c, c = <<>>,
           NEW x \in S
    PROVE  /\ Len((a \o Append(b, x)) \o c) = Len((a \o b) \o c) + 1
           /\ \A n \in 1..Len((a \o b) \o c) :
                 ((a \o Append(b, x)) \o c)[n] = ((a \o b) \o c)[n]
           /\ ((a \o Append(b, x)) \o c)[Len((a \o b) \o c) + 1] = x
OBVIOUS

(* s without x, in the same order.                                         *)
Leaves(s, x, t) ==
    /\ \A m, n \in 1..Len(t) : t[m] = t[n] => m = n
    /\ \A y : (\E n \in 1..Len(t) : t[n] = y)
                 <=> (\E n \in 1..Len(s) : s[n] = y) /\ y # x
    /\ \A m, n \in 1..Len(t) : m < n => Precedes(s, t[m], t[n])
    /\ \A y, z : Precedes(s, y, z) /\ y # x /\ z # x => Precedes(t, y, z)

LEMMA LeftInOrder ==
    ASSUME NEW s, NEW t, Len(s) \in Nat, NEW k \in 1..Len(s),
           Without(k, s, t),
           \A m, n \in 1..Len(s) : s[m] = s[n] => m = n
    PROVE  Leaves(s, s[k], t)
<1>1. /\ Len(t) = Len(s) - 1
      /\ \A n \in 1..Len(t) : t[n] = IF n < k THEN s[n] ELSE s[n + 1]
  BY DEF Without
<1>2. ASSUME NEW m \in 1..Len(t), NEW n \in 1..Len(t)
      PROVE  /\ t[m] = t[n] => m = n
             /\ t[n] # s[k]
             /\ \E j \in 1..Len(s) : s[j] = t[n]
             /\ m < n => Precedes(s, t[m], t[n])
  <2> DEFINE M == IF m < k THEN m ELSE m + 1
             N == IF n < k THEN n ELSE n + 1
  <2>1. /\ M \in 1..Len(s) /\ N \in 1..Len(s) /\ N # k
        /\ t[m] = s[M] /\ t[n] = s[N]
        /\ M = N => m = n
        /\ m < n => M < N
    BY <1>1
  <2> HIDE DEF M, N
  <2>2. t[m] = t[n] => m = n
    BY <2>1
  <2>3. t[n] # s[k]
    BY <2>1
  <2> QED BY <2>1, <2>2, <2>3 DEF Precedes
<1>3. ASSUME NEW m \in 1..Len(s), m # k, NEW n \in 1..Len(s), n # k
      PROVE  /\ \E j \in 1..Len(t) : t[j] = s[n]
             /\ m < n => Precedes(t, s[m], s[n])
  <2> DEFINE M == IF m < k THEN m ELSE m - 1
             N == IF n < k THEN n ELSE n - 1
  <2>1. /\ M \in 1..Len(t) /\ N \in 1..Len(t)
        /\ t[M] = s[m] /\ t[N] = s[n]
        /\ m < n => M < N
    BY <1>1, <1>3
  <2> HIDE DEF M, N
  <2> QED BY <2>1 DEF Precedes
<1>4. \A m, n \in 1..Len(t) : t[m] = t[n] => m = n
  BY <1>2
<1>5. \A m, n \in 1..Len(t) : m < n => Precedes(s, t[m], t[n])
  BY <1>2
<1>6. ASSUME NEW x PROVE (\E n \in 1..Len(t) : t[n] = x)
                           <=> (\E n \in 1..Len(s) : s[n] = x) /\ x # s[k]
  <2>1. ASSUME NEW n \in 1..Len(t), t[n] = x
        PROVE  (\E m \in 1..Len(s) : s[m] = x) /\ x # s[k]
    BY <1>2, <2>1
  <2>2. ASSUME NEW n \in 1..Len(s), s[n] = x, x # s[k]
        PROVE  \E m \in 1..Len(t) : t[m] = x
    BY <1>3, <2>2
  <2> QED BY <2>1, <2>2
<1>7. ASSUME NEW x, NEW y, Precedes(s, x, y), x # s[k], y # s[k]
      PROVE  Precedes(t, x, y)
  <2>1. PICK m \in 1..Len(s), n \in 1..Len(s) : m < n /\ s[m] = x /\ s[n] = y
    BY <1>7 DEF Precedes
  <2>2. m # k /\ n # k
    BY <1>7, <2>1
  <2> QED BY <1>3, <2>1, <2>2
<1> QED BY <1>4, <1>5, <1>6, <1>7 DEF Leaves
-----------------------------------------------------------------------------
(* What each part of the invariant depends on.                             *)

LEMMA BookFrame ==
    ASSUME Book, UNCHANGED <<order, phase, attached>>
    PROVE  Book'
BY DEF Book, Active

LEMMA IdsFrame ==
    ASSUME IdsDiffer, UNCHANGED <<order, packetId, pending, requestId>>
    PROVE  IdsDiffer'
BY DEF IdsDiffer, Active

LEMMA StagesFrame ==
    ASSUME Stages,
           UNCHANGED <<stage, cause, writer, pending, everReady, replay, order>>
    PROVE  Stages'
BY DEF Stages, Alive, Idle

LEMMA DeadFrame ==
    ASSUME DeadIsEmpty,
           UNCHANGED <<cause, attached, pending, outgoing, deferred, owed, acks>>
    PROVE  DeadIsEmpty'
BY DEF DeadIsEmpty, Alive

LEMMA CountsFrame ==
    ASSUME Counts,
           UNCHANGED <<slots, attached, phase, pending, order, outgoing,
                       deferred, businessDepth, credit, receiveMaximum>>
    PROVE  Counts'
BY DEF Counts, Active, InFlight

LEMMA ExchangesFrame ==
    ASSUME Exchanges,
           UNCHANGED <<owed, acks, attached, phase, pending, started, cause,
                       writer, onWire, copies>>
    PROVE  Exchanges'
BY DEF Exchanges, Open, InFlight, Alive

LEMMA LineFrame ==
    ASSUME LineUp,
           UNCHANGED <<cause, order, Line>>,
           \A d \in Deliveries :
              phase'[d] = "AwaitingAck" <=> phase[d] = "AwaitingAck",
           order \in Seq(Deliveries)
    PROVE  LineUp'
<1>1. \A n \in 1..Len(order) : order[n] \in Deliveries
  OBVIOUS
<1>2. LineExact => LineExact'
  BY DEF LineExact, InLine, Active
<1>3. Alive' = Alive
  BY DEF Alive
<1>4. LineOnce => LineOnce'
  BY DEF LineOnce
<1>5. LineSorted => LineSorted'
  BY DEF LineSorted
<1>6. StartedFirst => StartedFirst'
  BY <1>1 DEF StartedFirst
<1> QED BY <1>2, <1>3, <1>4, <1>5, <1>6 DEF LineUp

LEMMA QueuesFrame ==
    ASSUME Queues, UNCHANGED <<outgoing, deferred, attached, pending, started>>
    PROVE  Queues'
BY DEF Queues

LEMMA HistoryFrame ==
    ASSUME History,
           UNCHANGED <<copies, started, phase, answered, owed, acks, attempts,
                       attached, onWire>>
    PROVE  History'
BY DEF History

(* Everything that waits is finite.                                        *)
LEMMA Finite ==
    ASSUME TypeOK, Book
    PROVE  /\ IsFiniteSet(Active) /\ Active \subseteq Deliveries
           /\ IsFiniteSet(attached) /\ IsFiniteSet(InFlight)
           /\ IsFiniteSet(pending)
           /\ Cardinality(Active) \in Nat /\ Cardinality(attached) \in Nat
           /\ Cardinality(InFlight) \in Nat /\ Cardinality(pending) \in Nat
           /\ Cardinality(attached) <= Cardinality(Active)
           /\ Cardinality(InFlight) <= Cardinality(attached)
<1>1. Active \subseteq Deliveries
  <2>1. order \in Seq(Deliveries)
    BY DEF TypeOK
  <2> QED BY <2>1, Elements DEF Active
<1>2. IsFiniteSet(Deliveries) /\ IsFiniteSet(Requests)
  BY DeliveriesAssumption
<1>3. IsFiniteSet(Active) /\ IsFiniteSet(pending)
  BY <1>1, <1>2, FS_Subset DEF TypeOK
<1>4. attached \in SUBSET Active /\ InFlight \in SUBSET attached
  BY DEF Book, InFlight
<1>5. IsFiniteSet(attached) /\ Cardinality(attached) <= Cardinality(Active)
  BY <1>3, <1>4, FS_Subset
<1>6. IsFiniteSet(InFlight) /\ Cardinality(InFlight) <= Cardinality(attached)
  BY <1>4, <1>5, FS_Subset
<1> QED BY <1>1, <1>3, <1>5, <1>6, FS_CardinalityType

(* The line is a sequence of items that do wait.                           *)
LEMMA LineType ==
    ASSUME TypeOK
    PROVE  /\ Line \in Seq(Items)
           /\ Len(Line) = Len(deferred) + Len(outgoing) + Len(replay)
           /\ \A n \in 1..Len(deferred) : Line[n] = deferred[n]
           /\ \A n \in 1..Len(outgoing) :
                 Line[Len(deferred) + n] = outgoing[n]
           /\ \A n \in 1..Len(replay) :
                 Line[Len(deferred) + Len(outgoing) + n] = replay[n]
<1>1. /\ deferred \in Seq(Items) /\ outgoing \in Seq(Items)
      /\ replay \in Seq(Items)
  BY DEF TypeOK, Items
<1> QED BY <1>1, LineParts DEF Line

LEMMA ReplayHead ==
    ASSUME TypeOK, LineUp, NEW d \in Deliveries, Replays(d)
    PROVE  InLine(d) /\ d \in Active /\ phase[d] # "AwaitingAck"
<1>1. replay \in Seq(Deliveries) /\ Len(replay) \in Nat \ {0} /\ replay[1] = d
  BY DEF TypeOK, Replays
<1>2. Line[Len(deferred) + Len(outgoing) + 1] = d
  BY <1>1, LineType
<1>3. /\ Len(deferred) \in Nat /\ Len(outgoing) \in Nat
      /\ Len(Line) = Len(deferred) + Len(outgoing) + Len(replay)
  BY LineType DEF TypeOK
<1>4. InLine(d)
  <2>1. Len(deferred) + Len(outgoing) + 1 \in 1..Len(Line)
    BY <1>1, <1>3
  <2> QED BY <1>2, <2>1 DEF InLine
<1> QED BY <1>4 DEF LineUp, LineExact, Replays
-----------------------------------------------------------------------------
LEMMA InitKeeps ==
    ASSUME Init
    PROVE  IInv
<1> USE DeliveriesAssumption
<1>1. TypeOK
  <2>1. phase \in [Deliveries -> {"new"} \cup Waiting \cup Terminal]
    BY DEF Init
  <2>2. writer \in [at : {"idle", "started", "writing"},
                   item : Items \cup {NoItem}, dup : BOOLEAN]
    BY DEF Init, Idle
  <2>3. nextPacketId \in PacketIds /\ nextId \in PacketIds
    BY DEF Init, PacketIds
  <2>4. /\ packetId \in [Deliveries -> 0..MaxPacketId]
        /\ requestId \in [Requests -> 0..MaxPacketId]
    BY DEF Init
  <2>5. /\ order \in Seq(Deliveries) /\ replay \in Seq(Deliveries)
        /\ outgoing \in Seq(Items) /\ deferred \in Seq(Deliveries)
    BY DEF Init
  <2>6. /\ attempts \in [Deliveries -> Nat] /\ copies \in [Deliveries -> Nat]
        /\ deadline \in [Deliveries -> {"none", "start", "ack"}]
    BY DEF Init
  <2>7. /\ stage \in {"dialing", "replaying", "ready", "ended"}
        /\ cause \in {"none", "closed", "lost", "exhausted", "rejected",
                      "fatal", "unexpected"}
        /\ stopped \in BOOLEAN /\ everReady \in BOOLEAN /\ failures \in Nat
    BY DEF Init
  <2>8. /\ started \subseteq Items /\ attached \subseteq Deliveries
        /\ slots \in Nat /\ pending \subseteq Requests
        /\ businessDepth \in Nat /\ credit \in Nat /\ receiveMaximum \in Nat
        /\ onWire \subseteq Items /\ owed \subseteq Items /\ acks \subseteq Items
        /\ answered \subseteq Deliveries
    BY DEF Init
  <2> QED BY <2>1, <2>2, <2>3, <2>4, <2>5, <2>6, <2>7, <2>8 DEF TypeOK
<1>2. Active = {} /\ Line = <<>> /\ InFlight = {}
  <2>1. order \in Seq(Deliveries) /\ 1..Len(order) = {}
    BY DEF Init
  <2>2. Active = {}
    BY <2>1, Elements DEF Active
  <2> QED BY <2>2 DEF Init, Line, InFlight
<1>3. Book
  BY <1>2 DEF Init, Book, Waiting
<1>4. IdsDiffer /\ Stages /\ DeadIsEmpty
  BY <1>2 DEF Init, IdsDiffer, Stages, DeadIsEmpty, Alive
<1>5. Counts
  BY <1>2, FS_EmptySet DEF Init, Counts
<1>6. Exchanges /\ LineUp /\ Queues
  BY <1>2 DEF Init, Exchanges, LineUp, Queues, Alive, InFlight
<1>7. History
  BY DEF Init, History
<1> QED BY <1>1, <1>3, <1>4, <1>5, <1>6, <1>7 DEF IInv, Kept

LEMMA StutterKeeps ==
    ASSUME IInv, UNCHANGED vars
    PROVE  IInv'
<1> USE DEF vars, clientVars, bookVars, sessionVars, queueVars, peerVars,
            wireVars
<1>1. TypeOK'
  BY DEF IInv, TypeOK
<1>2. Line' = Line
  BY DEF Line
<1>3. LineUp'
  BY <1>2, LineFrame DEF IInv, Kept, TypeOK
<1> QED BY <1>1, <1>3, BookFrame, IdsFrame, StagesFrame, DeadFrame, CountsFrame,
           ExchangesFrame, QueuesFrame, HistoryFrame DEF IInv, Kept
-----------------------------------------------------------------------------
(* The end of a connection, and of the client.                             *)

LEMMA AbortKeeps ==
    ASSUME IInv, NEW error \in {"closed", "lost", "exhausted", "rejected",
                                "fatal"},
           CloseSession(error), stage \in {"replaying", "ready"},
           phase' = Detached,
           deadline' \in [Deliveries -> {"none", "start", "ack"}],
           attempts' \in [Deliveries -> Nat],
           \A d \in Deliveries : /\ attempts[d] <= attempts'[d]
                                 /\ attempts'[d] <= ReconnectAttempts + 1
                                 /\ phase[d] = "new" => attempts'[d] = attempts[d],
           UNCHANGED <<stage, stopped, everReady, failures, order, writer,
                       replay>>
    PROVE  IInv'
<1> USE DEF IInv, Kept
<1>1. TypeOK'
  <2>1. phase' \in [Deliveries -> {"new"} \cup Waiting \cup Terminal]
    BY DEF TypeOK, Detached, Waiting
  <2> QED BY <2>1 DEF TypeOK, CloseSession
<1>2. /\ \A d \in Deliveries :
            phase'[d] = IF d \in attached THEN "AwaitingReconnect" ELSE phase[d]
      /\ Active' = Active
  BY DEF Detached, Active
<1>3. Book'
  <2>1. attached' = {} /\ order' = order /\ Active \subseteq Deliveries
    BY Finite DEF CloseSession
  <2>2. \A d \in Deliveries :
            phase'[d] \in Waiting <=> phase[d] \in Waiting
    BY <1>2 DEF Book, Waiting
  <2>3. \A d \in Active : phase'[d] = "AwaitingReconnect"
    BY <1>2, <2>1 DEF Book
  <2> QED BY <1>2, <2>1, <2>2, <2>3 DEF Book
<1>4. IdsDiffer'
  BY <1>2 DEF IdsDiffer, CloseSession
<1>5. Stages' /\ DeadIsEmpty' /\ ~Alive' /\ LineUp'
  BY DEF Stages, DeadIsEmpty, CloseSession, Alive, LineUp
<1>6. Counts'
  <2>1. InFlight' = {} /\ attached' = {} /\ pending' = {}
    BY DEF InFlight, CloseSession
  <2>2. Cardinality({}) = 0
    BY FS_EmptySet
  <2>3. /\ Len(order') = Cardinality(Active') /\ Len(order') <= MaxInflight
        /\ receiveMaximum' = receiveMaximum /\ receiveMaximum \in Nat
        /\ slots' = 0 /\ credit' = 0 /\ businessDepth' = 0
        /\ outgoing' = <<>> /\ deferred' = <<>>
        /\ MaxInflight \in Nat /\ SendCapacity \in Nat
    BY <1>2, DeliveriesAssumption DEF Counts, TypeOK, CloseSession
  <2> QED BY <2>1, <2>2, <2>3 DEF Counts
<1>7. Exchanges' /\ Queues'
  BY <1>5 DEF Exchanges, Queues, CloseSession, InFlight, TypeOK
<1>8. History'
  <2> SUFFICES ASSUME NEW d \in Deliveries PROVE
        (/\ copies[d] > 0 => d \in started
         /\ d \in started => phase[d] \notin {"new", "TerminalNotSent"}
         /\ phase[d] \in {"AwaitingAck", "TerminalOutcomeUnknown"}
              => d \in started
         /\ phase[d] \in {"Acknowledged", "Rejected"} => d \in answered
         /\ d \in owed \cup acks => copies[d] > 0
         /\ d \in answered => copies[d] > 0
         /\ d \in acks => d \in answered
         /\ copies[d] <= attempts[d] /\ attempts[d] <= ReconnectAttempts + 1
         /\ phase[d] = "new" => attempts[d] = 0
         /\ d \in attached /\ d \notin onWire => copies[d] < attempts[d])'
    BY DEF History
  <2>1. d \in started' <=> d \in started
    BY DeliveriesAssumption DEF CloseSession
  <2>2. /\ attempts'[d] \in Nat /\ attempts[d] \in Nat /\ copies[d] \in Nat
        /\ ReconnectAttempts \in Nat
    BY DeliveriesAssumption DEF TypeOK
  <2>3. d \in attached => phase[d] \in {"Queued", "AwaitingAck"}
    BY DEF Book
  <2> QED BY <1>2, <2>1, <2>2, <2>3 DEF History, CloseSession
<1> QED BY <1>1, <1>3, <1>4, <1>5, <1>6, <1>7, <1>8

LEMMA PlainAbortKeeps ==
    ASSUME IInv, Alive, NEW error \in {"lost", "exhausted", "rejected", "fatal"},
           Abort(error), UNCHANGED <<clientVars, writer, replay>>
    PROVE  IInv'
<1>1. stage \in {"replaying", "ready"}
  BY DEF IInv, Kept, Stages, TypeOK
<1>2. deadline' \in [Deliveries -> {"none", "start", "ack"}]
  BY DEF Abort, WithoutDeadlines, IInv, TypeOK
<1>3. /\ attempts' \in [Deliveries -> Nat]
      /\ \A d \in Deliveries : /\ attempts[d] <= attempts'[d]
                               /\ attempts'[d] <= ReconnectAttempts + 1
                               /\ phase[d] = "new" => attempts'[d] = attempts[d]
  BY DEF Abort, IInv, TypeOK, Kept, History
<1> QED BY <1>1, <1>2, <1>3, AbortKeeps DEF Abort, clientVars

(* Requests and sends are gone; the book is settled.                       *)
LEMMA EndsKeeps ==
    ASSUME IInv, Ends, ~Alive', cause' \in {"closed", "lost", "exhausted",
                                            "rejected", "fatal"},
           attached' = {}, slots' = 0, pending' = {},
           outgoing' = <<>>, deferred' = <<>>, businessDepth' = 0,
           credit' = 0, owed' = {}, acks' = {}, started' = started \ Requests,
           UNCHANGED <<nextPacketId, packetId, requestId, nextId,
                       receiveMaximum, copies, onWire, answered>>
    PROVE  IInv'
<1> USE DEF IInv, Kept
<1>1. TypeOK'
  <2>1. phase' \in [Deliveries -> {"new"} \cup Waiting \cup Terminal]
    BY DEF TypeOK, Ends, Outcome, Terminal
  <2>2. deadline' \in [Deliveries -> {"none", "start", "ack"}]
    BY DEF TypeOK, Ends, WithoutDeadlines
  <2>3. writer' \in [at : {"idle", "started", "writing"},
                     item : Items \cup {NoItem}, dup : BOOLEAN]
    BY DEF Ends, Idle
  <2> QED BY <2>1, <2>2, <2>3 DEF TypeOK, Ends
<1>2. Active' = {} /\ order' = <<>> /\ 1..Len(order') = {}
  <2>1. order' \in Seq(Deliveries) /\ order' = <<>> /\ 1..Len(order') = {}
    BY DEF Ends
  <2>2. \A x : x \in Range(order') <=> \E n \in 1..Len(order') : order'[n] = x
    BY <2>1, Elements
  <2> QED BY <2>1, <2>2 DEF Active
<1>3. \A d \in Deliveries :
         phase'[d] = IF d \in Active
                     THEN IF d \in started THEN "TerminalOutcomeUnknown"
                                           ELSE "TerminalNotSent"
                     ELSE phase[d]
  BY DEF Ends, Outcome
<1>4. Book'
  BY <1>2, <1>3 DEF Book, Waiting
<1>5. IdsDiffer' /\ Stages' /\ DeadIsEmpty' /\ LineUp'
  BY <1>2 DEF IdsDiffer, Stages, DeadIsEmpty, LineUp, Ends
<1>6. Counts'
  <2>1. InFlight' = {}
    BY DEF InFlight
  <2>2. Cardinality({}) = 0 /\ Len(order') = 0
    BY <1>2, FS_EmptySet
  <2>3. receiveMaximum' \in Nat /\ MaxInflight \in Nat /\ SendCapacity \in Nat
    BY DeliveriesAssumption DEF TypeOK
  <2> QED BY <1>2, <2>1, <2>2, <2>3 DEF Counts
<1>7. Exchanges' /\ Queues'
  BY DEF Exchanges, Queues, InFlight, TypeOK
<1>8. History'
  <2> SUFFICES ASSUME NEW d \in Deliveries PROVE
        (/\ copies[d] > 0 => d \in started
         /\ d \in started => phase[d] \notin {"new", "TerminalNotSent"}
         /\ phase[d] \in {"AwaitingAck", "TerminalOutcomeUnknown"}
              => d \in started
         /\ phase[d] \in {"Acknowledged", "Rejected"} => d \in answered
         /\ d \in owed \cup acks => copies[d] > 0
         /\ d \in answered => copies[d] > 0
         /\ d \in acks => d \in answered
         /\ copies[d] <= attempts[d] /\ attempts[d] <= ReconnectAttempts + 1
         /\ phase[d] = "new" => attempts[d] = 0
         /\ d \in attached /\ d \notin onWire => copies[d] < attempts[d])'
    BY DEF History
  <2>1. d \in started' <=> d \in started
    BY DeliveriesAssumption
  <2>2. attempts' = attempts /\ copies' = copies
    BY DEF Ends
  <2>3. CASE d \in Active
    BY <1>3, <2>1, <2>2, <2>3 DEF History
  <2>4. CASE d \notin Active
    BY <1>3, <2>1, <2>2, <2>4 DEF History
  <2> QED BY <2>3, <2>4
<1> QED BY <1>1, <1>4, <1>5, <1>6, <1>7, <1>8

(* What a dead session leaves, when nothing of it changes.                 *)
LEMMA DeadSession ==
    ASSUME IInv, ~Alive
    PROVE  /\ attached = {} /\ slots = 0 /\ pending = {}
           /\ outgoing = <<>> /\ deferred = <<>> /\ businessDepth = 0
           /\ credit = 0 /\ owed = {} /\ acks = {}
           /\ started = started \ Requests
           /\ cause \in {"closed", "lost", "exhausted", "rejected", "fatal"}
<1> USE DEF IInv, Kept
<1>1. /\ attached = {} /\ pending = {} /\ outgoing = <<>> /\ deferred = <<>>
      /\ owed = {} /\ acks = {}
  BY DEF DeadIsEmpty
<1>2. InFlight = {}
  BY <1>1 DEF InFlight
<1>3. slots = 0 /\ credit = 0 /\ businessDepth = 0
  BY <1>1, <1>2, FS_EmptySet DEF Counts
<1>4. started = started \ Requests
  BY <1>1 DEF Queues
<1>5. cause \in {"closed", "lost", "exhausted", "rejected", "fatal"}
  BY DEF TypeOK, Exchanges, Alive
<1> QED BY <1>1, <1>3, <1>4, <1>5

LEMMA DisconnectEndsKeeps ==
    ASSUME IInv, DisconnectEnds
    PROVE  IInv'
<1>1. /\ CloseSession(IF Alive THEN "lost" ELSE cause) /\ Ends
  BY DEF DisconnectEnds
<1>2. (IF Alive THEN "lost" ELSE cause) \in {"closed", "lost", "exhausted",
                                             "rejected", "fatal"}
  BY DeadSession
<1>3. ~Alive'
  BY <1>1, <1>2 DEF CloseSession, Alive
<1> QED BY <1>1, <1>2, <1>3, EndsKeeps DEF CloseSession

(* The supervisor waits for the next dial with everything as it is.        *)
LEMMA RedialKeeps ==
    ASSUME IInv, ~Alive, stage' = "dialing", failures' \in Nat,
           replay' = <<>>, writer' = Idle,
           everReady, UNCHANGED <<stopped, everReady, order, phase, attempts,
               deadline, cause, nextPacketId, packetId, started, sessionVars,
               queueVars, wireVars, peerVars>>
    PROVE  IInv'
<1> USE DEF IInv, Kept, sessionVars, queueVars, wireVars, peerVars
<1>1. TypeOK'
  <2>1. writer' \in [at : {"idle", "started", "writing"},
                     item : Items \cup {NoItem}, dup : BOOLEAN]
    BY DEF Idle
  <2>2. replay' \in Seq(Deliveries)
    OBVIOUS
  <2> QED BY <2>1, <2>2 DEF TypeOK
<1>2. Stages' /\ LineUp'
  BY DeadSession DEF Stages, LineUp, Alive, Idle
<1>3. Exchanges'
  BY DEF Exchanges, Open, InFlight, Alive
<1> QED BY <1>1, <1>2, <1>3, BookFrame, IdsFrame, DeadFrame, CountsFrame,
           QueuesFrame, HistoryFrame

LEMMA DeadEndKeeps ==
    ASSUME IInv, ~Alive, Ends \/ TryAgain,
           UNCHANGED <<cause, nextPacketId, packetId, started, sessionVars,
                       queueVars, wireVars, peerVars>>
    PROVE  IInv'
<1>1. CASE Ends
  <2> USE DEF sessionVars, queueVars, wireVars, peerVars
  <2>1. ~Alive'
    BY DEF Alive
  <2> QED BY <1>1, <2>1, DeadSession, EndsKeeps
<1>2. CASE TryAgain /\ ~Ends
  <2>1. /\ everReady /\ stage' = "dialing" /\ failures' = failures + 1
        /\ replay' = <<>> /\ writer' = Idle
        /\ UNCHANGED <<stopped, everReady, order, phase, attempts, deadline>>
    BY <1>2 DEF TryAgain, IInv, TypeOK
  <2>2. failures' \in Nat
    BY <2>1 DEF IInv, TypeOK
  <2> QED BY <2>1, <2>2, RedialKeeps
<1> QED BY <1>1, <1>2

LEMMA SupervisorEndsKeep ==
    ASSUME IInv, DialFails \/ DialFindsNoSession \/ ConnectionEnds
    PROVE  IInv'
<1>1. ~Alive
  BY DEF DialFails, DialFindsNoSession, ConnectionEnds, IInv, Kept, Stages
<1> QED BY <1>1, DeadEndKeeps
    DEF DialFails, DialFindsNoSession, ConnectionEnds
-----------------------------------------------------------------------------
(* The application.                                                        *)

LEMMA SmallStepsKeep ==
    ASSUME IInv, \/ Disconnect \/ BecomesReady \/ WriteReturns
                 \/ \E d \in Deliveries : SubmitRefused(d)
    PROVE  IInv'
<1> USE DEF IInv, Kept, clientVars, bookVars, sessionVars, queueVars, wireVars,
            peerVars
<1>1. /\ UNCHANGED <<cause, order, phase, packetId, attempts, started, attached,
                     slots, pending, requestId, outgoing, deferred,
                     businessDepth, credit, receiveMaximum, replay, copies,
                     onWire, owed, acks, answered, nextId>>
      /\ Line' = Line
  BY DEF Disconnect, BecomesReady, WriteReturns, SubmitRefused, Line
<1>2. TypeOK'
  <2>1. CASE Disconnect
    BY <2>1 DEF TypeOK, Disconnect
  <2>4. CASE BecomesReady
    BY <2>4 DEF TypeOK, BecomesReady
  <2>2. CASE WriteReturns
    <3>1. writer' \in [at : {"idle", "started", "writing"},
                       item : Items \cup {NoItem}, dup : BOOLEAN]
      BY <2>2 DEF WriteReturns, Idle
    <3>2. deadline' \in [Deliveries -> {"none", "start", "ack"}]
      BY <2>2 DEF WriteReturns, AckDeadline, TypeOK
    <3> QED BY <2>2, <3>1, <3>2 DEF TypeOK, WriteReturns
  <2>3. ASSUME NEW d \in Deliveries, SubmitRefused(d) PROVE TypeOK'
    <3>1. nextPacketId' \in PacketIds
      BY <2>3, DeliveriesAssumption
      DEF SubmitRefused, FirstFree, FreeIds, Successor, PacketIds
    <3> QED BY <2>3, <3>1 DEF TypeOK, SubmitRefused
  <2> QED BY <2>1, <2>2, <2>3, <2>4
<1>3. Stages'
  <2>1. CASE Disconnect
    BY <2>1, StagesFrame DEF Disconnect
  <2>2. CASE BecomesReady
    BY <2>2 DEF BecomesReady, Stages, Alive
  <2>3. CASE WriteReturns
    BY <2>3 DEF WriteReturns, Stages, Alive
  <2>4. CASE \E d \in Deliveries : SubmitRefused(d)
    BY <2>4, StagesFrame DEF SubmitRefused
  <2> QED BY <2>1, <2>2, <2>3, <2>4
<1>4. Exchanges'
  <2>1. CASE WriteReturns
    BY <1>1, <2>1 DEF WriteReturns, Exchanges, Open, InFlight, Idle, Alive
  <2>2. CASE ~WriteReturns
    <3>1. writer' = writer
      BY <2>2 DEF Disconnect, BecomesReady, SubmitRefused
    <3> QED BY <1>1, <3>1, ExchangesFrame
  <2> QED BY <2>1, <2>2
<1>5. LineUp'
  BY <1>1, LineFrame DEF TypeOK
<1> QED BY <1>1, <1>2, <1>3, <1>4, <1>5, BookFrame, IdsFrame, DeadFrame,
           CountsFrame, QueuesFrame, HistoryFrame

(* An identifier that is free is none of those in use.                     *)
LEMMA FreeId ==
    ASSUME TypeOK, NEW i, NEW from \in PacketIds, FirstFree(i, from)
    PROVE  /\ i \in PacketIds /\ Successor(i) \in PacketIds
           /\ i \in 0..MaxPacketId
           /\ \A d \in Active : packetId[d] # i
           /\ \A r \in pending : requestId[r] # i
BY DeliveriesAssumption
DEF FirstFree, FreeIds, Reserved, Successor, PacketIds, TypeOK

(* A record is attached: one place more, and nothing started.              *)
LEMMA AttachCounts ==
    ASSUME TypeOK, Book, Counts, NEW d \in Deliveries, Attach(d),
           d \notin attached, phase[d] # "AwaitingAck"
    PROVE  /\ InFlight' = InFlight
           /\ slots' = Cardinality(attached')
           /\ IsFiniteSet(attached')
           /\ \A e \in Deliveries :
                 /\ phase'[e] = IF e = d THEN "Queued" ELSE phase[e]
                 /\ attempts'[e] = IF e = d THEN attempts[e] + 1
                                            ELSE attempts[e]
           /\ phase' \in [Deliveries -> {"new"} \cup Waiting \cup Terminal]
           /\ attempts' \in [Deliveries -> Nat]
           /\ deadline' \in [Deliveries -> {"none", "start", "ack"}]
           /\ attached' = attached \cup {d} /\ slots' \in Nat
<1>1. /\ attached' = attached \cup {d} /\ slots' = slots + 1
      /\ \A e \in Deliveries :
            /\ phase'[e] = IF e = d THEN "Queued" ELSE phase[e]
            /\ attempts'[e] = IF e = d THEN attempts[e] + 1 ELSE attempts[e]
  BY DEF Attach, TypeOK, Counted
<1>2. IsFiniteSet(attached)
  BY Finite
<1>3. IsFiniteSet(attached') /\ Cardinality(attached') = Cardinality(attached) + 1
  BY <1>1, <1>2, FS_AddElement
<1>4. InFlight' = InFlight
  BY <1>1 DEF InFlight, TypeOK
<1>5. /\ phase' \in [Deliveries -> {"new"} \cup Waiting \cup Terminal]
      /\ attempts' \in [Deliveries -> Nat]
      /\ deadline' \in [Deliveries -> {"none", "start", "ack"}]
      /\ slots' \in Nat
  BY DEF Attach, TypeOK, Waiting, Counted
<1> QED BY <1>1, <1>3, <1>4, <1>5 DEF Counts

(* The attempt is counted before any copy of the new connection.           *)
LEMMA AttachHistory ==
    ASSUME TypeOK, Book, History, NEW d \in Deliveries, d \notin attached,
           phase[d] \in {"new", "AwaitingReconnect"}, ~Exhausted(d),
           attached' = attached \cup {d},
           \A e \in Deliveries :
              /\ phase'[e] = IF e = d THEN "Queued" ELSE phase[e]
              /\ attempts'[e] = IF e = d THEN attempts[e] + 1 ELSE attempts[e],
           UNCHANGED <<copies, started, answered, owed, acks, onWire>>
    PROVE  History'
<1> SUFFICES ASSUME NEW e \in Deliveries PROVE
      (/\ copies[e] > 0 => e \in started
       /\ e \in started => phase[e] \notin {"new", "TerminalNotSent"}
       /\ phase[e] \in {"AwaitingAck", "TerminalOutcomeUnknown"}
            => e \in started
       /\ phase[e] \in {"Acknowledged", "Rejected"} => e \in answered
       /\ e \in owed \cup acks => copies[e] > 0
       /\ e \in answered => copies[e] > 0
       /\ e \in acks => e \in answered
       /\ copies[e] <= attempts[e] /\ attempts[e] <= ReconnectAttempts + 1
       /\ phase[e] = "new" => attempts[e] = 0
       /\ e \in attached /\ e \notin onWire => copies[e] < attempts[e])'
  BY DEF History
<1>1. /\ attempts[e] \in Nat /\ copies[e] \in Nat /\ ReconnectAttempts \in Nat
  BY DeliveriesAssumption DEF TypeOK
<1>2. attempts[d] <= ReconnectAttempts
  BY DeliveriesAssumption DEF Exhausted, TypeOK
<1>3. CASE e = d
  BY <1>1, <1>2, <1>3 DEF History
<1>4. CASE e # d
  BY <1>1, <1>4 DEF History
<1> QED BY <1>3, <1>4

LEMMA SubmitDeliveryKeeps ==
    ASSUME IInv, NEW d \in Deliveries, SubmitDelivery(d)
    PROVE  IInv'
<1> USE DEF IInv, Kept
<1>1. /\ stage = "ready" /\ Alive /\ replay = <<>> /\ phase[d] = "new"
      /\ d \notin Active /\ d \notin attached
      /\ Room /\ PlaceForDelivery /\ everReady
  BY DEF SubmitDelivery, MayCall, Stages, Book, Waiting
<1>2. PICK i : /\ FirstFree(i, nextPacketId)
               /\ packetId' = [packetId EXCEPT ![d] = i]
               /\ nextPacketId' = Successor(i)
  BY DEF SubmitDelivery
<1>3. /\ order' = Append(order, d) /\ Attach(d)
      /\ outgoing' = Append(outgoing, d) /\ businessDepth' = businessDepth + 1
      /\ UNCHANGED <<clientVars, cause, started, pending, requestId, nextId,
                     deferred, credit, receiveMaximum, writer, replay,
                     wireVars, peerVars>>
  BY DEF SubmitDelivery, Enqueue
<1>4. /\ InFlight' = InFlight /\ slots' = Cardinality(attached')
      /\ \A e \in Deliveries :
            /\ phase'[e] = IF e = d THEN "Queued" ELSE phase[e]
            /\ attempts'[e] = IF e = d THEN attempts[e] + 1 ELSE attempts[e]
      /\ phase' \in [Deliveries -> {"new"} \cup Waiting \cup Terminal]
      /\ attempts' \in [Deliveries -> Nat]
      /\ deadline' \in [Deliveries -> {"none", "start", "ack"}]
      /\ attached' = attached \cup {d} /\ slots' \in Nat
  BY <1>1, <1>3, AttachCounts
<1>5. /\ order' \in Seq(Deliveries) /\ Len(order') = Len(order) + 1
      /\ Len(order) \in Nat
      /\ \A n \in 1..Len(order) : order'[n] = order[n]
      /\ order'[Len(order) + 1] = d
      /\ Active' = Active \cup {d}
  <2>1. order \in Seq(Deliveries)
    BY DEF TypeOK
  <2>2. Active' = Active \cup {d}
    BY <1>3, <2>1, RangeAppend DEF Active
  <2>3. /\ Append(order, d) \in Seq(Deliveries)
        /\ Len(Append(order, d)) = Len(order) + 1
        /\ \A n \in 1..Len(order) : Append(order, d)[n] = order[n]
        /\ Append(order, d)[Len(order) + 1] = d
    BY <2>1, Append1
  <2> QED BY <1>3, <2>1, <2>2, <2>3
<1>6. \A n \in 1..Len(order) : order[n] \in Active
  BY Elements DEF TypeOK, Active
<1>7. /\ outgoing' \in Seq(Items) /\ Len(outgoing') = Len(outgoing) + 1
      /\ Len(outgoing) \in Nat
      /\ \A n \in 1..Len(outgoing) : outgoing'[n] = outgoing[n]
      /\ outgoing'[Len(outgoing) + 1] = d
  <2>1. outgoing \in Seq(Items) /\ d \in Items
    BY DEF TypeOK, Items
  <2> QED BY <1>3, <2>1, Append1
<1>8. TypeOK'
  <2>1. i \in 0..MaxPacketId /\ Successor(i) \in PacketIds
    BY <1>2, FreeId DEF TypeOK
  <2>2. /\ packetId' \in [Deliveries -> 0..MaxPacketId]
        /\ nextPacketId' \in PacketIds /\ businessDepth' \in Nat
        /\ attached' \subseteq Deliveries
    BY <1>2, <1>3, <1>4, <2>1 DEF TypeOK
  <2>3. ClientTyped' /\ WireTyped' /\ PeerTyped'
    BY <1>3, ClientTypeStays, WireTypeStays, PeerTypeStays
  <2>4. BookTyped'
    BY <1>4, <1>5, <2>2 DEF BookTyped
  <2>5. SessionTyped'
    BY <1>3, <1>4, <2>2, TypeParts DEF SessionTyped
  <2>6. QueueTyped'
    BY <1>3, <1>7, <2>2, TypeParts DEF QueueTyped
  <2> QED BY <2>3, <2>4, <2>5, <2>6, PartsType
<1>9. Book'
  <2>1. \A m, n \in 1..Len(order') : order'[m] = order'[n] => m = n
    <3> SUFFICES ASSUME NEW m \in 1..Len(order'), NEW n \in 1..Len(order'),
                        order'[m] = order'[n]
                 PROVE  m = n
      OBVIOUS
    <3>1. CASE m \in 1..Len(order) /\ n \in 1..Len(order)
      BY <1>5, <3>1 DEF Book
    <3>2. CASE m = Len(order) + 1 /\ n = Len(order) + 1
      BY <3>2
    <3>3. CASE m \in 1..Len(order) /\ n = Len(order) + 1
      BY <1>1, <1>5, <1>6, <3>3
    <3>4. CASE m = Len(order) + 1 /\ n \in 1..Len(order)
      BY <1>1, <1>5, <1>6, <3>4
    <3> QED BY <1>5, <3>1, <3>2, <3>3, <3>4
  <2>2. \A e \in Deliveries : e \in Active' <=> phase'[e] \in Waiting
    BY <1>4, <1>5 DEF Book, Waiting
  <2>3. /\ attached' \subseteq Active'
        /\ \A e \in attached' : phase'[e] \in {"Queued", "AwaitingAck"}
        /\ \A e \in Active' \ attached' : phase'[e] = "AwaitingReconnect"
    <3>1. Active \subseteq Deliveries
      BY Finite
    <3>2. attached' \subseteq Active'
      BY <1>4, <1>5 DEF Book
    <3>3. ASSUME NEW e \in attached' PROVE phase'[e] \in {"Queued", "AwaitingAck"}
      BY <1>4, <3>1 DEF Book
    <3>4. ASSUME NEW e \in Active' \ attached'
          PROVE  phase'[e] = "AwaitingReconnect"
      <4>1. e \in Active \ attached /\ e # d /\ e \in Deliveries
        BY <1>4, <1>5, <3>1
      <4> QED BY <1>4, <4>1 DEF Book
    <3> QED BY <3>2, <3>3, <3>4
  <2> QED BY <2>1, <2>2, <2>3 DEF Book
<1>10. IdsDiffer'
  <2>1. /\ \A e \in Active : packetId[e] # i
        /\ \A r \in pending : requestId[r] # i
    BY <1>2, FreeId DEF TypeOK
  <2>2. \A e \in Deliveries : packetId'[e] = IF e = d THEN i ELSE packetId[e]
    BY <1>2 DEF TypeOK
  <2>3. Active \subseteq Deliveries
    BY Finite
  <2> QED BY <1>1, <1>3, <1>5, <2>1, <2>2, <2>3 DEF IdsDiffer
<1>11. Stages' /\ DeadIsEmpty'
  BY <1>1, <1>3 DEF Stages, DeadIsEmpty, clientVars, Alive
<1>12. Counts'
  <2>1. /\ IsFiniteSet(Active) /\ Cardinality(Active) \in Nat
        /\ Cardinality(pending) \in Nat
        /\ Cardinality(attached) <= Cardinality(Active)
        /\ Cardinality(attached) \in Nat /\ IsFiniteSet(attached)
    BY Finite
  <2>2. /\ Cardinality(Active') = Cardinality(Active) + 1
        /\ Cardinality(attached') = Cardinality(attached) + 1
    BY <1>1, <1>4, <1>5, <2>1, FS_AddElement
  <2>3. Cardinality(Active) + Cardinality(pending) < MaxInflight
    BY <1>1 DEF PlaceForDelivery
  <2>4. Cardinality(pending') = Cardinality(pending)
    BY <1>3
  <2>5. /\ slots' + Cardinality(pending') <= MaxInflight
        /\ Len(order') = Cardinality(Active') /\ Len(order') <= MaxInflight
    <3>1. MaxInflight \in Nat
      BY DeliveriesAssumption
    <3>2. slots' = Cardinality(attached) + 1
      BY <1>4, <2>2
    <3>3. slots' + Cardinality(pending') <= MaxInflight
      BY <2>1, <2>3, <2>4, <3>1, <3>2
    <3>4. Len(order) = Cardinality(Active)
      BY DEF Counts
    <3>5. Len(order') = Cardinality(Active')
      BY <1>5, <2>2, <3>4
    <3>6. Cardinality(Active') <= MaxInflight
      BY <2>1, <2>2, <2>3, <3>1
    <3> QED BY <3>3, <3>5, <3>6
  <2>6. /\ businessDepth' = Len(outgoing') + Len(deferred')
        /\ businessDepth' <= SendCapacity
    BY <1>1, <1>3, <1>7, DeliveriesAssumption DEF Counts, TypeOK, Room
  <2> QED BY <1>3, <1>4, <2>5, <2>6 DEF Counts
<1>13. Exchanges'
  <2>1. onWire' = onWire /\ copies' = copies /\ owed' = owed /\ acks' = acks
    BY <1>3 DEF wireVars, peerVars
  <2>2. d \notin onWire
    BY <1>1 DEF Exchanges, Terminal
  <2> QED BY <1>3, <1>4, <2>1, <2>2 DEF Exchanges, Open, Alive
<1>14. LineUp'
  <2>1. LineOnce /\ LineSorted /\ LineExact /\ StartedFirst
    BY <1>1 DEF LineUp
  <2>2. Line \in Seq(Items) /\ d \in Items /\ Len(Line) \in Nat
    BY LineType DEF Items
  <2>3. /\ Len(Line') = Len(Line) + 1
        /\ \A n \in 1..Len(Line) : Line'[n] = Line[n]
        /\ Line'[Len(Line) + 1] = d
    <3>1. /\ deferred \in Seq(Items) /\ outgoing \in Seq(Items) /\ d \in Items
      BY DEF TypeOK, Items
    <3> QED BY <1>1, <1>3, <3>1, AppendQueued DEF Line
  <2>4. \A n \in 1..Len(Line) : Line[n] # d
    BY <1>1, <2>1 DEF LineExact, InLine
  <2>5. LineOnce'
    <3> SUFFICES ASSUME NEW m \in 1..Len(Line'), NEW n \in 1..Len(Line'),
                        Line'[m] = Line'[n]
                 PROVE  m = n
      BY DEF LineOnce
    <3>1. CASE m \in 1..Len(Line) /\ n \in 1..Len(Line)
      BY <2>1, <2>3, <3>1 DEF LineOnce
    <3>2. CASE m = Len(Line) + 1 /\ n = Len(Line) + 1
      BY <3>2
    <3>3. CASE m \in 1..Len(Line) /\ n = Len(Line) + 1
      BY <2>3, <2>4, <3>3
    <3>4. CASE m = Len(Line) + 1 /\ n \in 1..Len(Line)
      BY <2>3, <2>4, <3>4
    <3> QED BY <2>2, <2>3, <3>1, <3>2, <3>3, <3>4
  <2>6. \A e, f : Precedes(order, e, f) => Precedes(order', e, f)
    <3> SUFFICES ASSUME NEW e, NEW f, Precedes(order, e, f)
                 PROVE  Precedes(order', e, f)
      OBVIOUS
    <3>1. PICK m \in 1..Len(order), n \in 1..Len(order) :
             m < n /\ order[m] = e /\ order[n] = f
      BY DEF Precedes
    <3>2. m \in 1..Len(order') /\ n \in 1..Len(order')
      BY <1>5
    <3> QED BY <1>5, <3>1, <3>2 DEF Precedes
  <2>7. ASSUME NEW e \in Active PROVE Precedes(order', e, d)
    <3>1. PICK m \in 1..Len(order) : order[m] = e
      BY Elements DEF TypeOK, Active
    <3>2. /\ m \in 1..Len(order') /\ Len(order) + 1 \in 1..Len(order')
          /\ m < Len(order) + 1
      BY <1>5
    <3> QED BY <1>5, <3>1, <3>2 DEF Precedes
  <2>8. ASSUME NEW m \in 1..Len(Line'), NEW n \in 1..Len(Line'), m < n,
               Line'[m] \in Deliveries, Line'[n] \in Deliveries
        PROVE  Precedes(order', Line'[m], Line'[n])
    <3>1. m \in 1..Len(Line) /\ Line'[m] = Line[m]
      BY <2>2, <2>3, <2>8
    <3>2. CASE n \in 1..Len(Line)
      BY <2>1, <2>3, <2>6, <2>8, <3>1, <3>2 DEF LineSorted
    <3>3. CASE n = Len(Line) + 1
      <4>1. Line[m] \in Active
        BY <2>1, <2>8, <3>1 DEF LineExact, InLine
      <4> QED BY <2>3, <2>7, <3>1, <3>3, <4>1
    <3> QED BY <2>2, <2>3, <3>2, <3>3
  <2>9. ASSUME NEW e \in Deliveries
        PROVE  InLine(e)' <=> e \in Active' /\ phase'[e] # "AwaitingAck"
    <3>1. InLine(e)' <=> InLine(e) \/ e = d
      <4>1. InLine(e)' <=> \E n \in 1..(Len(Line) + 1) : Line'[n] = e
        BY <2>3 DEF InLine
      <4>2. (\E n \in 1..(Len(Line) + 1) : Line'[n] = e)
               <=> (\E n \in 1..Len(Line) : Line'[n] = e)
                   \/ Line'[Len(Line) + 1] = e
        BY <2>2
      <4> QED BY <2>3, <4>1, <4>2 DEF InLine
    <3> QED BY <1>1, <1>4, <1>5, <2>1, <3>1 DEF LineExact
  <2>10. ASSUME NEW m \in 1..Len(order'), NEW n \in 1..Len(order'), m < n,
                phase'[order'[n]] = "AwaitingAck"
         PROVE  phase'[order'[m]] = "AwaitingAck"
    <3>1. n \in 1..Len(order) /\ m \in 1..Len(order)
      <4>1. order'[Len(order) + 1] = d /\ phase'[d] # "AwaitingAck"
        BY <1>4, <1>5
      <4> QED BY <1>5, <2>10, <4>1
    <3>2. /\ order'[n] = order[n] /\ order'[m] = order[m]
          /\ order[n] # d /\ order[m] # d
          /\ order[n] \in Deliveries /\ order[m] \in Deliveries
      BY <1>1, <1>5, <1>6, <3>1, Finite
    <3> QED BY <1>4, <2>1, <2>10, <3>1, <3>2 DEF StartedFirst
  <2>11. LineSorted' /\ LineExact' /\ StartedFirst'
    BY <2>8, <2>9, <2>10 DEF LineSorted, LineExact, StartedFirst
  <2> QED BY <2>5, <2>11 DEF LineUp
<1>15. Queues'
  <2>1. ASSUME NEW n \in 1..Len(outgoing')
        PROVE  IF outgoing'[n] \in Deliveries
               THEN outgoing'[n] \in attached'
               ELSE outgoing'[n] \in pending' \ started'
    <3>1. CASE n \in 1..Len(outgoing)
      BY <1>3, <1>4, <1>7, <3>1 DEF Queues
    <3>2. CASE n = Len(outgoing) + 1
      BY <1>4, <1>7, <3>2
    <3> QED BY <1>7, <3>1, <3>2
  <2> QED BY <1>3, <1>4, <2>1 DEF Queues
<1>16. History'
  <2>1. ~Exhausted(d)
    BY <1>1, DeliveriesAssumption DEF History, Exhausted
  <2> QED BY <1>1, <1>3, <1>4, <2>1, AttachHistory DEF wireVars, peerVars
<1> QED BY <1>8, <1>9, <1>10, <1>11, <1>12, <1>13, <1>14, <1>15, <1>16

LEMMA LineMoves ==
    ASSUME TypeOK, replay # <<>>
    PROVE  (deferred \o Append(outgoing, Head(replay))) \o Tail(replay) = Line
<1>1. /\ deferred \in Seq(Items) /\ outgoing \in Seq(Items)
      /\ replay \in Seq(Items)
  BY DEF TypeOK, Items
<1> QED BY <1>1, MoveHead DEF Line

LEMMA LineRequests ==
    ASSUME TypeOK, Queues, NEW n \in 1..Len(Line), Line[n] \notin Deliveries
    PROVE  Line[n] \in pending \ started
<1>0. /\ Len(deferred) \in Nat /\ Len(outgoing) \in Nat /\ Len(replay) \in Nat
      /\ Len(Line) = Len(deferred) + Len(outgoing) + Len(replay)
  BY LineType DEF TypeOK
<1>1. CASE n <= Len(deferred)
  <2>1. Line[n] = deferred[n] /\ n \in 1..Len(deferred)
    BY <1>0, <1>1, LineType
  <2> QED BY <2>1 DEF TypeOK
<1>2. CASE n > Len(deferred) /\ n <= Len(deferred) + Len(outgoing)
  <2> DEFINE m == n - Len(deferred)
  <2>1. m \in 1..Len(outgoing) /\ Len(deferred) + m = n
    BY <1>0, <1>2
  <2> HIDE DEF m
  <2>2. Line[n] = outgoing[m]
    BY <2>1, LineType
  <2> QED BY <2>1, <2>2 DEF Queues
<1>3. CASE n > Len(deferred) + Len(outgoing)
  <2> DEFINE m == n - (Len(deferred) + Len(outgoing))
  <2>1. m \in 1..Len(replay) /\ Len(deferred) + Len(outgoing) + m = n
    BY <1>0, <1>3
  <2> HIDE DEF m
  <2>2. Line[n] = replay[m]
    BY <2>1, LineType
  <2> QED BY <2>1, <2>2 DEF TypeOK
<1> QED BY <1>0, <1>1, <1>2, <1>3

LEMMA RequestKeeps ==
    ASSUME IInv, NEW r \in Requests, Request(r)
    PROVE  IInv'
<1> USE DEF IInv, Kept, clientVars, bookVars, wireVars, peerVars
<1>1. /\ stage = "ready" /\ Alive /\ replay = <<>>
      /\ r \notin pending /\ r \notin Deliveries /\ r \notin started
      /\ r \in Items
      /\ Cardinality(pending) + slots < MaxInflight
  BY DeliveriesAssumption DEF Request, MayCall, Stages, Queues, Items
<1>2. PICK i : /\ FirstFree(i, nextId) /\ nextId' = Successor(i)
               /\ IF Room
                  THEN /\ requestId' = [requestId EXCEPT ![r] = i]
                       /\ pending' = pending \cup {r}
                       /\ Enqueue(r)
                  ELSE UNCHANGED <<requestId, pending, outgoing, businessDepth>>
  BY DEF Request
<1>3. UNCHANGED <<clientVars, cause, bookVars, started, attached, slots,
                  deferred, credit, receiveMaximum, writer, replay,
                  wireVars, peerVars>>
  BY DEF Request
<1>4. i \in 0..MaxPacketId /\ nextId' \in PacketIds
  BY <1>2, FreeId DEF TypeOK
<1>5. Book' /\ Stages' /\ History'
  <2>1. Stages'
    BY <1>1, <1>3 DEF Stages, Alive
  <2> QED BY <1>3, <2>1, BookFrame, HistoryFrame
<1>6. CASE ~Room
  <2>1. UNCHANGED <<requestId, pending, outgoing, businessDepth, Line>>
    BY <1>2, <1>3, <1>6 DEF Line
  <2>2. TypeOK'
    BY <1>3, <1>4, <2>1 DEF TypeOK
  <2>3. LineUp'
    BY <1>3, <2>1, LineFrame DEF TypeOK
  <2> QED BY <1>3, <1>5, <2>1, <2>2, <2>3, IdsFrame, DeadFrame, CountsFrame,
             ExchangesFrame, QueuesFrame
<1>7. CASE Room
  <2>1. /\ requestId' = [requestId EXCEPT ![r] = i]
        /\ pending' = pending \cup {r}
        /\ outgoing' = Append(outgoing, r)
        /\ businessDepth' = businessDepth + 1
    BY <1>2, <1>7 DEF Enqueue
  <2>2. /\ outgoing' \in Seq(Items) /\ Len(outgoing') = Len(outgoing) + 1
        /\ Len(outgoing) \in Nat
        /\ \A n \in 1..Len(outgoing) : outgoing'[n] = outgoing[n]
        /\ outgoing'[Len(outgoing) + 1] = r
    <3>1. outgoing \in Seq(Items)
      BY DEF TypeOK
    <3> QED BY <1>1, <2>1, <3>1, Append1
  <2>3. TypeOK'
    <3>1. /\ requestId' \in [Requests -> 0..MaxPacketId]
          /\ pending' \subseteq Requests /\ businessDepth' \in Nat
      BY <1>4, <2>1 DEF TypeOK
    <3>2. ClientTyped' /\ BookTyped' /\ WireTyped' /\ PeerTyped'
      BY <1>3, ClientTypeStays, BookTypeStays, WireTypeStays, PeerTypeStays
    <3>3. SessionTyped'
      BY <1>3, <1>4, <3>1, TypeParts DEF SessionTyped
    <3>4. QueueTyped'
      BY <1>3, <2>2, <3>1, TypeParts DEF QueueTyped
    <3> QED BY <3>2, <3>3, <3>4, PartsType
  <2>4. IdsDiffer'
    <3>1. /\ \A e \in Active : packetId[e] # i
          /\ \A q \in pending : requestId[q] # i
      BY <1>2, FreeId DEF TypeOK
    <3>2. \A q \in Requests : requestId'[q] = IF q = r THEN i ELSE requestId[q]
      BY <2>1 DEF TypeOK
    <3>3. Active' = Active /\ pending \subseteq Requests
      BY <1>3 DEF Active, TypeOK
    <3> QED BY <1>1, <1>3, <2>1, <3>1, <3>2, <3>3 DEF IdsDiffer
  <2>5. DeadIsEmpty'
    BY <1>1, <1>3 DEF DeadIsEmpty, Alive
  <2>6. Counts'
    <3>1. IsFiniteSet(pending) /\ Cardinality(pending) \in Nat
      BY Finite
    <3>2. Cardinality(pending') = Cardinality(pending) + 1
      BY <1>1, <2>1, <3>1, FS_AddElement
    <3>3. /\ slots' + Cardinality(pending') <= MaxInflight
          /\ businessDepth' = Len(outgoing') + Len(deferred')
          /\ businessDepth' <= SendCapacity
      <4>1. /\ businessDepth = Len(outgoing) + Len(deferred)
            /\ businessDepth < SendCapacity /\ deferred' = deferred
            /\ SendCapacity \in Nat /\ Len(deferred) \in Nat
            /\ slots' = slots /\ slots \in Nat /\ MaxInflight \in Nat
        BY <1>3, <1>7, DeliveriesAssumption DEF Counts, TypeOK, Room
      <4> QED BY <1>1, <2>1, <2>2, <3>1, <3>2, <4>1
    <3>4. Active' = Active /\ InFlight' = InFlight
      BY <1>3 DEF Active, InFlight
    <3> QED BY <1>3, <3>3, <3>4 DEF Counts
  <2>7. Exchanges'
    BY <1>3, <2>1 DEF Exchanges, Open, InFlight, Alive
  <2>8. Queues'
    <3>1. ASSUME NEW n \in 1..Len(outgoing')
          PROVE  IF outgoing'[n] \in Deliveries
                 THEN outgoing'[n] \in attached'
                 ELSE outgoing'[n] \in pending' \ started'
      <4>1. CASE n \in 1..Len(outgoing)
        BY <1>3, <2>1, <2>2, <4>1 DEF Queues
      <4>2. CASE n = Len(outgoing) + 1
        BY <1>1, <1>3, <2>1, <2>2, <4>2
      <4> QED BY <2>2, <4>1, <4>2
    <3> QED BY <1>3, <2>1, <3>1 DEF Queues
  <2>9. LineUp'
    <3>1. LineOnce /\ LineSorted /\ LineExact /\ StartedFirst
      BY <1>1 DEF LineUp
    <3>2. Line \in Seq(Items) /\ Len(Line) \in Nat
      BY LineType
    <3>3. /\ Len(Line') = Len(Line) + 1
          /\ \A n \in 1..Len(Line) : Line'[n] = Line[n]
          /\ Line'[Len(Line) + 1] = r
      <4>1. deferred \in Seq(Items) /\ outgoing \in Seq(Items)
        BY DEF TypeOK, Items
      <4> QED BY <1>1, <1>3, <2>1, <4>1, AppendQueued DEF Line
    <3>4. \A n \in 1..Len(Line) : Line[n] # r
      BY <1>1, LineRequests
    <3>5. LineOnce'
      <4> SUFFICES ASSUME NEW m \in 1..Len(Line'), NEW n \in 1..Len(Line'),
                          Line'[m] = Line'[n]
                   PROVE  m = n
        BY DEF LineOnce
      <4>1. CASE m \in 1..Len(Line) /\ n \in 1..Len(Line)
        BY <3>1, <3>3, <4>1 DEF LineOnce
      <4>2. CASE m = Len(Line) + 1 /\ n = Len(Line) + 1
        BY <4>2
      <4>3. CASE m \in 1..Len(Line) /\ n = Len(Line) + 1
        BY <3>3, <3>4, <4>3
      <4>4. CASE m = Len(Line) + 1 /\ n \in 1..Len(Line)
        BY <3>3, <3>4, <4>4
      <4> QED BY <3>2, <3>3, <4>1, <4>2, <4>3, <4>4
    <3>6. LineSorted'
      <4> SUFFICES ASSUME NEW m \in 1..Len(Line'), NEW n \in 1..Len(Line'),
                          m < n, Line'[m] \in Deliveries, Line'[n] \in Deliveries
                   PROVE  Precedes(order', Line'[m], Line'[n])
        BY DEF LineSorted
      <4>1. m \in 1..Len(Line) /\ n \in 1..Len(Line)
        BY <1>1, <3>2, <3>3
      <4> QED BY <1>3, <3>1, <3>3, <4>1 DEF LineSorted
    <3>7. LineExact'
      <4>1. ASSUME NEW e \in Deliveries PROVE InLine(e)' <=> InLine(e)
        <5>1. InLine(e)' <=> \E n \in 1..(Len(Line) + 1) : Line'[n] = e
          BY <3>3 DEF InLine
        <5>2. (\E n \in 1..(Len(Line) + 1) : Line'[n] = e)
                 <=> (\E n \in 1..Len(Line) : Line'[n] = e)
                     \/ Line'[Len(Line) + 1] = e
          BY <3>2
        <5> QED BY <1>1, <3>3, <5>1, <5>2 DEF InLine
      <4> QED BY <1>3, <3>1, <4>1 DEF LineExact, Active
    <3>8. StartedFirst'
      BY <1>3, <3>1 DEF StartedFirst
    <3> QED BY <3>5, <3>6, <3>7, <3>8 DEF LineUp
  <2> QED BY <1>5, <2>3, <2>4, <2>5, <2>6, <2>7, <2>8, <2>9
<1> QED BY <1>6, <1>7
-----------------------------------------------------------------------------
(* The supervisor.                                                         *)

LEMMA DialConnectsKeeps ==
    ASSUME IInv, DialConnects
    PROVE  IInv'
<1> USE DEF IInv, Kept, bookVars
<1>1. /\ stage = "dialing" /\ ~Alive /\ writer = Idle
      /\ stage' = "replaying" /\ cause' = "none" /\ nextId' = 1
      /\ receiveMaximum' \in ReceiveMaximums /\ onWire' = {}
      /\ replay' = (IF everReady THEN order ELSE <<>>)
      /\ UNCHANGED <<stopped, everReady, failures, bookVars, started, attached,
                     slots, pending, requestId, outgoing, deferred,
                     businessDepth, credit, writer, copies, peerVars>>
  BY DEF DialConnects, Stages
<1>2. /\ attached = {} /\ pending = {} /\ outgoing = <<>> /\ deferred = <<>>
      /\ credit = 0 /\ owed = {} /\ acks = {}
  BY <1>1, DeadSession
<1>3. replay' = order
  BY <1>1 DEF Stages
<1>4. TypeOK'
  <2>1. receiveMaximum' \in Nat /\ nextId' \in PacketIds
    BY <1>1, DeliveriesAssumption DEF PacketIds
  <2> QED BY <1>1, <1>3, <2>1 DEF TypeOK, peerVars
<1>5. Book' /\ IdsDiffer' /\ Stages' /\ DeadIsEmpty' /\ Queues'
  <2>1. Stages' /\ DeadIsEmpty'
    BY <1>1, <1>2 DEF Stages, DeadIsEmpty, Alive
  <2> QED BY <1>1, <2>1, BookFrame, IdsFrame, QueuesFrame
<1>6. Counts'
  <2>1. Active' = Active /\ InFlight' = InFlight
    BY <1>1 DEF Active, InFlight
  <2>2. credit' <= receiveMaximum'
    BY <1>1, <1>2, <1>4 DEF TypeOK
  <2> QED BY <1>1, <2>1, <2>2 DEF Counts
<1>7. Exchanges'
  <2>1. InFlight' = {} /\ owed' = {} /\ acks' = {} /\ writer'.at = "idle"
    BY <1>1, <1>2 DEF InFlight, Idle, peerVars
  <2> QED BY <1>1, <2>1 DEF Exchanges
<1>8. LineUp'
  <2>1. order \in Seq(Deliveries) /\ order' = order
    BY <1>1 DEF TypeOK
  <2>2. Line' = order
    BY <1>1, <1>2, <1>3, <2>1 DEF Line
  <2>3. LineOnce'
    BY <2>2 DEF LineOnce, Book
  <2>4. LineSorted'
    BY <2>1, <2>2 DEF LineSorted, Precedes
  <2>5. \A d \in Active : phase'[d] = "AwaitingReconnect"
    BY <1>1, <1>2 DEF Book
  <2>6. LineExact'
    <3>1. \A d : d \in Active <=> \E n \in 1..Len(order) : order[n] = d
      BY <2>1, Elements DEF Active
    <3>2. Active' = Active
      BY <2>1 DEF Active
    <3> QED BY <2>2, <2>5, <3>1, <3>2 DEF LineExact, InLine
  <2>7. StartedFirst'
    <3>1. \A n \in 1..Len(order) : order[n] \in Active
      BY <2>1, Elements DEF Active
    <3> QED BY <2>1, <2>5, <3>1 DEF StartedFirst
  <2> QED BY <2>3, <2>4, <2>6, <2>7 DEF LineUp
<1>9. History'
  BY <1>1, <1>2 DEF History, peerVars
<1> QED BY <1>4, <1>5, <1>6, <1>7, <1>8, <1>9

LEMMA ReplayAttachesKeeps ==
    ASSUME IInv, NEW d \in Deliveries, ReplayAttaches(d)
    PROVE  IInv'
<1> USE DEF IInv, Kept, clientVars, wireVars, peerVars
<1>1. /\ Replays(d) /\ d \notin attached /\ ~Exhausted(d) /\ Attach(d)
      /\ UNCHANGED <<clientVars, cause, order, nextPacketId, packetId, started,
                     pending, requestId, nextId, deferred, credit,
                     receiveMaximum, writer, wireVars, peerVars>>
      /\ IF Room THEN Enqueue(d) /\ replay' = Tail(replay)
                 ELSE UNCHANGED <<outgoing, businessDepth, replay>>
  BY DEF ReplayAttaches
<1>2. /\ Alive /\ stage = "replaying" /\ pending = {}
      /\ d \in Active /\ phase[d] = "AwaitingReconnect"
      /\ replay # <<>> /\ d = Head(replay) /\ replay \in Seq(Deliveries)
  BY <1>1, ReplayHead DEF Replays, Stages, Book, TypeOK
<1>3. /\ InFlight' = InFlight /\ slots' = Cardinality(attached')
      /\ \A e \in Deliveries :
            /\ phase'[e] = IF e = d THEN "Queued" ELSE phase[e]
            /\ attempts'[e] = IF e = d THEN attempts[e] + 1 ELSE attempts[e]
      /\ phase' \in [Deliveries -> {"new"} \cup Waiting \cup Terminal]
      /\ attempts' \in [Deliveries -> Nat]
      /\ deadline' \in [Deliveries -> {"none", "start", "ack"}]
      /\ attached' = attached \cup {d} /\ slots' \in Nat
      /\ IsFiniteSet(attached')
  BY <1>1, <1>2, AttachCounts
<1>4. /\ outgoing' \in Seq(Items) /\ businessDepth' \in Nat
      /\ replay' \in Seq(Deliveries)
      /\ Line' = Line
      /\ Room => /\ Len(outgoing') = Len(outgoing) + 1
                 /\ \A n \in 1..Len(outgoing) : outgoing'[n] = outgoing[n]
                 /\ outgoing'[Len(outgoing) + 1] = d
      /\ Len(outgoing) \in Nat
  <2>1. /\ outgoing \in Seq(Items) /\ deferred \in Seq(Items)
        /\ replay \in Seq(Items) /\ d \in Items /\ Len(outgoing) \in Nat
    BY <1>2 DEF TypeOK, Items
  <2>2. CASE Room
    <3>1. outgoing' = Append(outgoing, Head(replay)) /\ replay' = Tail(replay)
          /\ deferred' = deferred /\ businessDepth' = businessDepth + 1
      BY <1>1, <1>2, <2>2 DEF Enqueue
    <3>2. Line' = Line
      <4>1. (deferred \o Append(outgoing, Head(replay))) \o Tail(replay)
              = (deferred \o outgoing) \o replay
        BY <1>2, LineMoves DEF Line
      <4> QED BY <3>1, <4>1 DEF Line
    <3>3. /\ outgoing' \in Seq(Items)
          /\ Len(outgoing') = Len(outgoing) + 1
          /\ \A n \in 1..Len(outgoing) : outgoing'[n] = outgoing[n]
          /\ outgoing'[Len(outgoing) + 1] = d
      BY <1>2, <2>1, <3>1, Append1
    <3> QED BY <1>2, <2>1, <3>1, <3>2, <3>3 DEF TypeOK
  <2>3. CASE ~Room
    BY <1>1, <2>1, <2>3 DEF Line, TypeOK
  <2> QED BY <2>2, <2>3
<1>5. TypeOK'
  <2>1. ClientTyped' /\ PeerTyped'
    BY <1>1, ClientTypeStays, PeerTypeStays
  <2>2. BookTyped'
    BY <1>1, <1>3, TypeParts DEF BookTyped
  <2>3. attached' \subseteq Deliveries
    BY <1>3 DEF TypeOK
  <2>4. SessionTyped'
    BY <1>1, <1>3, <2>3, TypeParts DEF SessionTyped
  <2>5. QueueTyped'
    BY <1>1, <1>4, TypeParts DEF QueueTyped
  <2>6. WireTyped'
    BY <1>1, <1>4, TypeParts DEF WireTyped
  <2> QED BY <2>1, <2>2, <2>4, <2>5, <2>6, PartsType
<1>6. Book'
  <2>1. Active' = Active /\ Active \subseteq Deliveries
    BY <1>1, Finite DEF Active
  <2>2. \A e \in Deliveries : phase'[e] \in Waiting <=> phase[e] \in Waiting
    BY <1>2, <1>3 DEF Waiting
  <2>3. /\ attached' \subseteq Active'
        /\ \A e \in attached' : phase'[e] \in {"Queued", "AwaitingAck"}
    BY <1>2, <1>3, <2>1 DEF Book
  <2>4. \A e \in Active' \ attached' : phase'[e] = "AwaitingReconnect"
    BY <1>3, <2>1 DEF Book
  <2> QED BY <1>1, <2>1, <2>2, <2>3, <2>4 DEF Book
<1>7. IdsDiffer' /\ Stages' /\ DeadIsEmpty'
  <2>1. Stages' /\ DeadIsEmpty'
    BY <1>1, <1>2 DEF Stages, DeadIsEmpty, Alive
  <2> QED BY <1>1, <2>1, IdsFrame
<1>8. Counts'
  <2>1. Active' = Active
    BY <1>1 DEF Active
  <2>2. Cardinality(attached') <= Cardinality(Active)
    <3>1. attached' \in SUBSET Active /\ IsFiniteSet(Active)
      BY <1>2, <1>3, Finite DEF Book
    <3> QED BY <3>1, FS_Subset
  <2>3. Cardinality(pending') = 0 /\ Cardinality(Active) \in Nat
        /\ Cardinality(attached') \in Nat
    BY <1>1, <1>2, <1>3, Finite, FS_EmptySet, FS_CardinalityType
  <2>4. slots' + Cardinality(pending') <= MaxInflight
    <3>1. MaxInflight \in Nat
      BY DeliveriesAssumption
    <3>2. Cardinality(Active) <= MaxInflight
      BY DEF Counts
    <3> QED BY <1>3, <2>2, <2>3, <3>1, <3>2
  <2>5. /\ businessDepth' = Len(outgoing') + Len(deferred')
        /\ businessDepth' <= SendCapacity
    <3>1. CASE Room
      <4>1. /\ businessDepth = Len(outgoing) + Len(deferred)
            /\ businessDepth < SendCapacity /\ businessDepth' = businessDepth + 1
            /\ Len(outgoing') = Len(outgoing) + 1 /\ deferred' = deferred
            /\ SendCapacity \in Nat /\ Len(deferred) \in Nat
        BY <1>1, <1>4, <3>1, DeliveriesAssumption
        DEF Counts, TypeOK, Room, Enqueue
      <4> QED BY <1>4, <4>1
    <3>2. CASE ~Room
      BY <1>1, <3>2 DEF Counts
    <3> QED BY <3>1, <3>2
  <2> QED BY <1>1, <1>3, <2>1, <2>4, <2>5 DEF Counts
<1>9. Exchanges'
  <2>1. d \notin onWire
    BY <1>2 DEF Exchanges, Terminal
  <2> QED BY <1>1, <1>3, <2>1 DEF Exchanges, Open, Alive
<1>10. LineUp'
  <2>1. \A e \in Deliveries :
            phase'[e] = "AwaitingAck" <=> phase[e] = "AwaitingAck"
    BY <1>2, <1>3
  <2> QED BY <1>1, <1>4, <2>1, LineFrame DEF TypeOK
<1>11. Queues'
  <2>1. ASSUME NEW n \in 1..Len(outgoing')
        PROVE  IF outgoing'[n] \in Deliveries
               THEN outgoing'[n] \in attached'
               ELSE outgoing'[n] \in pending' \ started'
    <3>1. CASE n \in 1..Len(outgoing) /\ Room
      BY <1>1, <1>3, <1>4, <3>1 DEF Queues
    <3>2. CASE n = Len(outgoing) + 1 /\ Room
      BY <1>3, <1>4, <3>2
    <3>3. CASE ~Room
      BY <1>1, <1>3, <3>3 DEF Queues
    <3> QED BY <1>4, <3>1, <3>2, <3>3
  <2> QED BY <1>1, <1>3, <2>1 DEF Queues
<1>12. History'
  BY <1>1, <1>2, <1>3, AttachHistory
<1> QED BY <1>5, <1>6, <1>7, <1>8, <1>9, <1>10, <1>11, <1>12

LEMMA ReplayEnqueuesKeeps ==
    ASSUME IInv, NEW d \in Deliveries, ReplayEnqueues(d)
    PROVE  IInv'
<1> USE DEF IInv, Kept, clientVars, bookVars, sessionVars, wireVars, peerVars
<1>1. /\ Replays(d) /\ d \in attached /\ Room
      /\ outgoing' = Append(outgoing, d) /\ businessDepth' = businessDepth + 1
      /\ replay' = Tail(replay)
      /\ UNCHANGED <<clientVars, cause, bookVars, started, sessionVars,
                     deferred, credit, receiveMaximum, writer, wireVars,
                     peerVars>>
  BY DEF ReplayEnqueues, Enqueue
<1>2. /\ Alive /\ stage = "replaying"
      /\ replay # <<>> /\ d = Head(replay) /\ replay \in Seq(Deliveries)
  BY <1>1 DEF Replays, TypeOK
<1>3. /\ outgoing \in Seq(Items) /\ deferred \in Seq(Items)
      /\ replay \in Seq(Items) /\ d \in Items /\ Len(outgoing) \in Nat
  BY <1>2 DEF TypeOK, Items
<1>4. Line' = Line
  <2>1. (deferred \o Append(outgoing, Head(replay))) \o Tail(replay)
          = (deferred \o outgoing) \o replay
    BY <1>2, LineMoves DEF Line
  <2> QED BY <1>1, <1>2, <2>1 DEF Line
<1>5. /\ outgoing' \in Seq(Items)
      /\ Len(outgoing') = Len(outgoing) + 1
      /\ \A n \in 1..Len(outgoing) : outgoing'[n] = outgoing[n]
      /\ outgoing'[Len(outgoing) + 1] = d
  BY <1>1, <1>3, Append1
<1>6. TypeOK'
  <2>1. replay' \in Seq(Deliveries) /\ businessDepth' \in Nat
    BY <1>1, <1>2 DEF TypeOK
  <2>2. ClientTyped' /\ BookTyped' /\ SessionTyped' /\ PeerTyped'
    BY <1>1, ClientTypeStays, BookTypeStays, SessionTypeStays, PeerTypeStays
  <2>3. QueueTyped'
    BY <1>1, <1>5, <2>1, TypeParts DEF QueueTyped
  <2>4. WireTyped'
    BY <1>1, <2>1, TypeParts DEF WireTyped
  <2> QED BY <2>2, <2>3, <2>4, PartsType
<1>7. Stages' /\ DeadIsEmpty'
  BY <1>1, <1>2 DEF Stages, DeadIsEmpty, Alive
<1>8. Counts'
  <2>1. Active' = Active /\ InFlight' = InFlight
    BY <1>1 DEF Active, InFlight
  <2>2. /\ businessDepth' = Len(outgoing') + Len(deferred')
        /\ businessDepth' <= SendCapacity
    BY <1>1, <1>5, DeliveriesAssumption DEF Counts, TypeOK, Room
  <2> QED BY <1>1, <2>1, <2>2 DEF Counts
<1>9. Queues'
  <2>1. ASSUME NEW n \in 1..Len(outgoing')
        PROVE  IF outgoing'[n] \in Deliveries
               THEN outgoing'[n] \in attached'
               ELSE outgoing'[n] \in pending' \ started'
    <3>1. CASE n \in 1..Len(outgoing)
      BY <1>1, <1>5, <3>1 DEF Queues
    <3>2. CASE n = Len(outgoing) + 1
      BY <1>1, <1>5, <3>2
    <3> QED BY <1>3, <1>5, <3>1, <3>2
  <2> QED BY <1>1, <2>1 DEF Queues
<1>10. LineUp'
  BY <1>1, <1>4, LineFrame DEF TypeOK
<1> QED BY <1>1, <1>6, <1>7, <1>8, <1>9, <1>10, BookFrame, IdsFrame,
           ExchangesFrame, HistoryFrame

LEMMA ReplayStopsKeeps ==
    ASSUME IInv, NEW d \in Deliveries,
           ReplayExhausted(d) \/ ReplayFindsExpired(d)
    PROVE  IInv'
<1>1. CASE ReplayExhausted(d)
  BY <1>1, PlainAbortKeeps DEF ReplayExhausted, Replays
<1>2. CASE ReplayFindsExpired(d)
  <2> USE DEF IInv, Kept
  <2>1. /\ Replays(d) /\ d \notin attached /\ ~Exhausted(d)
        /\ CloseSession("rejected")
        /\ phase' = [Detached EXCEPT ![d] = "AwaitingReconnect"]
        /\ deadline' = WithoutDeadlines(attached \cup {d})
        /\ attempts' = [attempts EXCEPT ![d] = attempts[d] + 1]
        /\ UNCHANGED <<clientVars, order, writer, replay>>
    BY <1>2 DEF ReplayFindsExpired, Counted
  <2>2. stage = "replaying" /\ phase[d] = "AwaitingReconnect"
    BY <2>1, ReplayHead DEF Replays, Book
  <2>3. phase' = Detached
    BY <2>1, <2>2 DEF Detached
  <2>4. deadline' \in [Deliveries -> {"none", "start", "ack"}]
    BY <2>1 DEF WithoutDeadlines, TypeOK
  <2>5. /\ attempts' \in [Deliveries -> Nat]
        /\ \A e \in Deliveries :
              /\ attempts[e] <= attempts'[e]
              /\ attempts'[e] <= ReconnectAttempts + 1
              /\ phase[e] = "new" => attempts'[e] = attempts[e]
    <3>1. attempts[d] <= ReconnectAttempts
      BY <2>1, DeliveriesAssumption DEF Exhausted, TypeOK
    <3>2. /\ attempts' \in [Deliveries -> Nat]
          /\ \A e \in Deliveries :
                attempts'[e] = IF e = d THEN attempts[e] + 1 ELSE attempts[e]
      <4> HIDE DEF Kept
      <4> QED BY <2>1 DEF TypeOK
    <3>3. \A e \in Deliveries : attempts[e] <= ReconnectAttempts + 1
      BY DEF History
    <3>4. \A e \in Deliveries : attempts[e] \in Nat
      BY DEF TypeOK
    <3> HIDE DEF IInv, Kept
    <3> QED BY <2>2, <3>1, <3>2, <3>3, <3>4, DeliveriesAssumption
  <2> QED BY <2>1, <2>2, <2>3, <2>4, <2>5, AbortKeeps DEF clientVars
<1> QED BY <1>1, <1>2
-----------------------------------------------------------------------------
(* The write loop.                                                         *)

(* What is taken leaves the line; a delivery is taken from its front.      *)
LEMMA Taken ==
    ASSUME TypeOK, NEW item, Takes(item), replay' = replay
    PROVE  /\ item \in Items
           /\ outgoing' \in Seq(Items) /\ deferred' \in Seq(Deliveries)
           /\ Len(outgoing') + Len(deferred')
                 = (Len(outgoing) + Len(deferred)) - 1
           /\ Len(outgoing) + Len(deferred) > 0
           /\ item \in Deliveries => HasCredit
           /\ \A n \in 1..Len(outgoing') :
                 \E m \in 1..Len(outgoing) : outgoing'[n] = outgoing[m]
           /\ \A n \in 1..Len(deferred') :
                 \/ \E m \in 1..Len(deferred) : deferred'[n] = deferred[m]
                 \/ \E m \in 1..Len(outgoing) : deferred'[n] = outgoing[m]
           /\ \E k \in 1..Len(Line) :
                 /\ Line[k] = item /\ Without(k, Line, Line')
                 /\ item \in Deliveries => k = 1
<1>1. /\ deferred \in Seq(Items) /\ deferred \in Seq(Deliveries)
      /\ outgoing \in Seq(Items) /\ replay \in Seq(Items)
      /\ Len(deferred) \in Nat /\ Len(outgoing) \in Nat
  BY DEF TypeOK, Items
<1>2. CASE DeferredFirst
  <2>1. /\ item = Head(deferred) /\ deferred' = Tail(deferred)
        /\ outgoing' = outgoing /\ deferred # <<>> /\ HasCredit
    BY <1>2 DEF Takes, NextOutgoing, DeferredFirst
  <2>2. /\ deferred' \in Seq(Deliveries) /\ Len(deferred') = Len(deferred) - 1
        /\ Len(deferred) > 0
        /\ item \in Deliveries
        /\ \A n \in 1..Len(deferred') : deferred'[n] = deferred[n + 1]
    BY <1>1, <2>1
  <2>3. item = Line[1] /\ Without(1, Line, Line')
    <3>1. /\ Head(deferred) = Line[1]
          /\ Without(1, Line, (Tail(deferred) \o outgoing) \o replay)
      BY <1>1, <2>1, TakeDeferred DEF Line
    <3>2. Line' = (Tail(deferred) \o outgoing) \o replay
      BY <2>1 DEF Line
    <3> QED BY <2>1, <3>1, <3>2
  <2>4. 1 \in 1..Len(Line)
    BY <1>1, <2>2, LineType
  <2>5. \A n \in 1..Len(deferred') : n + 1 \in 1..Len(deferred)
    BY <1>1, <2>2
  <2> QED BY <1>1, <2>1, <2>2, <2>3, <2>4, <2>5 DEF Items
<1>3. CASE ~DeferredFirst
  <2>1. PICK k \in 1..Len(outgoing) :
           /\ First(k)
           /\ deferred' = deferred \o SubSeq(outgoing, 1, k - 1)
           /\ outgoing' = SubSeq(outgoing, k + 1, Len(outgoing))
    <3>1. DOMAIN outgoing = 1..Len(outgoing)
      BY <1>1
    <3> QED BY <1>3, <3>1, Zenon DEF Takes, Deferring
  <2>2. PICK n \in 1..Len(outgoing) : First(n) /\ item = outgoing[n]
    BY <1>1, <1>3 DEF Takes, NextOutgoing
  <2>3. n = k
    BY <1>1, <2>1, <2>2 DEF First
  <2>4. item = outgoing[k] /\ item \in Items
    BY <1>1, <2>2, <2>3
  <2>5. /\ SubSeq(outgoing, 1, k - 1) \in Seq(Items)
        /\ outgoing' \in Seq(Items)
        /\ Len(SubSeq(outgoing, 1, k - 1)) = k - 1
        /\ Len(outgoing') = Len(outgoing) - k
        /\ \A m \in 1..(k - 1) : SubSeq(outgoing, 1, k - 1)[m] = outgoing[m]
        /\ \A m \in 1..(Len(outgoing) - k) : outgoing'[m] = outgoing[m + k]
    BY <1>1, <2>1, Cut
  <2>6. \A m \in 1..(k - 1) : outgoing[m] \in Deliveries
    <3> SUFFICES ASSUME NEW m \in 1..(k - 1) PROVE outgoing[m] \in Deliveries
      OBVIOUS
    <3>1. ~Takeable(m) /\ m \in 1..Len(outgoing)
      BY <1>1, <2>1 DEF First
    <3> QED BY <1>1, <3>1 DEF Takeable, Items
  <2> DEFINE B == SubSeq(outgoing, 1, k - 1)
  <2>7. B \in Seq(Deliveries)
    BY <2>5, <2>6
  <2>8. /\ deferred' \in Seq(Deliveries) /\ Len(deferred') = Len(deferred) + (k - 1)
        /\ \A m \in 1..Len(deferred) : deferred'[m] = deferred[m]
        /\ \A m \in 1..(Len(deferred) + (k - 1)) :
              m > Len(deferred) => deferred'[m] = outgoing[m - Len(deferred)]
    <3>1. deferred' = deferred \o B
      BY <2>1
    <3> HIDE DEF B
    <3>2. /\ deferred \o B \in Seq(Deliveries)
          /\ Len(deferred \o B) = Len(deferred) + Len(B)
          /\ \A m \in 1..Len(deferred) : (deferred \o B)[m] = deferred[m]
          /\ \A m \in 1..(Len(deferred) + Len(B)) :
                m > Len(deferred) => (deferred \o B)[m] = B[m - Len(deferred)]
      BY <1>1, <2>7, Concat
    <3>3. Len(B) = k - 1 /\ \A m \in 1..(k - 1) : B[m] = outgoing[m]
      BY <2>5 DEF B
    <3>4. ASSUME NEW m \in 1..(Len(deferred) + (k - 1)), m > Len(deferred)
          PROVE  deferred'[m] = outgoing[m - Len(deferred)]
      <4>1. m - Len(deferred) \in 1..(k - 1)
        BY <1>1, <3>4
      <4> QED BY <3>1, <3>2, <3>3, <3>4, <4>1
    <3> QED BY <3>1, <3>2, <3>3, <3>4
  <2>9. /\ item = Line[Len(deferred) + k]
        /\ Without(Len(deferred) + k, Line, Line')
    <3>1. /\ outgoing[k] = Line[Len(deferred) + k]
          /\ Without(Len(deferred) + k, Line,
                     ((deferred \o SubSeq(outgoing, 1, k - 1)) \o
                         SubSeq(outgoing, k + 1, Len(outgoing))) \o replay)
      BY <1>1, TakeQueued DEF Line
    <3>2. Line' = ((deferred \o SubSeq(outgoing, 1, k - 1)) \o
                      SubSeq(outgoing, k + 1, Len(outgoing))) \o replay
      BY <2>1 DEF Line
    <3> QED BY <2>4, <3>1, <3>2
  <2>10. Len(deferred) + k \in 1..Len(Line)
    <3>1. Len(Line) = (Len(deferred) + Len(outgoing)) + Len(replay)
      BY LineType
    <3>2. Len(deferred) \in Nat /\ Len(outgoing) \in Nat /\ Len(replay) \in Nat
      BY DEF TypeOK
    <3> QED BY <1>1, <3>1, <3>2
  <2>11. item \in Deliveries => HasCredit /\ Len(deferred) + k = 1
    <3>1. Takeable(k)
      BY <2>1 DEF First
    <3>2. ASSUME item \in Deliveries PROVE k = 1 /\ deferred = <<>> /\ HasCredit
      BY <2>4, <3>1, <3>2, DeliveriesAssumption DEF Takeable
    <3> QED BY <3>2
  <2>12. /\ Len(outgoing') + Len(deferred')
               = (Len(outgoing) + Len(deferred)) - 1
         /\ Len(outgoing) + Len(deferred) > 0
    BY <1>1, <2>5, <2>8
  <2>13. \A m \in 1..Len(outgoing') :
            \E l \in 1..Len(outgoing) : outgoing'[m] = outgoing[l]
    <3> SUFFICES ASSUME NEW m \in 1..Len(outgoing')
                 PROVE  m + k \in 1..Len(outgoing)
      BY <2>5
    <3> QED BY <1>1, <2>5
  <2>14. \A m \in 1..Len(deferred') :
            \/ \E l \in 1..Len(deferred) : deferred'[m] = deferred[l]
            \/ \E l \in 1..Len(outgoing) : deferred'[m] = outgoing[l]
    <3> TAKE m \in 1..Len(deferred')
    <3>1. CASE m <= Len(deferred)
      BY <1>1, <2>8, <3>1
    <3>2. CASE m > Len(deferred)
      <4>1. m - Len(deferred) \in 1..Len(outgoing)
        BY <1>1, <2>8, <3>2
      <4>2. deferred'[m] = outgoing[m - Len(deferred)]
        BY <1>1, <2>8, <3>2
      <4> QED BY <4>1, <4>2
    <3> QED BY <1>1, <2>8, <3>1, <3>2
  <2> HIDE DEF B
  <2> QED BY <2>4, <2>5, <2>8, <2>9, <2>10, <2>11, <2>12, <2>13, <2>14
<1> QED BY <1>2, <1>3

LEMMA WriterStartsKeeps ==
    ASSUME IInv, NEW item \in Items, WriterStarts(item)
    PROVE  IInv'
<1> USE DEF IInv, Kept, clientVars, sessionVars, wireVars, peerVars
<1>1. /\ Alive /\ writer.at = "idle" /\ Takes(item)
      /\ started' = started \cup {item}
      /\ writer' = [at |-> "started", item |-> item, dup |-> Dup(item)]
      /\ businessDepth' = Less(businessDepth)
      /\ IF item \in Deliveries
         THEN /\ phase' = [phase EXCEPT ![item] = "AwaitingAck"]
              /\ deadline' = [deadline EXCEPT ![item] = "none"]
              /\ credit' = credit + 1
         ELSE UNCHANGED <<phase, deadline, credit>>
      /\ UNCHANGED <<clientVars, cause, order, nextPacketId, packetId, attempts,
                     sessionVars, receiveMaximum, replay, wireVars, peerVars>>
  BY DEF WriterStarts, WriterIdles, Marked, Takes
<1>2. /\ outgoing' \in Seq(Items) /\ deferred' \in Seq(Deliveries)
      /\ Len(outgoing') + Len(deferred') = (Len(outgoing) + Len(deferred)) - 1
      /\ Len(outgoing) + Len(deferred) > 0
      /\ item \in Deliveries => HasCredit
      /\ \A n \in 1..Len(outgoing') :
            \E m \in 1..Len(outgoing) : outgoing'[n] = outgoing[m]
      /\ \A n \in 1..Len(deferred') :
            \/ \E m \in 1..Len(deferred) : deferred'[n] = deferred[m]
            \/ \E m \in 1..Len(outgoing) : deferred'[n] = outgoing[m]
  BY <1>1, Taken
<1>3. PICK k \in 1..Len(Line) :
          /\ Line[k] = item /\ Without(k, Line, Line')
          /\ item \in Deliveries => k = 1
  BY <1>1, Taken
<1>4. LineOnce /\ LineSorted /\ LineExact /\ StartedFirst
  BY <1>1 DEF LineUp
<1>5. /\ LineOnce'
      /\ \A x : (\E n \in 1..Len(Line') : Line'[n] = x)
                   <=> (\E n \in 1..Len(Line) : Line[n] = x) /\ x # item
      /\ \A m, n \in 1..Len(Line') : m < n => Precedes(Line, Line'[m], Line'[n])
  <2>1. Len(Line) \in Nat
    BY LineType
  <2>2. \A m, n \in 1..Len(Line) : Line[m] = Line[n] => m = n
    BY <1>4 DEF LineOnce
  <2>3. Without(k, Line, Line')
    BY <1>3
  <2>4. Leaves(Line, Line[k], Line')
    BY <2>1, <2>2, <2>3, LeftInOrder
  <2> QED BY <1>3, <2>4 DEF LineOnce, Leaves
<1>6. \A n \in 1..Len(Line') : Line'[n] # item
  BY <1>5
<1>7. item \in Deliveries =>
         /\ item \in Active /\ item \in attached /\ phase[item] = "Queued"
         /\ item \notin onWire
  <2> SUFFICES ASSUME item \in Deliveries
               PROVE  /\ item \in Active /\ item \in attached
                      /\ phase[item] = "Queued" /\ item \notin onWire
    OBVIOUS
  <2>1. item \in Active /\ phase[item] # "AwaitingAck"
    BY <1>3, <1>4 DEF LineExact, InLine
  <2>2. item \in attached
    <3>1. k = 1
      BY <1>3
    <3>2. Len(deferred) \in Nat /\ Len(outgoing) \in Nat
      BY DEF TypeOK
    <3>3. CASE Len(deferred) > 0
      <4>1. 1 \in 1..Len(deferred) /\ Line[1] = deferred[1]
        BY <3>2, <3>3, LineType
      <4> QED BY <1>3, <3>1, <4>1 DEF Queues
    <3>4. CASE Len(deferred) = 0
      <4>1. 1 \in 1..Len(outgoing) /\ Line[Len(deferred) + 1] = outgoing[1]
        BY <1>2, <3>2, <3>4, LineType
      <4>2. outgoing[1] = item
        BY <1>3, <3>1, <3>4, <4>1
      <4> QED BY <4>1, <4>2 DEF Queues
    <3> QED BY <3>2, <3>3, <3>4
  <2>3. phase[item] = "Queued"
    BY <2>1, <2>2 DEF Book
  <2> QED BY <1>1, <2>1, <2>2, <2>3 DEF Exchanges, Terminal
<1>8. item \notin Deliveries => item \in pending \ started
  BY <1>3, LineRequests
<1>9. \A e \in Deliveries : phase'[e] = IF e = item THEN "AwaitingAck"
                                                    ELSE phase[e]
  BY <1>1 DEF TypeOK
<1>10. TypeOK'
  <2>1. writer' \in [at : {"idle", "started", "writing"},
                     item : Items \cup {NoItem}, dup : BOOLEAN]
    BY <1>1 DEF Dup
  <2>2. /\ phase' \in [Deliveries -> {"new"} \cup Waiting \cup Terminal]
        /\ deadline' \in [Deliveries -> {"none", "start", "ack"}]
        /\ credit' \in Nat
    <3>1. CASE item \in Deliveries
      <4>1. "AwaitingAck" \in {"new"} \cup Waiting \cup Terminal
        BY DEF Waiting
      <4>2. phase' \in [Deliveries -> {"new"} \cup Waiting \cup Terminal]
        <5>1. phase \in [Deliveries -> {"new"} \cup Waiting \cup Terminal]
          BY DEF TypeOK
        <5>2. phase' = [phase EXCEPT ![item] = "AwaitingAck"]
          BY <1>1, <3>1
        <5> QED BY <4>1, <5>1, <5>2
      <4>3. deadline' \in [Deliveries -> {"none", "start", "ack"}]
        BY <1>1, <3>1 DEF TypeOK
      <4> QED BY <1>1, <3>1, <4>2, <4>3 DEF TypeOK
    <3>2. CASE item \notin Deliveries
      BY <1>1, <3>2 DEF TypeOK
    <3> QED BY <3>1, <3>2
  <2>3. businessDepth' \in Nat /\ started' \subseteq Items
    BY <1>1 DEF TypeOK, Less
  <2> QED BY <1>1, <1>2, <2>1, <2>2, <2>3 DEF TypeOK
<1>11. Book'
  <2>1. /\ order' = order /\ attached' = attached /\ Active' = Active
        /\ Active \subseteq Deliveries
    BY <1>1, Finite DEF Active
  <2>2. \A e \in Deliveries : phase'[e] \in Waiting <=> phase[e] \in Waiting
    BY <1>7, <1>9 DEF Waiting
  <2>3. \A e \in attached : phase'[e] \in {"Queued", "AwaitingAck"}
    BY <1>9, <2>1 DEF Book
  <2>4. \A e \in Active \ attached : phase'[e] = "AwaitingReconnect"
    BY <1>7, <1>9, <2>1 DEF Book
  <2> QED BY <2>1, <2>2, <2>3, <2>4 DEF Book
<1>12. IdsDiffer' /\ Stages' /\ DeadIsEmpty'
  <2>1. Stages' /\ DeadIsEmpty'
    BY <1>1 DEF Stages, DeadIsEmpty, Alive
  <2> QED BY <1>1, <2>1, IdsFrame
<1>13. InFlight' = IF item \in Deliveries THEN InFlight \cup {item} ELSE InFlight
  <2>1. attached \subseteq Deliveries /\ attached' = attached
    BY <1>1 DEF TypeOK
  <2> QED BY <1>7, <1>9, <2>1 DEF InFlight
<1>14. Counts'
  <2>1. IsFiniteSet(InFlight) /\ Cardinality(InFlight) \in Nat
    BY Finite
  <2>2. item \in Deliveries => Cardinality(InFlight') = Cardinality(InFlight) + 1
    <3>1. item \in Deliveries => item \notin InFlight
      BY <1>7 DEF InFlight
    <3> QED BY <1>13, <2>1, <3>1, FS_AddElement
  <2>3. credit' = Cardinality(InFlight') /\ credit' <= receiveMaximum'
    <3>1. CASE item \in Deliveries
      BY <1>1, <1>2, <2>1, <2>2, <3>1 DEF Counts, HasCredit, TypeOK
    <3>2. CASE item \notin Deliveries
      BY <1>1, <1>13, <3>2 DEF Counts
    <3> QED BY <3>1, <3>2
  <2>4. /\ businessDepth' = Len(outgoing') + Len(deferred')
        /\ businessDepth' <= SendCapacity
    <3>1. /\ businessDepth = Len(outgoing) + Len(deferred)
          /\ businessDepth <= SendCapacity /\ SendCapacity \in Nat
          /\ businessDepth \in Nat
      BY DeliveriesAssumption DEF Counts, TypeOK
    <3>2. businessDepth' = businessDepth - 1
      BY <1>1, <1>2, <3>1 DEF Less
    <3> QED BY <1>2, <3>1, <3>2
  <2>5. Active' = Active
    BY <1>1 DEF Active
  <2> QED BY <1>1, <2>3, <2>4, <2>5 DEF Counts
<1>15. Exchanges'
  <2>1. ~Open(item)
    BY <1>7, <1>8 DEF Open, InFlight
  <2>2. \A x \in Items : Open(x)' <=> Open(x) \/ x = item
    BY <1>1, <1>8, <1>13 DEF Open
  <2>3. /\ \A x \in owed' \cup acks' : Open(x)'
        /\ owed' \cap acks' = {} /\ cause' # "unexpected"
    BY <1>1, <2>2 DEF Exchanges, TypeOK
  <2>4. /\ writer'.item = item /\ writer'.at = "started"
        /\ writer'.dup = Dup(item)
    BY <1>1
  <2>5. /\ Open(item)' /\ item \notin owed' \cup acks'
        /\ item \in Deliveries =>
              /\ item \notin onWire'
              /\ ~Dup(item) => copies'[item] = 0
    <3>1. item \notin owed \cup acks
      BY <2>1 DEF Exchanges
    <3>2. ASSUME item \in Deliveries, ~Dup(item) PROVE copies[item] = 0
      BY <3>2 DEF Dup, History, TypeOK
    <3> QED BY <1>1, <1>7, <2>2, <3>1, <3>2
  <2>6. \A d \in InFlight' : d \in onWire' \/ d = item
    BY <1>1, <1>13 DEF Exchanges
  <2>7. \A d \in onWire' \cap Deliveries :
            phase'[d] \in {"AwaitingAck"} \cup Terminal
    BY <1>1, <1>9 DEF Exchanges
  <2> QED BY <2>3, <2>4, <2>5, <2>6, <2>7 DEF Exchanges
<1>16. LineUp'
  <2>2. LineSorted'
    <3> SUFFICES ASSUME NEW m \in 1..Len(Line'), NEW n \in 1..Len(Line'),
                        m < n, Line'[m] \in Deliveries, Line'[n] \in Deliveries
                 PROVE  Precedes(order', Line'[m], Line'[n])
      BY DEF LineSorted
    <3>1. Precedes(Line, Line'[m], Line'[n])
      BY <1>5
    <3> QED BY <1>1, <1>4, <3>1 DEF LineSorted, Precedes
  <2>3. \A e \in Deliveries : InLine(e)' <=> InLine(e) /\ e # item
    BY <1>5 DEF InLine
  <2>4. LineExact'
    <3>1. Active' = Active
      BY <1>1 DEF Active
    <3> QED BY <1>4, <1>9, <2>3, <3>1 DEF LineExact
  <2>5. StartedFirst'
    <3> SUFFICES ASSUME NEW m \in 1..Len(order), NEW n \in 1..Len(order), m < n,
                        phase'[order[n]] = "AwaitingAck"
                 PROVE  phase'[order[m]] = "AwaitingAck"
      BY <1>1 DEF StartedFirst
    <3>1. /\ order \in Seq(Deliveries) /\ order[m] \in Deliveries
          /\ order[n] \in Deliveries
      <4>1. order \in Seq(Deliveries)
        BY DEF TypeOK
      <4> QED BY <4>1
    <3>2. CASE order[n] # item
      BY <1>4, <1>9, <3>1, <3>2 DEF StartedFirst
    <3>3. CASE order[n] = item /\ phase[order[m]] # "AwaitingAck"
      <4>1. order[m] \in Active /\ item \in Deliveries /\ k = 1
        BY <1>3, <3>1, <3>3, Elements DEF Active
      <4>2. PICK j \in 1..Len(Line) : Line[j] = order[m]
        BY <1>4, <3>1, <3>3, <4>1 DEF LineExact, InLine
      <4>3. order[m] # item
        BY <3>3 DEF Book
      <4>4. 1 < j
        BY <1>3, <4>1, <4>2, <4>3
      <4>5. Precedes(order, item, order[m])
        BY <1>3, <1>4, <3>1, <4>1, <4>2, <4>4 DEF LineSorted
      <4>6. PICK p \in 1..Len(order), q \in 1..Len(order) :
               p < q /\ order[p] = item /\ order[q] = order[m]
        BY <4>5 DEF Precedes
      <4>7. p = n /\ q = m
        BY <3>3, <4>6 DEF Book
      <4> QED BY <4>6, <4>7
    <3>4. CASE order[n] = item /\ phase[order[m]] = "AwaitingAck"
      BY <1>9, <3>1, <3>4
    <3> QED BY <3>2, <3>3, <3>4
  <2> QED BY <1>5, <2>2, <2>4, <2>5 DEF LineUp
<1>17. Queues'
  <2>1. \A n \in 1..Len(outgoing') : outgoing'[n] # item
    <3> SUFFICES ASSUME NEW n \in 1..Len(outgoing') PROVE outgoing'[n] # item
      OBVIOUS
    <3>1. /\ Line'[Len(deferred') + n] = outgoing'[n]
          /\ Len(deferred') + n \in 1..Len(Line')
      <4>1. /\ Line' \in Seq(Items)
            /\ Len(Line') = Len(deferred') + Len(outgoing') + Len(replay')
            /\ \A l \in 1..Len(outgoing') :
                  Line'[Len(deferred') + l] = outgoing'[l]
        <5>1. /\ deferred' \in Seq(Items) /\ outgoing' \in Seq(Items)
              /\ replay' \in Seq(Items)
          <6>1. replay' \in Seq(Deliveries)
            BY <1>1 DEF TypeOK
          <6> QED BY <1>2, <6>1 DEF Items
        <5> QED BY <5>1, LineParts DEF Line
      <4>2. Len(deferred') \in Nat /\ Len(outgoing') \in Nat /\ Len(replay') \in Nat
        BY <1>10 DEF TypeOK
      <4>3. Len(deferred') + n \in 1..Len(Line')
        BY <4>1, <4>2
      <4> QED BY <4>1, <4>3
    <3> QED BY <1>6, <3>1
  <2>2. ASSUME NEW n \in 1..Len(outgoing')
        PROVE  IF outgoing'[n] \in Deliveries
               THEN outgoing'[n] \in attached'
               ELSE outgoing'[n] \in pending' \ started'
    <3>1. PICK m \in 1..Len(outgoing) : outgoing'[n] = outgoing[m]
      BY <1>2
    <3>2. IF outgoing[m] \in Deliveries THEN outgoing[m] \in attached
                                        ELSE outgoing[m] \in pending \ started
      BY DEF Queues
    <3> QED BY <1>1, <2>1, <3>1, <3>2
  <2>3. \A n \in 1..Len(deferred') : deferred'[n] \in attached'
    <3> SUFFICES ASSUME NEW n \in 1..Len(deferred')
                 PROVE  deferred'[n] \in attached
      BY <1>1
    <3>1. deferred'[n] \in Deliveries
      BY <1>2
    <3> QED BY <1>2, <3>1 DEF Queues
  <2>4. started' \cap Requests \subseteq pending'
    BY <1>1, <1>8, DeliveriesAssumption DEF Queues
  <2> QED BY <2>2, <2>3, <2>4 DEF Queues
<1>18. History'
  <2> SUFFICES ASSUME NEW e \in Deliveries PROVE
        (/\ copies[e] > 0 => e \in started
         /\ e \in started => phase[e] \notin {"new", "TerminalNotSent"}
         /\ phase[e] \in {"AwaitingAck", "TerminalOutcomeUnknown"}
              => e \in started
         /\ phase[e] \in {"Acknowledged", "Rejected"} => e \in answered
         /\ e \in owed \cup acks => copies[e] > 0
         /\ e \in answered => copies[e] > 0
         /\ e \in acks => e \in answered
         /\ copies[e] <= attempts[e] /\ attempts[e] <= ReconnectAttempts + 1
         /\ phase[e] = "new" => attempts[e] = 0
         /\ e \in attached /\ e \notin onWire => copies[e] < attempts[e])'
    BY DEF History
  <2>1. CASE e = item
    BY <1>1, <1>7, <1>9, <2>1 DEF History
  <2>2. CASE e # item
    BY <1>1, <1>9, <2>2 DEF History
  <2> QED BY <2>1, <2>2
<1> QED BY <1>10, <1>11, <1>12, <1>14, <1>15, <1>16, <1>17, <1>18

LEMMA WriterDefersKeeps ==
    ASSUME IInv, WriterDefers
    PROVE  IInv'
<1> USE DEF IInv, Kept, clientVars, bookVars, sessionVars, wireVars, peerVars
<1>1. /\ Alive /\ deferred' = deferred \o outgoing /\ outgoing' = <<>>
      /\ UNCHANGED <<clientVars, cause, bookVars, started, sessionVars,
                     businessDepth, credit, receiveMaximum, writer, replay,
                     wireVars, peerVars>>
      /\ \A n \in 1..Len(outgoing) : ~Takeable(n)
  BY DEF WriterDefers, WriterIdles, Deferring, TypeOK
<1>2. outgoing \in Seq(Deliveries)
  <2>1. outgoing \in Seq(Items)
    BY DEF TypeOK
  <2>2. \A n \in 1..Len(outgoing) : outgoing[n] \in Deliveries
    BY <1>1, <2>1 DEF Takeable, Items
  <2> QED BY <2>1, <2>2
<1>3. /\ deferred' \in Seq(Deliveries)
      /\ Len(deferred') = Len(deferred) + Len(outgoing)
      /\ Len(deferred) \in Nat /\ Len(outgoing) \in Nat
      /\ \A n \in 1..Len(deferred) : deferred'[n] = deferred[n]
      /\ \A n \in 1..(Len(deferred) + Len(outgoing)) :
            n > Len(deferred) => deferred'[n] = outgoing[n - Len(deferred)]
  <2>1. deferred \in Seq(Deliveries)
    BY DEF TypeOK
  <2> QED BY <1>1, <1>2, <2>1, Concat
<1>4. Line' = Line
  <2>1. /\ deferred \in Seq(Items) /\ outgoing \in Seq(Items)
        /\ replay \in Seq(Items)
    BY DEF TypeOK, Items
  <2> QED BY <1>1, <2>1, DeferAll DEF Line
<1>5. TypeOK'
  BY <1>1, <1>3 DEF TypeOK
<1>6. DeadIsEmpty' /\ LineUp'
  <2>1. DeadIsEmpty'
    BY <1>1 DEF DeadIsEmpty, Alive
  <2> QED BY <1>1, <1>4, <2>1, LineFrame DEF TypeOK
<1>7. Counts'
  <2>1. Active' = Active /\ InFlight' = InFlight
    BY <1>1 DEF Active, InFlight
  <2>2. businessDepth' = Len(outgoing') + Len(deferred')
    BY <1>1, <1>3 DEF Counts
  <2> QED BY <1>1, <2>1, <2>2 DEF Counts
<1>8. Queues'
  <2>1. ASSUME NEW n \in 1..Len(deferred') PROVE deferred'[n] \in attached
    <3>1. CASE n <= Len(deferred)
      BY <1>3, <3>1 DEF Queues
    <3>2. CASE n > Len(deferred)
      <4> DEFINE m == n - Len(deferred)
      <4>1. m \in 1..Len(outgoing) /\ deferred'[n] = outgoing[m]
        BY <1>3, <3>2
      <4> HIDE DEF m
      <4>2. outgoing[m] \in Deliveries
        BY <1>2, <4>1
      <4> QED BY <4>1, <4>2 DEF Queues
    <3> QED BY <1>3, <3>1, <3>2
  <2> QED BY <1>1, <2>1 DEF Queues
<1> QED BY <1>1, <1>5, <1>6, <1>7, <1>8, BookFrame, IdsFrame, StagesFrame,
           ExchangesFrame, HistoryFrame

LEMMA WriterHandsOverKeeps ==
    ASSUME IInv, WriterHandsOver
    PROVE  IInv'
<1> USE DEF IInv, Kept, clientVars, bookVars, sessionVars, queueVars
<1> DEFINE item == writer.item
<1>1. /\ Alive /\ writer.at = "started"
      /\ writer' = [writer EXCEPT !.at = "writing"]
      /\ copies' = [d \in Deliveries |-> IF d = item THEN copies[d] + 1
                                                     ELSE copies[d]]
      /\ onWire' = onWire \cup {item} /\ owed' = owed \cup {item}
      /\ UNCHANGED <<clientVars, cause, bookVars, started, sessionVars,
                     queueVars, replay, acks, answered>>
  BY DEF WriterHandsOver
<1>2. /\ item \in Items /\ Open(item) /\ item \notin owed \cup acks
      /\ item \in Deliveries => item \notin onWire
  BY <1>1 DEF Exchanges
<1>3. /\ writer'.at = "writing"
      /\ writer' \in [at : {"idle", "started", "writing"},
                      item : Items \cup {NoItem}, dup : BOOLEAN]
  BY <1>1 DEF TypeOK
<1> HIDE DEF item
<1>4. TypeOK'
  <2>1. copies' \in [Deliveries -> Nat]
    BY <1>1 DEF TypeOK
  <2> QED BY <1>1, <1>2, <1>3, <2>1 DEF TypeOK
<1>5. Stages' /\ DeadIsEmpty'
  BY <1>1 DEF Stages, DeadIsEmpty, Alive
<1>6. LineUp'
  BY <1>1, LineFrame DEF Line, TypeOK
<1>7. Exchanges'
  <2>1. InFlight' = InFlight /\ \A x : Open(x)' <=> Open(x)
    BY <1>1 DEF InFlight, Open
  <2>2. /\ \A x \in owed' \cup acks' : Open(x)'
        /\ owed' \cap acks' = {}
    BY <1>1, <1>2, <2>1 DEF Exchanges
  <2>3. \A d \in InFlight : d \in onWire'
    BY <1>1 DEF Exchanges, item
  <2>4. \A d \in onWire' \cap Deliveries :
            phase'[d] \in {"AwaitingAck"} \cup Terminal
    BY <1>1, <1>2 DEF Exchanges, Open, InFlight
  <2> QED BY <1>1, <1>3, <2>1, <2>2, <2>3, <2>4 DEF Exchanges
<1>8. History'
  <2> SUFFICES ASSUME NEW e \in Deliveries PROVE
        (/\ copies[e] > 0 => e \in started
         /\ e \in started => phase[e] \notin {"new", "TerminalNotSent"}
         /\ phase[e] \in {"AwaitingAck", "TerminalOutcomeUnknown"}
              => e \in started
         /\ phase[e] \in {"Acknowledged", "Rejected"} => e \in answered
         /\ e \in owed \cup acks => copies[e] > 0
         /\ e \in answered => copies[e] > 0
         /\ e \in acks => e \in answered
         /\ copies[e] <= attempts[e] /\ attempts[e] <= ReconnectAttempts + 1
         /\ phase[e] = "new" => attempts[e] = 0
         /\ e \in attached /\ e \notin onWire => copies[e] < attempts[e])'
    BY DEF History
  <2>0. /\ copies[e] \in Nat /\ attempts[e] \in Nat
        /\ copies'[e] = IF e = item THEN copies[e] + 1 ELSE copies[e]
    BY <1>1 DEF TypeOK
  <2>1. CASE e = item
    <3>1. /\ e \in attached /\ phase[e] = "AwaitingAck" /\ e \in started
          /\ copies[e] < attempts[e]
      BY <1>2, <2>1 DEF Open, InFlight, History
    <3> QED BY <1>1, <2>0, <2>1, <3>1 DEF History
  <2>2. CASE e # item
    BY <1>1, <2>0, <2>2 DEF History
  <2> QED BY <2>1, <2>2
<1> QED BY <1>1, <1>4, <1>5, <1>6, <1>7, <1>8, BookFrame, IdsFrame, CountsFrame,
           QueuesFrame

LEMMA WriterAbortsKeep ==
    ASSUME IInv, WriterFindsExpired \/ WriteFails
    PROVE  IInv'
BY PlainAbortKeeps DEF WriterFindsExpired, WriteFails, WriterIdles
-----------------------------------------------------------------------------
(* The watchdog, the broker and the reader.                                *)

LEMMA OtherAbortsKeep ==
    ASSUME IInv, \/ \E d \in Deliveries : DeliveryTimesOut(d)
                 \/ \E r \in Requests : RequestAbandoned(r)
                 \/ ReaderEnds
    PROVE  IInv'
<1>1. Alive /\ \E error \in {"lost", "exhausted", "rejected", "fatal"} :
                   Abort(error) /\ UNCHANGED <<clientVars, writer, replay>>
  BY DEF DeliveryTimesOut, RequestAbandoned, ReaderEnds
<1> QED BY <1>1, PlainAbortKeeps

LEMMA BrokerAnswersKeeps ==
    ASSUME IInv, NEW item \in Items, BrokerAnswers(item)
    PROVE  IInv'
<1> USE DEF IInv, Kept, clientVars, bookVars, sessionVars, queueVars, wireVars
<1>1. /\ item \in owed /\ owed' = owed \ {item} /\ acks' = acks \cup {item}
      /\ answered' = answered \cup ({item} \cap Deliveries)
      /\ UNCHANGED <<clientVars, cause, bookVars, started, sessionVars,
                     queueVars, writer, replay, wireVars>>
  BY DEF BrokerAnswers
<1>2. TypeOK'
  <2>1. /\ ClientTyped' /\ BookTyped' /\ SessionTyped' /\ QueueTyped'
        /\ WireTyped'
    BY <1>1, ClientTypeStays, BookTypeStays, SessionTypeStays,
       QueueTypeStays, WireTypeStays
  <2>2. PeerTyped'
    BY <1>1, TypeParts DEF PeerTyped
  <2> QED BY <2>1, <2>2, PartsType
<1>3. DeadIsEmpty'
  BY <1>1 DEF DeadIsEmpty, Alive
<1>4. LineUp'
  BY <1>1, LineFrame DEF Line, TypeOK
<1>5. Exchanges'
  <2>1. InFlight' = InFlight /\ \A x : Open(x)' <=> Open(x)
    BY <1>1 DEF InFlight, Open
  <2> QED BY <1>1, <2>1 DEF Exchanges, Alive
<1>6. History'
  BY <1>1 DEF History
<1> QED BY <1>1, <1>2, <1>3, <1>4, <1>5, <1>6, BookFrame, IdsFrame, StagesFrame,
           CountsFrame, QueuesFrame

(* A PUBACK finds the record it is for, and no other.                      *)
LEMMA NamesItsOwner ==
    ASSUME IInv, NEW d \in Deliveries, d \in owed \cup acks
    PROVE  Named(d) = {d} /\ d \in InFlight
<1>1. d \in InFlight
  BY DEF IInv, Kept, Exchanges, Open
<1>2. d \in attached /\ attached \subseteq Active
  BY <1>1 DEF IInv, Kept, Book, InFlight
<1> QED BY <1>1, <1>2 DEF Named, IInv, Kept, IdsDiffer

LEMMA AsksItsOwner ==
    ASSUME IInv, NEW r \in Requests, r \in owed \cup acks
    PROVE  Asked(r) = {r}
BY DeliveriesAssumption DEF Asked, IInv, Kept, Exchanges, Open, IdsDiffer

LEMMA QueuedInLine ==
    ASSUME TypeOK
    PROVE  /\ \A n \in 1..Len(outgoing) : InLine(outgoing[n])
           /\ \A n \in 1..Len(deferred) : InLine(deferred[n])
<1>1. /\ Len(deferred) \in Nat /\ Len(outgoing) \in Nat
      /\ Len(replay) \in Nat
  BY DEF TypeOK
<1>2. ASSUME NEW n \in 1..Len(outgoing) PROVE InLine(outgoing[n])
  <2> DEFINE m == Len(deferred) + n
  <2>1. Line[m] = outgoing[n]
    BY LineType
  <2>2. m \in 1..Len(Line)
    BY <1>1, LineType
  <2> HIDE DEF m
  <2> QED BY <2>1, <2>2 DEF InLine
<1>3. ASSUME NEW n \in 1..Len(deferred) PROVE InLine(deferred[n])
  <2>1. Line[n] = deferred[n] /\ n \in 1..Len(Line)
    BY <1>1, LineType
  <2> QED BY <2>1 DEF InLine
<1> QED BY <1>2, <1>3

LEMMA ReadsPubackKeeps ==
    ASSUME IInv, NEW d \in Deliveries, ReadsPuback(d)
    PROVE  IInv'
<1> USE DEF IInv, Kept, clientVars, wireVars
<1>1. d \in acks /\ Alive /\ Named(d) = {d} /\ d \in InFlight
  BY NamesItsOwner DEF ReadsPuback
<1>2. d \in attached /\ phase[d] = "AwaitingAck" /\ d \in Active
  BY <1>1 DEF InFlight, Book
<1>3. PICK reply \in {"Acknowledged", "Rejected"} : Completes(d, reply)
  BY <1>1, <1>2 DEF ReadsPuback
<1>4. /\ acks' = acks \ {d}
      /\ UNCHANGED <<clientVars, cause, nextPacketId, packetId, attempts,
                     started, pending, requestId, nextId, outgoing, deferred,
                     businessDepth, receiveMaximum, writer, replay, wireVars,
                     owed, answered>>
  BY <1>1, <1>2 DEF ReadsPuback
<1>5. /\ phase' = [phase EXCEPT ![d] = reply]
      /\ deadline' = [deadline EXCEPT ![d] = "none"]
      /\ attached' = attached \ {d} /\ slots' = Less(slots)
      /\ credit' = Less(credit)
  BY <1>3 DEF Completes, SlotReturned, CreditReturned
<1>6. PICK k \in 1..Len(order) : order[k] = d /\ order' = RemoveAt(order, k)
  BY <1>3 DEF Completes, TypeOK
<1>7. /\ order \in Seq(Deliveries) /\ order' \in Seq(Deliveries)
      /\ Len(order) \in Nat /\ Len(order') = Len(order) - 1
      /\ Leaves(order, d, order')
  <2>1. order \in Seq(Deliveries) /\ Len(order) \in Nat
    BY DEF TypeOK
  <2>2. order' \in Seq(Deliveries) /\ Without(k, order, order')
    BY <1>6, <2>1, Removed
  <2>3. \A m, n \in 1..Len(order) : order[m] = order[n] => m = n
    BY DEF Book
  <2>4. Leaves(order, order[k], order')
    BY <2>1, <2>2, <2>3, LeftInOrder
  <2> QED BY <1>6, <2>1, <2>2, <2>4 DEF Without
<1>8. Active' = Active \ {d}
  <2>1. /\ \A x : x \in Active <=> \E n \in 1..Len(order) : order[n] = x
        /\ \A x : x \in Active' <=> \E n \in 1..Len(order') : order'[n] = x
    BY <1>7, Elements DEF Active
  <2>2. \A x : x \in Active' <=> x \in Active /\ x # d
    BY <1>7, <2>1 DEF Leaves
  <2> QED BY <2>2
<1>9. \A e \in Deliveries : phase'[e] = IF e = d THEN reply ELSE phase[e]
  BY <1>5 DEF TypeOK
<1>10. TypeOK'
  <2>1. phase' \in [Deliveries -> {"new"} \cup Waiting \cup Terminal]
    <3>1. reply \in {"new"} \cup Waiting \cup Terminal
      BY DEF Terminal
    <3> QED BY <1>5, <3>1 DEF TypeOK
  <2>2. /\ deadline' \in [Deliveries -> {"none", "start", "ack"}]
        /\ attached' \subseteq Deliveries /\ acks' \subseteq Items
    BY <1>4, <1>5 DEF TypeOK
  <2>3. slots' \in Nat /\ credit' \in Nat
    BY <1>5 DEF TypeOK, Less
  <2>4. ClientTyped' /\ WireTyped'
    BY <1>4, ClientTypeStays, WireTypeStays
  <2>5. BookTyped'
    BY <1>4, <1>7, <2>1, <2>2, TypeParts DEF BookTyped
  <2>6. SessionTyped'
    BY <1>4, <2>2, <2>3, TypeParts DEF SessionTyped
  <2>7. QueueTyped'
    BY <1>4, <2>3, TypeParts DEF QueueTyped
  <2>8. PeerTyped'
    BY <1>4, <2>2, TypeParts DEF PeerTyped
  <2> QED BY <2>4, <2>5, <2>6, <2>7, <2>8, PartsType
<1>11. Book'
  <2>1. \A e \in Deliveries : e \in Active' <=> phase'[e] \in Waiting
    BY <1>8, <1>9 DEF Book, Waiting
  <2>2. Active \subseteq Deliveries
    BY Finite
  <2>3. /\ attached' \subseteq Active'
        /\ \A e \in attached' : phase'[e] \in {"Queued", "AwaitingAck"}
        /\ \A e \in Active' \ attached' : phase'[e] = "AwaitingReconnect"
    BY <1>5, <1>8, <1>9, <2>2 DEF Book
  <2>4. \A m, n \in 1..Len(order') : order'[m] = order'[n] => m = n
    BY <1>7 DEF Leaves
  <2> QED BY <2>1, <2>3, <2>4 DEF Book
<1>12. IdsDiffer'
  BY <1>4, <1>8 DEF IdsDiffer
<1>13. Stages' /\ DeadIsEmpty'
  <2>1. everReady
    BY <1>2, Elements DEF Stages, Active, TypeOK
  <2> QED BY <1>1, <1>4, <2>1 DEF Stages, DeadIsEmpty, Alive
<1>14. InFlight' = InFlight \ {d}
  <2>1. attached \subseteq Deliveries
    BY DEF TypeOK
  <2> QED BY <1>5, <1>9, <2>1 DEF InFlight
<1>15. Counts'
  <2>1. /\ IsFiniteSet(InFlight) /\ Cardinality(InFlight) \in Nat
        /\ IsFiniteSet(attached) /\ Cardinality(attached) \in Nat
        /\ IsFiniteSet(Active) /\ Cardinality(Active) \in Nat
        /\ Cardinality(pending) \in Nat
    BY Finite
  <2>2. /\ Cardinality(InFlight') = Cardinality(InFlight) - 1
        /\ Cardinality(attached') = Cardinality(attached) - 1
        /\ Cardinality(Active') = Cardinality(Active) - 1
    BY <1>1, <1>2, <1>5, <1>8, <1>14, <2>1, FS_RemoveElement
  <2>3. Cardinality(InFlight) > 0 /\ Cardinality(attached) > 0
    BY <1>1, <1>2, <2>1, FS_EmptySet
  <2>4. /\ slots' = Cardinality(attached') /\ slots' = slots - 1
        /\ credit' = Cardinality(InFlight') /\ credit' = credit - 1
    BY <1>5, <2>1, <2>2, <2>3 DEF Counts, Less
  <2>5. /\ slots' + Cardinality(pending') <= MaxInflight
        /\ credit' <= receiveMaximum'
    <3>1. /\ slots \in Nat /\ credit \in Nat /\ receiveMaximum \in Nat
          /\ MaxInflight \in Nat /\ pending' = pending
      BY <1>4, DeliveriesAssumption DEF TypeOK
    <3>2. /\ slots + Cardinality(pending) <= MaxInflight
          /\ credit <= receiveMaximum
      BY DEF Counts
    <3>3. slots' + Cardinality(pending') <= MaxInflight
      BY <2>1, <2>4, <3>1, <3>2
    <3>4. credit' <= receiveMaximum'
      BY <1>4, <2>4, <3>1, <3>2
    <3> QED BY <3>3, <3>4
  <2>6. Len(order') = Cardinality(Active') /\ Len(order') <= MaxInflight
    BY <1>7, <2>1, <2>2, DeliveriesAssumption DEF Counts
  <2> QED BY <1>4, <2>4, <2>5, <2>6 DEF Counts
<1>16. Exchanges'
  <2>1. \A x \in Items : x # d => (Open(x)' <=> Open(x))
    BY <1>4, <1>14 DEF Open
  <2>2. d \notin owed /\ d \notin acks'
    BY <1>1, <1>4 DEF Exchanges
  <2>3. /\ \A x \in owed' \cup acks' : Open(x)'
        /\ owed' \cap acks' = {}
    BY <1>4, <2>1, <2>2 DEF Exchanges, TypeOK
  <2>4. writer.at = "started" => writer.item # d
    BY <1>1 DEF Exchanges
  <2>5. \A e \in InFlight' :
            e \in onWire' \/ (writer'.at = "started" /\ writer'.item = e)
    BY <1>1, <1>4, <1>14 DEF Exchanges
  <2>6. \A e \in onWire' \cap Deliveries :
            phase'[e] \in {"AwaitingAck"} \cup Terminal
    BY <1>1, <1>4, <1>9 DEF Exchanges, Terminal
  <2>7. writer.at = "started" =>
          /\ writer.item \in Items
          /\ IF writer.item \in Deliveries
             THEN writer.item \in InFlight'
             ELSE writer.item \in pending' \cap started'
          /\ writer.item \notin owed' \cup acks'
          /\ writer.item \in Deliveries =>
                /\ writer.item \notin onWire'
                /\ ~writer.dup => copies'[writer.item] = 0
    BY <1>1, <1>4, <1>14, <2>4 DEF Exchanges, Open
  <2> QED BY <1>4, <2>3, <2>5, <2>6, <2>7 DEF Exchanges, Open
<1>17. LineUp'
  <2>1. LineOnce /\ LineSorted /\ LineExact /\ StartedFirst
    BY <1>1 DEF LineUp
  <2>2. Line' = Line
    BY <1>4 DEF Line
  <2>3. ~InLine(d)
    BY <1>2, <2>1 DEF LineExact
  <2>4. LineOnce'
    BY <2>1, <2>2 DEF LineOnce
  <2>5. LineSorted'
    <3> SUFFICES ASSUME NEW m \in 1..Len(Line), NEW n \in 1..Len(Line),
                        m < n, Line[m] \in Deliveries, Line[n] \in Deliveries
                 PROVE  Precedes(order', Line[m], Line[n])
      BY <2>2 DEF LineSorted
    <3>1. Precedes(order, Line[m], Line[n])
      BY <2>1 DEF LineSorted
    <3>2. Line[m] # d /\ Line[n] # d
      BY <2>3 DEF InLine
    <3> QED BY <1>7, <3>1, <3>2 DEF Leaves
  <2>6. LineExact'
    <3>1. \A e \in Deliveries : InLine(e)' <=> InLine(e)
      BY <2>2 DEF InLine
    <3> QED BY <1>8, <1>9, <2>1, <2>3, <3>1 DEF LineExact
  <2>7. StartedFirst'
    <3> SUFFICES ASSUME NEW m \in 1..Len(order'), NEW n \in 1..Len(order'),
                        m < n, phase'[order'[n]] = "AwaitingAck"
                 PROVE  phase'[order'[m]] = "AwaitingAck"
      BY DEF StartedFirst
    <3>0. Precedes(order, order'[m], order'[n])
      BY <1>7 DEF Leaves
    <3>1. PICK p \in 1..Len(order), q \in 1..Len(order) :
             p < q /\ order[p] = order'[m] /\ order[q] = order'[n]
      BY <3>0 DEF Precedes
    <3>2. order[p] # d /\ order[q] # d
      BY <1>7, <3>1 DEF Leaves
    <3>3. order[p] \in Deliveries /\ order[q] \in Deliveries
      BY <1>7
    <3> QED BY <1>9, <2>1, <3>1, <3>2, <3>3 DEF StartedFirst
  <2> QED BY <2>4, <2>5, <2>6, <2>7 DEF LineUp
<1>18. Queues'
  <2>1. ~InLine(d)
    BY <1>1, <1>2 DEF LineUp, LineExact
  <2>2. /\ \A n \in 1..Len(outgoing) : outgoing[n] # d
        /\ \A n \in 1..Len(deferred) : deferred[n] # d
    BY <2>1, QueuedInLine
  <2> QED BY <1>4, <1>5, <2>2 DEF Queues
<1>19. History'
  <2> SUFFICES ASSUME NEW e \in Deliveries PROVE
        (/\ copies[e] > 0 => e \in started
         /\ e \in started => phase[e] \notin {"new", "TerminalNotSent"}
         /\ phase[e] \in {"AwaitingAck", "TerminalOutcomeUnknown"}
              => e \in started
         /\ phase[e] \in {"Acknowledged", "Rejected"} => e \in answered
         /\ e \in owed \cup acks => copies[e] > 0
         /\ e \in answered => copies[e] > 0
         /\ e \in acks => e \in answered
         /\ copies[e] <= attempts[e] /\ attempts[e] <= ReconnectAttempts + 1
         /\ phase[e] = "new" => attempts[e] = 0
         /\ e \in attached /\ e \notin onWire => copies[e] < attempts[e])'
    BY DEF History
  <2>1. CASE e = d
    BY <1>1, <1>4, <1>5, <1>9, <2>1 DEF History
  <2>2. CASE e # d
    BY <1>4, <1>5, <1>9, <2>2 DEF History
  <2> QED BY <2>1, <2>2
<1> QED BY <1>10, <1>11, <1>12, <1>13, <1>15, <1>16, <1>17, <1>18, <1>19

LEMMA ReadsSubackKeeps ==
    ASSUME IInv, NEW r \in Requests, ReadsSuback(r)
    PROVE  IInv'
<1> USE DEF IInv, Kept, clientVars, bookVars, queueVars, wireVars
<1>1. Alive /\ r \in acks /\ Asked(r) = {r} /\ r \notin Deliveries
  BY AsksItsOwner, DeliveriesAssumption DEF ReadsSuback
<1>2. /\ pending' = pending \ {r} /\ started' = started \ {r}
      /\ acks' = acks \ {r}
      /\ UNCHANGED <<clientVars, cause, bookVars, attached, slots, requestId,
                     nextId, queueVars, writer, replay, wireVars, owed,
                     answered>>
  BY <1>1 DEF ReadsSuback
<1>3. r \in pending /\ r \in started /\ r \notin owed
  BY <1>1 DEF Exchanges, Open
<1>4. TypeOK'
  BY <1>2 DEF TypeOK
<1>5. IdsDiffer' /\ Stages' /\ DeadIsEmpty'
  <2>1. Active' = Active
    BY <1>2 DEF Active
  <2> QED BY <1>1, <1>2, <2>1 DEF IdsDiffer, Stages, DeadIsEmpty, Alive
<1>6. Counts'
  <2>1. IsFiniteSet(pending) /\ Cardinality(pending) \in Nat
    BY Finite
  <2>2. Cardinality(pending') = Cardinality(pending) - 1
    BY <1>2, <1>3, <2>1, FS_RemoveElement
  <2>3. Active' = Active /\ InFlight' = InFlight
    BY <1>2 DEF Active, InFlight
  <2>4. slots' + Cardinality(pending') <= MaxInflight
    <3>1. slots \in Nat /\ MaxInflight \in Nat /\ slots' = slots
      BY <1>2, DeliveriesAssumption DEF TypeOK
    <3>2. slots + Cardinality(pending) <= MaxInflight
      BY DEF Counts
    <3> QED BY <2>1, <2>2, <3>1, <3>2
  <2> QED BY <1>2, <2>3, <2>4 DEF Counts
<1>7. Exchanges'
  <2>1. InFlight' = InFlight
    BY <1>2 DEF InFlight
  <2>2. \A x : x # r => (Open(x)' <=> Open(x))
    BY <1>2, <2>1 DEF Open
  <2>3. writer.at = "started" => writer.item # r
    BY <1>1 DEF Exchanges
  <2>4. writer.at = "started" =>
          /\ writer.item \in Items
          /\ IF writer.item \in Deliveries
             THEN writer.item \in InFlight'
             ELSE writer.item \in pending' \cap started'
          /\ writer.item \notin owed' \cup acks'
          /\ writer.item \in Deliveries =>
                /\ writer.item \notin onWire'
                /\ ~writer.dup => copies'[writer.item] = 0
    BY <1>1, <1>2, <2>1, <2>3 DEF Exchanges, Open
  <2>5. /\ \A x \in owed' \cup acks' : Open(x)'
        /\ owed' \cap acks' = {}
    BY <1>2, <1>3, <2>2 DEF Exchanges
  <2>6. /\ \A d \in InFlight' :
              d \in onWire' \/ (writer'.at = "started" /\ writer'.item = d)
        /\ \A d \in onWire' \cap Deliveries :
              phase'[d] \in {"AwaitingAck"} \cup Terminal
        /\ cause' # "unexpected"
    BY <1>1, <1>2, <2>1 DEF Exchanges
  <2> QED BY <1>2, <2>4, <2>5, <2>6 DEF Exchanges, Open
<1>8. LineUp'
  BY <1>2, LineFrame DEF Line, TypeOK
<1>9. Queues'
  BY <1>1, <1>2, <1>3 DEF Queues
<1>10. History'
  <2>1. \A e \in Deliveries : /\ e \in started' <=> e \in started
                              /\ e \in acks' <=> e \in acks
    BY <1>1, <1>2
  <2> QED BY <1>2, <2>1 DEF History
<1> QED BY <1>2, <1>4, <1>5, <1>6, <1>7, <1>8, <1>9, <1>10, BookFrame
-----------------------------------------------------------------------------
(* The invariant.                                                          *)

LEMMA NextKeeps ==
    ASSUME IInv, [Next]_vars
    PROVE  IInv'
<1>1. CASE UNCHANGED vars
  BY <1>1, StutterKeeps
<1>2. ASSUME NEW d \in Deliveries,
             \/ SubmitDelivery(d) \/ SubmitRefused(d) \/ DeliveryTimesOut(d)
             \/ ReadsPuback(d)
      PROVE  IInv'
  BY <1>2, SubmitDeliveryKeeps, SmallStepsKeep, OtherAbortsKeep,
     ReadsPubackKeeps
<1>3. ASSUME NEW r \in Requests,
             Request(r) \/ RequestAbandoned(r) \/ ReadsSuback(r)
      PROVE  IInv'
  BY <1>3, RequestKeeps, OtherAbortsKeep, ReadsSubackKeeps
<1>4. CASE Disconnect \/ DisconnectEnds \/ BecomesReady \/ ConnectionEnds
  BY <1>4, SmallStepsKeep, DisconnectEndsKeeps, SupervisorEndsKeep
<1>5. CASE Dial
  BY <1>5, SupervisorEndsKeep, DialConnectsKeeps DEF Dial
<1>6. CASE Replay
  BY <1>6, ReplayAttachesKeeps, ReplayEnqueuesKeeps, ReplayStopsKeeps
     DEF Replay
<1>7. ASSUME NEW item \in Items, WriterStarts(item) \/ BrokerAnswers(item)
      PROVE  IInv'
  BY <1>7, WriterStartsKeeps, BrokerAnswersKeeps
<1>8. CASE \/ WriterDefers \/ WriterFindsExpired \/ WriterHandsOver
           \/ WriteReturns \/ WriteFails
  BY <1>8, WriterDefersKeeps, WriterAbortsKeep, WriterHandsOverKeeps,
     SmallStepsKeep
<1>9. CASE ReaderEnds
  BY <1>9, OtherAbortsKeep
<1> QED BY <1>1, <1>2, <1>3, <1>4, <1>5, <1>6, <1>7, <1>8, <1>9 DEF Next

LEMMA IInvHolds == Spec => []IInv
BY InitKeeps, NextKeeps, PTL DEF Spec

(* Every variable keeps its type: both allocators stay within the packet   *)
(* identifiers when they wrap around (next_packet_id, next_id), and what   *)
(* is deferred or replayed is always a delivery.                           *)
THEOREM TypesHold == Spec => []TypeOK
<1>1. IInv => TypeOK
  BY DEF IInv
<1> QED BY <1>1, IInvHolds, PTL

(* finish_terminal decides by ever_started, which detach and attach leave  *)
(* alone: "not sent" is said only of a delivery of which no copy ever went *)
(* out, and success or rejection only of what the broker answered.         *)
THEOREM HandlesAreTrue == Spec => []HandlesTellTheTruth
<1>1. ASSUME IInv PROVE HandlesTellTheTruth
  <2> SUFFICES ASSUME NEW d \in Deliveries
               PROVE  /\ phase[d] \in {"new", "TerminalNotSent"} => copies[d] = 0
                      /\ phase[d] \in {"Acknowledged", "Rejected"} => d \in answered
    BY DEF HandlesTellTheTruth
  <2>1. copies[d] \in Nat
    BY <1>1 DEF IInv, TypeOK
  <2> QED BY <1>1, <2>1 DEF IInv, Kept, History
<1> QED BY <1>1, IInvHolds, PTL

(* allocate and allocate_delivery_id pass over each other's identifiers,   *)
(* those of detached records included, so an answer to anything written on *)
(* this connection finds its record or request and nothing else, however   *)
(* often the identifiers wrap around; it never ends the client.            *)
THEOREM AnswersAreFound == Spec => []AnswersFindTheirOwner
<1>1. ASSUME IInv PROVE AnswersFindTheirOwner
  <2>1. cause # "unexpected"
    BY <1>1 DEF IInv, Kept, Exchanges
  <2>2. ASSUME NEW item \in owed \cup acks
        PROVE  IF item \in Deliveries THEN Named(item) = {item}
                                      ELSE Asked(item) = {item}
    <3>1. item \in Items
      BY <1>1 DEF IInv, TypeOK
    <3>2. CASE item \in Deliveries
      BY <1>1, <3>2, NamesItsOwner
    <3>3. CASE item \notin Deliveries
      <4>1. item \in Requests
        BY <3>1, <3>3 DEF Items
      <4> QED BY <1>1, <3>3, <4>1, AsksItsOwner
    <3> QED BY <3>2, <3>3
  <2> QED BY <2>1, <2>2 DEF AnswersFindTheirOwner
<1> QED BY <1>1, IInvHolds, PTL

(* delivery_slots, business_depth and qos1_outstanding count exactly what  *)
(* they stand for, so that max_inflight, send_capacity and the broker's    *)
(* Receive Maximum hold across abort, replay, deferral and acknowledgement. *)
THEOREM LimitsAreKept == Spec => []LimitsHold
<1>1. ASSUME IInv PROVE LimitsHold
  <2>1. IsFiniteSet(InFlight)
    BY <1>1, Finite DEF IInv, Kept
  <2>2. (owed \cup acks) \cap Deliveries \subseteq InFlight
    BY <1>1 DEF IInv, Kept, Exchanges, Open
  <2>3. /\ Cardinality((owed \cup acks) \cap Deliveries) <= Cardinality(InFlight)
        /\ Cardinality((owed \cup acks) \cap Deliveries) \in Nat
        /\ Cardinality(InFlight) \in Nat
    BY <2>1, <2>2, FS_Subset, FS_CardinalityType
  <2>4. credit = Cardinality(InFlight) /\ credit <= receiveMaximum
    BY <1>1 DEF IInv, Kept, Counts
  <2>5. receiveMaximum \in Nat
    BY <1>1 DEF IInv, TypeOK
  <2>6. Cardinality((owed \cup acks) \cap Deliveries) <= receiveMaximum
    BY <2>3, <2>4, <2>5
  <2> QED BY <1>1, <2>6 DEF IInv, Kept, Counts, LimitsHold
<1> QED BY <1>1, IInvHolds, PTL
-----------------------------------------------------------------------------
(* What leaves.                                                            *)

LEMMA OnlyHandingOver ==
    ASSUME [Next]_vars
    PROVE  WriterHandsOver \/ copies' = copies
<1> USE DEF wireVars, CloseSession, Abort
<1>1. CASE UNCHANGED vars
  BY <1>1 DEF vars
<1>2. ASSUME NEW d \in Deliveries,
             \/ SubmitDelivery(d) \/ SubmitRefused(d) \/ DeliveryTimesOut(d)
             \/ ReadsPuback(d)
      PROVE  copies' = copies
  BY <1>2 DEF SubmitDelivery, SubmitRefused, DeliveryTimesOut, ReadsPuback
<1>3. ASSUME NEW r \in Requests,
             Request(r) \/ RequestAbandoned(r) \/ ReadsSuback(r)
      PROVE  copies' = copies
  BY <1>3 DEF Request, RequestAbandoned, ReadsSuback
<1>4. CASE Disconnect \/ DisconnectEnds \/ BecomesReady \/ ConnectionEnds
  BY <1>4 DEF Disconnect, DisconnectEnds, BecomesReady, ConnectionEnds
<1>5. CASE Dial
  BY <1>5 DEF Dial, DialFails, DialFindsNoSession, DialConnects
<1>6. CASE Replay
  BY <1>6 DEF Replay, ReplayAttaches, ReplayEnqueues, ReplayExhausted,
              ReplayFindsExpired
<1>7. ASSUME NEW item \in Items, WriterStarts(item) \/ BrokerAnswers(item)
      PROVE  copies' = copies
  BY <1>7 DEF WriterStarts, BrokerAnswers
<1>8. CASE \/ WriterDefers \/ WriterFindsExpired \/ WriteReturns
           \/ WriteFails \/ ReaderEnds
  BY <1>8 DEF WriterDefers, WriterFindsExpired, WriteReturns, WriteFails,
              ReaderEnds
<1> QED BY <1>1, <1>2, <1>3, <1>4, <1>5, <1>6, <1>7, <1>8 DEF Next

LEMMA HandsOverInTurn ==
    ASSUME IInv, WriterHandsOver, NEW d \in Deliveries, Hands(d)
    PROVE  /\ \E n \in DOMAIN order :
                 order[n] = d /\ \A m \in 1..(n - 1) : order[m] \in onWire
           /\ ~writer.dup => copies[d] = 0
           /\ copies[d] <= ReconnectAttempts
<1> USE DEF IInv, Kept
<1>1. Alive /\ writer.at = "started" /\ writer.item = d
  <2>1. /\ Alive /\ writer.at = "started"
        /\ copies'[d] = IF d = writer.item THEN copies[d] + 1 ELSE copies[d]
    BY DEF WriterHandsOver
  <2>2. copies[d] \in Nat
    BY DEF TypeOK
  <2> QED BY <2>1, <2>2 DEF Hands
<1>2. d \in InFlight /\ d \notin onWire /\ (~writer.dup => copies[d] = 0)
  BY <1>1 DEF Exchanges, Open
<1>3. d \in attached /\ d \in Active /\ phase[d] = "AwaitingAck"
  BY <1>2 DEF InFlight, Book
<1>4. copies[d] <= ReconnectAttempts
  <2>1. /\ copies[d] \in Nat /\ attempts[d] \in Nat /\ ReconnectAttempts \in Nat
    BY DeliveriesAssumption DEF TypeOK
  <2>2. copies[d] < attempts[d] /\ attempts[d] <= ReconnectAttempts + 1
    BY <1>2, <1>3 DEF History
  <2> QED BY <2>1, <2>2
<1>5. order \in Seq(Deliveries) /\ DOMAIN order = 1..Len(order)
      /\ Len(order) \in Nat
  BY DEF TypeOK
<1>6. PICK n \in 1..Len(order) : order[n] = d
  BY <1>3, <1>5, Elements DEF Active
<1>7. ASSUME NEW m \in 1..(n - 1) PROVE order[m] \in onWire
  <2>1. m \in 1..Len(order) /\ m < n /\ m # n
    BY <1>5
  <2>2. order[m] \in Deliveries /\ order[m] \in Active
    BY <1>5, <2>1, Elements DEF Active
  <2>3. phase[order[m]] = "AwaitingAck"
    BY <1>1, <1>3, <1>6, <2>1 DEF LineUp, StartedFirst
  <2>4. order[m] \in InFlight
    BY <2>2, <2>3 DEF Book, InFlight
  <2>5. order[m] # d
    BY <1>6, <2>1 DEF Book
  <2> QED BY <1>1, <2>4, <2>5 DEF Exchanges
<1> QED BY <1>2, <1>4, <1>5, <1>6, <1>7

(* replay_deliveries copies the book in the order of admission, the queue  *)
(* and next_outgoing keep that order, and attach counts every connection:  *)
(* each copy follows those of all earlier deliveries of the book on this   *)
(* connection, carries DUP unless it is the first ever, and is one of at   *)
(* most reconnect_attempts + 1.                                            *)
THEOREM CopiesLeaveInTurn == Spec => CopiesAreDue
<1> DEFINE Due == \A d \in Deliveries : Hands(d) =>
               /\ \E n \in DOMAIN order :
                     order[n] = d /\ \A m \in 1..(n - 1) : order[m] \in onWire
               /\ ~writer.dup => copies[d] = 0
               /\ copies[d] <= ReconnectAttempts
<1>1. ASSUME IInv, [Next]_vars PROVE Due
  <2> SUFFICES ASSUME NEW d \in Deliveries, Hands(d)
               PROVE  /\ \E n \in DOMAIN order :
                            /\ order[n] = d
                            /\ \A m \in 1..(n - 1) : order[m] \in onWire
                      /\ ~writer.dup => copies[d] = 0
                      /\ copies[d] <= ReconnectAttempts
    OBVIOUS
  <2>1. WriterHandsOver
    <3>1. copies[d] \in Nat
      BY <1>1 DEF IInv, TypeOK
    <3> QED BY <1>1, <3>1, OnlyHandingOver DEF Hands
  <2> QED BY <1>1, <2>1, HandsOverInTurn
<1>2. IInv /\ [Next]_vars => [Due]_vars
  BY <1>1
<1> HIDE DEF Due
<1>3. Spec => [][Due]_vars
  BY <1>2, IInvHolds, PTL DEF Spec
<1> QED BY <1>3 DEF CopiesAreDue, Due
-----------------------------------------------------------------------------
(* The contract.                                                           *)

Entries == [d \in Deliveries |-> Said(d)]

Sent == {d \in Deliveries : copies[d] > 0}

SaidIs(d, said) ==
    /\ phase[d] = "new" => said = "none"
    /\ phase[d] \in Waiting =>
          said = IF d \in started THEN "possible" ELSE "unsent"
    /\ phase[d] = "TerminalOutcomeUnknown" => said = "quarantined"
    /\ phase[d] \in {"Acknowledged", "Rejected", "TerminalNotSent"}
          => said = "erased"

LEMMA SaidNow ==
    ASSUME NEW d \in Deliveries
    PROVE  SaidIs(d, Said(d))
<1>1. CASE phase[d] = "new"
  BY <1>1 DEF SaidIs, Said, Waiting
<1>2. CASE phase[d] \in Waiting
  BY <1>2 DEF SaidIs, Said, Waiting
<1>3. CASE phase[d] = "TerminalOutcomeUnknown"
  BY <1>3 DEF SaidIs, Said, Waiting
<1>4. CASE phase[d] \in {"Acknowledged", "Rejected", "TerminalNotSent"}
  BY <1>4 DEF SaidIs, Said, Waiting
<1> QED BY <1>1, <1>2, <1>3, <1>4 DEF SaidIs

LEMMA SaidNext ==
    ASSUME NEW d \in Deliveries
    PROVE  SaidIs(d, Said(d))'
<1>1. CASE phase'[d] = "new"
  BY <1>1 DEF SaidIs, Said, Waiting
<1>2. CASE phase'[d] \in Waiting
  BY <1>2 DEF SaidIs, Said, Waiting
<1>3. CASE phase'[d] = "TerminalOutcomeUnknown"
  BY <1>3 DEF SaidIs, Said, Waiting
<1>4. CASE phase'[d] \in {"Acknowledged", "Rejected", "TerminalNotSent"}
  BY <1>4 DEF SaidIs, Said, Waiting
<1> QED BY <1>1, <1>2, <1>3, <1>4 DEF SaidIs

(* What moves a delivery between connections says nothing new of it.       *)
Quiet(d) ==
    /\ \/ phase'[d] = phase[d]
       \/ phase[d] \in Waiting /\ phase'[d] \in Waiting
    /\ d \in started' <=> d \in started

LEMMA QuietStep ==
    ASSUME TypeOK, NEW d \in Deliveries, Quiet(d)
    PROVE  Said(d)' = Said(d)
<1>1. CASE phase'[d] = phase[d]
  BY <1>1 DEF Quiet, Said, Waiting
<1>2. CASE phase[d] \in Waiting /\ phase'[d] \in Waiting
  BY <1>2, SaidNow, SaidNext DEF Quiet, SaidIs
<1> QED BY <1>1, <1>2 DEF Quiet

LEMMA QuietSteps ==
    ASSUME TypeOK, \A d \in Deliveries : Quiet(d), UNCHANGED <<copies, answered>>
    PROVE  UNCHANGED <<Entries, Sent, answered>>
<1>1. \A d \in Deliveries : Said(d)' = Said(d)
  BY QuietStep
<1> QED BY <1>1 DEF Entries, Sent

(* Losing a connection.                                                    *)
LEMMA AbortQuiet ==
    ASSUME IInv, NEW error, CloseSession(error), phase' = Detached
    PROVE  UNCHANGED <<Entries, Sent, answered>>
<1>1. ASSUME NEW d \in Deliveries PROVE Quiet(d)
  <2>1. d \in started' <=> d \in started
    BY DeliveriesAssumption DEF CloseSession
  <2>2. phase'[d] = IF d \in attached THEN "AwaitingReconnect" ELSE phase[d]
    BY DEF Detached
  <2>3. d \in attached => phase[d] \in Waiting
    BY DEF IInv, Kept, Book, Waiting
  <2> QED BY <2>1, <2>2, <2>3 DEF Quiet, Waiting
<1> QED BY <1>1, QuietSteps DEF CloseSession, IInv

(* The end of the client settles what is left, all at once.                *)
LEMMA EndsExpires ==
    ASSUME IInv, Ends, UNCHANGED <<copies, answered>>,
           \A d \in Deliveries : d \in started' <=> d \in started
    PROVE  Contract!Expire(Active)
<1> USE DEF IInv, Kept
<1>1. Active \subseteq Deliveries
  BY Finite
<1>2. ASSUME NEW d \in Active PROVE Said(d) \in {"unsent", "possible"}
  <2>1. d \in Deliveries /\ phase[d] \in Waiting
    BY <1>1 DEF Book
  <2> QED BY <2>1, SaidNow DEF SaidIs
<1>3. ASSUME NEW d \in Deliveries
      PROVE  Said(d)' = IF d \notin Active THEN Said(d)
                        ELSE IF Said(d) = "unsent" THEN "erased"
                                                   ELSE "quarantined"
  <2>1. phase'[d] = IF d \in Active THEN Outcome(d) ELSE phase[d]
    BY DEF Ends
  <2>2. CASE d \notin Active
    BY <2>1, <2>2, QuietStep DEF Quiet
  <2>3. CASE d \in Active
    <3>1. phase[d] \in Waiting
      BY <2>3 DEF Book
    <3> QED BY <2>1, <2>3, <3>1, SaidNow, SaidNext DEF SaidIs, Outcome
  <2> QED BY <2>2, <2>3
<1> QED BY <1>1, <1>2, <1>3 DEF Contract!Expire

Maps == Contract!Next \/ UNCHANGED <<Entries, Sent, answered>>

LEMMA EndsMaps ==
    ASSUME IInv, Ends, UNCHANGED <<copies, answered>>,
           \A d \in Deliveries : d \in started' <=> d \in started
    PROVE  Maps
<1>1. Active \in SUBSET Deliveries
  BY Finite DEF IInv, Kept
<1> QED BY <1>1, EndsExpires DEF Maps, Contract!Next

LEMMA TryAgainMaps ==
    ASSUME IInv, Ends \/ TryAgain, UNCHANGED <<copies, answered, started>>
    PROVE  Maps
<1>1. CASE Ends
  BY <1>1, EndsMaps
<1>2. CASE ~Ends
  <2>1. phase' = phase
    BY <1>2 DEF TryAgain
  <2> QED BY <2>1, QuietSteps DEF Quiet, Maps, IInv
<1> QED BY <1>1, <1>2

LEMMA SupervisorMaps ==
    ASSUME IInv, \/ Dial \/ ConnectionEnds \/ DisconnectEnds
                 \/ Disconnect \/ BecomesReady
    PROVE  Maps
<1> USE DEF bookVars, wireVars, peerVars
<1>1. CASE DialFails \/ DialFindsNoSession \/ ConnectionEnds
  BY <1>1, TryAgainMaps DEF DialFails, DialFindsNoSession, ConnectionEnds
<1>2. CASE DisconnectEnds
  BY <1>2, EndsMaps, DeliveriesAssumption DEF DisconnectEnds, CloseSession
<1>3. CASE DialConnects \/ Disconnect \/ BecomesReady
  BY <1>3, QuietSteps
     DEF DialConnects, Disconnect, BecomesReady, Quiet, Maps, IInv
<1> QED BY <1>1, <1>2, <1>3 DEF Dial

LEMMA ReplayMaps ==
    ASSUME IInv, NEW d \in Deliveries,
           \/ ReplayAttaches(d) \/ ReplayEnqueues(d)
           \/ ReplayExhausted(d) \/ ReplayFindsExpired(d)
    PROVE  Maps
<1> USE DEF bookVars, wireVars, peerVars
<1>1. CASE ReplayExhausted(d)
  BY <1>1, AbortQuiet DEF ReplayExhausted, Abort, Maps
<1>2. CASE ReplayEnqueues(d)
  BY <1>2, QuietSteps DEF ReplayEnqueues, Quiet, Maps, IInv
<1>3. CASE ReplayAttaches(d) \/ ReplayFindsExpired(d)
  <2>1. Replays(d) /\ d \notin attached
    BY <1>3 DEF ReplayAttaches, ReplayFindsExpired
  <2>2. phase[d] = "AwaitingReconnect"
    BY <2>1, ReplayHead DEF IInv, Kept, Book
  <2>3. CASE ReplayAttaches(d)
    <3>1. /\ phase' = [phase EXCEPT ![d] = "Queued"]
          /\ UNCHANGED <<started, copies, answered>>
      BY <2>3 DEF ReplayAttaches, Attach
    <3>2. \A e \in Deliveries : Quiet(e)
      BY <2>2, <3>1 DEF Quiet, Waiting, IInv, TypeOK
    <3> QED BY <3>1, <3>2, QuietSteps DEF Maps, IInv
  <2>4. CASE ReplayFindsExpired(d)
    <3>1. phase' = Detached /\ CloseSession("rejected")
      BY <2>2, <2>4 DEF ReplayFindsExpired, Detached
    <3> QED BY <3>1, AbortQuiet DEF Maps
  <2> QED BY <1>3, <2>3, <2>4
<1> QED BY <1>1, <1>2, <1>3

LEMMA SubmitMaps ==
    ASSUME IInv, NEW d \in Deliveries, SubmitDelivery(d)
    PROVE  Contract!Admit(d)
<1>1. /\ phase[d] = "new" /\ phase' = [phase EXCEPT ![d] = "Queued"]
      /\ UNCHANGED <<started, copies, answered>>
  BY DEF SubmitDelivery, Attach, wireVars, peerVars
<1>2. d \notin started
  BY <1>1 DEF IInv, Kept, History
<1>3. Said(d) = "none" /\ Said(d)' = "unsent"
  <2>1. phase'[d] = "Queued"
    BY <1>1 DEF IInv, TypeOK
  <2> QED BY <1>1, <1>2, <2>1, SaidNow, SaidNext DEF SaidIs, Waiting
<1>4. \A e \in Deliveries : e # d => Said(e)' = Said(e)
  BY <1>1, QuietStep DEF Quiet, IInv, TypeOK
<1> QED BY <1>1, <1>3, <1>4 DEF Contract!Admit, Contract!Becomes

LEMMA StartMaps ==
    ASSUME IInv, NEW item \in Items, WriterStarts(item)
    PROVE  Maps
<1> USE DEF IInv, Kept
<1>1. /\ Alive /\ Takes(item) /\ replay' = replay
      /\ started' = started \cup {item} /\ UNCHANGED <<copies, answered>>
      /\ IF item \in Deliveries
         THEN phase' = [phase EXCEPT ![item] = "AwaitingAck"]
         ELSE phase' = phase
  BY DEF WriterStarts, WriterIdles, Marked, wireVars, peerVars
<1>2. CASE item \notin Deliveries
  BY <1>1, <1>2, QuietSteps DEF Quiet, Maps
<1>3. CASE item \in Deliveries
  <2>1. InLine(item)
    BY <1>1, Taken DEF InLine
  <2>2. phase[item] \in Waiting
    BY <1>1, <1>3, <2>1 DEF LineUp, LineExact, Book
  <2>3. phase'[item] = "AwaitingAck" /\ item \in started'
    BY <1>1, <1>3 DEF TypeOK
  <2>4. \A e \in Deliveries : e # item => Quiet(e)
    BY <1>1, <1>3 DEF Quiet, TypeOK
  <2>5. CASE item \in started
    <3>1. Quiet(item)
      BY <2>2, <2>3, <2>5 DEF Quiet, Waiting
    <3> QED BY <1>1, <2>4, <3>1, QuietSteps DEF Maps
  <2>6. CASE item \notin started
    <3>1. Said(item) = "unsent" /\ Said(item)' = "possible"
      BY <1>3, <2>2, <2>3, <2>6, SaidNow, SaidNext DEF SaidIs, Waiting
    <3>2. \A e \in Deliveries : e # item => Said(e)' = Said(e)
      BY <2>4, QuietStep
    <3>3. Contract!Mark(item)
      BY <1>1, <1>3, <3>1, <3>2 DEF Contract!Mark, Contract!Becomes
    <3> QED BY <1>3, <3>3 DEF Maps, Contract!Next
  <2> QED BY <2>5, <2>6
<1> QED BY <1>2, <1>3

LEMMA HandOverMaps ==
    ASSUME IInv, WriterHandsOver
    PROVE  Maps
<1> USE DEF IInv, Kept
<1>0. Alive /\ writer.at = "started" /\ writer.item \in Items /\ Open(writer.item)
  BY DEF WriterHandsOver, Exchanges
<1> PICK item \in Items : item = writer.item
  BY <1>0
<1>1. /\ copies' = [d \in Deliveries |-> IF d = item THEN copies[d] + 1
                                                     ELSE copies[d]]
      /\ UNCHANGED <<phase, started, answered>>
  BY DEF WriterHandsOver, bookVars
<1>2. item \in Deliveries => item \in InFlight
  BY <1>0 DEF Open
<1>3. \A d \in Deliveries : Said(d)' = Said(d)
  BY <1>1, QuietStep DEF Quiet
<1>4. CASE item \in Deliveries
  <2>1. Said(item) = "possible"
    <3>1. phase[item] = "AwaitingAck"
      BY <1>2, <1>4 DEF InFlight
    <3>2. item \in started
      BY <1>4, <3>1 DEF History
    <3> QED BY <1>4, <3>1, <3>2, SaidNow DEF SaidIs, Waiting
  <2>2. Sent' = Sent \cup {item}
    <3>1. \A d \in Deliveries : copies[d] \in Nat
      BY DEF TypeOK
    <3> QED BY <1>1, <1>4, <3>1 DEF Sent
  <2>3. Contract!Transmit(item)
    <3>1. answered' = answered
      BY <1>1
    <3> HIDE DEF IInv, Kept
    <3> QED BY <1>3, <1>4, <2>1, <2>2, <3>1 DEF Contract!Transmit, Sent
  <2> QED BY <1>4, <2>3 DEF Maps, Contract!Next
<1>5. CASE item \notin Deliveries
  <2>1. \A d \in Deliveries : copies'[d] = copies[d]
    BY <1>1, <1>5
  <2> QED BY <1>1, <1>3, <2>1 DEF Maps, Entries, Sent
<1> QED BY <1>4, <1>5

LEMMA AnswerMaps ==
    ASSUME IInv, NEW item \in Items, BrokerAnswers(item)
    PROVE  Maps
<1> USE DEF IInv, Kept
<1>1. /\ item \in owed /\ answered' = answered \cup ({item} \cap Deliveries)
      /\ UNCHANGED <<phase, started, copies>>
  BY DEF BrokerAnswers, bookVars, wireVars
<1>2. \A d \in Deliveries : Said(d)' = Said(d)
  BY <1>1, QuietStep DEF Quiet
<1>3. UNCHANGED <<Entries, Sent>>
  BY <1>1, <1>2 DEF Entries, Sent
<1>4. CASE item \in Deliveries
  <2>1. item \in Sent
    BY <1>1, <1>4 DEF History, Sent
  <2>2. Contract!Answer(item)
    BY <1>1, <1>3, <1>4, <2>1 DEF Contract!Answer, Entries, Sent
  <2> QED BY <1>4, <2>2 DEF Maps, Contract!Next
<1>5. CASE item \notin Deliveries
  BY <1>1, <1>3, <1>5 DEF Maps
<1> QED BY <1>4, <1>5

LEMMA PubackMaps ==
    ASSUME IInv, NEW d \in Deliveries, ReadsPuback(d)
    PROVE  Contract!Complete(d)
<1> USE DEF IInv, Kept
<1>1. d \in acks /\ Named(d) = {d} /\ d \in InFlight
  BY NamesItsOwner DEF ReadsPuback
<1>2. phase[d] = "AwaitingAck" /\ d \in answered /\ d \in started
  BY <1>1 DEF InFlight, History
<1>3. PICK reply \in {"Acknowledged", "Rejected"} : Completes(d, reply)
  BY <1>1, <1>2 DEF ReadsPuback
<1>4. /\ phase' = [phase EXCEPT ![d] = reply]
      /\ UNCHANGED <<started, copies, answered>>
  BY <1>1, <1>2, <1>3 DEF ReadsPuback, Completes, wireVars
<1>5. Said(d) = "possible" /\ Said(d)' = "erased"
  <2>1. phase'[d] = reply
    BY <1>4 DEF TypeOK
  <2> QED BY <1>2, <1>3, <2>1, SaidNow, SaidNext DEF SaidIs, Waiting
<1>6. \A e \in Deliveries : e # d => Said(e)' = Said(e)
  BY <1>4, QuietStep DEF Quiet, TypeOK
<1> QED BY <1>2, <1>4, <1>5, <1>6 DEF Contract!Complete, Contract!Becomes

LEMMA NextMaps ==
    ASSUME IInv, [Next]_vars
    PROVE  Maps
<1> USE DEF bookVars, wireVars, peerVars
<1>1. CASE UNCHANGED vars
  BY <1>1, QuietSteps DEF vars, Quiet, Maps, IInv
<1>2. ASSUME NEW d \in Deliveries, SubmitDelivery(d) \/ ReadsPuback(d)
      PROVE  Maps
  BY <1>2, SubmitMaps, PubackMaps DEF Maps, Contract!Next
<1>3. CASE \/ \E d \in Deliveries : DeliveryTimesOut(d)
           \/ \E r \in Requests : RequestAbandoned(r)
           \/ ReaderEnds \/ WriterFindsExpired \/ WriteFails
  BY <1>3, AbortQuiet DEF DeliveryTimesOut, RequestAbandoned, ReaderEnds,
                          WriterFindsExpired, WriteFails, Abort, Maps
<1>4. CASE \/ \E d \in Deliveries : SubmitRefused(d)
           \/ \E r \in Requests : Request(r)
           \/ WriterDefers \/ WriteReturns
  BY <1>4, QuietSteps DEF SubmitRefused, Request, WriterDefers, WriteReturns,
                          Quiet, Maps, IInv
<1>5. ASSUME NEW r \in Requests, ReadsSuback(r) PROVE Maps
  <2>1. Asked(r) = {r} /\ r \notin Deliveries
    BY <1>5, AsksItsOwner, DeliveriesAssumption DEF ReadsSuback
  <2>2. started' = started \ {r} /\ UNCHANGED <<phase, copies, answered>>
    BY <1>5, <2>1 DEF ReadsSuback
  <2> QED BY <2>1, <2>2, QuietSteps DEF Quiet, Maps, IInv
<1>6. CASE \/ Dial \/ ConnectionEnds \/ DisconnectEnds \/ Disconnect
           \/ BecomesReady
  BY <1>6, SupervisorMaps
<1>7. CASE Replay
  BY <1>7, ReplayMaps DEF Replay
<1>8. ASSUME NEW item \in Items, WriterStarts(item) \/ BrokerAnswers(item)
      PROVE  Maps
  BY <1>8, StartMaps, AnswerMaps
<1>9. CASE WriterHandsOver
  BY <1>9, HandOverMaps
<1> QED BY <1>1, <1>2, <1>3, <1>4, <1>5, <1>6, <1>7, <1>8, <1>9 DEF Next

(* A handle keeps for the application the contract the outbox file keeps   *)
(* for the disk: evidence of a possible write (mark_started) before any    *)
(* byte, kept through lost connections and replay, and no end of it but    *)
(* the broker's answer or "outcome unknown".                               *)
THEOREM ContractIsKept == Spec => ImplementsContract
<1>1. Init => Contract!Init
  <2> SUFFICES ASSUME Init PROVE Contract!Init
    OBVIOUS
  <2>1. \A d \in Deliveries : Said(d) = "none" /\ ~(copies[d] > 0)
    BY SaidNow DEF Init, SaidIs
  <2> QED BY <2>1 DEF Init, Contract!Init
<1>2. IInv /\ [Next]_vars => [Contract!Next]_(Contract!vars)
  BY NextMaps DEF Maps, Contract!vars, Entries, Sent
<1> QED BY <1>1, <1>2, IInvHolds, PTL DEF Spec, ImplementsContract, Contract!Spec
-----------------------------------------------------------------------------
(* Nobody is stranded.                                                     *)

(* Whatever a delivery whose handle is open waits for has a task that acts *)
(* upon it: the watchdog by a clock that runs, the write that has begun,   *)
(* the replay, or the next connection, whose replay copies the book; and   *)
(* no handle is open once the client has ended (attach, mark_started,      *)
(* mark_written, detach, finish_deliveries_now).                           *)
NobodyStranded ==
    \A d \in Deliveries : phase[d] \in Waiting =>
       /\ stage # "ended" /\ d \in Active
       /\ IF Alive
          THEN \/ d \in attached /\ deadline[d] # "none"
               \/ writer.item = d /\ writer.at # "idle"
               \/ stage = "replaying" /\ d \in Range(replay)
          ELSE phase[d] = "AwaitingReconnect" /\ deadline[d] = "none"

(* A clock runs for the records of the connection only, and for all of     *)
(* them but the one that is being written.                                 *)
Clocks ==
    /\ \A d \in Deliveries : deadline[d] # "none" => d \in attached
    /\ Alive => \A d \in attached :
                   deadline[d] = "none" => writer.item = d /\ writer.at # "idle"
    /\ Alive /\ writer.at = "writing" => writer.item \in onWire

EndedIsEmpty == stage = "ended" => order = <<>>

ClockInv == Clocks /\ EndedIsEmpty

(* The end of a connection stops its clocks.                               *)
LEMMA ClocksStop ==
    ASSUME TypeOK, Clocks, NEW S, attached \subseteq S,
           deadline' = WithoutDeadlines(S), ~Alive'
    PROVE  Clocks'
<1>1. \A d \in Deliveries : deadline'[d] = "none"
  BY DEF WithoutDeadlines, Clocks
<1> QED BY <1>1 DEF Clocks

LEMMA AbortStops ==
    ASSUME TypeOK, Clocks, NEW error \in {"closed", "lost", "exhausted",
                                "rejected", "fatal", "unexpected"},
           Abort(error)
    PROVE  Clocks'
<1>1. deadline' = WithoutDeadlines(attached) /\ ~Alive'
  BY DEF Abort, CloseSession, Alive
<1> QED BY <1>1, ClocksStop

LEMMA EndsStops ==
    ASSUME IInv, Clocks, Ends, ~Alive'
    PROVE  Clocks'
<1>1. deadline' = WithoutDeadlines(Active) /\ attached \subseteq Active
  BY DEF Ends, IInv, Kept, Book
<1> QED BY <1>1, ClocksStop DEF IInv

(* Steps that touch no clock and no record of the connection.              *)
LEMMA ClocksFrame ==
    ASSUME Clocks, UNCHANGED <<deadline, attached>>,
           Alive' => Alive /\ UNCHANGED <<writer, onWire>>
    PROVE  Clocks'
BY DEF Clocks

(* Without a session there is no record of the connection.                 *)
LEMMA ClocksOfNobody ==
    ASSUME IInv, Clocks, ~Alive, UNCHANGED <<deadline, attached>>,
           Alive' => writer' = Idle
    PROVE  Clocks'
<1>1. attached = {}
  BY DEF IInv, Kept, DeadIsEmpty
<1> QED BY <1>1 DEF Clocks, Idle

(* A record is attached with the clock of its write.                       *)
LEMMA ClocksAttach ==
    ASSUME IInv, Clocks, NEW d \in Deliveries, Attach(d),
           UNCHANGED <<cause, writer, onWire>>
    PROVE  Clocks'
<1>1. /\ deadline' = [deadline EXCEPT ![d] = "start"]
      /\ attached' = attached \cup {d}
  BY DEF Attach
<1>2. /\ deadline'[d] # "none"
      /\ \A e \in Deliveries : e # d => deadline'[e] = deadline[e]
  BY <1>1 DEF IInv, TypeOK
<1>3. attached \subseteq Deliveries
  BY DEF IInv, TypeOK
<1> QED BY <1>1, <1>2, <1>3 DEF Clocks, Alive

(* mark_started: the write begins, and the clock of its start stops.       *)
LEMMA ClocksStart ==
    ASSUME IInv, Clocks, NEW item \in Items, WriterStarts(item)
    PROVE  Clocks'
<1>1. /\ Alive /\ writer.at = "idle" /\ UNCHANGED <<cause, attached, onWire>>
      /\ writer'.at = "started" /\ writer'.item = item
      /\ IF item \in Deliveries THEN deadline' = [deadline EXCEPT ![item] = "none"]
                                ELSE deadline' = deadline
  BY DEF WriterStarts, WriterIdles, sessionVars, wireVars
<1>2. \A e \in Deliveries : e # item => deadline'[e] = deadline[e]
  BY <1>1 DEF IInv, TypeOK
<1>3. \A e \in Deliveries : deadline'[e] # "none" => deadline[e] # "none"
  BY <1>1 DEF IInv, TypeOK
<1>4. attached \subseteq Deliveries
  BY DEF IInv, TypeOK
<1> QED BY <1>1, <1>2, <1>3, <1>4 DEF Clocks, Alive

LEMMA ClocksHandOver ==
    ASSUME IInv, Clocks, WriterHandsOver
    PROVE  Clocks'
<1>1. /\ UNCHANGED <<cause, deadline, attached>>
      /\ writer' = [writer EXCEPT !.at = "writing"]
      /\ onWire' = onWire \cup {writer.item}
  BY DEF WriterHandsOver, bookVars, sessionVars
<1>2. writer'.at = "writing" /\ writer'.item = writer.item
  BY <1>1 DEF IInv, TypeOK
<1> QED BY <1>1, <1>2 DEF Clocks, Alive

(* mark_written: what still waits for its answer gets the clock of it.     *)
LEMMA ClocksReturn ==
    ASSUME IInv, Clocks, WriteReturns
    PROVE  Clocks'
<1> DEFINE item == writer.item
<1>1. /\ Alive /\ writer.at = "writing" /\ UNCHANGED <<cause, attached, onWire>>
      /\ writer'.at = "idle"
      /\ deadline' = [d \in Deliveries |-> IF d = item THEN AckDeadline(d)
                                                       ELSE deadline[d]]
  BY DEF WriteReturns, Idle, sessionVars, wireVars
<1>2. item \in onWire
  BY <1>1 DEF Clocks
<1>3. attached \subseteq Deliveries
  BY DEF IInv, TypeOK
<1> HIDE DEF item
<1>4. ASSUME NEW d \in Deliveries, d = item, phase[d] \notin Terminal
      PROVE  d \in attached
  <2>1. phase[d] = "AwaitingAck"
    BY <1>1, <1>2, <1>4 DEF IInv, Kept, Exchanges
  <2> QED BY <2>1 DEF IInv, Kept, Book, Waiting
<1>5. ASSUME NEW d \in attached, d = item
      PROVE  phase[d] \notin Terminal
  BY <1>5 DEF IInv, Kept, Book, Terminal
<1>6. \A d \in Deliveries : deadline'[d] # "none" => d \in attached
  BY <1>1, <1>4 DEF Clocks, AckDeadline
<1>7. \A d \in attached : deadline'[d] # "none"
  <2> TAKE d \in attached
  <2>1. CASE d = item
    BY <1>1, <1>3, <1>5, <2>1 DEF AckDeadline
  <2>2. CASE d # item
    <3>1. deadline[d] # "none"
      BY <1>1, <2>2 DEF Clocks, item
    <3> QED BY <1>1, <1>3, <2>2, <3>1
  <2> QED BY <2>1, <2>2
<1> QED BY <1>1, <1>6, <1>7 DEF Clocks

(* The answer ends the exchange and its clock.                             *)
LEMMA ClocksAnswered ==
    ASSUME IInv, Clocks, NEW d \in Deliveries, ReadsPuback(d)
    PROVE  Clocks'
<1>1. CASE Abort("unexpected")
  BY <1>1, AbortStops DEF IInv
<1>2. CASE ~Abort("unexpected")
  <2>1. PICK e \in attached, reply \in {"Acknowledged", "Rejected"} :
            Completes(e, reply)
    BY <1>2 DEF ReadsPuback, Named
  <2>2. /\ deadline' = [deadline EXCEPT ![e] = "none"]
        /\ attached' = attached \ {e}
        /\ UNCHANGED <<cause, writer, onWire>>
    BY <1>2, <2>1 DEF ReadsPuback, Completes, wireVars
  <2>3. \A f \in Deliveries : deadline'[f] = IF f = e THEN "none" ELSE deadline[f]
    BY <2>2 DEF IInv, TypeOK
  <2>4. attached \subseteq Deliveries
    BY DEF IInv, TypeOK
  <2> QED BY <2>2, <2>3, <2>4 DEF Clocks, Alive
<1> QED BY <1>1, <1>2

LEMMA ClocksReplay ==
    ASSUME IInv, Clocks, NEW d \in Deliveries,
           \/ ReplayAttaches(d) \/ ReplayEnqueues(d)
           \/ ReplayExhausted(d) \/ ReplayFindsExpired(d)
    PROVE  Clocks'
<1>1. CASE ReplayAttaches(d)
  BY <1>1, ClocksAttach DEF ReplayAttaches, wireVars
<1>2. CASE ReplayEnqueues(d)
  BY <1>2, ClocksFrame DEF ReplayEnqueues, bookVars, sessionVars, wireVars, Alive
<1>3. CASE ReplayExhausted(d)
  BY <1>3, AbortStops DEF ReplayExhausted, IInv
<1>4. CASE ReplayFindsExpired(d)
  <2>1. deadline' = WithoutDeadlines(attached \cup {d}) /\ ~Alive'
    BY <1>4 DEF ReplayFindsExpired, CloseSession, Alive
  <2> QED BY <2>1, ClocksStop DEF IInv
<1> QED BY <1>1, <1>2, <1>3, <1>4

LEMMA ClocksStep == IInv /\ Clocks /\ [Next]_vars => Clocks'
<1> SUFFICES ASSUME IInv, Clocks, [Next]_vars PROVE Clocks'
  OBVIOUS
<1> USE DEF bookVars, sessionVars, wireVars
<1>0. TypeOK
  BY DEF IInv
<1>1. ASSUME NEW d \in Deliveries,
             \/ SubmitDelivery(d) \/ SubmitRefused(d) \/ DeliveryTimesOut(d)
      PROVE  Clocks'
  <2>1. CASE SubmitDelivery(d)
    BY <2>1, ClocksAttach DEF SubmitDelivery
  <2>2. CASE SubmitRefused(d)
    BY <2>2, ClocksFrame DEF SubmitRefused, Alive
  <2>3. CASE DeliveryTimesOut(d)
    BY <1>0, <2>3, AbortStops DEF DeliveryTimesOut
  <2> QED BY <1>1, <2>1, <2>2, <2>3
<1>2. ASSUME NEW r \in Requests,
             Request(r) \/ RequestAbandoned(r) \/ ReadsSuback(r)
      PROVE  Clocks'
  <2>1. CASE Request(r)
    BY <2>1, ClocksFrame DEF Request, Alive
  <2>2. CASE RequestAbandoned(r)
    BY <1>0, <2>2, AbortStops DEF RequestAbandoned
  <2>3. CASE ReadsSuback(r) /\ Abort("unexpected")
    BY <1>0, <2>3, AbortStops
  <2>4. CASE ReadsSuback(r) /\ ~Abort("unexpected")
    BY <2>4, ClocksFrame DEF ReadsSuback, Alive
  <2> QED BY <1>2, <2>1, <2>2, <2>3, <2>4
<1>3. CASE Disconnect \/ BecomesReady \/ WriterDefers \/ UNCHANGED vars
           \/ \E item \in Items : BrokerAnswers(item)
  BY <1>3, ClocksFrame DEF Disconnect, BecomesReady, WriterDefers,
     BrokerAnswers, vars, Alive
<1>4. CASE DisconnectEnds
  <2>1. ~Alive'
    BY <1>4 DEF DisconnectEnds, CloseSession, Alive
  <2> QED BY <1>4, <2>1, EndsStops DEF DisconnectEnds
<1>5. ASSUME Ends \/ TryAgain, ~Alive, UNCHANGED <<cause, attached>>
      PROVE  Clocks'
  <2>0. ~Alive'
    BY <1>5 DEF Alive
  <2>1. CASE Ends
    BY <2>0, <2>1, EndsStops
  <2>2. CASE ~Ends
    BY <1>5, <2>0, <2>2, ClocksOfNobody DEF TryAgain
  <2> QED BY <2>1, <2>2
<1>6. stage = "dialing" => ~Alive /\ writer = Idle
  BY DEF IInv, Kept, Stages
<1>7. CASE DialFails \/ DialFindsNoSession \/ ConnectionEnds
  BY <1>5, <1>6, <1>7 DEF DialFails, DialFindsNoSession, ConnectionEnds
<1>8. CASE DialConnects
  BY <1>6, <1>8, ClocksOfNobody DEF DialConnects
<1>9. CASE Replay
  BY <1>9, ClocksReplay DEF Replay
<1>10. CASE WriterFindsExpired \/ WriteFails \/ ReaderEnds
  BY <1>0, <1>10, AbortStops DEF WriterFindsExpired, WriteFails, ReaderEnds
<1> QED BY <1>1, <1>2, <1>3, <1>4, <1>7, <1>8, <1>9, <1>10, ClocksStart,
           ClocksHandOver, ClocksReturn, ClocksAnswered DEF Next, Dial

LEMMA EndedStep == EndedIsEmpty /\ [Next]_vars => EndedIsEmpty'
<1> SUFFICES ASSUME EndedIsEmpty, [Next]_vars, stage' = "ended" PROVE order' = <<>>
  BY DEF EndedIsEmpty
<1> USE DEF clientVars, bookVars
<1>1. CASE Ends
  BY <1>1 DEF Ends
<1>2. CASE UNCHANGED <<stage, order>>
  BY <1>2 DEF EndedIsEmpty
<1>3. CASE \E d \in Deliveries : SubmitDelivery(d) \/ ReadsPuback(d)
  BY <1>2, <1>3 DEF SubmitDelivery, ReadsPuback, MayCall, Abort, Completes,
     EndedIsEmpty
<1> QED
  BY <1>1, <1>2, <1>3 DEF Next, Dial, Replay, vars, SubmitRefused,
     DeliveryTimesOut, Request, RequestAbandoned, ReadsSuback, Disconnect,
     DisconnectEnds, DialFails, DialFindsNoSession, DialConnects, TryAgain,
     ReplayAttaches, ReplayEnqueues, ReplayExhausted, ReplayFindsExpired,
     BecomesReady, ConnectionEnds, WriterStarts, WriterDefers,
     WriterFindsExpired, WriterHandsOver, WriteReturns, WriteFails,
     BrokerAnswers, ReaderEnds, Abort

(* Who is not attached to a live connection is in what its replay has      *)
(* still to attach.                                                        *)
LEMMA NextStepFollows ==
    ASSUME IInv, ClockInv PROVE NobodyStranded
<1> SUFFICES ASSUME NEW d \in Deliveries, phase[d] \in Waiting
             PROVE  /\ stage # "ended" /\ d \in Active
                    /\ IF Alive
                       THEN \/ d \in attached /\ deadline[d] # "none"
                            \/ writer.item = d /\ writer.at # "idle"
                            \/ stage = "replaying" /\ d \in Range(replay)
                       ELSE /\ phase[d] = "AwaitingReconnect"
                            /\ deadline[d] = "none"
  BY DEF NobodyStranded
<1>0. TypeOK /\ Book /\ Stages /\ DeadIsEmpty /\ LineUp /\ Queues /\ Clocks
  BY DEF IInv, Kept, ClockInv
<1>1. d \in Active
  BY <1>0 DEF Book
<1>2. stage # "ended"
  <2>1. order = <<>> => Active = {}
    BY DEF Active, Range
  <2> QED BY <1>1, <2>1 DEF ClockInv, EndedIsEmpty
<1>3. CASE ~Alive
  <2>1. d \notin attached
    BY <1>0, <1>3 DEF DeadIsEmpty
  <2> QED BY <1>0, <1>1, <1>2, <1>3, <2>1 DEF Book, Clocks
<1>4. CASE Alive /\ d \in attached
  BY <1>0, <1>1, <1>2, <1>4 DEF Clocks
<1>5. CASE Alive /\ d \notin attached
  <2>1. phase[d] = "AwaitingReconnect"
    BY <1>0, <1>1, <1>5 DEF Book
  <2>2. InLine(d)
    BY <1>0, <1>1, <1>5, <2>1 DEF LineUp, LineExact
  <2>3. /\ deferred \in Seq(Items) /\ outgoing \in Seq(Items)
        /\ replay \in Seq(Items) /\ replay \in Seq(Deliveries)
    BY <1>0 DEF TypeOK, Items
  <2>4. PICK n \in 1..Len(Line) : Line[n] = d
    BY <2>2 DEF InLine
  <2>5. \/ \E k \in 1..Len(deferred) : deferred[k] = d
        \/ \E k \in 1..Len(outgoing) : outgoing[k] = d
        \/ \E k \in 1..Len(replay) : replay[k] = d
    <3>0. /\ Len(deferred) \in Nat /\ Len(outgoing) \in Nat /\ Len(replay) \in Nat
          /\ Len(Line) = Len(deferred) + Len(outgoing) + Len(replay)
          /\ \A k \in 1..Len(deferred) : Line[k] = deferred[k]
          /\ \A k \in 1..Len(outgoing) : Line[Len(deferred) + k] = outgoing[k]
          /\ \A k \in 1..Len(replay) :
                Line[Len(deferred) + Len(outgoing) + k] = replay[k]
      <4>1. Len(deferred) \in Nat /\ Len(outgoing) \in Nat /\ Len(replay) \in Nat
        BY <2>3
      <4> QED BY <1>0, <4>1, LineType
    <3>1. CASE n <= Len(deferred)
      BY <2>4, <3>0, <3>1
    <3>2. CASE n > Len(deferred) /\ n <= Len(deferred) + Len(outgoing)
      <4>1. /\ n - Len(deferred) \in 1..Len(outgoing)
            /\ Len(deferred) + (n - Len(deferred)) = n
        BY <3>0, <3>2
      <4> QED BY <2>4, <3>0, <4>1
    <3>3. CASE n > Len(deferred) + Len(outgoing)
      <4> DEFINE k == n - (Len(deferred) + Len(outgoing))
      <4>1. k \in 1..Len(replay) /\ Len(deferred) + Len(outgoing) + k = n
        BY <3>0, <3>3
      <4> HIDE DEF k
      <4> QED BY <2>4, <3>0, <4>1
    <3> QED BY <3>0, <3>1, <3>2, <3>3
  <2>6. \E k \in 1..Len(replay) : replay[k] = d
    BY <1>0, <1>5, <2>5 DEF Queues
  <2>7. d \in Range(replay)
    BY <2>3, <2>6, Elements
  <2>8. stage = "replaying"
    <3>1. replay # <<>>
      BY <2>6
    <3> QED BY <1>0, <1>5, <3>1 DEF Stages, TypeOK
  <2> QED BY <1>1, <1>2, <1>5, <2>7, <2>8
<1> QED BY <1>3, <1>4, <1>5

(* Nobody is stranded: no open handle is ever without a clock, a write, a  *)
(* replay or a connection to come that will move it on, and none is open   *)
(* once the client has ended, whatever is lost, timed out, deferred or     *)
(* disconnected in between.                                                *)
THEOREM NobodyIsStranded == Spec => []NobodyStranded
<1>1. Init => ClockInv
  BY DEF Init, ClockInv, Clocks, EndedIsEmpty, Alive
<1>2. IInv /\ ClockInv /\ [Next]_vars => ClockInv'
  BY ClocksStep, EndedStep DEF ClockInv
<1> QED BY <1>1, <1>2, NextStepFollows, IInvHolds, PTL DEF Spec
=============================================================================
