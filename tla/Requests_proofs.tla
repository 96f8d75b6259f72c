--------------------------- MODULE Requests_proofs ---------------------------
(***************************************************************************)
(* Proofs about Requests: what callers are told is true, publishes leave   *)
(* in the order of their admission, answers find their request, the queues *)
(* stay bounded and Receive Maximum is kept, the PINGRESP clock runs only  *)
(* while an answer is due, DISCONNECT is last and succeeds once it is      *)
(* written, and nobody is forgotten in a queue or at the end of the        *)
(* generation, for any requests, capacities, limits and bounds.            *)
(***************************************************************************)
EXTENDS Requests, FiniteSetTheorems, TLAPS

(* What is admitted and not yet taken by the write loop, oldest first.     *)
Backlog == deferred \o outgoing

Waits(r) == \E n \in 1..Len(Backlog) : Backlog[n] = r

AtWork(r) == writer.item = r /\ writer.at \in {"started", "writing", "wrote"}

(* Taking from the middle keeps the backlog in the order of admission.     *)
BacklogSorted ==
    \A m, n \in 1..Len(Backlog) : m < n => turn[Backlog[m]] < turn[Backlog[n]]

(* Turns are given out once, from 1 on.                                    *)
TurnsDiffer ==
    /\ \A r \in Requests : turn[r] <= admitted
    /\ \A p, q \in Business : turn[p] = turn[q] /\ turn[p] > 0 => p = q

(* A request waits from its admission until the write loop starts it.      *)
BacklogIsUnstarted ==
    /\ Alive => \A r \in Business :
                    Waits(r) <=> turn[r] > 0 /\ r \notin started
    /\ ~Alive => outgoing = <<>> /\ deferred = <<>> /\ control = <<>>

(* The identifiers of pending requests are theirs.                         *)
PendingConsistent ==
    /\ pending[0] \in {Close, NoItem}
    /\ \A i \in PacketIds : pending[i] \in Business \cup {NoItem}
    /\ \A i \in 0..MaxPacketId : pending[i] # NoItem =>
          /\ packetId[pending[i]] = i
          /\ result[pending[i]] = "none"
    /\ closing = "no" => /\ pending[0] = NoItem /\ result[Close] = "none"
                         /\ Close \notin started
                         /\ \A n \in 1..Len(control) : control[n] # Close

(* An admitted request is pending until it has its result.                 *)
AdmittedIsPending ==
    /\ packetId[Close] = 0
    /\ Alive => \A r \in Business : turn[r] > 0 =>
          IF result[r] = "none" THEN pending[packetId[r]] = r
                                ELSE result[r] \in {"ok", "refused"}

(* How far a write has come.                                               *)
WriteProgress ==
    /\ handed \subseteq started /\ localWrite \subseteq started
    /\ answered \subseteq handed
    /\ \A r \in Business : r \in started => turn[r] > 0
    /\ \A r \in Requests : AtWork(r) =>
          /\ r \in started
          /\ writer.at = "wrote" => r \in localWrite
    /\ Alive => \A r \in Requests :
          r \in started /\ r \notin handed => AtWork(r) /\ writer.at = "started"

(* QoS 0 has its result as soon as write_one records it.                   *)
QoS0Completes ==
    /\ Alive => \A r \in Publish0 : AtWork(r) => result[r] = "none"
    /\ \A r \in Publish0 \cup {Close} : r \notin answered

(* What a result says of the writes and answers so far.                    *)
ResultsJustified ==
    /\ \A r \in Requests :
          /\ result[r] = "notSent" => r \notin started /\ ~Alive
          /\ result[r] = "backpressure" => turn[r] = 0 /\ r \in Business
    /\ \A r \in Requests :
          result[r] \in {"ok", "refused"} =>
             IF r \in Publish0 \cup {Close} THEN r \in localWrite
                                            ELSE r \in answered

(* Requests of one kind are started in the order of their turns.           *)
StartedInOrder ==
    \A q \in started \cap Business, p \in Business :
        SameQueue(p, q) /\ turn[p] \in 1..turn[q] => p \in started

Kept == /\ BacklogSorted /\ TurnsDiffer /\ BacklogIsUnstarted
        /\ PendingConsistent /\ AdmittedIsPending /\ WriteProgress
        /\ QoS0Completes /\ ResultsJustified /\ StartedInOrder
        /\ HandedInOrder /\ cause # "unexpected"

IInv == TypeOK /\ Kept
-----------------------------------------------------------------------------
(* The least-number principle, from the well-foundedness of inclusion.     *)
LEMMA Least ==
    ASSUME NEW T \in SUBSET Nat, T # {}
    PROVE  \E m \in T : \A j \in T : m <= j
<1> DEFINE R == StrictSubsetOrdering(Nat)
           U == {1..m : m \in T}
<1>0. IsWellFoundedOn(R, FiniteSubsetsOf(Nat))
  BY FS_StrictSubsetOrderingWellFounded
<1>1. U \subseteq FiniteSubsetsOf(Nat) /\ U # {}
  <2>1. \A m \in T : 1..m \in SUBSET Nat /\ IsFiniteSet(1..m)
    BY FS_Interval
  <2> QED BY <2>1 DEF FiniteSubsetsOf
<1>2. \E x \in U : \A y \in U : ~(<<y, x>> \in R)
  <2> HIDE DEF R, U
  <2> QED BY <1>0, <1>1, WFMin
<1>3. PICK m \in T : \A j \in T : <<1..j, 1..m>> \notin R
  BY <1>2
<1>4. \A j \in T : j < m => <<1..j, 1..m>> \in R
  <2> TAKE j \in T
  <2> HAVE j < m
  <2>1. 1..j \subseteq 1..m /\ m \in 1..m /\ m \notin 1..j
    OBVIOUS
  <2>2. 1..j \in SUBSET Nat /\ 1..m \in SUBSET Nat
    OBVIOUS
  <2> QED BY <2>1, <2>2 DEF StrictSubsetOrdering
<1>5. \A j \in T : ~(j < m)
  <2> HIDE DEF R
  <2> QED BY <1>3, <1>4, Zenon
<1>6. \A j \in T : j \in Nat /\ m \in Nat
  OBVIOUS
<1>7. \A j \in T : m <= j
  BY <1>5, <1>6
<1> QED BY <1>7, Zenon

(* The backlog without its k-th element.                                   *)
Without(k, s, t) ==
    /\ Len(t) = Len(s) - 1
    /\ \A n \in 1..(Len(s) - 1) : t[n] = IF n < k THEN s[n] ELSE s[n + 1]

LEMMA Concat ==
    ASSUME NEW S, NEW s \in Seq(S), NEW t \in Seq(S)
    PROVE  /\ s \o t \in Seq(S) /\ Len(s \o t) = Len(s) + Len(t)
           /\ \A n \in 1..Len(s) : (s \o t)[n] = s[n]
           /\ \A n \in 1..(Len(s) + Len(t)) :
                 n > Len(s) => (s \o t)[n] = t[n - Len(s)]
OBVIOUS

LEMMA TakeMiddle ==
    ASSUME NEW S, NEW s \in Seq(S), NEW t \in Seq(S), NEW k \in 1..Len(t)
    PROVE  Without(Len(s) + k, s \o t,
                   (s \o SubSeq(t, 1, k - 1)) \o SubSeq(t, k + 1, Len(t)))
<1> DEFINE B == SubSeq(t, 1, k - 1)
           C == SubSeq(t, k + 1, Len(t))
           D == s \o B
<1>1. /\ B \in Seq(S) /\ C \in Seq(S)
      /\ Len(B) = k - 1 /\ Len(C) = Len(t) - k
      /\ \A n \in 1..(k - 1) : B[n] = t[n]
      /\ \A n \in 1..(Len(t) - k) : C[n] = t[n + k]
  OBVIOUS
<1> HIDE DEF B, C
<1>2. /\ D \in Seq(S) /\ Len(D) = Len(s) + k - 1
      /\ \A n \in 1..Len(s) : D[n] = s[n]
      /\ \A n \in 1..Len(D) : n > Len(s) => D[n] = t[n - Len(s)]
  <2>1. /\ D \in Seq(S) /\ Len(D) = Len(s) + Len(B)
        /\ \A n \in 1..Len(s) : D[n] = s[n]
        /\ \A n \in 1..(Len(s) + Len(B)) :
              n > Len(s) => D[n] = B[n - Len(s)]
    BY <1>1, Concat
  <2> HIDE DEF D
  <2> QED BY <1>1, <2>1
<1> HIDE DEF D
<1>3. /\ Len(D \o C) = Len(D) + Len(C)
      /\ \A n \in 1..Len(D) : (D \o C)[n] = D[n]
      /\ \A n \in 1..(Len(D) + Len(C)) :
            n > Len(D) => (D \o C)[n] = C[n - Len(D)]
  <2>1. D \in Seq(S) /\ C \in Seq(S)
    BY <1>1, <1>2
  <2> QED BY <2>1, Concat
<1>4. /\ Len(s \o t) = Len(s) + Len(t)
      /\ \A n \in 1..Len(s) : (s \o t)[n] = s[n]
      /\ \A n \in 1..(Len(s) + Len(t)) :
            n > Len(s) => (s \o t)[n] = t[n - Len(s)]
  BY Concat
<1> DEFINE W == s \o t
           E == D \o C
<1>5. ASSUME NEW n \in 1..(Len(s) + Len(t) - 1), n < Len(s) + k
      PROVE  E[n] = W[n]
  <2>1. n \in 1..Len(D) /\ E[n] = D[n]
    BY <1>2, <1>3, <1>5
  <2>2. CASE n <= Len(s)
    BY <1>2, <1>4, <2>1, <2>2
  <2>3. CASE n > Len(s)
    BY <1>2, <1>4, <2>1, <2>3
  <2>4. n <= Len(s) \/ n > Len(s)
    OBVIOUS
  <2> HIDE DEF E, W
  <2> QED BY <2>2, <2>3, <2>4
<1>6. ASSUME NEW n \in 1..(Len(s) + Len(t) - 1), ~(n < Len(s) + k)
      PROVE  E[n] = W[n + 1]
  <2>1. E[n] = C[n - Len(D)]
    <3>1. n \in 1..(Len(D) + Len(C)) /\ n > Len(D)
      BY <1>1, <1>2, <1>6
    <3> QED BY <1>3, <3>1
  <2>2. /\ n - Len(D) \in 1..(Len(t) - k)
        /\ (n - Len(D)) + k = (n + 1) - Len(s)
    BY <1>2, <1>6
  <2>3. C[n - Len(D)] = t[(n + 1) - Len(s)]
    BY <1>1, <2>2
  <2>4. W[n + 1] = t[(n + 1) - Len(s)]
    BY <1>4, <1>6
  <2> QED BY <2>1, <2>3, <2>4
<1>7. Len(E) = Len(W) - 1
  BY <1>1, <1>2, <1>3, <1>4
<1> HIDE DEF E, W
<1>8. Len(W) = Len(s) + Len(t)
  BY <1>4 DEF W
<1>9. Without(Len(s) + k, W, E)
  BY <1>5, <1>6, <1>7, <1>8 DEF Without
<1> QED BY <1>9 DEF B, C, D, E, W

(* If next_outgoing may take a position, there is a first one.             *)
LEMMA TakesFirst ==
    ASSUME TypeOK, \E n \in DOMAIN outgoing : Takeable(n)
    PROVE  \E n \in DOMAIN outgoing : First(n)
<1>0. outgoing \in Seq(Business)
  BY DEF TypeOK
<1>1. PICK n \in 1..Len(outgoing) : Takeable(n)
  BY <1>0
<1> DEFINE T == {m \in Nat : m \in 1..Len(outgoing) /\ Takeable(m)}
<1>2. T \in SUBSET Nat /\ T # {}
  BY <1>1
<1>3. PICK m \in T : \A j \in T : m <= j
  BY <1>2, Least
<1>4. First(m)
  BY <1>3, <1>0 DEF First
<1> QED BY <1>3, <1>4, <1>0

(* next_outgoing takes a control packet, or the oldest of its kind from    *)
(* the backlog, or only moves publishes within the backlog.                *)
LEMMA Selection ==
    ASSUME TypeOK
    PROVE  LET next == NextOutgoing
               rest == next.deferred \o next.outgoing IN
           /\ next.outgoing \in Seq(Business)
           /\ next.deferred \in Seq(Publishes)
           /\ next.control \in Seq({Close, Ping, Puback})
           /\ \/ /\ control # <<>> /\ next.item = Head(control)
                 /\ next.control = Tail(control) /\ rest = Backlog
              \/ /\ control = <<>> /\ next.control = <<>>
                 /\ next.item = NoItem /\ rest = Backlog
              \/ /\ control = <<>> /\ next.control = <<>>
                 /\ \E k \in 1..Len(Backlog) :
                       /\ next.item = Backlog[k] /\ Without(k, Backlog, rest)
                       /\ \A n \in 1..(k - 1) :
                             ~SameQueue(Backlog[n], Backlog[k])
<1> USE DEF Next1
<1>0. /\ outgoing \in Seq(Business) /\ deferred \in Seq(Publishes)
      /\ control \in Seq({Close, Ping, Puback})
  BY DEF TypeOK
<1>1. CASE control # <<>>
  BY <1>0, <1>1 DEF NextOutgoing, Backlog
<1>2. CASE control = <<>> /\ deferred # <<>> /\ MayWrite(Head(deferred))
  <2>1. /\ NextOutgoing.item = Head(deferred)
        /\ NextOutgoing.outgoing = outgoing /\ NextOutgoing.control = control
        /\ NextOutgoing.deferred = Tail(deferred)
    BY <1>2 DEF NextOutgoing
  <2>2. /\ Len(deferred) > 0 /\ Len(Tail(deferred)) = Len(deferred) - 1
        /\ Tail(deferred) \in Seq(Publishes)
        /\ \A n \in 1..(Len(deferred) - 1) : Tail(deferred)[n] = deferred[n + 1]
        /\ Head(deferred) = deferred[1]
    BY <1>0, <1>2
  <2>3. Backlog[1] = Head(deferred) /\ 1 \in 1..Len(Backlog)
    BY <1>0, <2>2 DEF Backlog
  <2>4. Without(1, Backlog, Tail(deferred) \o outgoing)
    BY <1>0, <2>2 DEF Backlog, Without
  <2> QED BY <1>0, <1>2, <2>1, <2>2, <2>3, <2>4
<1>3. CASE /\ control = <<>> /\ ~(deferred # <<>> /\ MayWrite(Head(deferred)))
           /\ \E n \in DOMAIN outgoing : Takeable(n)
  <2> DEFINE k == CHOOSE n \in DOMAIN outgoing : First(n)
  <2>0. deferred \in Seq(Business)
    BY <1>0 DEF Business
  <2>1. \E n \in DOMAIN outgoing : First(n)
    BY <1>3, TakesFirst
  <2>2. k \in 1..Len(outgoing) /\ First(k)
    BY <2>1, <1>0
  <2> HIDE DEF k
  <2>3. /\ NextOutgoing.item = outgoing[k] /\ NextOutgoing.control = control
        /\ NextOutgoing.outgoing = SubSeq(outgoing, k + 1, Len(outgoing))
        /\ NextOutgoing.deferred = deferred \o SubSeq(outgoing, 1, k - 1)
    BY <1>3 DEF NextOutgoing, k
  <2>4. \A n \in 1..(k - 1) : outgoing[n] \in Publishes
    BY <1>0, <2>2 DEF First, Takeable
  <2>5. /\ SubSeq(outgoing, 1, k - 1) \in Seq(Publishes)
        /\ SubSeq(outgoing, k + 1, Len(outgoing)) \in Seq(Business)
        /\ Len(SubSeq(outgoing, 1, k - 1)) = k - 1
        /\ Len(SubSeq(outgoing, k + 1, Len(outgoing))) = Len(outgoing) - k
        /\ \A n \in 1..(k - 1) : SubSeq(outgoing, 1, k - 1)[n] = outgoing[n]
        /\ \A n \in 1..(Len(outgoing) - k) :
              SubSeq(outgoing, k + 1, Len(outgoing))[n] = outgoing[n + k]
    BY <1>0, <2>2, <2>4
  <2> DEFINE i == Len(deferred) + k
  <2>6. /\ i \in 1..Len(Backlog) /\ Backlog[i] = outgoing[k]
        /\ \A n \in 1..Len(deferred) : Backlog[n] = deferred[n]
        /\ \A n \in 1..Len(outgoing) : Backlog[n + Len(deferred)] = outgoing[n]
        /\ Len(Backlog) = Len(deferred) + Len(outgoing)
    BY <1>0, <2>2 DEF Backlog
  <2>7. Without(i, Backlog, (deferred \o SubSeq(outgoing, 1, k - 1))
                              \o SubSeq(outgoing, k + 1, Len(outgoing)))
    BY <1>0, <2>0, <2>2, TakeMiddle DEF Backlog
  <2>8. \A n \in 1..(i - 1) : ~SameQueue(Backlog[n], Backlog[i])
    <3>1. CASE outgoing[k] \notin Publishes
      <4>1. \A n \in 1..(i - 1) : Backlog[n] \in Publishes
        <5>0. /\ Len(deferred) \in Nat
              /\ \A n \in 1..Len(deferred) : deferred[n] \in Publishes
          BY <1>0
        <5> TAKE n \in 1..(i - 1)
        <5>1. CASE n <= Len(deferred)
          <6>1. n \in 1..Len(deferred)
            BY <5>0, <5>1
          <6> QED BY <2>6, <5>0, <6>1
        <5>2. CASE n > Len(deferred)
          <6>1. /\ n - Len(deferred) \in 1..(k - 1)
                /\ (n - Len(deferred)) + Len(deferred) = n
            BY <1>0, <2>2, <5>2
          <6>2. n - Len(deferred) \in 1..Len(outgoing)
            BY <1>0, <2>2, <6>1
          <6>3. Backlog[n] = outgoing[n - Len(deferred)]
            BY <2>6, <6>1, <6>2
          <6> QED BY <2>4, <6>1, <6>3
        <5> QED BY <1>0, <2>2, <5>1, <5>2
      <4> QED BY <3>1, <4>1, <2>6, RequestsAssumption DEF SameQueue
    <3>2. CASE outgoing[k] \in Publishes
      <4>1. k = 1 /\ deferred = <<>>
        BY <3>2, <2>2 DEF First, Takeable
      <4> QED BY <4>1
    <3> QED BY <3>1, <3>2
  <2>9. deferred \o SubSeq(outgoing, 1, k - 1) \in Seq(Publishes)
    BY <1>0, <2>5
  <2>10. i \in 1..Len(Backlog) /\ outgoing[k] = Backlog[i]
    BY <2>6
  <2> HIDE DEF i
  <2> QED BY <1>0, <1>3, <2>3, <2>5, <2>7, <2>8, <2>9, <2>10
<1>4. CASE /\ control = <<>> /\ ~(deferred # <<>> /\ MayWrite(Head(deferred)))
           /\ ~\E n \in DOMAIN outgoing : Takeable(n)
  <2>1. /\ NextOutgoing.item = NoItem /\ NextOutgoing.outgoing = <<>>
        /\ NextOutgoing.control = control
        /\ NextOutgoing.deferred = deferred \o outgoing
    BY <1>4 DEF NextOutgoing
  <2>2. \A n \in 1..Len(outgoing) : outgoing[n] \in Publishes
    BY <1>0, <1>4 DEF Takeable
  <2>3. outgoing \in Seq(Publishes)
    BY <1>0, <2>2
  <2>4. deferred \o outgoing \in Seq(Publishes) /\ <<>> \in Seq(Business)
    BY <1>0, <2>3
  <2>5. (deferred \o outgoing) \o <<>> = deferred \o outgoing
    BY <2>4
  <2> QED BY <1>4, <2>1, <2>4, <2>5 DEF Backlog
<1> QED BY <1>1, <1>2, <1>3, <1>4
-----------------------------------------------------------------------------
(* The types.                                                              *)
LEMMA ItemFacts ==
    /\ Business \subseteq Requests /\ Requests \subseteq Items
    /\ Publish0 \subseteq Publishes /\ Publish1 \subseteq Publishes
    /\ Publishes \subseteq Business /\ Subscribe \subseteq Business
    /\ Close \in Requests /\ Close \notin Business
    /\ Ping \in Items /\ Puback \in Items
    /\ Ping \notin Requests /\ Puback \notin Requests
    /\ NoItem \notin Items
    /\ Publish0 \cap (Publish1 \cup Subscribe) = {}
    /\ Publish1 \cap Subscribe = {}
BY RequestsAssumption DEF Items, Requests, Business, Publishes

LEMMA NumberFacts ==
    /\ MaxPacketId \in Nat \ {0} /\ PacketIds \subseteq 0..MaxPacketId
    /\ 0 \notin PacketIds /\ 1 \in PacketIds
    /\ \A i \in PacketIds : Successor(i) \in PacketIds
    /\ \A n \in Nat : Less(n) \in Nat
BY RequestsAssumption DEF PacketIds, Successor, Less

LEMMA PendingAreRequests ==
    ASSUME TypeOK
    PROVE  /\ Pending \subseteq Requests
           /\ \A i \in 0..MaxPacketId : pending[i] # NoItem => pending[i] \in Pending
           /\ \A r \in Requests : r \in Pending =>
                 \E i \in 0..MaxPacketId : pending[i] = r
BY ItemFacts DEF TypeOK, Pending

LEMMA AbortTypes ==
    ASSUME TypeOK, NEW error \in Causes, Abort(error),
           UNCHANGED <<admitVars, handed, answered>>,
           pings' \in Nat, pongs' \in Nat, pubacks' \in Nat, incoming' \in Nat,
           writer' = writer \/ writer' = [writer EXCEPT !.at = "exited"],
           closing' = closing \/ closing' = "done"
    PROVE  TypeOK'
<1>1. /\ outgoing' \in Seq(Business) /\ deferred' \in Seq(Publishes)
      /\ control' \in Seq({Close, Ping, Puback})
      /\ businessDepth' \in Nat /\ credit' \in Nat
  BY DEF Abort
<1>2. result' \in [Requests -> Results]
  BY DEF Abort, TypeOK, Outcome, Results
<1>3. pending' \in [0..MaxPacketId -> Requests \cup {NoItem}]
  BY DEF Abort
<1>4. writer' \in [at : {"idle", "started", "writing", "wrote", "exited"},
                   item : Items \cup {NoItem}]
  BY DEF TypeOK
<1>5. closing' \in {"no", "putting", "waiting", "done"}
  BY DEF TypeOK
<1> QED BY <1>1, <1>2, <1>3, <1>4, <1>5 DEF Abort, TypeOK, admitVars

LEMMA TypeStep == TypeOK /\ [Next]_vars => TypeOK'
<1> SUFFICES ASSUME TypeOK, [Next]_vars PROVE TypeOK'
  OBVIOUS
<1> USE DEF requestVars, queueVars, admitVars, wireVars, peerVars
<1>1. ASSUME NEW r \in Business, RequestRefused(r) PROVE TypeOK'
  <2>1. nextId' \in PacketIds
    BY <1>1, NumberFacts DEF RequestRefused, Request, TypeOK
  <2>2. result' \in [Requests -> Results]
    BY <1>1 DEF RequestRefused, TypeOK, Results
  <2> QED BY <1>1, <2>1, <2>2 DEF RequestRefused, Request, TypeOK
<1>2. ASSUME NEW r \in Business, RequestAdmitted(r) PROVE TypeOK'
  <2>1. PICK i \in PacketIds :
            /\ pending' = [pending EXCEPT ![i] = r]
            /\ packetId' = [packetId EXCEPT ![r] = i]
            /\ nextId' = Successor(i)
    BY <1>2 DEF RequestAdmitted
  <2>2. /\ pending' \in [0..MaxPacketId -> Requests \cup {NoItem}]
        /\ packetId' \in [Requests -> 0..MaxPacketId]
        /\ nextId' \in PacketIds
    BY <2>1, NumberFacts, ItemFacts DEF TypeOK
  <2>3. /\ outgoing' \in Seq(Business)
        /\ businessDepth' \in Nat
        /\ turn' \in [Requests -> Nat] /\ admitted' \in Nat
    <3>1. /\ outgoing' = Append(outgoing, r)
          /\ businessDepth' = businessDepth + 1
          /\ admitted' = admitted + 1
          /\ turn' = [turn EXCEPT ![r] = admitted + 1]
      BY <1>2 DEF RequestAdmitted
    <3>2. /\ outgoing \in Seq(Business) /\ businessDepth \in Nat
          /\ turn \in [Requests -> Nat] /\ admitted \in Nat
      BY DEF TypeOK
    <3>3. outgoing' \in Seq(Business)
      <4>1. outgoing \in Seq(Business)
        BY <3>2
      <4>2. Append(outgoing, r) \in Seq(Business)
        BY <4>1
      <4> QED BY <3>1, <4>2
    <3>4. businessDepth' \in Nat /\ admitted' \in Nat
      BY <3>1, <3>2
    <3>5. turn' \in [Requests -> Nat]
      <4>1. turn \in [Requests -> Nat] /\ admitted + 1 \in Nat
        BY <3>2
      <4>2. [turn EXCEPT ![r] = admitted + 1] \in [Requests -> Nat]
        BY <4>1, Zenon
      <4> QED BY <3>1, <4>2, Zenon
    <3> QED BY <3>3, <3>4, <3>5
  <2> QED BY <1>2, <2>2, <2>3 DEF RequestAdmitted, Request, TypeOK
<1>3. ASSUME NEW r \in Requests, RequestTimesOut(r) \/ RequestCancelled(r)
      PROVE  TypeOK'
  <2>1. "timeout" \in Causes /\ "cancelled" \in Causes
    BY DEF Causes
  <2>2. CASE RequestTimesOut(r)
    BY <2>1, <2>2, AbortTypes DEF RequestTimesOut, TypeOK
  <2>3. CASE RequestCancelled(r)
    BY <2>1, <2>3, AbortTypes DEF RequestCancelled, TypeOK
  <2> QED BY <1>3, <2>2, <2>3
<1>4. CASE Disconnect
  <2>1. /\ pending' \in [0..MaxPacketId -> Requests \cup {NoItem}]
        /\ closing' \in {"no", "putting", "waiting", "done"}
    BY <1>4, ItemFacts DEF Disconnect, TypeOK
  <2> QED BY <1>4, <2>1 DEF Disconnect, TypeOK
<1>5. CASE DisconnectQueued
  BY <1>5 DEF DisconnectQueued, TypeOK
<1>6. CASE DisconnectReturns
  <2>1. CASE Alive
    <3>1. "disconnected" \in Causes
      BY DEF Causes
    <3> QED BY <1>6, <2>1, <3>1, AbortTypes DEF DisconnectReturns, TypeOK
  <2>2. CASE ~Alive
    BY <1>6, <2>2 DEF DisconnectReturns, TypeOK
  <2> QED BY <2>1, <2>2
<1>7. CASE WriterDefers
  BY <1>7, Selection DEF WriterDefers, TypeOK
<1>8. CASE WriterStarts
  <2> DEFINE item == NextOutgoing.item
  <2>1. item \in Items
    <3>1. control # <<>> => Head(control) \in {Close, Ping, Puback}
      BY DEF TypeOK
    <3>2. \A k \in 1..Len(Backlog) : Backlog[k] \in Business
      BY ItemFacts DEF TypeOK, Backlog
    <3>3. item # NoItem
      BY <1>8 DEF WriterStarts
    <3> QED BY <3>1, <3>2, <3>3, Selection, ItemFacts
  <2> HIDE DEF item
  <2>2. /\ outgoing' \in Seq(Business) /\ deferred' \in Seq(Publishes)
        /\ control' \in Seq({Close, Ping, Puback})
    BY <1>8, Selection DEF WriterStarts
  <2>3. /\ businessDepth' \in Nat /\ credit' \in Nat
        /\ started' \subseteq Requests
    <3>1. /\ businessDepth' = IF item \in Business
                              THEN Less(businessDepth) ELSE businessDepth
          /\ started' = started \cup ({item} \cap Requests)
          /\ credit' = IF item \in Publish1 THEN credit + 1 ELSE credit
      BY <1>8 DEF WriterStarts, item
    <3>2. businessDepth \in Nat /\ credit \in Nat /\ started \subseteq Requests
      BY DEF TypeOK
    <3> QED BY <3>1, <3>2, NumberFacts
  <2>4. writer' \in [at : {"idle", "started", "writing", "wrote", "exited"},
                     item : Items \cup {NoItem}]
    BY <1>8, <2>1 DEF WriterStarts, item
  <2> QED BY <1>8, <2>2, <2>3, <2>4 DEF WriterStarts, TypeOK
<1>9. CASE WriterHandsOver
  <2>1. /\ handed' \subseteq Requests /\ pings' \in Nat /\ pubacks' \in Nat
        /\ heartbeat' \in {"Idle", "Queued", "Writing",
                           "RespondedWhileWriting", "AwaitingResponse"}
    BY <1>9 DEF WriterHandsOver, TypeOK
  <2> QED BY <1>9, <2>1 DEF WriterHandsOver, WriterAt, TypeOK
<1>10. CASE WriterWrites
  BY <1>10 DEF WriterWrites, WriterAt, TypeOK
<1>11. CASE WriteOneReturns
  <2>1. heartbeat' \in {"Idle", "Queued", "Writing",
                        "RespondedWhileWriting", "AwaitingResponse"}
    BY <1>11 DEF WriteOneReturns, AfterPing, TypeOK
  <2>2. writer' \in [at : {"idle", "started", "writing", "wrote", "exited"},
                     item : Items \cup {NoItem}]
    BY <1>11 DEF WriteOneReturns, LoopAfter
  <2>3. /\ pending' \in [0..MaxPacketId -> Requests \cup {NoItem}]
        /\ result' \in [Requests -> Results]
    BY <1>11 DEF WriteOneReturns, Finish, Results, TypeOK
  <2> QED BY <1>11, <2>1, <2>2, <2>3 DEF WriteOneReturns, TypeOK
<1>12. CASE WriterFindsLate
  <2>1. "timeout" \in Causes /\ "rejected" \in Causes
    BY DEF Causes
  <2>2. PICK error \in {"timeout", "rejected"} : WriterAborts(error)
    BY <1>12 DEF WriterFindsLate
  <2> QED BY <2>1, <2>2, AbortTypes DEF WriterAborts, WriterAt, TypeOK
<1>13. CASE WriteFails
  <2>1. "write" \in Causes
    BY DEF Causes
  <2> QED BY <1>13, <2>1, AbortTypes
       DEF WriteFails, WriterAborts, WriterAt, TypeOK
<1>14. CASE WriterExits
  BY <1>14 DEF WriterExits, WriterAt, TypeOK
<1>15. ASSUME NEW r \in Business, ReadsAck(r) PROVE TypeOK'
  <2> DEFINE i == packetId[r]
             q == pending[i]
  <2>0. answered' \subseteq Requests
    BY <1>15, ItemFacts DEF ReadsAck, TypeOK
  <2>1. CASE Abort("unexpected")
    <3>1. "unexpected" \in Causes
      BY DEF Causes
    <3>2. /\ outgoing' \in Seq(Business) /\ deferred' \in Seq(Publishes)
          /\ control' \in Seq({Close, Ping, Puback})
          /\ businessDepth' \in Nat /\ credit' \in Nat
      BY <2>1 DEF Abort
    <3>3. result' \in [Requests -> Results]
      BY <2>1 DEF Abort, TypeOK, Outcome, Results
    <3>4. pending' \in [0..MaxPacketId -> Requests \cup {NoItem}]
      BY <2>1 DEF Abort
    <3> QED BY <1>15, <2>0, <2>1, <3>1, <3>2, <3>3, <3>4
         DEF ReadsAck, Abort, TypeOK
  <2>2. CASE ~Abort("unexpected")
    <3>1. /\ \/ Finish(i, q, "ok")
             \/ Finish(i, q, "refused")
          /\ credit' = CreditReturned(q)
          /\ UNCHANGED <<cause, packetId, started, localWrite, nextId,
                         outgoing, deferred, control, businessDepth, heartbeat>>
      BY <1>15, <2>2 DEF ReadsAck
    <3>2. credit' \in Nat
      BY <3>1, NumberFacts DEF CreditReturned, TypeOK
    <3>3. /\ pending' \in [0..MaxPacketId -> Requests \cup {NoItem}]
          /\ result' \in [Requests -> Results]
      BY <3>1 DEF Finish, Results, TypeOK
    <3> QED BY <1>15, <2>0, <3>1, <3>2, <3>3 DEF ReadsAck, TypeOK
  <2> QED BY <2>1, <2>2
<1>16. CASE ReadsPong
  <2>1. pongs' \in Nat
        /\ heartbeat' \in {"Idle", "Queued", "Writing",
                           "RespondedWhileWriting", "AwaitingResponse"}
    BY <1>16 DEF ReadsPong, TypeOK
  <2> QED BY <1>16, <2>1 DEF ReadsPong, TypeOK
<1>17. ASSUME NEW packet \in {Ping, Puback}, Control(packet),
              UNCHANGED <<writer, closing, admitVars, wireVars, answered, pongs>>,
              incoming' \in Nat,
              heartbeat' \in {"Idle", "Queued"} \cup {heartbeat},
              Len(control) >= ControlCapacity => heartbeat' = "Idle"
       PROVE  TypeOK'
  <2>1. CASE Abort("overflow")
    <3>1. "overflow" \in Causes
      BY DEF Causes
    <3> QED BY <1>17, <2>1, <3>1, AbortTypes DEF TypeOK
  <2>2. CASE ~Abort("overflow")
    <3>1. /\ control' = Append(control, packet)
          /\ UNCHANGED <<cause, requestVars, outgoing, deferred,
                         businessDepth, credit>>
      BY <1>17, <2>2 DEF Control
    <3>2. control' \in Seq({Close, Ping, Puback})
      <4>1. control \in Seq({Close, Ping, Puback})
        BY DEF TypeOK
      <4> QED BY <3>1, <4>1
    <3>3. heartbeat' \in {"Idle", "Queued", "Writing",
                          "RespondedWhileWriting", "AwaitingResponse"}
      BY <1>17 DEF TypeOK
    <3> QED BY <1>17, <3>1, <3>2, <3>3 DEF TypeOK
  <2> QED BY <2>1, <2>2
<1>18. CASE ReadsPublish
  BY <1>17, <1>18, RequestsAssumption DEF ReadsPublish, TypeOK
<1>19. CASE ReaderEnds
  <2>1. "lost" \in Causes
    BY DEF Causes
  <2> QED BY <1>19, <2>1, AbortTypes DEF ReaderEnds, TypeOK
<1>20. CASE HeartbeatPings
  BY <1>17, <1>20, RequestsAssumption DEF HeartbeatPings, TypeOK
<1>21. CASE HeartbeatTimesOut
  <2>1. "ping" \in Causes
    BY DEF Causes
  <2> QED BY <1>21, <2>1, AbortTypes DEF HeartbeatTimesOut, TypeOK
<1>22. CASE UNCHANGED vars
  BY <1>22 DEF vars, TypeOK
<1> QED BY <1>1, <1>2, <1>3, <1>4, <1>5, <1>6, <1>7, <1>8, <1>9, <1>10,
           <1>11, <1>12, <1>13, <1>14, <1>15, <1>16, <1>18, <1>19, <1>20,
           <1>21, <1>22 DEF Next, WriteLoop
-----------------------------------------------------------------------------
(* What the invariant says of results and answers.                         *)
LEMMA Consequences ==
    ASSUME IInv
    PROVE  ResultsAreTrue /\ AnswersFindRequest
<1> USE DEF IInv, Kept
<1>1. ResultsAreTrue
  <2> SUFFICES ASSUME NEW r \in Requests
               PROVE  /\ result[r] \in {"notSent", "backpressure"} =>
                            r \notin handed
                      /\ result[r] \in {"ok", "refused"} =>
                            IF r \in Publish0 \cup {Close}
                            THEN r \in localWrite ELSE r \in answered
    BY DEF ResultsAreTrue
  <2>1. ASSUME result[r] = "notSent" PROVE r \notin handed
    BY <2>1 DEF ResultsJustified, WriteProgress
  <2>2. ASSUME result[r] = "backpressure" PROVE r \notin handed
    BY <2>2 DEF ResultsJustified, WriteProgress
  <2> QED BY <2>1, <2>2 DEF ResultsJustified
<1>2. ASSUME NEW r \in (handed \cap (Publish1 \cup Subscribe)) \ answered,
             Alive
      PROVE  pending[packetId[r]] = r
  <2>1. r \in Business /\ r \in Requests /\ r \notin Publish0 \cup {Close}
    BY ItemFacts
  <2>2. turn[r] > 0
    BY <2>1 DEF WriteProgress
  <2>3. result[r] \notin {"ok", "refused"}
    BY <2>1 DEF ResultsJustified
  <2> QED BY <1>2, <2>1, <2>2, <2>3 DEF AdmittedIsPending
<1> QED BY <1>1, <1>2 DEF AnswersFindRequest

LEMMA AbortKeeps ==
    ASSUME IInv, Alive, NEW error \in Causes \ {"none", "unexpected"},
           Abort(error), UNCHANGED <<admitVars, handed, answered>>,
           writer' = writer \/ writer' = [writer EXCEPT !.at = "exited"],
           closing' = closing \/ closing' = "done"
    PROVE  Kept'
<1> USE DEF IInv, Kept
<1>0. /\ cause' = error /\ ~Alive'
      /\ outgoing' = <<>> /\ deferred' = <<>> /\ control' = <<>>
      /\ pending' = [i \in 0..MaxPacketId |-> NoItem]
      /\ result' = [r \in Requests |-> IF r \in Pending /\ result[r] = "none"
                                       THEN Outcome(r) ELSE result[r]]
      /\ UNCHANGED <<packetId, started, localWrite, handed, answered,
                     turn, admitted>>
  BY DEF Abort, Alive, admitVars
<1>1. BacklogSorted'
  <2>1. Len(Backlog') = 0
    BY <1>0 DEF Backlog
  <2> QED BY <2>1 DEF BacklogSorted
<1>2. TurnsDiffer'
  BY <1>0 DEF TurnsDiffer
<1>3. BacklogIsUnstarted'
  BY <1>0 DEF BacklogIsUnstarted
<1>4. PendingConsistent'
  <2>1. \A i \in 0..MaxPacketId : pending'[i] = NoItem
    BY <1>0
  <2>2. 0 \in 0..MaxPacketId /\ PacketIds \subseteq 0..MaxPacketId
    BY NumberFacts
  <2>3. ASSUME closing' = "no"
        PROVE  /\ result'[Close] = "none" /\ Close \notin started'
               /\ \A n \in 1..Len(control') : control'[n] # Close
    <3>1. closing = "no"
      BY <2>3
    <3>2. Close \notin Pending
      BY <3>1, PendingAreRequests, ItemFacts, NumberFacts
         DEF PendingConsistent, Pending, TypeOK, PacketIds
    <3>3. result'[Close] = result[Close]
      BY <1>0, <3>2, ItemFacts
    <3> QED BY <1>0, <3>1, <3>3 DEF PendingConsistent
  <2> QED BY <2>1, <2>2, <2>3 DEF PendingConsistent
<1>5. AdmittedIsPending'
  BY <1>0 DEF AdmittedIsPending
<1>6. ASSUME NEW r, AtWork(r)' PROVE AtWork(r) /\ writer' = writer
  BY <1>6 DEF AtWork, TypeOK
<1>7. WriteProgress'
  BY <1>0, <1>6 DEF WriteProgress
<1>8. QoS0Completes'
  BY <1>0 DEF QoS0Completes
<1>9. ResultsJustified'
  <2> SUFFICES ASSUME NEW r \in Requests
               PROVE  /\ result'[r] = "notSent" => r \notin started
                      /\ result'[r] = "backpressure" =>
                            turn[r] = 0 /\ r \in Business
                      /\ result'[r] \in {"ok", "refused"} =>
                            IF r \in Publish0 \cup {Close}
                            THEN r \in localWrite ELSE r \in answered
    BY <1>0 DEF ResultsJustified
  <2>1. CASE result'[r] = result[r]
    BY <2>1 DEF ResultsJustified
  <2>2. CASE result'[r] = Outcome(r)
    BY <2>2 DEF Outcome
  <2> QED BY <1>0, <2>1, <2>2
<1>10. StartedInOrder'
  BY <1>0 DEF StartedInOrder
<1>11. HandedInOrder'
  BY <1>0 DEF HandedInOrder
<1> QED BY <1>0, <1>1, <1>2, <1>3, <1>4, <1>5, <1>7, <1>8, <1>9, <1>10,
           <1>11
-----------------------------------------------------------------------------
(* Callers.                                                                *)
LEMMA BacklogTypes ==
    ASSUME TypeOK
    PROVE  /\ Backlog \in Seq(Business)
           /\ Len(Backlog) = Len(deferred) + Len(outgoing)
           /\ \A n \in 1..Len(Backlog) : Waits(Backlog[n])
BY ItemFacts DEF TypeOK, Backlog, Waits

LEMMA FreshRequest ==
    ASSUME IInv, NEW r \in Business, Request(r)
    PROVE  /\ turn[r] = 0 /\ r \notin started /\ ~AtWork(r)
           /\ r \in Requests /\ r # Close
<1> USE DEF IInv, Kept
<1>1. r \in Requests /\ r # Close
  BY ItemFacts
<1>2. result[r] = "none" /\ r \notin Pending /\ Alive
  BY DEF Request
<1>3. pending[packetId[r]] # r
  BY <1>1, <1>2, PendingAreRequests, ItemFacts DEF TypeOK
<1>4. ~(turn[r] > 0)
  BY <1>2, <1>3 DEF AdmittedIsPending
<1>5. turn[r] = 0
  BY <1>1, <1>4 DEF TypeOK
<1> QED BY <1>1, <1>4, <1>5 DEF WriteProgress

LEMMA RefusedKeeps ==
    ASSUME IInv, NEW r \in Business, RequestRefused(r)
    PROVE  Kept'
<1> USE DEF IInv, Kept
<1>0. /\ result' = [result EXCEPT ![r] = "backpressure"]
      /\ UNCHANGED <<cause, pending, packetId, started, localWrite, outgoing,
                     deferred, control, writer, closing, handed, answered,
                     turn, admitted>>
      /\ Alive /\ r \notin Pending
  BY DEF RequestRefused, Request, wireVars, peerVars, admitVars
<1>1. /\ turn[r] = 0 /\ r \notin started /\ ~AtWork(r)
      /\ r \in Requests /\ r # Close
  BY FreshRequest DEF RequestRefused
<1>2. /\ \A x \in Requests : x # r => result'[x] = result[x]
      /\ result'[r] = "backpressure"
  BY <1>0, <1>1 DEF TypeOK
<1>3. UNCHANGED <<Backlog, Alive>> /\ (\A x : AtWork(x)' = AtWork(x))
  BY <1>0 DEF Backlog, AtWork, Alive
<1>4. BacklogSorted' /\ TurnsDiffer' /\ BacklogIsUnstarted'
  BY <1>0, <1>3 DEF BacklogSorted, TurnsDiffer, BacklogIsUnstarted, Waits
<1>5. PendingConsistent'
  <2>1. \A i \in 0..MaxPacketId : pending[i] # NoItem =>
            pending[i] \in Requests /\ pending[i] # r
    BY <1>0, PendingAreRequests
  <2>2. Close \in Requests
    BY ItemFacts
  <2> QED BY <1>0, <1>1, <1>2, <2>1, <2>2 DEF PendingConsistent
<1>6. AdmittedIsPending'
  BY <1>0, <1>1, <1>2, <1>3, ItemFacts DEF AdmittedIsPending
<1>7. WriteProgress'
  BY <1>0, <1>3 DEF WriteProgress
<1>8. QoS0Completes'
  BY <1>0, <1>1, <1>2, <1>3, ItemFacts DEF QoS0Completes
<1>9. ResultsJustified'
  BY <1>0, <1>1, <1>2, <1>3 DEF ResultsJustified
<1>10. StartedInOrder' /\ HandedInOrder'
  BY <1>0 DEF StartedInOrder, HandedInOrder
<1> QED BY <1>0, <1>4, <1>5, <1>6, <1>7, <1>8, <1>9, <1>10

LEMMA AdmittedKeeps ==
    ASSUME IInv, NEW r \in Business, RequestAdmitted(r)
    PROVE  Kept'
<1> USE DEF IInv, Kept
<1>0. /\ turn' = [turn EXCEPT ![r] = admitted + 1]
      /\ admitted' = admitted + 1 /\ outgoing' = Append(outgoing, r)
      /\ UNCHANGED <<cause, result, started, localWrite, deferred, control,
                     writer, closing, handed, answered>>
      /\ Alive /\ r \notin Pending /\ result[r] = "none"
  BY DEF RequestAdmitted, Request, wireVars, peerVars
<1>1. /\ turn[r] = 0 /\ r \notin started /\ ~AtWork(r)
      /\ r \in Requests /\ r # Close
  BY FreshRequest DEF RequestAdmitted
<1>2. PICK i \in PacketIds : /\ pending[i] = NoItem
                             /\ pending' = [pending EXCEPT ![i] = r]
                             /\ packetId' = [packetId EXCEPT ![r] = i]
  BY DEF RequestAdmitted, FirstFree, FreeIds
<1>3. Alive' = Alive /\ (\A x : AtWork(x)' = AtWork(x))
  BY <1>0 DEF AtWork, Alive
<1>4. /\ admitted \in Nat
      /\ \A x \in Requests : turn[x] \in Nat /\ turn[x] <= admitted
  BY DEF TypeOK, TurnsDiffer
<1>5. /\ \A x \in Requests : x # r => turn'[x] = turn[x]
      /\ turn'[r] = admitted + 1
  BY <1>0, <1>1 DEF TypeOK
<1>6. /\ Len(Backlog') = Len(Backlog) + 1 /\ Backlog'[Len(Backlog')] = r
      /\ \A n \in 1..Len(Backlog) : Backlog'[n] = Backlog[n]
  <2>1. outgoing \in Seq(Business) /\ deferred \in Seq(Business)
    BY ItemFacts DEF TypeOK
  <2> DEFINE longer == Append(outgoing, r)
  <2>2. longer \in Seq(Business)
    BY <2>1
  <2>6. /\ Len(longer) = Len(outgoing) + 1 /\ longer[Len(outgoing) + 1] = r
        /\ \A n \in 1..Len(outgoing) : longer[n] = outgoing[n]
    BY <2>1
  <2> HIDE DEF longer
  <2>3. /\ Len(deferred \o longer) = Len(deferred) + Len(longer)
        /\ \A n \in 1..Len(deferred) : (deferred \o longer)[n] = deferred[n]
        /\ \A n \in 1..(Len(deferred) + Len(longer)) :
              n > Len(deferred) =>
                 (deferred \o longer)[n] = longer[n - Len(deferred)]
    BY <2>1, <2>2, Concat
  <2>4. /\ Len(Backlog) = Len(deferred) + Len(outgoing)
        /\ \A n \in 1..Len(deferred) : Backlog[n] = deferred[n]
        /\ \A n \in 1..(Len(deferred) + Len(outgoing)) :
              n > Len(deferred) => Backlog[n] = outgoing[n - Len(deferred)]
    BY <2>1, Concat DEF Backlog
  <2>5. Backlog' = deferred \o longer
    BY <1>0 DEF Backlog, longer
  <2>7. ASSUME NEW n \in 1..Len(Backlog) PROVE Backlog'[n] = Backlog[n]
    <3>1. CASE n <= Len(deferred)
      BY <2>1, <2>3, <2>4, <2>5, <3>1
    <3>2. CASE n > Len(deferred)
      <4>1. n - Len(deferred) \in 1..Len(outgoing)
        BY <2>1, <2>4, <3>2
      <4> QED BY <2>1, <2>3, <2>4, <2>5, <2>6, <3>2, <4>1
    <3> QED BY <2>1, <2>4, <3>1, <3>2
  <2>8. Backlog'[Len(deferred) + Len(outgoing) + 1] = r
    <3>1. (Len(deferred) + Len(outgoing) + 1) - Len(deferred)
              = Len(outgoing) + 1
      BY <2>1
    <3> QED BY <2>1, <2>3, <2>5, <2>6, <3>1
  <2>9. Len(Backlog') = Len(deferred) + Len(outgoing) + 1
    BY <2>1, <2>3, <2>5, <2>6
  <2> QED BY <2>4, <2>7, <2>8, <2>9
<1>7. \A n \in 1..Len(Backlog) :
          /\ Backlog[n] \in Requests /\ turn[Backlog[n]] > 0
          /\ Backlog[n] # r
  BY <1>0, <1>1, BacklogTypes, ItemFacts DEF BacklogIsUnstarted
<1>8. Len(Backlog) \in Nat
  BY BacklogTypes
<1>9. BacklogSorted'
  <2> SUFFICES ASSUME NEW m \in 1..Len(Backlog'), NEW n \in 1..Len(Backlog'),
                      m < n
               PROVE  turn'[Backlog'[m]] < turn'[Backlog'[n]]
    BY DEF BacklogSorted
  <2>1. m \in 1..Len(Backlog) /\ Backlog'[m] = Backlog[m]
    BY <1>6, <1>8
  <2>2. turn'[Backlog'[m]] = turn[Backlog[m]]
    BY <1>5, <1>7, <2>1
  <2>3. CASE n = Len(Backlog) + 1
    <3>1. turn'[Backlog'[n]] = admitted + 1
      BY <1>5, <1>6, <2>3
    <3>2. turn[Backlog[m]] \in Nat /\ turn[Backlog[m]] <= admitted
      BY <1>4, <1>7, <2>1
    <3> QED BY <1>4, <2>2, <3>1, <3>2
  <2>4. CASE n \in 1..Len(Backlog)
    <3>1. turn'[Backlog'[n]] = turn[Backlog[n]]
      BY <1>5, <1>6, <1>7, <2>4
    <3> QED BY <2>1, <2>2, <2>4, <3>1 DEF BacklogSorted
  <2> QED BY <1>6, <1>8, <2>3, <2>4
<1>10. TurnsDiffer'
  BY <1>0, <1>1, <1>4, <1>5, ItemFacts DEF TurnsDiffer
<1>11. BacklogIsUnstarted'
  <2>1. ASSUME NEW x \in Business PROVE Waits(x)' <=> Waits(x) \/ x = r
    BY <1>6, <1>8 DEF Waits
  <2>2. r \notin started' /\ turn'[r] > 0
    BY <1>0, <1>1, <1>4, <1>5
  <2> QED BY <1>0, <1>3, <1>5, <2>1, <2>2, ItemFacts DEF BacklogIsUnstarted
<1>12. PendingConsistent'
  <2>1. i \in 0..MaxPacketId /\ i # 0 /\ 0 \in 0..MaxPacketId
    BY NumberFacts
  <2>2. /\ \A j \in 0..MaxPacketId : j # i => pending'[j] = pending[j]
        /\ pending'[i] = r
    BY <1>2, <2>1 DEF TypeOK
  <2>3. /\ \A x \in Requests : x # r => packetId'[x] = packetId[x]
        /\ packetId'[r] = i
    BY <1>1, <1>2, <2>1 DEF TypeOK
  <2>4. \A j \in 0..MaxPacketId : pending[j] # NoItem =>
            pending[j] \in Requests /\ pending[j] # r
    BY <1>0, PendingAreRequests
  <2>5. PacketIds \subseteq 0..MaxPacketId
    BY NumberFacts
  <2> QED BY <1>0, <2>1, <2>2, <2>3, <2>4, <2>5 DEF PendingConsistent
<1>13. AdmittedIsPending'
  <2>1. i \in 0..MaxPacketId
    BY NumberFacts
  <2>2. packetId' [Close] = 0
    BY <1>1, <1>2 DEF AdmittedIsPending
  <2>3. ASSUME NEW x \in Business, turn'[x] > 0, result'[x] = "none"
        PROVE  pending'[packetId'[x]] = x
    <3>1. CASE x = r
      BY <1>1, <1>2, <2>1, <3>1 DEF TypeOK
    <3>2. CASE x # r
      <4>1. x \in Requests /\ x # NoItem
        BY ItemFacts
      <4>2. turn[x] > 0 /\ packetId'[x] = packetId[x]
        BY <1>2, <1>5, <2>3, <3>2, <4>1 DEF TypeOK
      <4>3. pending[packetId[x]] = x
        BY <1>0, <2>3, <4>2 DEF AdmittedIsPending
      <4> QED BY <1>2, <4>1, <4>2, <4>3 DEF TypeOK
    <3> QED BY <3>1, <3>2
  <2>4. ASSUME NEW x \in Business, turn'[x] > 0, result'[x] # "none"
        PROVE  result'[x] \in {"ok", "refused"}
    <3>1. x # r /\ x \in Requests
      BY <1>0, <2>4, ItemFacts
    <3> QED BY <1>0, <1>5, <2>4, <3>1 DEF AdmittedIsPending
  <2> QED BY <2>2, <2>3, <2>4 DEF AdmittedIsPending
<1>14. WriteProgress'
  BY <1>0, <1>1, <1>3, <1>5, ItemFacts DEF WriteProgress
<1>15. QoS0Completes'
  BY <1>0, <1>3 DEF QoS0Completes
<1>16. ResultsJustified'
  BY <1>0, <1>1, <1>3, <1>5 DEF ResultsJustified
<1>17. ASSUME NEW q \in started \cap Business, NEW p \in Business,
              turn'[p] \in 1..turn'[q]
       PROVE  turn[p] \in 1..turn[q]
  <2>1. q # r /\ q \in Requests /\ p \in Requests
    BY <1>1, ItemFacts
  <2>2. p # r
    BY <1>4, <1>5, <1>17, <2>1
  <2> QED BY <1>5, <1>17, <2>1, <2>2
<1>18. StartedInOrder' /\ HandedInOrder'
  BY <1>0, <1>17 DEF StartedInOrder, HandedInOrder, WriteProgress
<1> QED BY <1>0, <1>9, <1>10, <1>11, <1>12, <1>13, <1>14, <1>15, <1>16, <1>18
-----------------------------------------------------------------------------
(* Steps that leave requests, backlog and history alone.                   *)
LEMMA FrameKeeps ==
    ASSUME IInv,
           UNCHANGED <<cause, pending, packetId, result, started, localWrite,
                       handed, answered, turn, admitted, Backlog>>,
           ~Alive => UNCHANGED <<outgoing, deferred, control>>,
           \/ writer' = writer
           \/ ~Alive /\ writer' = [writer EXCEPT !.at = "exited"],
           closing' = "no" =>
               /\ closing = "no"
               /\ \A n \in 1..Len(control') : control'[n] # Close
    PROVE  Kept'
<1> USE DEF IInv, Kept
<1>1. /\ Alive' = Alive
      /\ \A x : AtWork(x)' => AtWork(x) /\ writer' = writer
      /\ Alive => \A x : AtWork(x)' = AtWork(x)
  BY DEF Alive, AtWork, TypeOK
<1>2. BacklogSorted' /\ TurnsDiffer'
  BY DEF BacklogSorted, TurnsDiffer
<1>3. BacklogIsUnstarted'
  BY <1>1 DEF BacklogIsUnstarted, Waits
<1>4. PendingConsistent'
  BY DEF PendingConsistent
<1>5. AdmittedIsPending'
  BY <1>1 DEF AdmittedIsPending
<1>6. WriteProgress'
  BY <1>1 DEF WriteProgress
<1>7. QoS0Completes'
  BY <1>1 DEF QoS0Completes
<1>8. ResultsJustified'
  BY <1>1 DEF ResultsJustified
<1>9. StartedInOrder' /\ HandedInOrder'
  BY DEF StartedInOrder, HandedInOrder
<1> QED BY <1>2, <1>3, <1>4, <1>5, <1>6, <1>7, <1>8, <1>9

LEMMA ControlKeeps ==
    ASSUME IInv, Alive, NEW packet \in {Ping, Puback}, Control(packet),
           UNCHANGED <<writer, closing, turn, admitted, handed, answered>>
    PROVE  Kept'
<1> USE DEF requestVars
<1>1. CASE Abort("overflow")
  <2>1. "overflow" \in Causes \ {"none", "unexpected"}
    BY DEF Causes
  <2> QED BY <1>1, <2>1, AbortKeeps DEF admitVars
<1>2. CASE ~Abort("overflow")
  <2>1. /\ control' = Append(control, packet)
        /\ UNCHANGED <<cause, pending, packetId, started, localWrite, result,
                       outgoing, deferred>>
    BY <1>2 DEF Control
  <2>2. packet # Close
    BY ItemFacts
  <2>3. control \in Seq({Close, Ping, Puback})
    BY DEF IInv, TypeOK
  <2>4. \A n \in 1..Len(control') :
            control'[n] = packet \/ \E m \in 1..Len(control) : control'[n] = control[m]
    BY <2>1, <2>3
  <2>5. closing' = "no" => \A n \in 1..Len(control') : control'[n] # Close
    BY <2>2, <2>4 DEF IInv, Kept, PendingConsistent
  <2>6. Backlog' = Backlog
    BY <2>1 DEF Backlog
  <2> QED BY <2>1, <2>5, <2>6, FrameKeeps
<1> QED BY <1>1, <1>2

LEMMA DisconnectKeeps ==
    ASSUME IInv, Disconnect \/ DisconnectQueued
    PROVE  Kept'
<1> USE DEF IInv, Kept, requestVars, queueVars, admitVars, wireVars, peerVars
<1>1. CASE Disconnect /\ Alive
  <2>0. /\ closing' = "putting" /\ pending' = [pending EXCEPT ![0] = Close]
        /\ UNCHANGED <<cause, packetId, started, localWrite, result, outgoing,
                       deferred, control, writer, handed, answered, turn,
                       admitted>>
        /\ closing = "no"
    BY <1>1 DEF Disconnect
  <2>1. UNCHANGED <<Backlog, Alive>> /\ (\A x : AtWork(x)' = AtWork(x))
    BY <2>0 DEF Backlog, AtWork, Alive
  <2>2. /\ pending'[0] = Close
        /\ \A i \in 0..MaxPacketId : i # 0 => pending'[i] = pending[i]
    BY <2>0, NumberFacts DEF TypeOK
  <2>3. PacketIds \subseteq 0..MaxPacketId /\ 0 \notin PacketIds
    BY NumberFacts
  <2>4. PendingConsistent'
    BY <2>0, <2>2, <2>3 DEF PendingConsistent, AdmittedIsPending
  <2>5. AdmittedIsPending'
    <3>1. ASSUME NEW r \in Business, pending[packetId[r]] = r
          PROVE  pending'[packetId[r]] = r
      BY <2>0, <3>1, <2>2, ItemFacts DEF TypeOK, PendingConsistent
    <3> QED BY <2>0, <2>1, <3>1 DEF AdmittedIsPending
  <2>6. BacklogSorted' /\ TurnsDiffer' /\ BacklogIsUnstarted'
    BY <2>0, <2>1 DEF BacklogSorted, TurnsDiffer, BacklogIsUnstarted, Waits
  <2>7. WriteProgress' /\ QoS0Completes' /\ ResultsJustified'
    BY <2>0, <2>1 DEF WriteProgress, QoS0Completes, ResultsJustified
  <2>8. StartedInOrder' /\ HandedInOrder'
    BY <2>0 DEF StartedInOrder, HandedInOrder
  <2> QED BY <2>0, <2>4, <2>5, <2>6, <2>7, <2>8
<1>2. CASE Disconnect /\ ~Alive
  BY <1>2, FrameKeeps DEF Disconnect, Backlog
<1>3. CASE DisconnectQueued
  BY <1>3, FrameKeeps DEF DisconnectQueued, Backlog
<1> QED BY <1>1, <1>2, <1>3
-----------------------------------------------------------------------------
(* The write loop.                                                         *)
LEMMA DefersKeeps ==
    ASSUME IInv, WriterDefers
    PROVE  Kept'
<1> USE DEF requestVars, admitVars, wireVars, peerVars
<1>1. /\ outgoing' = NextOutgoing.outgoing /\ deferred' = NextOutgoing.deferred
      /\ NextOutgoing.item = NoItem /\ Alive
      /\ UNCHANGED <<cause, pending, packetId, result, started, localWrite,
                     control, writer, closing, handed, answered, turn,
                     admitted>>
  BY DEF WriterDefers
<1>2. TypeOK
  BY DEF IInv
<1>3. control # <<>> => Head(control) # NoItem
  <2>1. control # <<>> => Head(control) \in {Close, Ping, Puback}
    BY <1>2 DEF TypeOK
  <2> QED BY <2>1, ItemFacts
<1>4. \A k \in 1..Len(Backlog) : Backlog[k] # NoItem
  BY <1>2, BacklogTypes, ItemFacts
<1>5. NextOutgoing.deferred \o NextOutgoing.outgoing = Backlog
  BY <1>1, <1>2, <1>3, <1>4, Selection
<1>6. Backlog' = Backlog
  BY <1>1, <1>5 DEF Backlog
<1>7. closing = "no" => \A n \in 1..Len(control) : control[n] # Close
  BY DEF IInv, Kept, PendingConsistent
<1> QED BY <1>1, <1>6, <1>7, FrameKeeps

LEMMA HandsOverKeeps ==
    ASSUME IInv, WriterHandsOver
    PROVE  Kept'
<1> USE DEF IInv, Kept
<1> DEFINE item == writer.item
<1>0. /\ writer.at = "started" /\ writer' = [writer EXCEPT !.at = "writing"]
      /\ handed' = handed \/ handed' = handed \cup ({item} \cap Requests)
      /\ Alive => handed' = handed \cup ({item} \cap Requests)
      /\ UNCHANGED <<cause, pending, packetId, result, started, localWrite,
                     outgoing, deferred, control, closing, answered, turn,
                     admitted>>
  BY DEF WriterHandsOver, WriterAt, Loop, wireVars, requestVars, queueVars,
         admitVars, peerVars
<1>1. UNCHANGED <<Backlog, Alive>>
  BY <1>0 DEF Backlog, Alive
<1>2. \A x : AtWork(x)' = AtWork(x)
  BY <1>0 DEF AtWork, TypeOK
<1>3. writer'.at = "writing"
  BY <1>0 DEF TypeOK
<1>4. \A x \in Requests : x \in {item} => AtWork(x) /\ x \in started
  BY <1>0 DEF AtWork, WriteProgress
<1>5. BacklogSorted' /\ TurnsDiffer' /\ BacklogIsUnstarted'
  BY <1>0, <1>1 DEF BacklogSorted, TurnsDiffer, BacklogIsUnstarted, Waits
<1>6. PendingConsistent' /\ AdmittedIsPending'
  BY <1>0, <1>1 DEF PendingConsistent, AdmittedIsPending
<1>7. WriteProgress'
  <2>1. /\ handed' \subseteq started' /\ localWrite' \subseteq started'
        /\ answered' \subseteq handed'
        /\ \A r \in Business : r \in started' => turn'[r] > 0
        /\ \A r \in Requests : AtWork(r)' => r \in started'
    BY <1>0, <1>2, <1>4 DEF WriteProgress
  <2>2. ASSUME Alive, NEW r \in Requests, r \in started PROVE r \in handed'
    BY <1>0, <2>2 DEF WriteProgress, AtWork
  <2> QED BY <1>0, <1>1, <1>3, <2>1, <2>2 DEF WriteProgress
<1>8. QoS0Completes' /\ ResultsJustified' /\ StartedInOrder'
  BY <1>0, <1>1, <1>2 DEF QoS0Completes, ResultsJustified, StartedInOrder
<1>9. HandedInOrder'
  <2>1. ASSUME Alive, NEW r \in Requests, r \in started PROVE r \in handed'
    BY <1>0, <2>1 DEF WriteProgress, AtWork
  <2>2. CASE handed' = handed
    BY <1>0, <2>2 DEF HandedInOrder
  <2>3. CASE Alive
    <3>1. ASSUME NEW q \in handed' \cap Business, NEW p \in Business,
                 SameQueue(p, q), turn[p] \in 1..turn[q]
          PROVE  p \in handed'
      <4>1. q \in started
        BY <1>0, <1>4, <3>1, ItemFacts DEF WriteProgress
      <4>2. p \in started
        BY <3>1, <4>1 DEF StartedInOrder
      <4> QED BY <2>1, <2>3, <4>2, ItemFacts
    <3> QED BY <1>0, <3>1 DEF HandedInOrder
  <2> QED BY <1>0, <2>2, <2>3 DEF WriterHandsOver, wireVars
<1> QED BY <1>0, <1>5, <1>6, <1>7, <1>8, <1>9

LEMMA WritesKeeps ==
    ASSUME IInv, WriterWrites
    PROVE  Kept'
<1> USE DEF IInv, Kept
<1> DEFINE item == writer.item
<1>0. /\ writer.at = "writing" /\ writer' = [writer EXCEPT !.at = "wrote"]
      /\ localWrite' = localWrite \cup ({item} \cap Requests)
      /\ UNCHANGED <<cause, pending, packetId, result, started, handed,
                     outgoing, deferred, control, closing, answered, turn,
                     admitted>>
  BY DEF WriterWrites, WriterAt, Loop, wireVars, requestVars, queueVars,
         admitVars, peerVars
<1>1. UNCHANGED <<Backlog, Alive>>
  BY <1>0 DEF Backlog, Alive
<1>2. \A x : AtWork(x)' = AtWork(x)
  BY <1>0 DEF AtWork, TypeOK
<1>3. \A x \in Requests : AtWork(x) => x \in {item}
  BY DEF AtWork
<1>4. \A x \in Requests : x \in {item} => x \in started
  BY <1>0 DEF AtWork, WriteProgress
<1>5. BacklogSorted' /\ TurnsDiffer' /\ BacklogIsUnstarted'
  BY <1>0, <1>1 DEF BacklogSorted, TurnsDiffer, BacklogIsUnstarted, Waits
<1>6. PendingConsistent' /\ AdmittedIsPending'
  BY <1>0, <1>1 DEF PendingConsistent, AdmittedIsPending
<1>7. WriteProgress'
  <2>1. \A x \in Requests : x \in started => x \in handed \/ ~Alive
    BY <1>0 DEF WriteProgress, AtWork
  <2> QED BY <1>0, <1>1, <1>2, <1>3, <1>4, <2>1 DEF WriteProgress
<1>8. QoS0Completes' /\ ResultsJustified' /\ StartedInOrder' /\ HandedInOrder'
  BY <1>0, <1>1, <1>2
     DEF QoS0Completes, ResultsJustified, StartedInOrder, HandedInOrder
<1> QED BY <1>0, <1>5, <1>6, <1>7, <1>8

(* Taking the k-th element of the backlog.                                 *)
LEMMA TakeKeepsOrder ==
    ASSUME IInv, NEW k \in 1..Len(Backlog), Without(k, Backlog, Backlog'),
           UNCHANGED turn
    PROVE  /\ BacklogSorted'
           /\ \A r \in Business : Waits(r)' <=> Waits(r) /\ r # Backlog[k]
<1> DEFINE N == Len(Backlog)
           From(n) == IF n < k THEN n ELSE n + 1
<1>1. N \in Nat /\ Len(Backlog') = N - 1
  BY BacklogTypes DEF IInv, Without
<1>2. \A n \in 1..(N - 1) : From(n) \in 1..N /\ Backlog'[n] = Backlog[From(n)]
  BY <1>1 DEF Without
<1>3. \A m, n \in 1..(N - 1) : m < n => From(m) < From(n)
  BY <1>1
<1>4. \A n \in 1..(N - 1) : From(n) # k
  BY <1>1
<1>5. \A n \in 1..N : n # k => \E m \in 1..(N - 1) : From(m) = n
  <2> SUFFICES ASSUME NEW n \in 1..N, n # k
               PROVE  \E m \in 1..(N - 1) : From(m) = n
    OBVIOUS
  <2>1. CASE n < k
    <3>1. n \in 1..(N - 1) /\ From(n) = n
      BY <1>1, <2>1
    <3> QED BY <3>1
  <2>2. CASE n > k
    <3>1. n - 1 \in 1..(N - 1) /\ From(n - 1) = n
      BY <1>1, <2>2
    <3> QED BY <3>1
  <2> QED BY <1>1, <2>1, <2>2
<1>6. \A n \in 1..N : Backlog[n] \in Requests /\ turn[Backlog[n]] \in Nat
  <2>1. TypeOK /\ turn \in [Requests -> Nat]
    BY DEF IInv, TypeOK
  <2>2. \A n \in 1..N : Backlog[n] \in Business
    BY <2>1, BacklogTypes
  <2> QED BY <2>1, <2>2, ItemFacts
<1> HIDE DEF From
<1>7. \A m, n \in 1..N : m < n => turn[Backlog[m]] < turn[Backlog[n]]
  BY DEF IInv, Kept, BacklogSorted
<1>8. \A n \in 1..N : n # k => Backlog[n] # Backlog[k]
  BY <1>1, <1>6, <1>7
<1>9. BacklogSorted'
  BY <1>1, <1>2, <1>3, <1>7 DEF BacklogSorted
<1>10. ASSUME NEW r \in Business
       PROVE  Waits(r)' <=> Waits(r) /\ r # Backlog[k]
  <2>1. ASSUME Waits(r)' PROVE Waits(r) /\ r # Backlog[k]
    BY <1>1, <1>2, <1>4, <1>8, <2>1 DEF Waits
  <2>2. ASSUME Waits(r), r # Backlog[k] PROVE Waits(r)'
    <3>1. PICK n \in 1..N : Backlog[n] = r
      BY <2>2 DEF Waits
    <3>2. PICK m \in 1..(N - 1) : From(m) = n
      BY <1>5, <2>2, <3>1
    <3>3. Backlog'[m] = r
      BY <1>2, <3>1, <3>2
    <3>4. m \in 1..Len(Backlog')
      BY <1>1
    <3> QED BY <3>3, <3>4 DEF Waits
  <2> QED BY <2>1, <2>2
<1> QED BY <1>9, <1>10

LEMMA StartsKeeps ==
    ASSUME IInv, WriterStarts
    PROVE  Kept'
<1> USE DEF IInv, Kept
<1> DEFINE item == NextOutgoing.item
<1>0. /\ writer.at = "idle" /\ Alive /\ item # NoItem
      /\ outgoing' = NextOutgoing.outgoing /\ deferred' = NextOutgoing.deferred
      /\ control' = NextOutgoing.control
      /\ started' = started \cup ({item} \cap Requests)
      /\ writer' = [at |-> "started", item |-> item]
      /\ UNCHANGED <<cause, pending, packetId, result, localWrite, closing,
                     handed, answered, turn, admitted>>
  BY DEF WriterStarts, Loop, admitVars, wireVars, peerVars
<1>1. Alive' = Alive
  BY <1>0 DEF Alive
<1>2. TypeOK /\ control \in Seq({Close, Ping, Puback})
  BY DEF TypeOK
<1>3. /\ \A x \in Requests : x \in started => x \in handed
      /\ \A x : AtWork(x)' <=> x = item
  BY <1>0 DEF WriteProgress, AtWork
<1>4. \/ /\ item \in {Close, Ping, Puback} /\ Backlog' = Backlog
         /\ \E n \in 1..Len(control) : control[n] = item
         /\ \A n \in 1..Len(control') :
               \E m \in 1..Len(control) : control'[n] = control[m]
      \/ \E k \in 1..Len(Backlog) :
            /\ item = Backlog[k] /\ Without(k, Backlog, Backlog')
            /\ control' = <<>>
            /\ \A n \in 1..(k - 1) : ~SameQueue(Backlog[n], Backlog[k])
  <2>1. Backlog' = NextOutgoing.deferred \o NextOutgoing.outgoing
    BY <1>0 DEF Backlog
  <2>2. ASSUME control # <<>>
        PROVE  /\ Head(control) \in {Close, Ping, Puback}
               /\ \E n \in 1..Len(control) : control[n] = Head(control)
               /\ \A n \in 1..Len(Tail(control)) :
                     \E m \in 1..Len(control) : Tail(control)[n] = control[m]
    <3>1. 1 \in 1..Len(control) /\ control[1] = Head(control)
      BY <1>2, <2>2
    <3>2. \A n \in 1..Len(Tail(control)) :
              n + 1 \in 1..Len(control) /\ Tail(control)[n] = control[n + 1]
      BY <1>2, <2>2
    <3> QED BY <1>2, <2>2, <3>1, <3>2
  <2> QED BY <1>0, <1>2, <2>1, <2>2, Selection
<1>5. CASE /\ item \in {Close, Ping, Puback} /\ Backlog' = Backlog
           /\ \E n \in 1..Len(control) : control[n] = item
           /\ \A n \in 1..Len(control') :
                 \E m \in 1..Len(control) : control'[n] = control[m]
  <2>1. started' \cap Business = started \cap Business
    BY <1>0, <1>5, ItemFacts
  <2>2. BacklogSorted' /\ TurnsDiffer'
    BY <1>0, <1>5 DEF BacklogSorted, TurnsDiffer
  <2>3. BacklogIsUnstarted'
    BY <1>0, <1>1, <1>5, <2>1 DEF BacklogIsUnstarted, Waits
  <2>4. PendingConsistent'
    <3>1. ASSUME closing' = "no"
          PROVE  /\ Close \notin started'
                 /\ \A n \in 1..Len(control') : control'[n] # Close
      BY <1>0, <1>5, <3>1 DEF PendingConsistent
    <3> QED BY <1>0, <3>1 DEF PendingConsistent
  <2>5. AdmittedIsPending'
    BY <1>0, <1>1 DEF AdmittedIsPending
  <2>6. WriteProgress'
    BY <1>0, <1>1, <1>3, <2>1 DEF WriteProgress
  <2>7. QoS0Completes'
    BY <1>0, <1>1, <1>3, <1>5, ItemFacts DEF QoS0Completes
  <2>8. ResultsJustified'
    BY <1>0, <1>1 DEF ResultsJustified
  <2>9. StartedInOrder' /\ HandedInOrder'
    BY <1>0, <2>1 DEF StartedInOrder, HandedInOrder
  <2> QED BY <1>0, <2>2, <2>3, <2>4, <2>5, <2>6, <2>7, <2>8, <2>9
<1>6. ASSUME NEW k \in 1..Len(Backlog), item = Backlog[k],
             Without(k, Backlog, Backlog'), control' = <<>>,
             \A n \in 1..(k - 1) : ~SameQueue(Backlog[n], Backlog[k])
      PROVE  Kept'
  <2>1. item \in Business /\ Waits(item) /\ item # Close /\ item \in Requests
    BY <1>2, <1>6, BacklogTypes, ItemFacts
  <2>2. turn[item] > 0 /\ item \notin started
    BY <1>0, <2>1 DEF BacklogIsUnstarted
  <2>3. /\ BacklogSorted'
        /\ \A r \in Business : Waits(r)' <=> Waits(r) /\ r # item
    BY <1>0, <1>6, TakeKeepsOrder
  <2>4. started' = started \cup {item}
    BY <1>0, <2>1
  <2>5. TurnsDiffer'
    BY <1>0 DEF TurnsDiffer
  <2>6. BacklogIsUnstarted'
    BY <1>0, <1>1, <2>1, <2>2, <2>3, <2>4 DEF BacklogIsUnstarted
  <2>7. PendingConsistent'
    BY <1>0, <1>6, <2>1, <2>4 DEF PendingConsistent
  <2>8. AdmittedIsPending'
    BY <1>0, <1>1 DEF AdmittedIsPending
  <2>9. WriteProgress'
    BY <1>0, <1>1, <1>3, <2>2, <2>4 DEF WriteProgress
  <2>10. QoS0Completes'
    <3>1. ASSUME item \in Publish0 PROVE result[item] = "none"
      <4>1. item \notin localWrite
        BY <2>2 DEF WriteProgress
      <4>2. result[item] \notin {"ok", "refused"}
        BY <2>1, <3>1, <4>1 DEF ResultsJustified
      <4> QED BY <1>0, <2>1, <2>2, <4>2 DEF AdmittedIsPending
    <3> QED BY <1>0, <1>1, <1>3, <3>1 DEF QoS0Completes
  <2>11. ResultsJustified'
    BY <1>0, <1>1 DEF ResultsJustified
  <2>12. StartedInOrder'
    <3>1. ASSUME NEW p \in Business, SameQueue(p, item),
                 turn[p] \in 1..turn[item]
          PROVE  p \in started'
      <4>1. CASE p \in started
        BY <2>4, <4>1
      <4>2. CASE p \notin started
        <5>1. p \in Requests /\ turn[p] \in Nat /\ turn[item] \in Nat
          BY <2>1, ItemFacts DEF TypeOK
        <5>2. turn[p] > 0
          BY <3>1, <5>1
        <5>3. PICK n \in 1..Len(Backlog) : Backlog[n] = p
          BY <1>0, <4>2, <5>2 DEF BacklogIsUnstarted, Waits
        <5>4. ~(n > k)
          BY <1>6, <3>1, <5>1, <5>3 DEF BacklogSorted
        <5>5. ~(n < k)
          <6>1. n < k => n \in 1..(k - 1)
            OBVIOUS
          <6> QED BY <1>6, <3>1, <5>3, <6>1
        <5>6. n = k
          BY <5>4, <5>5
        <5> QED BY <1>6, <2>4, <5>3, <5>6
      <4> QED BY <4>1, <4>2
    <3>2. ASSUME NEW q \in started \cap Business, NEW p \in Business,
                 SameQueue(p, q), turn[p] \in 1..turn[q]
          PROVE  p \in started'
      BY <2>4, <3>2 DEF StartedInOrder
    <3> QED BY <1>0, <2>4, <3>1, <3>2 DEF StartedInOrder
  <2>13. HandedInOrder'
    BY <1>0 DEF HandedInOrder
  <2> QED BY <1>0, <2>3, <2>5, <2>6, <2>7, <2>8, <2>9, <2>10, <2>11, <2>12,
             <2>13
<1> QED BY <1>4, <1>5, <1>6

LEMMA ReturnsKeeps ==
    ASSUME IInv, WriteOneReturns
    PROVE  Kept'
<1> USE DEF IInv, Kept
<1> DEFINE item == writer.item
           done == Publish0 \cup {Close}
<1>0. /\ writer.at = "wrote" /\ Alive
      /\ writer' = [at |-> LoopAfter(item), item |-> NoItem]
      /\ UNCHANGED <<cause, packetId, started, localWrite, outgoing, deferred,
                     control, closing, handed, answered, turn, admitted>>
  BY DEF WriteOneReturns, Loop, queueVars, admitVars, wireVars, peerVars
<1>1. UNCHANGED <<Backlog, Alive>>
  BY <1>0 DEF Backlog, Alive
<1>2. \A x : ~AtWork(x)'
  BY <1>0 DEF AtWork, LoopAfter
<1>3. \A x \in Requests : x \in started => x \in handed
  BY <1>0 DEF WriteProgress, AtWork
<1>4. BacklogSorted' /\ TurnsDiffer' /\ BacklogIsUnstarted'
  BY <1>0, <1>1 DEF BacklogSorted, TurnsDiffer, BacklogIsUnstarted, Waits
<1>5. WriteProgress' /\ QoS0Completes' /\ StartedInOrder' /\ HandedInOrder'
  <2>1. WriteProgress'
    BY <1>0, <1>1, <1>2, <1>3 DEF WriteProgress
  <2> QED BY <1>0, <1>1, <1>2, <2>1
       DEF QoS0Completes, StartedInOrder, HandedInOrder
<1>6. CASE UNCHANGED <<pending, result>>
  <2>1. PendingConsistent' /\ AdmittedIsPending' /\ ResultsJustified'
    BY <1>0, <1>1, <1>6
       DEF PendingConsistent, AdmittedIsPending, ResultsJustified
  <2> QED BY <1>0, <1>4, <1>5, <2>1
<1>7. CASE item \in done /\ Finish(packetId[item], item, "ok")
  <2>0. /\ item \in Requests /\ item # NoItem
        /\ AtWork(item) /\ item \in started /\ item \in localWrite
    BY <1>0, <1>7, ItemFacts DEF AtWork, WriteProgress
  <2>1. /\ packetId[item] \in 0..MaxPacketId
        /\ pending' = [pending EXCEPT ![packetId[item]] = NoItem]
        /\ result' = [result EXCEPT ![item] = IF @ = "none" THEN "ok" ELSE @]
    BY <1>7, <2>0 DEF Finish, TypeOK
  <2>2. /\ \A x \in Requests : x # item => result'[x] = result[x]
        /\ result'[item] = IF result[item] = "none" THEN "ok" ELSE result[item]
    BY <2>0, <2>1 DEF TypeOK
  <2>3. /\ pending'[packetId[item]] = NoItem
        /\ \A i \in 0..MaxPacketId :
              i # packetId[item] => pending'[i] = pending[i]
    BY <2>1 DEF TypeOK
  <2>4. PendingConsistent'
    <3>1. 0 \in 0..MaxPacketId /\ PacketIds \subseteq 0..MaxPacketId
      BY NumberFacts
    <3>2. /\ pending'[0] \in {Close, NoItem}
          /\ \A i \in PacketIds : pending'[i] \in Business \cup {NoItem}
      BY <2>3, <3>1 DEF PendingConsistent
    <3>3. ASSUME NEW i \in 0..MaxPacketId, pending'[i] # NoItem
          PROVE  packetId[pending'[i]] = i /\ result'[pending'[i]] = "none"
      <4>1. i # packetId[item] /\ pending'[i] = pending[i]
        BY <2>3, <3>3
      <4>2. pending[i] \in Requests /\ pending[i] # item
        BY <3>3, <4>1, PendingAreRequests DEF PendingConsistent
      <4> QED BY <2>2, <3>3, <4>1, <4>2 DEF PendingConsistent
    <3>4. ASSUME closing = "no"
          PROVE  pending'[0] = NoItem /\ result'[Close] = "none"
      <4>1. item # Close
        BY <2>0, <3>4 DEF PendingConsistent
      <4> QED BY <2>2, <2>3, <3>1, <3>4, <4>1, ItemFacts
           DEF PendingConsistent
    <3> QED BY <1>0, <3>2, <3>3, <3>4 DEF PendingConsistent
  <2>5. AdmittedIsPending'
    <3>1. packetId'[Close] = 0
      BY <1>0 DEF AdmittedIsPending
    <3>2. ASSUME NEW r \in Business, turn[r] > 0
          PROVE  IF result'[r] = "none" THEN pending'[packetId[r]] = r
                                        ELSE result'[r] \in {"ok", "refused"}
      <4>0. r \in Requests /\ r # NoItem /\ packetId[r] \in 0..MaxPacketId
        BY ItemFacts DEF TypeOK
      <4>1. CASE r = item
        BY <1>0, <2>2, <3>2, <4>1 DEF AdmittedIsPending
      <4>2. CASE r # item
        <5>1. ASSUME pending[packetId[r]] = r, packetId[r] = packetId[item]
              PROVE  FALSE
          <6>1. item \in Business => pending[packetId[item]] = item
            <7>1. item \in Business => item \in Publish0
              BY <1>7, ItemFacts
            <7> QED BY <1>0, <2>0, <7>1
                 DEF AdmittedIsPending, QoS0Completes, WriteProgress
          <6>2. item = Close => r \in {Close, NoItem}
            BY <5>1 DEF AdmittedIsPending, PendingConsistent
          <6> QED BY <1>7, <4>0, <4>2, <5>1, <6>1, <6>2, ItemFacts
        <5> QED BY <1>0, <2>2, <2>3, <3>2, <4>0, <4>2, <5>1
             DEF AdmittedIsPending
      <4> QED BY <4>1, <4>2
    <3> QED BY <1>0, <3>1, <3>2 DEF AdmittedIsPending
  <2>6. ResultsJustified'
    <3> SUFFICES ASSUME NEW r \in Requests
                 PROVE  /\ result'[r] = "notSent" => r \notin started /\ ~Alive
                        /\ result'[r] = "backpressure" =>
                              turn[r] = 0 /\ r \in Business
                        /\ result'[r] \in {"ok", "refused"} =>
                              IF r \in Publish0 \cup {Close}
                              THEN r \in localWrite ELSE r \in answered
      BY <1>0, <1>1 DEF ResultsJustified
    <3>1. CASE result'[r] = result[r]
      BY <3>1 DEF ResultsJustified
    <3>2. CASE r = item /\ result'[r] = "ok"
      BY <1>7, <2>0, <3>2
    <3> QED BY <2>2, <3>1, <3>2
  <2> QED BY <1>0, <1>4, <1>5, <2>4, <2>5, <2>6
<1> QED BY <1>6, <1>7 DEF WriteOneReturns
-----------------------------------------------------------------------------
(* The reader.                                                             *)
LEMMA AckKeeps ==
    ASSUME IInv, NEW r \in Business, ReadsAck(r)
    PROVE  Kept'
<1> USE DEF IInv, Kept
<1> DEFINE i == packetId[r]
<1>0. /\ Alive /\ r \in handed \ answered /\ r \in Publish1 \cup Subscribe
      /\ answered' = answered \cup {r}
      /\ UNCHANGED <<writer, closing, turn, admitted, handed>>
  BY DEF ReadsAck, admitVars, wireVars
<1>1. /\ r \in Requests /\ r \notin Publish0 \cup {Close} /\ r # NoItem
      /\ r \in started /\ turn[r] > 0
  BY <1>0, ItemFacts DEF WriteProgress
<1>2. pending[i] = r /\ i \in 0..MaxPacketId
  BY <1>0, <1>1, Consequences DEF AnswersFindRequest, TypeOK
<1>3. result[r] = "none"
  BY <1>1, <1>2 DEF PendingConsistent
<1>4. PICK reply \in {"ok", "refused"} :
          /\ Finish(i, r, reply)
          /\ UNCHANGED <<cause, packetId, started, localWrite, outgoing,
                         deferred, control>>
  <2>1. r \in (IF r \in Publish1 THEN Publish1 ELSE Subscribe)
    BY <1>0
  <2> QED BY <1>1, <1>2, <2>1 DEF ReadsAck
<1>5. UNCHANGED <<Backlog, Alive>> /\ (\A x : AtWork(x)' = AtWork(x))
  BY <1>0, <1>4 DEF Backlog, Alive, AtWork
<1>6. /\ \A x \in Requests : x # r => result'[x] = result[x]
      /\ result'[r] = reply
  BY <1>1, <1>3, <1>4 DEF Finish, TypeOK
<1>7. /\ pending'[i] = NoItem
      /\ \A j \in 0..MaxPacketId : j # i => pending'[j] = pending[j]
  BY <1>2, <1>4 DEF Finish, TypeOK
<1>8. BacklogSorted' /\ TurnsDiffer' /\ BacklogIsUnstarted'
  BY <1>0, <1>4, <1>5 DEF BacklogSorted, TurnsDiffer, BacklogIsUnstarted, Waits
<1>9. PendingConsistent'
  <2>1. 0 \in 0..MaxPacketId /\ PacketIds \subseteq 0..MaxPacketId
    BY NumberFacts
  <2>2. \A j \in 0..MaxPacketId : pending'[j] # NoItem =>
            /\ j # i /\ pending'[j] = pending[j]
            /\ pending[j] \in Requests /\ pending[j] # r
    BY <1>7, PendingAreRequests DEF PendingConsistent
  <2>3. Close \in Requests /\ Close # r
    BY <1>1, ItemFacts
  <2> QED BY <1>0, <1>4, <1>6, <1>7, <2>1, <2>2, <2>3 DEF PendingConsistent
<1>10. AdmittedIsPending'
  <2>1. ASSUME NEW x \in Business, turn[x] > 0
        PROVE  IF result'[x] = "none" THEN pending'[packetId[x]] = x
                                      ELSE result'[x] \in {"ok", "refused"}
    <3>1. x \in Requests /\ packetId[x] \in 0..MaxPacketId
      BY ItemFacts DEF TypeOK
    <3>2. CASE x = r
      BY <1>6, <3>2
    <3>3. CASE x # r
      <4>1. pending[packetId[x]] = x => packetId[x] # i
        BY <1>2, <3>3
      <4> QED BY <1>0, <1>6, <1>7, <2>1, <3>1, <3>3, <4>1
           DEF AdmittedIsPending
    <3> QED BY <3>2, <3>3
  <2> QED BY <1>0, <1>4, <1>5, <2>1 DEF AdmittedIsPending
<1>11. WriteProgress'
  BY <1>0, <1>4, <1>5 DEF WriteProgress
<1>12. QoS0Completes'
  BY <1>0, <1>1, <1>5, <1>6, ItemFacts DEF QoS0Completes
<1>13. ResultsJustified'
  <2>1. ASSUME NEW x \in Requests, x # r
        PROVE  /\ result'[x] = result[x]
               /\ x \in answered' <=> x \in answered
    BY <1>0, <1>6, <2>1
  <2> QED BY <1>0, <1>1, <1>4, <1>5, <1>6, <2>1 DEF ResultsJustified
<1>14. StartedInOrder' /\ HandedInOrder'
  BY <1>0, <1>4 DEF StartedInOrder, HandedInOrder
<1> QED BY <1>4, <1>8, <1>9, <1>10, <1>11, <1>12, <1>13, <1>14
-----------------------------------------------------------------------------
LEMMA InitEstablishes == Init => IInv
<1> SUFFICES ASSUME Init PROVE IInv
  OBVIOUS
<1>1. TypeOK
  <2>1. writer \in [at : {"idle", "started", "writing", "wrote", "exited"},
                    item : Items \cup {NoItem}]
    BY DEF Init
  <2>2. pending \in [0..MaxPacketId -> Requests \cup {NoItem}]
        /\ packetId \in [Requests -> 0..MaxPacketId]
    BY NumberFacts DEF Init
  <2> QED BY <2>1, <2>2, NumberFacts DEF Init, TypeOK, Causes, Results
<1>2. /\ Len(Backlog) = 0 /\ Alive /\ (\A x : ~AtWork(x))
      /\ \A r \in Requests : turn[r] = 0 /\ result[r] = "none"
      /\ \A i \in 0..MaxPacketId : pending[i] = NoItem
  BY DEF Init, Backlog, Alive, AtWork
<1>3. BacklogSorted /\ TurnsDiffer /\ BacklogIsUnstarted
  BY <1>2, ItemFacts DEF Init, BacklogSorted, TurnsDiffer, BacklogIsUnstarted, Waits
<1>4. PendingConsistent /\ AdmittedIsPending
  BY <1>2, ItemFacts, NumberFacts DEF Init, PendingConsistent, AdmittedIsPending
<1>5. WriteProgress /\ QoS0Completes /\ ResultsJustified
  BY <1>2, ItemFacts DEF Init, WriteProgress, QoS0Completes, ResultsJustified
<1>6. StartedInOrder /\ HandedInOrder /\ cause # "unexpected"
  BY DEF Init, StartedInOrder, HandedInOrder
<1> QED BY <1>1, <1>3, <1>4, <1>5, <1>6 DEF IInv, Kept

LEMMA StepKeeps == IInv /\ [Next]_vars => IInv'
<1> SUFFICES ASSUME IInv, [Next]_vars PROVE Kept'
  BY TypeStep DEF IInv
<1> USE DEF requestVars, queueVars, admitVars, wireVars, peerVars
<1>0. {"timeout", "cancelled", "rejected", "write", "lost", "ping",
       "disconnected"} \subseteq Causes \ {"none", "unexpected"}
  BY DEF Causes
<1>1. ASSUME NEW r \in Business, RequestRefused(r) \/ RequestAdmitted(r)
      PROVE  Kept'
  BY <1>1, RefusedKeeps, AdmittedKeeps
<1>2. ASSUME NEW r \in Requests, RequestTimesOut(r) \/ RequestCancelled(r)
      PROVE  Kept'
  BY <1>0, <1>2, AbortKeeps DEF RequestTimesOut, RequestCancelled
<1>3. CASE Disconnect \/ DisconnectQueued
  BY <1>3, DisconnectKeeps
<1>4. CASE DisconnectReturns
  <2>1. CASE Alive
    BY <1>0, <1>4, <2>1, AbortKeeps DEF DisconnectReturns
  <2>2. CASE ~Alive
    BY <1>4, <2>2, FrameKeeps DEF DisconnectReturns, Backlog
  <2> QED BY <2>1, <2>2
<1>5. CASE WriteLoop
  BY <1>5, DefersKeeps, StartsKeeps, HandsOverKeeps, WritesKeeps, ReturnsKeeps
     DEF WriteLoop
<1>6. CASE WriterFindsLate \/ WriteFails
  <2>1. PICK error \in {"timeout", "rejected", "write"} :
            Alive /\ WriterAborts(error)
    BY <1>6 DEF WriterFindsLate, WriteFails
  <2> QED BY <1>0, <2>1, AbortKeeps DEF WriterAborts, WriterAt
<1>7. \A n \in 1..Len(control) : closing = "no" => control[n] # Close
  BY DEF IInv, Kept, PendingConsistent
<1>8. CASE WriterExits
  BY <1>7, <1>8, FrameKeeps DEF WriterExits, WriterAt, Backlog
<1>9. ASSUME NEW r \in Business, ReadsAck(r) PROVE Kept'
  BY <1>9, AckKeeps
<1>10. CASE ReadsPong
  BY <1>7, <1>10, FrameKeeps DEF ReadsPong, Backlog
<1>11. CASE ReadsPublish \/ HeartbeatPings
  BY <1>11, ControlKeeps DEF ReadsPublish, HeartbeatPings
<1>12. CASE ReaderEnds \/ HeartbeatTimesOut
  BY <1>0, <1>12, AbortKeeps DEF ReaderEnds, HeartbeatTimesOut
<1>13. CASE UNCHANGED vars
  BY <1>7, <1>13, FrameKeeps DEF vars, Backlog
<1> QED BY <1>1, <1>2, <1>3, <1>4, <1>5, <1>6, <1>8, <1>9, <1>10, <1>11,
           <1>12, <1>13 DEF Next
-----------------------------------------------------------------------------
(* The strengthened invariant holds throughout, for any requests, limits   *)
(* and bounds.                                                             *)
THEOREM Invariant == Spec => []IInv
BY InitEstablishes, StepKeeps, PTL DEF Spec

(* The variables of a generation keep their types, packet identifiers in   *)
(* range across the wrap-around of next_id among them.                     *)
THEOREM TypesHold == Spec => []TypeOK
<1>1. IInv => TypeOK
  BY DEF IInv
<1> QED BY <1>1, Invariant, PTL

(* A caller is told the truth: "not sent" and "backpressure" mean that no  *)
(* byte was handed over, success that the broker answered or, for QoS 0    *)
(* and DISCONNECT, that the write completed (finish, abort_with).          *)
THEOREM CallersAreToldTheTruth == Spec => []ResultsAreTrue
<1>1. IInv => ResultsAreTrue
  BY Consequences
<1> QED BY <1>1, Invariant, PTL

(* Whatever next_outgoing defers or lets pass, publishes are handed over   *)
(* in the order of their admission, and so are the other requests.         *)
THEOREM OrderIsKept == Spec => []HandedInOrder
<1>1. IInv => HandedInOrder
  BY DEF IInv, Kept
<1> QED BY <1>1, Invariant, PTL

(* allocate never gives a packet identifier away whose answer is due, so   *)
(* no answer of a conforming broker ends the session as unexpected.        *)
THEOREM AnswersReachTheirRequest == Spec => []AnswersFindRequest
<1>1. IInv => AnswersFindRequest
  BY Consequences
<1> QED BY <1>1, Invariant, PTL
-----------------------------------------------------------------------------
(* The room that the two business queues take.                             *)
LEMMA BusinessStep == TypeOK /\ BusinessBounded /\ [Next]_vars => BusinessBounded'
<1> SUFFICES ASSUME TypeOK, BusinessBounded, [Next]_vars
             PROVE  BusinessBounded'
  OBVIOUS
<1> USE DEF requestVars, queueVars
<1>0. /\ Len(Backlog) = Len(deferred) + Len(outgoing)
      /\ Len(deferred) \in Nat /\ Len(outgoing) \in Nat
      /\ businessDepth \in Nat /\ SendCapacity \in Nat
  BY BacklogTypes, RequestsAssumption DEF TypeOK
<1>00. Len(Backlog) = businessDepth /\ businessDepth <= SendCapacity
  BY <1>0 DEF BusinessBounded
<1>1. ASSUME NEW error, Abort(error) PROVE BusinessBounded'
  <2>1. outgoing' = <<>> /\ deferred' = <<>> /\ businessDepth' = 0
    BY <1>1 DEF Abort
  <2> QED BY <1>0, <2>1 DEF BusinessBounded
<1>2. CASE UNCHANGED <<outgoing, deferred, businessDepth>>
  BY <1>2 DEF BusinessBounded
<1>3. ASSUME NEW r \in Business, RequestAdmitted(r) PROVE BusinessBounded'
  <2>1. /\ outgoing' = Append(outgoing, r) /\ deferred' = deferred
        /\ businessDepth' = businessDepth + 1 /\ businessDepth < SendCapacity
    BY <1>3 DEF RequestAdmitted, Request, Room
  <2>2. outgoing \in Seq(Business)
    BY DEF TypeOK
  <2>3. Len(outgoing') = Len(outgoing) + 1
    BY <2>1, <2>2
  <2> QED BY <1>0, <2>1, <2>3 DEF BusinessBounded
<1>4. ASSUME NEW rest, rest = NextOutgoing.deferred \o NextOutgoing.outgoing,
             outgoing' = NextOutgoing.outgoing,
             deferred' = NextOutgoing.deferred
      PROVE  /\ Len(outgoing') + Len(deferred') = Len(rest)
             /\ Len(outgoing') \in Nat /\ Len(deferred') \in Nat
  <2>1. /\ outgoing' \in Seq(Business) /\ deferred' \in Seq(Business)
        /\ rest = deferred' \o outgoing'
    BY <1>4, Selection, ItemFacts
  <2>2. Len(deferred' \o outgoing') = Len(deferred') + Len(outgoing')
    BY <2>1, Concat
  <2> QED BY <2>1, <2>2
<1>5. CASE WriterDefers
  <2>1. /\ NextOutgoing.item = NoItem
        /\ outgoing' = NextOutgoing.outgoing
        /\ deferred' = NextOutgoing.deferred /\ UNCHANGED businessDepth
    BY <1>5 DEF WriterDefers
  <2>2. control # <<>> => Head(control) # NoItem
    <3>1. control # <<>> => Head(control) \in {Close, Ping, Puback}
      BY DEF TypeOK
    <3> QED BY <3>1, ItemFacts
  <2>3. \A k \in 1..Len(Backlog) : Backlog[k] # NoItem
    BY BacklogTypes, ItemFacts
  <2>4. NextOutgoing.deferred \o NextOutgoing.outgoing = Backlog
    BY <2>1, <2>2, <2>3, Selection
  <2>5. Len(outgoing') + Len(deferred') = Len(Backlog)
    BY <1>4, <2>1, <2>4
  <2>6. businessDepth' = businessDepth
    BY <2>1
  <2> QED BY <1>00, <2>5, <2>6 DEF BusinessBounded
<1>6. CASE WriterStarts
  <2> DEFINE item == NextOutgoing.item
             rest == NextOutgoing.deferred \o NextOutgoing.outgoing
  <2>1. /\ item # NoItem
        /\ outgoing' = NextOutgoing.outgoing
        /\ deferred' = NextOutgoing.deferred
    BY <1>6 DEF WriterStarts
  <2>2. businessDepth' = IF item \in Business THEN Less(businessDepth)
                                              ELSE businessDepth
    BY <1>6 DEF WriterStarts
  <2>3. Len(outgoing') + Len(deferred') = Len(rest)
    BY <1>4, <2>1
  <2>4. control # <<>> => Head(control) \notin Business
    <3>1. control # <<>> => Head(control) \in {Close, Ping, Puback}
      BY DEF TypeOK
    <3> QED BY <3>1, ItemFacts
  <2>5. \/ item \notin Business /\ rest = Backlog
        \/ \E k \in 1..Len(Backlog) : item = Backlog[k] /\ Without(k, Backlog, rest)
    BY <2>1, <2>4, Selection, ItemFacts
  <2> HIDE DEF item, rest
  <2>6. CASE item \notin Business /\ rest = Backlog
    BY <1>00, <2>2, <2>3, <2>6 DEF BusinessBounded
  <2>7. ASSUME NEW k \in 1..Len(Backlog), item = Backlog[k],
               Without(k, Backlog, rest)
        PROVE  BusinessBounded'
    <3>1. item \in Business
      BY <2>7, BacklogTypes
    <3>2. Len(rest) = Len(Backlog) - 1 /\ Len(Backlog) > 0
      BY <1>0, <2>7 DEF Without
    <3>3. businessDepth' = businessDepth - 1
      BY <1>0, <1>00, <2>2, <3>1, <3>2 DEF Less
    <3> QED BY <1>0, <1>00, <2>3, <3>2, <3>3 DEF BusinessBounded
  <2> QED BY <2>5, <2>6, <2>7
<1>7. CASE WriterHandsOver \/ WriterWrites \/ WriteOneReturns
  BY <1>2, <1>7 DEF WriterHandsOver, WriterWrites, WriteOneReturns
<1>8. CASE WriterFindsLate \/ WriteFails
  BY <1>1, <1>8 DEF WriterFindsLate, WriteFails, WriterAborts
<1>9. ASSUME NEW packet, Control(packet) PROVE BusinessBounded'
  BY <1>1, <1>2, <1>9 DEF Control
<1>10. ASSUME NEW r \in Business, RequestRefused(r) \/ ReadsAck(r)
       PROVE  BusinessBounded'
  BY <1>1, <1>2, <1>10 DEF RequestRefused, Request, ReadsAck
<1>11. ASSUME NEW r \in Requests, RequestTimesOut(r) \/ RequestCancelled(r)
       PROVE  BusinessBounded'
  BY <1>1, <1>11 DEF RequestTimesOut, RequestCancelled
<1>12. CASE Disconnect \/ DisconnectQueued \/ DisconnectReturns
  BY <1>1, <1>2, <1>12 DEF Disconnect, DisconnectQueued, DisconnectReturns
<1>13. CASE WriterExits \/ ReadsPong \/ UNCHANGED vars
  BY <1>2, <1>13 DEF WriterExits, ReadsPong, vars
<1>14. CASE ReadsPublish \/ HeartbeatPings
  BY <1>9, <1>14 DEF ReadsPublish, HeartbeatPings
<1>15. CASE ReaderEnds \/ HeartbeatTimesOut
  BY <1>1, <1>15 DEF ReaderEnds, HeartbeatTimesOut
<1> QED BY <1>3, <1>5, <1>6, <1>7, <1>8, <1>10, <1>11, <1>12, <1>13, <1>14,
           <1>15 DEF Next, WriteLoop

(* Deferring publishes for lack of credit makes no room: outgoing and      *)
(* deferred together stay within send_capacity.                            *)
THEOREM QueuesAreBounded == Spec => []BusinessBounded
<1>1. Init => BusinessBounded
  BY RequestsAssumption DEF Init, BusinessBounded
<1> QED BY <1>1, BusinessStep, TypesHold, PTL DEF Spec
-----------------------------------------------------------------------------
(* The PING exchange.                                                      *)
PingWaits == \E n \in 1..Len(control) : control[n] = Ping

(* A PINGREQ is in the control queue, in the write loop or on the wire, in *)
(* one of these places, as heartbeat_state says.                           *)
PingPlaces ==
    /\ \A m, n \in 1..Len(control) :
          control[m] = Ping /\ control[n] = Ping => m = n
    /\ heartbeat \in {"Idle", "AwaitingResponse"} => ~PingWaits /\ ~AtWork(Ping)
    /\ heartbeat = "Queued" => \/ PingWaits /\ ~AtWork(Ping)
                               \/ ~PingWaits /\ AtWork(Ping) /\ Loop("started")
    /\ heartbeat \in {"Writing", "RespondedWhileWriting"} =>
          ~PingWaits /\ AtWork(Ping) /\ ~Loop("started")

(* A PINGRESP is due from the hand-over of the PINGREQ on.                 *)
PongDue ==
    pings = pongs + (IF heartbeat \in {"Writing", "AwaitingResponse"}
                     THEN 1 ELSE 0)

(* Inductive, with the types.                                              *)
PingInv == Alive => PingPlaces /\ PongDue

(* Packets of other kinds change nothing for the PINGREQ.                  *)
LEMMA PingFrame ==
    ASSUME TypeOK, PingInv, UNCHANGED <<cause, heartbeat, pings, pongs>>,
           AtWork(Ping) => (Loop("started")' <=> Loop("started")),
           AtWork(Ping)' <=> AtWork(Ping),
           \/ UNCHANGED control
           \/ \E c \in {Close, Puback} : control' = Append(control, c)
           \/ control # <<>> /\ Head(control) # Ping /\ control' = Tail(control)
    PROVE  PingInv'
<1> SUFFICES ASSUME Alive PROVE (PingPlaces /\ PongDue)'
  BY DEF PingInv, Alive
<1>0. control \in Seq({Close, Ping, Puback})
  BY DEF TypeOK
<1>1. /\ PingWaits' <=> PingWaits
      /\ \A m, n \in 1..Len(control') :
            control'[m] = Ping /\ control'[n] = Ping => m = n
  <2>1. CASE UNCHANGED control
    BY <2>1 DEF PingInv, PingPlaces, PingWaits
  <2>2. CASE \E c \in {Close, Puback} : control' = Append(control, c)
    <3>1. PICK c \in {Close, Puback} : control' = Append(control, c)
      BY <2>2
    <3>2. c # Ping /\ c \in {Close, Ping, Puback}
      BY RequestsAssumption DEF Requests
    <3>3. /\ Len(control') = Len(control) + 1 /\ Len(control) \in Nat
          /\ control'[Len(control) + 1] = c
          /\ \A n \in 1..Len(control) : control'[n] = control[n]
      BY <1>0, <3>1, <3>2
    <3>4. \A n \in 1..Len(control') :
             control'[n] = Ping => n \in 1..Len(control) /\ control[n] = Ping
      BY <3>2, <3>3
    <3>5. \A n \in 1..Len(control) :
             control[n] = Ping => n \in 1..Len(control') /\ control'[n] = Ping
      BY <3>3
    <3> QED BY <3>4, <3>5 DEF PingInv, PingPlaces, PingWaits
  <2>3. CASE control # <<>> /\ Head(control) # Ping /\ control' = Tail(control)
    <3>1. /\ Len(control) \in Nat \ {0} /\ Len(control') = Len(control) - 1
          /\ control[1] # Ping
          /\ \A n \in 1..(Len(control) - 1) : control'[n] = control[n + 1]
      BY <1>0, <2>3
    <3>2. \A n \in 1..Len(control') : n + 1 \in 1..Len(control)
      BY <3>1
    <3>3. \A n \in 1..Len(control) : control[n] = Ping =>
             n - 1 \in 1..Len(control') /\ control'[n - 1] = control[n]
      BY <3>1
    <3>4. \A m, n \in 1..Len(control') :
             control'[m] = Ping /\ control'[n] = Ping => m = n
      <4> SUFFICES ASSUME NEW m \in 1..Len(control'), NEW n \in 1..Len(control'),
                          control'[m] = Ping, control'[n] = Ping
                   PROVE  m = n
        OBVIOUS
      <4>1. m + 1 = n + 1
        BY <3>1, <3>2 DEF PingInv, PingPlaces
      <4> QED BY <4>1, <3>1
    <3>5. PingWaits' => PingWaits
      BY <3>1, <3>2 DEF PingWaits
    <3>6. PingWaits => PingWaits'
      BY <3>3 DEF PingWaits
    <3> QED BY <3>4, <3>5, <3>6
  <2> QED BY <2>1, <2>2, <2>3
<1>2. PingPlaces'
  BY <1>1 DEF PingInv, PingPlaces
<1> QED BY <1>2 DEF PingInv, PongDue

(* A generation that lives after a step lived before it, and nobody ended  *)
(* it.                                                                     *)
LEMMA Survives ==
    ASSUME [Next]_vars, Alive'
    PROVE  Alive /\ \A error \in Causes \ {"none"} : ~Abort(error)
<1> USE DEF requestVars, queueVars
<1>1. \A error \in Causes \ {"none"} : ~Abort(error)
  BY DEF Abort, Alive
<1>2. ASSUME UNCHANGED cause PROVE Alive
  BY <1>2 DEF Alive
<1>3. ASSUME ~UNCHANGED cause PROVE \E error \in Causes \ {"none"} : Abort(error)
  <2> USE <1>3 DEF Causes
  <2>1. ASSUME NEW r \in Business, RequestRefused(r) \/ RequestAdmitted(r)
        PROVE  FALSE
    BY <2>1 DEF RequestRefused, RequestAdmitted, Request
  <2>2. CASE \E r \in Requests : RequestTimesOut(r) \/ RequestCancelled(r)
    BY <2>2 DEF RequestTimesOut, RequestCancelled
  <2>3. CASE Disconnect \/ DisconnectQueued \/ DisconnectReturns
    BY <2>3 DEF Disconnect, DisconnectQueued, DisconnectReturns
  <2>4. CASE WriteLoop
    BY <2>4 DEF WriteLoop, WriterDefers, WriterStarts, WriterHandsOver,
                WriterWrites, WriteOneReturns
  <2>5. CASE WriterFindsLate \/ WriteFails \/ WriterExits
    BY <2>5 DEF WriterFindsLate, WriteFails, WriterExits, WriterAborts
  <2>6. CASE \E r \in Business : ReadsAck(r)
    BY <2>6 DEF ReadsAck
  <2>7. CASE ReadsPong \/ ReadsPublish \/ ReaderEnds
    BY <2>7 DEF ReadsPong, ReadsPublish, ReaderEnds, Control
  <2>8. CASE HeartbeatPings \/ HeartbeatTimesOut
    BY <2>8 DEF HeartbeatPings, HeartbeatTimesOut, Control
  <2>9. CASE UNCHANGED vars
    BY <2>9 DEF vars
  <2> QED BY <2>1, <2>2, <2>3, <2>4, <2>5, <2>6, <2>7, <2>8, <2>9 DEF Next
<1> QED BY <1>1, <1>2, <1>3

(* The write loop takes the next item.                                     *)
LEMMA PingStarts ==
    ASSUME TypeOK, PingInv, Alive, WriterStarts PROVE PingInv'
<1> DEFINE item == NextOutgoing.item
<1>0. /\ Loop("idle") /\ item # NoItem /\ writer' = [at |-> "started", item |-> item]
      /\ control' = NextOutgoing.control
      /\ UNCHANGED <<cause, heartbeat, pings, pongs>>
  BY DEF WriterStarts, wireVars, peerVars
<1>1. \/ control # <<>> /\ item = Head(control) /\ control' = Tail(control)
      \/ control = <<>> /\ UNCHANGED control /\ item \in Business
  <2>1. Backlog \in Seq(Business)
    BY BacklogTypes
  <2>2. CASE control # <<>> /\ item = Head(control)
             /\ NextOutgoing.control = Tail(control)
    BY <1>0, <2>2
  <2>3. CASE control = <<>> /\ NextOutgoing.control = <<>> /\ item = NoItem
    BY <1>0, <2>3
  <2>4. CASE control = <<>> /\ NextOutgoing.control = <<>>
             /\ \E k \in 1..Len(Backlog) : item = Backlog[k]
    BY <1>0, <2>1, <2>4
  <2> QED BY <2>2, <2>3, <2>4, Selection
<1>2. AtWork(Ping)' <=> item = Ping
  BY <1>0 DEF AtWork
<1>3. ~AtWork(Ping) /\ PingPlaces
  BY <1>0 DEF AtWork, Loop, PingInv
<1> HIDE DEF item
<1>4. CASE item # Ping
  BY <1>0, <1>1, <1>2, <1>3, <1>4, PingFrame DEF Loop
<1>5. CASE item = Ping
  <2>1. control # <<>> /\ Head(control) = Ping /\ control' = Tail(control)
    BY <1>1, <1>5, ItemFacts
  <2>2. control \in Seq({Close, Ping, Puback})
    BY DEF TypeOK
  <2>3. /\ Len(control) \in Nat \ {0} /\ Len(control') = Len(control) - 1
        /\ control[1] = Ping
        /\ \A n \in 1..(Len(control) - 1) : control'[n] = control[n + 1]
    BY <2>1, <2>2
  <2>4. PingWaits
    BY <2>3 DEF PingWaits
  <2>5. \A n \in 1..Len(control') : control'[n] # Ping
    BY <2>3, <1>3 DEF PingPlaces
  <2>6. heartbeat = "Queued"
    BY <1>3, <2>4 DEF PingPlaces, TypeOK
  <2>7. PingPlaces'
    BY <1>0, <1>2, <1>5, <2>5, <2>6 DEF PingPlaces, PingWaits, Loop
  <2> QED BY <1>0, <2>7 DEF PingInv, PongDue
<1> QED BY <1>4, <1>5

(* The PING exchange survives every step.                                  *)
LEMMA PingStep == TypeOK /\ PingInv /\ [Next]_vars => PingInv'
<1> SUFFICES ASSUME TypeOK, PingInv, [Next]_vars, Alive' PROVE PingInv'
  BY DEF PingInv
<1> USE DEF requestVars, queueVars, wireVars, peerVars
<1>0. Alive /\ \A error \in Causes \ {"none"} : ~Abort(error)
  BY Survives
<1>00. {"timeout", "cancelled", "rejected", "write", "lost", "overflow", "ping",
        "unexpected", "disconnected"} \subseteq Causes \ {"none"}
  BY DEF Causes
<1>1. ASSUME NEW r \in Business, RequestRefused(r) \/ RequestAdmitted(r)
      PROVE  PingInv'
  BY <1>1, PingFrame DEF RequestRefused, RequestAdmitted, Request, Loop, AtWork
<1>2. ASSUME NEW r \in Requests, RequestTimesOut(r) \/ RequestCancelled(r)
      PROVE  FALSE
  BY <1>0, <1>00, <1>2 DEF RequestTimesOut, RequestCancelled
<1>3. CASE Disconnect \/ DisconnectQueued
  BY <1>3, PingFrame DEF Disconnect, DisconnectQueued, Loop, AtWork
<1>4. CASE DisconnectReturns
  BY <1>0, <1>00, <1>4 DEF DisconnectReturns
<1>5. CASE WriterDefers
  BY <1>5, PingFrame DEF WriterDefers, Loop, AtWork
<1>6. CASE WriterStarts
  BY <1>0, <1>6, PingStarts
<1>7. CASE WriterHandsOver
  <2>0. /\ Loop("started") /\ UNCHANGED <<cause, control, pongs>>
        /\ heartbeat' = IF writer.item = Ping /\ heartbeat = "Queued"
                        THEN "Writing" ELSE heartbeat
        /\ pings' = IF writer.item = Ping THEN pings + 1 ELSE pings
    BY <1>0, <1>7 DEF WriterHandsOver
  <2>1. writer'.at = "writing" /\ writer'.item = writer.item
    BY <1>7 DEF WriterHandsOver, WriterAt, TypeOK
  <2>2. CASE writer.item = Ping
    <3>1. AtWork(Ping) /\ AtWork(Ping)' /\ Loop("started") /\ ~Loop("started")'
      BY <2>0, <2>1, <2>2 DEF AtWork, Loop
    <3>2. heartbeat = "Queued" /\ ~PingWaits /\ pings = pongs /\ pings \in Nat
      BY <1>0, <3>1 DEF PingInv, PingPlaces, PongDue, TypeOK
    <3>3. PingPlaces'
      BY <1>0, <2>0, <2>2, <3>1, <3>2 DEF PingInv, PingPlaces, PingWaits
    <3>4. PongDue'
      BY <2>0, <2>2, <3>2 DEF PongDue
    <3> QED BY <3>3, <3>4 DEF PingInv
  <2>3. CASE writer.item # Ping
    <3>1. UNCHANGED <<control, heartbeat, pings>> /\ ~AtWork(Ping) /\ ~AtWork(Ping)'
      BY <2>0, <2>1, <2>3 DEF AtWork
    <3> QED BY <1>0, <2>0, <3>1 DEF PingInv, PingPlaces, PingWaits, PongDue
  <2> QED BY <2>2, <2>3
<1>8. CASE WriterWrites
  <2>0. /\ Loop("writing") /\ UNCHANGED <<cause, control, heartbeat, pings, pongs>>
        /\ writer'.at = "wrote" /\ writer'.item = writer.item
    BY <1>8 DEF WriterWrites, WriterAt, TypeOK
  <2>1. AtWork(Ping)' <=> AtWork(Ping)
    BY <2>0 DEF AtWork, Loop
  <2> QED BY <2>0, <2>1, PingFrame DEF Loop
<1>9. CASE WriteOneReturns
  <2>0. /\ Loop("wrote") /\ UNCHANGED <<cause, control, pings, pongs>>
        /\ heartbeat' = IF writer.item = Ping THEN AfterPing ELSE heartbeat
        /\ ~AtWork(Ping)'
    BY <1>9, ItemFacts DEF WriteOneReturns, AtWork, LoopAfter
  <2>1. CASE writer.item = Ping
    <3>1. AtWork(Ping) /\ ~Loop("started")
      BY <2>0, <2>1 DEF AtWork, Loop
    <3>2. heartbeat \in {"Writing", "RespondedWhileWriting"} /\ ~PingWaits
      BY <1>0, <3>1 DEF PingInv, PingPlaces, TypeOK
    <3>3. heartbeat' = IF heartbeat = "Writing" THEN "AwaitingResponse" ELSE "Idle"
      BY <2>0, <2>1, <3>2 DEF AfterPing
    <3> QED BY <1>0, <2>0, <3>2, <3>3 DEF PingInv, PingPlaces, PingWaits, PongDue
  <2>2. CASE writer.item # Ping
    BY <1>0, <2>0, <2>2 DEF PingInv, PingPlaces, PingWaits, PongDue, AtWork
  <2> QED BY <2>1, <2>2
<1>10. CASE WriterFindsLate \/ WriteFails
  BY <1>0, <1>00, <1>10 DEF WriterFindsLate, WriteFails, WriterAborts
<1>11. CASE WriterExits
  BY <1>0, <1>11 DEF WriterExits
<1>12. ASSUME NEW r \in Business, ReadsAck(r) PROVE PingInv'
  <2>1. UNCHANGED <<cause, heartbeat, control, pings, pongs, writer>>
    BY <1>0, <1>00, <1>12 DEF ReadsAck
  <2> QED BY <2>1, PingFrame DEF Loop, AtWork
<1>13. CASE ReadsPong
  <2>0. /\ pongs < pings /\ pongs' = pongs + 1 /\ pongs \in Nat /\ pings \in Nat
        /\ UNCHANGED <<cause, control, pings, writer>>
        /\ heartbeat \in {"Idle", "Queued", "Writing", "RespondedWhileWriting",
                          "AwaitingResponse"}
    BY <1>13 DEF ReadsPong, TypeOK
  <2>1. heartbeat \in {"Writing", "AwaitingResponse"}
    BY <1>0, <2>0 DEF PingInv, PongDue
  <2>2. heartbeat' = IF heartbeat = "Writing" THEN "RespondedWhileWriting" ELSE "Idle"
    BY <1>13, <2>1 DEF ReadsPong
  <2>3. PingPlaces'
    BY <1>0, <2>0, <2>1, <2>2
       DEF PingInv, PingPlaces, PingWaits, AtWork, Loop
  <2>4. PongDue'
    BY <1>0, <2>0, <2>1, <2>2 DEF PingInv, PongDue
  <2> QED BY <2>3, <2>4 DEF PingInv
<1>14. CASE ReadsPublish
  <2>1. control' = Append(control, Puback) /\ Len(control) < ControlCapacity
    BY <1>0, <1>00, <1>14 DEF ReadsPublish, Control
  <2>2. UNCHANGED <<cause, heartbeat, pings, pongs, writer>>
    BY <1>0, <1>00, <1>14, <2>1 DEF ReadsPublish, Control
  <2> QED BY <2>1, <2>2, PingFrame DEF Loop, AtWork
<1>15. CASE ReaderEnds \/ HeartbeatTimesOut
  BY <1>0, <1>00, <1>15 DEF ReaderEnds, HeartbeatTimesOut
<1>16. CASE HeartbeatPings
  <2>0. /\ control' = Append(control, Ping) /\ Len(control) < ControlCapacity
        /\ heartbeat = "Idle" /\ heartbeat' = "Queued"
        /\ UNCHANGED <<cause, pings, pongs, writer>>
    BY <1>0, <1>00, <1>16 DEF HeartbeatPings, Control
  <2>1. control \in Seq({Close, Ping, Puback}) /\ Ping \in {Close, Ping, Puback}
    BY DEF TypeOK
  <2>2. /\ Len(control) \in Nat /\ Len(control') = Len(control) + 1
        /\ control'[Len(control) + 1] = Ping
        /\ \A n \in 1..Len(control) : control'[n] = control[n]
    BY <2>0, <2>1
  <2>3. ~PingWaits /\ ~AtWork(Ping)
    BY <1>0, <2>0 DEF PingInv, PingPlaces
  <2>4. /\ PingWaits' /\ ~AtWork(Ping)'
        /\ \A n \in 1..Len(control') : control'[n] = Ping => n = Len(control) + 1
    BY <2>0, <2>2, <2>3 DEF PingWaits, AtWork
  <2>5. PingPlaces'
    BY <2>0, <2>4 DEF PingPlaces
  <2> QED BY <1>0, <2>0, <2>5 DEF PingInv, PongDue
<1>17. CASE UNCHANGED vars
  BY <1>17, PingFrame DEF vars, Loop, AtWork
<1> QED BY <1>1, <1>2, <1>3, <1>4, <1>5, <1>6, <1>7, <1>8, <1>9, <1>10, <1>11,
           <1>12, <1>13, <1>14, <1>15, <1>16, <1>17 DEF Next, WriteLoop

(* The PINGRESP clock runs while an answer is due and only then, and no    *)
(* second PINGREQ goes out before the first is answered (heartbeat,        *)
(* queue_ping, write_one, receive_pingresp), although the answer may be    *)
(* read before the write of its PINGREQ returns.                           *)
THEOREM PingExchange == Spec => []PingsMatch
<1>1. Init => PingInv
  BY DEF Init, PingInv, PingPlaces, PingWaits, PongDue, AtWork
<1>2. TypeOK /\ PingInv => PingsMatch
  BY DEF PingInv, PongDue, PingsMatch, TypeOK
<1> QED BY <1>1, <1>2, PingStep, TypesHold, PTL DEF Spec
-----------------------------------------------------------------------------
(* DISCONNECT.                                                             *)

(* The write loop starts nothing once DISCONNECT went to the socket.       *)
LoopClosed ==
    Close \in handed => \/ Loop("exited")
                        \/ AtWork(Close) /\ ~Loop("started")

(* What goes to the socket is handed over by the write loop.               *)
LEMMA WireChanges ==
    ASSUME [Next]_vars
    PROVE  WriterHandsOver \/ UNCHANGED wireVars
BY DEF Next, vars, WriteLoop, RequestRefused, RequestAdmitted, Request,
       RequestTimesOut, RequestCancelled, Disconnect, DisconnectQueued,
       DisconnectReturns, WriterDefers, WriterStarts, WriterWrites,
       WriteOneReturns, WriterFindsLate, WriteFails, WriterAborts, WriterExits,
       ReadsAck, ReadsPong, ReadsPublish, ReaderEnds, HeartbeatPings,
       HeartbeatTimesOut

(* How the write loop may move.                                            *)
LEMMA LoopMoves ==
    ASSUME TypeOK, [Next]_vars
    PROVE  \/ UNCHANGED writer
           \/ Loop("exited")'
           \/ Loop("idle") /\ UNCHANGED handed
           \/ WriterHandsOver
           \/ Loop("writing") /\ Loop("wrote")' /\ writer'.item = writer.item
           \/ Loop("wrote") /\ writer'.at = LoopAfter(writer.item)
<1> USE DEF requestVars, queueVars, wireVars
<1>1. ASSUME NEW r \in Requests,
             \/ r \in Business /\ (RequestRefused(r) \/ RequestAdmitted(r))
             \/ RequestTimesOut(r) \/ RequestCancelled(r)
             \/ r \in Business /\ ReadsAck(r)
      PROVE  UNCHANGED writer
  BY <1>1 DEF RequestRefused, RequestAdmitted, Request, RequestTimesOut,
              RequestCancelled, ReadsAck
<1>2. ASSUME Disconnect \/ DisconnectQueued \/ DisconnectReturns
             \/ ReadsPong \/ ReadsPublish \/ ReaderEnds
             \/ HeartbeatPings \/ HeartbeatTimesOut
      PROVE  UNCHANGED writer
  BY <1>2 DEF Disconnect, DisconnectQueued, DisconnectReturns, ReadsPong,
              ReadsPublish, ReaderEnds, HeartbeatPings, HeartbeatTimesOut
<1>3. CASE WriterDefers \/ WriterStarts
  BY <1>3 DEF WriterDefers, WriterStarts
<1>4. CASE WriterWrites
  BY <1>4 DEF WriterWrites, WriterAt, Loop, TypeOK
<1>5. CASE WriteOneReturns
  BY <1>5 DEF WriteOneReturns
<1>6. CASE WriterFindsLate \/ WriteFails \/ WriterExits
  BY <1>6 DEF WriterFindsLate, WriteFails, WriterExits, WriterAborts, WriterAt,
              Loop, TypeOK
<1>7. CASE UNCHANGED vars
  BY <1>7 DEF vars
<1> QED BY <1>1, <1>2, <1>3, <1>4, <1>5, <1>6, <1>7, ItemFacts DEF Next, WriteLoop

(* What is closed stays so.                                                *)
LEMMA ClosedStep == TypeOK /\ LoopClosed /\ [Next]_vars => LoopClosed'
<1> SUFFICES ASSUME TypeOK, LoopClosed, [Next]_vars, Close \in handed'
             PROVE  LoopClosed'
  BY DEF LoopClosed
<1>1. CASE WriterHandsOver
  <2>1. /\ Loop("started") /\ Loop("writing")' /\ writer'.item = writer.item
        /\ handed' = handed \/ handed' = handed \cup ({writer.item} \cap Requests)
    BY <1>1 DEF WriterHandsOver, WriterAt, Loop, TypeOK, wireVars
  <2>2. Close \notin handed
    BY <2>1 DEF LoopClosed, AtWork, Loop
  <2>3. writer.item = Close
    BY <2>1, <2>2
  <2> QED BY <2>1, <2>3 DEF LoopClosed, AtWork, Loop
<1>2. CASE ~WriterHandsOver
  <2>1. Close \in handed
    BY <1>2, WireChanges DEF wireVars
  <2>2. Loop("exited") \/ (writer.item = Close /\ writer.at \in {"writing", "wrote"})
    BY <2>1 DEF LoopClosed, AtWork, Loop
  <2>3. CASE UNCHANGED writer
    BY <2>2, <2>3 DEF LoopClosed, AtWork, Loop
  <2>4. CASE ~UNCHANGED writer
    <3>1. \/ Loop("exited")'
          \/ Loop("writing") /\ Loop("wrote")' /\ writer'.item = writer.item
          \/ Loop("wrote") /\ writer'.at = LoopAfter(writer.item)
      BY <1>2, <2>2, <2>4, LoopMoves DEF Loop
    <3> QED BY <2>2, <3>1 DEF LoopClosed, AtWork, Loop, LoopAfter
  <2> QED BY <2>3, <2>4
<1> QED BY <1>1, <1>2

(* After the DISCONNECT packet nothing is written: write_loop returns      *)
(* after it, and whatever was queued behind it is discarded.               *)
THEOREM DisconnectIsLast == Spec => NothingAfterDisconnect
<1>1. Init => LoopClosed
  BY DEF Init, LoopClosed
<1>2. TypeOK /\ LoopClosed /\ [Next]_vars
      => [(Close \in handed => UNCHANGED wireVars)]_vars
  BY WireChanges DEF LoopClosed, WriterHandsOver, Loop, AtWork
<1> QED BY <1>1, <1>2, ClosedStep, TypesHold, PTL
        DEF Spec, NothingAfterDisconnect

(* Once the DISCONNECT packet is written, disconnect succeeds: whoever     *)
(* ends the generation first, abort_with finds local_write_complete set.   *)
THEOREM DisconnectIsTold == Spec => DisconnectSucceeds
<1>1. ASSUME TypeOK, [Next]_vars, Close \in localWrite, result[Close] = "none"
      PROVE  result'[Close] \in {"none", "ok"}
  <2> USE DEF requestVars, queueVars
  <2>0. /\ result \in [Requests -> Results] /\ Close \in Requests
        /\ Close \notin Business
    BY <1>1, ItemFacts DEF TypeOK
  <2>1. ASSUME NEW error, Abort(error) PROVE result'[Close] \in {"none", "ok"}
    <3>1. result'[Close] = IF Close \in Pending /\ result[Close] = "none"
                           THEN Outcome(Close) ELSE result[Close]
      BY <2>0, <2>1 DEF Abort
    <3>2. Outcome(Close) = "ok"
      BY <1>1 DEF Outcome
    <3> QED BY <1>1, <3>1, <3>2
  <2>2. ASSUME NEW r \in Business, RequestRefused(r) \/ RequestAdmitted(r)
        PROVE  result'[Close] = "none"
    BY <1>1, <2>0, <2>2 DEF RequestRefused, RequestAdmitted
  <2>3. ASSUME NEW r \in Business, ReadsAck(r)
        PROVE  result'[Close] \in {"none", "ok"}
    <3>1. CASE Abort("unexpected")
      BY <2>1, <3>1
    <3>2. CASE ~Abort("unexpected")
      <4>1. PICK q \in Publish1 \cup Subscribe, reply \in {"ok", "refused"} :
               result' = [result EXCEPT ![q] = IF @ = "none" THEN reply ELSE @]
        BY <2>3, <3>2 DEF ReadsAck, Finish
      <4> QED BY <1>1, <2>0, <4>1, ItemFacts
    <3> QED BY <3>1, <3>2
  <2>4. CASE WriteOneReturns
    <3>1. CASE UNCHANGED result
      BY <1>1, <3>1
    <3>2. CASE ~UNCHANGED result
      <4>1. PICK q \in Requests :
               result' = [result EXCEPT ![q] = IF @ = "none" THEN "ok" ELSE @]
        BY <2>4, <3>2, ItemFacts DEF WriteOneReturns, Finish
      <4> QED BY <1>1, <2>0, <4>1
    <3> QED BY <3>1, <3>2
  <2>5. CASE UNCHANGED result
    BY <1>1, <2>5
  <2>6. \/ UNCHANGED result \/ (\E error \in Causes : Abort(error)) \/ WriteOneReturns
        \/ \E r \in Business : RequestRefused(r) \/ RequestAdmitted(r) \/ ReadsAck(r)
    BY <1>1 DEF Next, vars, WriteLoop, RequestTimesOut, RequestCancelled,
       Disconnect, DisconnectQueued, DisconnectReturns, WriterDefers,
       WriterStarts, WriterHandsOver, WriterWrites, WriterFindsLate, WriteFails,
       WriterAborts, WriterExits, ReadsPong, ReadsPublish, ReaderEnds,
       HeartbeatPings, HeartbeatTimesOut, Control, Causes
  <2> QED BY <2>1, <2>2, <2>3, <2>4, <2>5, <2>6
<1>2. TypeOK /\ [Next]_vars
      => [(Close \in localWrite /\ result[Close] = "none"
          => result'[Close] \in {"none", "ok"})]_vars
  BY <1>1
<1> QED BY <1>2, TypesHold, PTL DEF Spec, DisconnectSucceeds
-----------------------------------------------------------------------------
(* Receive Maximum.                                                        *)

(* QoS 1 publishes that the write loop has started and nobody settled.     *)
Outstanding == {r \in Publish1 : r \in started /\ result[r] = "none"}

(* QoS 1 publishes the broker was handed and has not answered.             *)
Unanswered == {r \in Publish1 : r \in handed \ answered}

(* The counter qos1_outstanding is exact and within the limit.             *)
CreditInv ==
    Alive => credit = Cardinality(Outstanding) /\ credit <= ReceiveMaximum

(* The broker never has more unanswered QoS 1 publishes than it allowed.   *)
WithinReceiveMaximum ==
    Alive => Cardinality(Unanswered) <= ReceiveMaximum

(* Sets of publishes are finite.                                           *)
LEMMA OutstandingFinite ==
    /\ IsFiniteSet(Publish1) /\ IsFiniteSet(Outstanding)
    /\ Outstanding \subseteq Publish1 /\ Publish1 \subseteq Requests
<1>1. Publish1 \subseteq Business
  BY ItemFacts
<1>2. IsFiniteSet(Publish1)
  BY <1>1, FS_Subset, RequestsAssumption
<1>3. Outstanding \subseteq Publish1
  BY DEF Outstanding
<1> QED BY <1>1, <1>2, <1>3, FS_Subset, ItemFacts

(* A step that starts and settles no QoS 1 publish.                        *)
LEMMA CreditFrame ==
    ASSUME CreditInv, UNCHANGED <<cause, credit, started>>,
           \A r \in Publish1 : r \in started =>
              (result'[r] = "none" <=> result[r] = "none")
    PROVE  CreditInv'
<1>1. Outstanding' = Outstanding
  BY DEF Outstanding
<1> QED BY <1>1 DEF CreditInv, Alive

(* A publish is started with credit only, and takes it.                    *)
LEMMA CreditTaken ==
    ASSUME IInv, CreditInv, Alive, WriterStarts PROVE CreditInv'
<1> DEFINE item == NextOutgoing.item
<1>0. /\ UNCHANGED <<cause, result>> /\ item # NoItem
      /\ started' = started \cup ({item} \cap Requests)
      /\ credit' = IF item \in Publish1 THEN credit + 1 ELSE credit
  BY DEF WriterStarts
<1>1. TypeOK
  BY DEF IInv
<1>2. CASE item \notin Publish1
  <2>1. Outstanding' = Outstanding /\ credit' = credit
    BY <1>0, <1>2 DEF Outstanding
  <2> QED BY <1>0, <2>1 DEF CreditInv, Alive
<1>3. CASE item \in Publish1
  <2>1. HasCredit
    <3>1. control \in Seq({Close, Ping, Puback}) /\ item \notin {Close, Ping, Puback}
      BY <1>1, <1>3, ItemFacts DEF TypeOK
    <3>2. control = <<>>
      <4>1. control # <<>> => item = Head(control)
        BY DEF NextOutgoing, Next1
      <4>2. control # <<>> => Head(control) \in {Close, Ping, Puback}
        BY <3>1
      <4> QED BY <3>1, <4>1, <4>2
    <3>3. CASE deferred # <<>> /\ MayWrite(Head(deferred))
      <4>1. item = Head(deferred)
        BY <3>2, <3>3 DEF NextOutgoing, Next1
      <4> QED BY <1>3, <3>3, <4>1 DEF MayWrite
    <3>4. CASE ~(deferred # <<>> /\ MayWrite(Head(deferred)))
               /\ \E n \in DOMAIN outgoing : Takeable(n)
      <4> DEFINE k == CHOOSE n \in DOMAIN outgoing : First(n)
      <4>1. k \in DOMAIN outgoing /\ First(k)
        BY <1>1, <3>4, TakesFirst
      <4>2. item = outgoing[k]
        BY <3>2, <3>4 DEF NextOutgoing, Next1
      <4> HIDE DEF k
      <4>3. Takeable(k) /\ outgoing[k] \in Publishes
        BY <1>3, <4>1, <4>2, ItemFacts DEF First
      <4> QED BY <1>3, <4>2, <4>3 DEF Takeable, MayWrite
    <3>5. CASE ~(deferred # <<>> /\ MayWrite(Head(deferred)))
               /\ ~\E n \in DOMAIN outgoing : Takeable(n)
      BY <1>0, <3>2, <3>5 DEF NextOutgoing, Next1
    <3> QED BY <3>3, <3>4, <3>5
  <2>2. item \notin started /\ result[item] = "none"
    <3>1. \E k \in 1..Len(Backlog) : item = Backlog[k]
      <4>1. control \in Seq({Close, Ping, Puback}) /\ item \notin {Close, Ping, Puback}
        BY <1>1, <1>3, ItemFacts DEF TypeOK
      <4>2. control # <<>> => item # Head(control)
        BY <4>1
      <4> QED BY <1>0, <1>1, <4>2, Selection
    <3>2. item \in Business /\ Waits(item)
      BY <1>3, <3>1, ItemFacts DEF Waits
    <3>3. turn[item] > 0 /\ item \notin started
      BY <3>2 DEF IInv, Kept, BacklogIsUnstarted
    <3>4. result[item] \in {"ok", "refused"} => item \in answered
      BY <1>3, ItemFacts DEF IInv, Kept, ResultsJustified
    <3> QED BY <3>2, <3>3, <3>4
            DEF IInv, Kept, AdmittedIsPending, WriteProgress
  <2> HIDE DEF item
  <2>3. Outstanding' = Outstanding \cup {item} /\ item \notin Outstanding
    BY <1>0, <1>3, <2>2, OutstandingFinite DEF Outstanding
  <2>4. Cardinality(Outstanding \cup {item}) = Cardinality(Outstanding) + 1
    BY <2>3, OutstandingFinite, FS_AddElement
  <2> QED BY <1>0, <1>3, <2>1, <2>3, <2>4, OutstandingFinite, FS_CardinalityType,
             RequestsAssumption DEF CreditInv, HasCredit, Alive
<1> QED BY <1>2, <1>3

(* The answer to a publish gives its credit back.                          *)
LEMMA CreditBack ==
    ASSUME IInv, CreditInv, NEW r \in Business, ReadsAck(r) PROVE CreditInv'
<1> DEFINE i == packetId[r]
<1>0. Alive /\ r \in handed \ answered /\ r \in Publish1 \cup Subscribe
  BY DEF ReadsAck
<1>1. r \in started /\ r \in Requests
  BY <1>0, ItemFacts DEF IInv, Kept, WriteProgress
<1>2. pending[i] = r /\ result[r] = "none"
  <2>1. pending[i] = r /\ i \in 0..MaxPacketId
    BY <1>0, <1>1, Consequences DEF AnswersFindRequest, IInv, TypeOK
  <2> QED BY <1>1, <2>1, ItemFacts DEF IInv, Kept, PendingConsistent
<1>3. /\ credit' = CreditReturned(r)
      /\ UNCHANGED <<cause, started>>
      /\ \E reply \in {"ok", "refused"} :
            result' = [result EXCEPT ![r] = IF @ = "none" THEN reply ELSE @]
  <2>1. r \in (IF r \in Publish1 THEN Publish1 ELSE Subscribe)
    BY <1>0
  <2> QED BY <1>1, <1>2, <2>1 DEF ReadsAck, Finish
<1>4. \A x \in Requests : result'[x] = "none" <=> x # r /\ result[x] = "none"
  BY <1>1, <1>2, <1>3 DEF IInv, TypeOK
<1>5. CASE r \notin Publish1
  BY <1>3, <1>4, <1>5, CreditFrame, OutstandingFinite DEF CreditReturned
<1>6. CASE r \in Publish1
  <2>1. Outstanding' = Outstanding \ {r} /\ r \in Outstanding
    BY <1>1, <1>2, <1>3, <1>4, <1>6, OutstandingFinite DEF Outstanding
  <2>2. /\ Cardinality(Outstanding \ {r}) = Cardinality(Outstanding) - 1
        /\ Cardinality(Outstanding) \in Nat /\ Cardinality(Outstanding \ {r}) \in Nat
    BY <2>1, OutstandingFinite, FS_RemoveElement, FS_CardinalityType
  <2> QED BY <1>0, <1>3, <1>6, <2>1, <2>2, RequestsAssumption
          DEF CreditInv, CreditReturned, Less, Alive
<1> QED BY <1>5, <1>6

(* The credit is kept by every step.                                       *)
LEMMA CreditStep == IInv /\ CreditInv /\ [Next]_vars => CreditInv'
<1> SUFFICES ASSUME IInv, CreditInv, [Next]_vars, Alive' PROVE CreditInv'
  BY DEF CreditInv
<1> USE DEF requestVars, queueVars
<1>0. Alive /\ (\A error \in Causes \ {"none"} : ~Abort(error)) /\ TypeOK
  BY Survives DEF IInv
<1>00. {"timeout", "cancelled", "rejected", "write", "lost", "overflow", "ping",
        "unexpected", "disconnected"} \subseteq Causes \ {"none"}
  BY DEF Causes
<1>1. ASSUME NEW r \in Business, RequestRefused(r) \/ RequestAdmitted(r)
      PROVE  CreditInv'
  <2>1. r \notin started
    BY <1>1, FreshRequest DEF RequestRefused, RequestAdmitted
  <2>2. /\ UNCHANGED <<cause, credit, started>>
        /\ \A x \in Requests : x # r => result'[x] = result[x]
    BY <1>0, <1>1 DEF RequestRefused, RequestAdmitted, Request, TypeOK
  <2> QED BY <2>1, <2>2, CreditFrame, OutstandingFinite
<1>2. CASE WriterStarts
  BY <1>0, <1>2, CreditTaken
<1>3. ASSUME NEW r \in Business, ReadsAck(r) PROVE CreditInv'
  BY <1>3, CreditBack
<1>4. CASE WriteOneReturns
  <2>1. \A x \in Publish1 : result'[x] = result[x]
    BY <1>0, <1>4, ItemFacts DEF WriteOneReturns, Finish, TypeOK
  <2> QED BY <1>4, <2>1, CreditFrame DEF WriteOneReturns
<1>5. CASE UNCHANGED <<cause, credit, started, result>>
  BY <1>5, CreditFrame
<1>6. \/ UNCHANGED <<cause, credit, started, result>> \/ WriterStarts
      \/ WriteOneReturns
      \/ \E r \in Business : RequestRefused(r) \/ RequestAdmitted(r) \/ ReadsAck(r)
  BY <1>0, <1>00 DEF Next, vars, WriteLoop, RequestTimesOut, RequestCancelled,
     Disconnect, DisconnectQueued, DisconnectReturns, WriterDefers,
     WriterHandsOver, WriterWrites, WriterFindsLate, WriteFails,
     WriterAborts, WriterExits, ReadsPong, ReadsPublish, ReaderEnds,
     HeartbeatPings, HeartbeatTimesOut, Control
<1> QED BY <1>1, <1>2, <1>3, <1>4, <1>5, <1>6

(* The credit is exact in every reachable state.                           *)
LEMMA CreditHolds == Spec => []CreditInv
<1>1. Init => CreditInv
  <2> SUFFICES ASSUME Init PROVE CreditInv
    OBVIOUS
  <2>1. Outstanding = {}
    BY DEF Init, Outstanding
  <2> QED BY <2>1, FS_EmptySet, RequestsAssumption DEF Init, CreditInv
<1> QED BY <1>1, CreditStep, Invariant, PTL DEF Spec

(* The credit of next_outgoing is what the broker granted: it never has    *)
(* more unanswered QoS 1 publishes than its Receive Maximum, whatever is   *)
(* deferred, taken back or answered before its write returns.              *)
THEOREM ReceiveMaximumKept == Spec => []WithinReceiveMaximum
<1>1. IInv /\ CreditInv => WithinReceiveMaximum
  <2> SUFFICES ASSUME IInv, CreditInv, Alive
               PROVE  Cardinality(Unanswered) <= ReceiveMaximum
    BY DEF WithinReceiveMaximum
  <2>1. ASSUME NEW r \in Publish1, r \in handed \ answered
        PROVE  r \in started /\ result[r] = "none"
    <3>1. r \in started /\ turn[r] > 0 /\ r \in Business /\ r \notin Publish0 \cup {Close}
          /\ r \in Requests
      BY <2>1, ItemFacts DEF IInv, Kept, WriteProgress
    <3> QED BY <2>1, <3>1 DEF IInv, Kept, AdmittedIsPending, ResultsJustified
  <2>2. Unanswered \subseteq Outstanding
    BY <2>1 DEF Unanswered, Outstanding
  <2>3. Cardinality(Unanswered) <= Cardinality(Outstanding)
    BY <2>2, OutstandingFinite, FS_Subset
  <2>4. Cardinality(Unanswered) \in Nat /\ Cardinality(Outstanding) \in Nat
    BY <2>2, OutstandingFinite, FS_Subset, FS_CardinalityType
  <2> QED BY <2>3, <2>4, RequestsAssumption DEF CreditInv
<1> QED BY <1>1, CreditHolds, Invariant, PTL
-----------------------------------------------------------------------------
(* Nobody is forgotten.                                                    *)

(* The write loop has nothing to take, no DISCONNECT is still to be        *)
(* queued, and the broker has answered all it was handed.                  *)
AtRest ==
    /\ Alive /\ Loop("idle") /\ closing # "putting"
    /\ outgoing = <<>> /\ NextOutgoing.item = NoItem
    /\ handed \cap (Publish1 \cup Subscribe) \subseteq answered

(* Nobody waits for what will not come: when nothing is left to be done,   *)
(* or the generation has ended, everyone who was admitted has a result.    *)
(* No request is forgotten in a queue, and no credit is lost.              *)
NobodyForgotten ==
    AtRest \/ ~Alive =>
        /\ \A r \in Business : turn[r] > 0 => result[r] # "none"
        /\ closing \in {"putting", "waiting"} => result[Close] # "none"

(* The DISCONNECT packet is in the control queue.                          *)
CloseQueued == \E n \in 1..Len(control) : control[n] = Close

(* What is answered or written has its result.                             *)
LiveWaits ==
    /\ \A r \in answered : result[r] # "none"
    /\ \A r \in Publish0 \cup {Close} :
          r \in started /\ result[r] = "none" => AtWork(r)

(* DISCONNECT is where its caller left it.                                 *)
CloseWaits ==
    closing \in {"putting", "waiting"} /\ result[Close] = "none"
    => /\ pending[0] = Close
       /\ closing = "waiting" => Close \in started \/ CloseQueued

(* Everyone was told.                                                      *)
NobodyWaits ==
    /\ \A r \in Business : turn[r] > 0 => result[r] # "none"
    /\ closing \in {"putting", "waiting"} => result[Close] # "none"

WaitInv == IF Alive THEN LiveWaits /\ CloseWaits ELSE NobodyWaits

(* The steps a generation survives, by what they do for those who wait.    *)
LEMMA LiveMoves ==
    ASSUME TypeOK, [Next]_vars, Alive'
    PROVE  \/ \E r \in Business :
                 RequestRefused(r) \/ RequestAdmitted(r) \/ ReadsAck(r)
           \/ Disconnect \/ DisconnectQueued
           \/ WriterStarts \/ WriterHandsOver \/ WriterWrites \/ WriteOneReturns
           \/ /\ UNCHANGED <<answered, result, started, writer, closing, pending>>
              /\ \/ UNCHANGED control
                 \/ \E c \in {Ping, Puback} : control' = Append(control, c)
<1> USE DEF requestVars, queueVars, peerVars
<1>0. Alive /\ \A error \in Causes \ {"none"} : ~Abort(error)
  BY Survives
<1>00. {"timeout", "cancelled", "rejected", "write", "lost", "overflow", "ping",
        "unexpected", "disconnected"} \subseteq Causes \ {"none"}
  BY DEF Causes
<1>1. CASE ReadsPublish \/ HeartbeatPings
  BY <1>0, <1>00, <1>1 DEF ReadsPublish, HeartbeatPings, Control
<1>2. CASE WriterDefers \/ ReadsPong \/ UNCHANGED vars
  BY <1>2 DEF WriterDefers, ReadsPong, vars
<1>3. CASE \/ ReaderEnds \/ HeartbeatTimesOut \/ WriterFindsLate \/ WriteFails
           \/ WriterExits \/ DisconnectReturns
           \/ \E r \in Requests : RequestTimesOut(r) \/ RequestCancelled(r)
  BY <1>0, <1>00, <1>3 DEF ReaderEnds, HeartbeatTimesOut, WriterFindsLate,
     WriteFails, WriterAborts, WriterExits, DisconnectReturns, RequestTimesOut,
     RequestCancelled
<1> QED BY <1>1, <1>2, <1>3 DEF Next, WriteLoop

(* The answer to a request is its result.                                  *)
LEMMA AckSettles ==
    ASSUME IInv, NEW r \in Business, ReadsAck(r)
    PROVE  /\ pending[packetId[r]] = r /\ packetId[r] \in PacketIds
           /\ pending' = [pending EXCEPT ![packetId[r]] = NoItem]
           /\ result'[r] # "none"
           /\ \A q \in Requests : q # r => result'[q] = result[q]
           /\ answered' = answered \cup {r}
           /\ UNCHANGED <<started, writer, closing, control>>
<1> DEFINE i == packetId[r]
<1>0. Alive /\ r \in handed \ answered /\ r \in Publish1 \cup Subscribe
  BY DEF ReadsAck
<1>1. r \in started /\ r \in Requests /\ TypeOK /\ r # Close
  BY <1>0, ItemFacts DEF IInv, Kept, WriteProgress
<1>2. pending[i] = r /\ i \in 0..MaxPacketId
  BY <1>0, <1>1, Consequences DEF AnswersFindRequest, TypeOK
<1>3. i # 0
  BY <1>1, <1>2, ItemFacts DEF IInv, Kept, PendingConsistent
<1>4. r \in (IF r \in Publish1 THEN Publish1 ELSE Subscribe)
  BY <1>0
<1>5. /\ pending' = [pending EXCEPT ![i] = NoItem]
      /\ \E reply \in {"ok", "refused"} :
            result' = [result EXCEPT ![r] = IF @ = "none" THEN reply ELSE @]
      /\ UNCHANGED <<started, writer, closing, control>>
  BY <1>1, <1>2, <1>4 DEF ReadsAck, Finish
<1>6. answered' = answered \cup {r}
  BY DEF ReadsAck
<1>7. /\ result'[r] # "none"
      /\ \A q \in Requests : q # r => result'[q] = result[q]
  BY <1>1, <1>5 DEF TypeOK
<1>8. i \in PacketIds
  BY <1>2, <1>3, NumberFacts DEF PacketIds
<1> QED BY <1>2, <1>5, <1>6, <1>7, <1>8

(* write_one goes on, and settles what needs no answer.                    *)
LEMMA ReturnSettles ==
    ASSUME IInv, WriteOneReturns
    PROVE  /\ Loop("wrote") /\ UNCHANGED <<answered, started, closing, control>>
           /\ writer.item \in Publish0 \cup {Close} => result'[writer.item] # "none"
           /\ \A q \in Requests : q # writer.item => result'[q] = result[q]
           /\ writer.item \notin Publish0 \cup {Close} => result' = result
           /\ writer.item # Close => pending'[0] = pending[0]
<1> DEFINE item == writer.item
<1> USE DEF queueVars, peerVars
<1>1. /\ Loop("wrote") /\ UNCHANGED <<answered, started, closing, control>> /\ Alive
      /\ IF item \in Publish0 \cup {Close} THEN Finish(packetId[item], item, "ok")
                                           ELSE UNCHANGED <<pending, result>>
  BY DEF WriteOneReturns
<1>2. TypeOK /\ (item \in Publish0 \cup {Close} => item \in Requests)
  BY ItemFacts DEF IInv
<1> HIDE DEF item
<1>3. /\ item \in Publish0 \cup {Close} => result'[item] # "none"
      /\ \A q \in Requests : q # item => result'[q] = result[q]
  BY <1>1, <1>2 DEF Finish, TypeOK
<1>4. ASSUME item # Close PROVE pending'[0] = pending[0]
  <2>1. CASE item \in Publish0
    <3>1. AtWork(item) /\ item \in Business /\ item \in Requests
      BY <1>1, <2>1, ItemFacts DEF AtWork, Loop, item
    <3>2. result[item] = "none" /\ turn[item] > 0
      BY <1>1, <2>1, <3>1 DEF IInv, Kept, QoS0Completes, WriteProgress
    <3>3. pending[packetId[item]] = item
      BY <1>1, <3>1, <3>2 DEF IInv, Kept, AdmittedIsPending
    <3>4. packetId[item] # 0
      BY <1>4, <3>1, <3>3, ItemFacts DEF IInv, Kept, PendingConsistent
    <3>5. pending' = [pending EXCEPT ![packetId[item]] = NoItem]
      BY <1>1, <2>1 DEF Finish
    <3>6. /\ pending \in [0..MaxPacketId -> Requests \cup {NoItem}]
          /\ 0 \in 0..MaxPacketId
      BY <1>2, NumberFacts DEF TypeOK
    <3> QED BY <3>4, <3>5, <3>6
  <2>2. CASE item \notin Publish0
    BY <1>1, <1>4, <2>2
  <2> QED BY <2>1, <2>2
<1>5. item \notin Publish0 \cup {Close} => result' = result
  BY <1>1
<1> USE DEF item
<1> HIDE DEF WriteOneReturns, Finish
<1> QED BY <1>1, <1>3, <1>4, <1>5

(* Those who were answered or written keep their results.                  *)
LEMMA LiveWaitsStep ==
    ASSUME IInv, [Next]_vars, Alive', LiveWaits PROVE LiveWaits'
<1> USE DEF queueVars, peerVars, requestVars
<1>0. TypeOK
  BY DEF IInv
<1>1. ASSUME NEW r \in Business, RequestRefused(r) PROVE LiveWaits'
  <2>1. r \notin started /\ r \in Requests
    BY <1>1, FreshRequest DEF RequestRefused
  <2>2. UNCHANGED <<answered, started, writer>>
    BY <1>1 DEF RequestRefused, Request
  <2>3. /\ result'[r] # "none"
        /\ \A q \in Requests : q # r => result'[q] = result[q]
    BY <1>0, <1>1, <2>1 DEF RequestRefused, TypeOK
  <2> QED BY <1>0, <2>1, <2>2, <2>3, ItemFacts DEF LiveWaits, AtWork, TypeOK
<1>2. ASSUME NEW r \in Business, ReadsAck(r) PROVE LiveWaits'
  <2>1. /\ result'[r] # "none" /\ answered' = answered \cup {r}
        /\ \A q \in Requests : q # r => result'[q] = result[q]
        /\ UNCHANGED <<started, writer>>
    BY <1>2, AckSettles
  <2> QED BY <1>0, <2>1, ItemFacts DEF LiveWaits, AtWork, TypeOK
<1>3. CASE WriterStarts
  <2>1. /\ Loop("idle") /\ UNCHANGED <<answered, result>>
        /\ \E item : /\ started' = started \cup ({item} \cap Requests)
                     /\ writer' = [at |-> "started", item |-> item]
    BY <1>3 DEF WriterStarts
  <2> QED BY <2>1 DEF LiveWaits, AtWork, Loop
<1>4. CASE WriterHandsOver \/ WriterWrites
  <2>1. /\ UNCHANGED <<answered, result, started>>
        /\ writer'.item = writer.item /\ writer'.at \in {"writing", "wrote"}
    BY <1>0, <1>4 DEF WriterHandsOver, WriterWrites, WriterAt, TypeOK
  <2> QED BY <2>1 DEF LiveWaits, AtWork
<1>5. CASE WriteOneReturns
  <2>1. /\ UNCHANGED <<answered, started>>
        /\ writer.item \in Publish0 \cup {Close} => result'[writer.item] # "none"
        /\ \A q \in Requests : q # writer.item => result'[q] = result[q]
        /\ writer.item \notin Publish0 \cup {Close} => result' = result
    BY <1>5, ReturnSettles
  <2> QED BY <1>0, <2>1, ItemFacts DEF LiveWaits, AtWork, TypeOK
<1>6. CASE UNCHANGED <<answered, result, started, writer>>
  BY <1>6 DEF LiveWaits, AtWork
<1>7. ASSUME NEW r \in Business, RequestAdmitted(r) PROVE LiveWaits'
  BY <1>6, <1>7 DEF RequestAdmitted, Request
<1>8. CASE Disconnect \/ DisconnectQueued
  BY <1>6, <1>8 DEF Disconnect, DisconnectQueued
<1> QED BY <1>0, <1>1, <1>2, <1>3, <1>4, <1>5, <1>6, <1>7, <1>8, LiveMoves

(* The DISCONNECT of a waiting caller stays pending, in its queue or       *)
(* started.                                                                *)
LEMMA CloseWaitsStep ==
    ASSUME IInv, [Next]_vars, Alive', CloseWaits PROVE CloseWaits'
<1> USE DEF queueVars, peerVars, requestVars
<1>0. /\ TypeOK /\ Alive
      /\ control \in Seq({Close, Ping, Puback})
      /\ pending \in [0..MaxPacketId -> Requests \cup {NoItem}]
      /\ 0 \in 0..MaxPacketId /\ 0 \notin PacketIds
  <2>1. TypeOK /\ Alive
    BY Survives DEF IInv
  <2>2. 0 \in 0..MaxPacketId /\ 0 \notin PacketIds
    BY NumberFacts
  <2> QED BY <2>1, <2>2 DEF TypeOK
<1>1. ASSUME NEW r \in Business, RequestRefused(r) \/ RequestAdmitted(r)
      PROVE  CloseWaits'
  <2>1. closing' = "no"
    BY <1>1 DEF RequestRefused, RequestAdmitted, Request
  <2> QED BY <2>1 DEF CloseWaits
<1>2. ASSUME NEW r \in Business, ReadsAck(r) PROVE CloseWaits'
  <2>1. /\ pending'[0] = pending[0] /\ result'[Close] = result[Close]
        /\ UNCHANGED <<started, closing, control>>
    <3>1. /\ packetId[r] \in PacketIds
          /\ pending' = [pending EXCEPT ![packetId[r]] = NoItem]
          /\ \A q \in Requests : q # r => result'[q] = result[q]
          /\ UNCHANGED <<started, closing, control>>
      BY <1>2, AckSettles
    <3>2. packetId[r] # 0 /\ Close \in Requests /\ Close # r
      BY <1>0, <3>1, ItemFacts
    <3> QED BY <1>0, <3>1, <3>2
  <2> QED BY <2>1 DEF CloseWaits, CloseQueued
<1>3. CASE Disconnect
  <2>1. closing' = "putting" /\ pending' = [pending EXCEPT ![0] = Close]
    BY <1>0, <1>3 DEF Disconnect
  <2>2. pending'[0] = Close
    BY <1>0, <2>1
  <2> QED BY <2>1, <2>2 DEF CloseWaits
<1>4. CASE DisconnectQueued
  <2>1. /\ closing = "putting" /\ control' = Append(control, Close)
        /\ UNCHANGED <<pending, result>>
    BY <1>4 DEF DisconnectQueued
  <2>2. CloseQueued'
    <3>1. /\ Len(control) + 1 \in 1..Len(control')
          /\ control'[Len(control) + 1] = Close
      BY <1>0, <2>1
    <3> QED BY <3>1 DEF CloseQueued
  <2> QED BY <2>1, <2>2 DEF CloseWaits
<1>5. CASE WriterStarts
  <2> DEFINE item == NextOutgoing.item
  <2>1. /\ started' = started \cup ({item} \cap Requests)
        /\ control' = NextOutgoing.control
        /\ UNCHANGED <<pending, result, closing>>
    BY <1>5 DEF WriterStarts
  <2>2. ASSUME CloseQueued PROVE Close \in started' \/ CloseQueued'
    <3>1. PICK n \in 1..Len(control) : control[n] = Close
      BY <2>2 DEF CloseQueued
    <3>2. control # <<>>
      BY <3>1
    <3>3. item = Head(control) /\ control' = Tail(control)
      BY <2>1, <3>2 DEF NextOutgoing, Next1
    <3>4. CASE n = 1
      <4>1. item = Close
        BY <1>0, <3>1, <3>3, <3>4
      <4> QED BY <2>1, <4>1, ItemFacts
    <3>5. CASE n # 1
      <4>1. n - 1 \in 1..Len(control') /\ control'[n - 1] = Close
        BY <1>0, <3>1, <3>3, <3>5
      <4> QED BY <4>1 DEF CloseQueued
    <3> QED BY <3>4, <3>5
  <2> HIDE DEF item
  <2> QED BY <2>1, <2>2 DEF CloseWaits
<1>6. CASE WriterHandsOver \/ WriterWrites
  BY <1>6 DEF WriterHandsOver, WriterWrites, CloseWaits, CloseQueued
<1>7. CASE WriteOneReturns
  <2>1. /\ UNCHANGED <<started, closing, control>>
        /\ writer.item = Close => result'[Close] # "none"
        /\ writer.item # Close => /\ pending'[0] = pending[0]
                                 /\ result'[Close] = result[Close]
    BY <1>7, ReturnSettles, ItemFacts
  <2> QED BY <2>1 DEF CloseWaits, CloseQueued
<1>8. ASSUME UNCHANGED <<result, started, closing, pending>>,
             \/ UNCHANGED control
             \/ \E c \in {Ping, Puback} : control' = Append(control, c)
      PROVE  CloseWaits'
  <2>1. CloseQueued => CloseQueued'
    <3>1. Len(control) <= Len(control') /\ Len(control) \in Nat
      BY <1>0, <1>8
    <3>2. \A n \in 1..Len(control) : control'[n] = control[n]
      BY <1>0, <1>8
    <3>3. Len(control') \in Nat
      BY <1>0, <1>8
    <3> QED BY <3>1, <3>2, <3>3 DEF CloseQueued
  <2> QED BY <1>8, <2>1 DEF CloseWaits
<1> QED BY <1>0, <1>1, <1>2, <1>3, <1>4, <1>5, <1>6, <1>7, <1>8, LiveMoves

(* A step that ends the generation settles who is pending.                 *)
LEMMA EndMoves ==
    ASSUME [Next]_vars, ~Alive'
    PROVE  /\ UNCHANGED turn
           /\ UNCHANGED closing \/ closing' = "done"
           /\ UNCHANGED result \/ \E error \in Causes \ {"none"} : Abort(error)
           /\ Alive => \E error \in Causes \ {"none"} : Abort(error)
<1> USE DEF requestVars, queueVars, peerVars, wireVars, admitVars, Alive
<1>00. {"timeout", "cancelled", "rejected", "write", "lost", "overflow", "ping",
        "unexpected", "disconnected"} \subseteq Causes \ {"none"}
  BY DEF Causes
<1>1. ASSUME NEW r \in Business, RequestRefused(r) \/ RequestAdmitted(r)
      PROVE  FALSE
  BY <1>1 DEF RequestRefused, RequestAdmitted, Request
<1>2. CASE \/ WriterDefers \/ WriterStarts \/ WriteOneReturns \/ ReadsPong
           \/ DisconnectQueued
  BY <1>2 DEF WriterDefers, WriterStarts, WriteOneReturns, ReadsPong,
              DisconnectQueued
<1>3. CASE \/ WriterHandsOver \/ WriterWrites \/ WriterExits
           \/ Disconnect \/ UNCHANGED vars
  BY <1>3 DEF WriterHandsOver, WriterWrites, WriterExits, Disconnect, vars
<1>4. CASE \/ ReaderEnds \/ HeartbeatTimesOut \/ WriterFindsLate \/ WriteFails
           \/ DisconnectReturns
           \/ \E r \in Requests : RequestTimesOut(r) \/ RequestCancelled(r)
  BY <1>00, <1>4 DEF ReaderEnds, HeartbeatTimesOut, WriterFindsLate, WriteFails,
     WriterAborts, DisconnectReturns, RequestTimesOut, RequestCancelled
<1>5. CASE ReadsPublish \/ HeartbeatPings
  BY <1>00, <1>5 DEF ReadsPublish, HeartbeatPings, Control
<1>6. ASSUME NEW r \in Business, ReadsAck(r)
      PROVE  /\ UNCHANGED <<turn, closing>>
             /\ \E error \in Causes \ {"none"} : Abort(error)
  BY <1>00, <1>6 DEF ReadsAck
<1> QED BY <1>1, <1>2, <1>3, <1>4, <1>5, <1>6 DEF Next, WriteLoop

(* Once the generation is over, everyone was told and nobody is untold.    *)
LEMMA NobodyWaitsStep ==
    ASSUME IInv, WaitInv, [Next]_vars, ~Alive' PROVE NobodyWaits'
<1>0. TypeOK /\ Close \in Requests /\ Business \subseteq Requests
  BY ItemFacts DEF IInv
<1>1. /\ UNCHANGED turn
      /\ UNCHANGED closing \/ closing' = "done"
  BY EndMoves
<1>2. ASSUME NEW error, Abort(error), NEW r \in Requests,
             result[r] # "none" \/ r \in Pending
      PROVE  result'[r] # "none"
  BY <1>2 DEF Abort, Outcome
<1>3. CASE ~Alive
  <2>1. \A r \in Requests : result[r] # "none" => result'[r] # "none"
    BY <1>2, EndMoves
  <2> QED BY <1>0, <1>1, <1>3, <2>1 DEF WaitInv, NobodyWaits
<1>4. CASE Alive
  <2>1. \A r \in Requests : result[r] # "none" \/ r \in Pending
                           => result'[r] # "none"
    BY <1>2, <1>4, EndMoves
  <2>2. ASSUME NEW r \in Business, turn[r] > 0
        PROVE  result[r] # "none" \/ r \in Pending
    <3>1. result[r] = "none" => pending[packetId[r]] = r
      BY <1>4, <2>2 DEF IInv, Kept, AdmittedIsPending
    <3>2. packetId[r] \in 0..MaxPacketId /\ r # NoItem
      BY <1>0, ItemFacts DEF TypeOK
    <3> QED BY <1>0, <3>1, <3>2, PendingAreRequests
  <2>3. ASSUME closing \in {"putting", "waiting"}
        PROVE  result[Close] # "none" \/ Close \in Pending
    <3>1. result[Close] = "none" => pending[0] = Close
      BY <1>4, <2>3 DEF WaitInv, CloseWaits
    <3>2. 0 \in 0..MaxPacketId /\ Close # NoItem
      BY ItemFacts, NumberFacts
    <3> QED BY <1>0, <3>1, <3>2, PendingAreRequests
  <2> QED BY <1>0, <1>1, <2>1, <2>2, <2>3 DEF NobodyWaits
<1> QED BY <1>3, <1>4

(* No step forgets anybody.                                                *)
LEMMA WaitStep == IInv /\ WaitInv /\ [Next]_vars => WaitInv'
<1> SUFFICES ASSUME IInv, WaitInv, [Next]_vars PROVE WaitInv'
  OBVIOUS
<1>1. CASE Alive'
  <2>1. LiveWaits /\ CloseWaits
    BY <1>1, Survives DEF WaitInv
  <2> QED BY <1>1, <2>1, LiveWaitsStep, CloseWaitsStep DEF WaitInv
<1>2. CASE ~Alive'
  BY <1>2, NobodyWaitsStep DEF WaitInv
<1> QED BY <1>1, <1>2

(* At rest whoever the write loop has started has its result: what needs   *)
(* no answer is written, the rest was handed over and answered.            *)
LEMMA RestSettles ==
    ASSUME IInv, WaitInv, AtRest
    PROVE  \A r \in started : result[r] # "none"
<1>0. Alive /\ Loop("idle") /\ LiveWaits
  BY DEF AtRest, WaitInv
<1>1. \A r : ~AtWork(r)
  BY <1>0 DEF AtWork, Loop
<1>2. ASSUME NEW r \in started PROVE result[r] # "none"
  <2>0. r \in Requests
    BY <1>2 DEF IInv, TypeOK
  <2>1. CASE r \in Publish0 \cup {Close}
    BY <1>0, <1>1, <1>2, <2>1 DEF LiveWaits
  <2>2. CASE r \in Publish1 \cup Subscribe
    <3>1. r \in handed
      BY <1>0, <1>1, <1>2, <2>0 DEF IInv, Kept, WriteProgress
    <3>2. r \in answered
      BY <2>2, <3>1 DEF AtRest
    <3> QED BY <1>0, <3>2 DEF LiveWaits
  <2> QED BY <2>0, <2>1, <2>2 DEF Requests, Business, Publishes
<1> QED BY <1>2

(* At rest nothing is deferred: a publish waits only while all credit is   *)
(* taken, and the publishes that took it were answered.                    *)
LEMMA RestHasCredit ==
    ASSUME IInv, CreditInv, WaitInv, AtRest
    PROVE  deferred = <<>> /\ control = <<>>
<1>0. /\ Alive /\ TypeOK /\ NextOutgoing.item = NoItem
      /\ deferred \in Seq(Publishes)
      /\ control \in Seq({Close, Ping, Puback})
  BY DEF AtRest, IInv, TypeOK
<1>1. control = <<>>
  <2> SUFFICES ASSUME control # <<>> PROVE FALSE
    OBVIOUS
  <2>1. NextOutgoing.item = Head(control)
    BY DEF NextOutgoing, Next1
  <2>2. Head(control) \in {Close, Ping, Puback}
    BY <1>0
  <2> QED BY <1>0, <2>1, <2>2, ItemFacts
<1>2. deferred = <<>>
  <2> SUFFICES ASSUME deferred # <<>> PROVE FALSE
    OBVIOUS
  <2>1. ~MayWrite(Head(deferred))
    <3> SUFFICES ASSUME MayWrite(Head(deferred)) PROVE FALSE
      OBVIOUS
    <3>1. NextOutgoing.item = Head(deferred)
      BY <1>1 DEF NextOutgoing, Next1
    <3>2. Head(deferred) \in Publishes
      BY <1>0
    <3> QED BY <1>0, <3>1, <3>2, ItemFacts
  <2>2. Outstanding = {}
    BY RestSettles DEF Outstanding
  <2>3. credit = 0
    BY <1>0, <2>2, FS_EmptySet DEF CreditInv
  <2> QED BY <2>1, <2>3, RequestsAssumption DEF MayWrite, HasCredit
<1> QED BY <1>1, <1>2

(* The invariant leaves nobody behind at rest or after the end.            *)
LEMMA RestTells ==
    ASSUME IInv, CreditInv, WaitInv PROVE NobodyForgotten
<1>1. CASE ~Alive
  BY <1>1 DEF WaitInv, NobodyWaits, NobodyForgotten, AtRest
<1>2. CASE AtRest
  <2>0. Alive /\ outgoing = <<>> /\ closing # "putting" /\ CloseWaits
    BY <1>2 DEF AtRest, WaitInv
  <2>1. deferred = <<>> /\ control = <<>>
    BY <1>2, RestHasCredit
  <2>2. \A r \in started : result[r] # "none"
    BY <1>2, RestSettles
  <2>3. ASSUME NEW r \in Business, turn[r] > 0 PROVE result[r] # "none"
    <3>1. ~Waits(r)
      BY <2>0, <2>1 DEF Waits, Backlog
    <3>2. r \in started
      BY <2>0, <2>3, <3>1 DEF IInv, Kept, BacklogIsUnstarted
    <3> QED BY <2>2, <3>2
  <2>4. ASSUME closing \in {"putting", "waiting"} PROVE result[Close] # "none"
    <3>1. ~CloseQueued
      BY <2>1 DEF CloseQueued
    <3> QED BY <2>0, <2>2, <2>4, <3>1 DEF CloseWaits
  <2> QED BY <2>3, <2>4 DEF NobodyForgotten
<1>3. CASE ~AtRest /\ Alive
  BY <1>3 DEF NobodyForgotten
<1> QED BY <1>1, <1>2, <1>3

(* Nobody waits for what will not come: when the write loop has nothing to *)
(* take and the broker has answered what it was handed, or when the        *)
(* generation has ended, every admitted request and disconnect() have      *)
(* their results.  next_outgoing loses no request and no credit, finish    *)
(* and abort_with leave nobody out.                                        *)
THEOREM NobodyIsForgotten == Spec => []NobodyForgotten
<1>1. Init => WaitInv
  BY ItemFacts DEF Init, WaitInv, LiveWaits, CloseWaits, Alive
<1> QED BY <1>1, WaitStep, RestTells, Invariant, CreditHolds, PTL DEF Spec
=============================================================================
