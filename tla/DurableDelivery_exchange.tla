----------------------- MODULE DurableDelivery_exchange -----------------------
(***************************************************************************)
(* Proofs about who owns a delivery of DurableDelivery while it is on its  *)
(* way, and what follows, for every value of the constants:                *)
(*                                                                         *)
(*   - ExchangeInvariant: a delivery of a live generation is at any moment *)
(*     with its caller, in the queue, with the writer, on the wire or with *)
(*     the reader, in one of these places and in one copy, and the row it  *)
(*     came from is there; identifiers on the wire and in the table are    *)
(*     unique although they are reused at once;                            *)
(*   - EvidenceHolds, CompletionHolds, OutlivesHolds, SlotsHold: what the  *)
(*     owner may conclude from it;                                         *)
(*   - ContractIsKept: every step is a step of DeliveryContract, or none;  *)
(*   - TableInvariant, BookMatches: the book of the client and its table   *)
(*     are at most one statement apart;                                    *)
(*   - StopLeavesNothingOpen: what a stopped client leaves behind;         *)
(*   - StorageErrorHolds: what a storage error is never caused by;         *)
(*   - TurnInvariant, ReplayOrderHolds: retransmissions leave in the order *)
(*     in which their deliveries were admitted.                            *)
(*                                                                         *)
(* Most lemmas come in two kinds: ...Changes says for one part of the      *)
(* state which actions change it, by cases over Next, and ...Step uses it  *)
(* to prove that a part of the invariant is preserved.                     *)
(***************************************************************************)
EXTENDS DurableDelivery_proofs

-----------------------------------------------------------------------------
(* Where the supervisor runs no generation.                                *)
Resting == {"down", "dial", "block", "settle", "stopped"}

(* Between generations there is no live session, and a dead one holds      *)
(* nothing.                                                                *)
SessionPlaces ==
    /\ sup \in Resting \cup {"ending"} => ~alive
    /\ ~alive => attached = {} /\ outq = <<>> /\ callers = {}
    /\ sup \in {"refuse", "marking"} => attached = {}

(* Between generations the tasks of the last one have ended.               *)
TaskPlaces ==
    sup \in Resting =>
        writer.pc = "idle" /\ reader.pc = "idle" /\ watcher.pc = "idle"

(* Which statements each kind of transition issues.                        *)
StatementShapes ==
    /\ tx.op = "ack" <=> tx.stmt = "delete"
    /\ tx.op = "write" => tx.stmt \in {"mark", "check", "expire", "quarantine"}
    /\ tx.op = "watch" => tx.stmt = "expire"
    /\ tx.op = "replay" => tx.stmt \in {"attach", "expire", "quarantine"}
    /\ tx.op = "block" => tx.stmt = "quarantine"

(* Where the supervisor is while a transition of its own holds the gate,   *)
(* and under which generation an admission runs.                           *)
HolderPlaces ==
    /\ tx.op = "block" => sup \in {"block", "refuse"}
    /\ tx.op = "replay" => sup = "replay" /\ todo # <<>> /\ tx.d = Head(todo)
    /\ tx.op = "admit" => /\ tx.gen <= gen
                          /\ alive /\ tx.gen = gen => sup = "ready"

PlaceInv == SessionPlaces /\ TaskPlaces /\ StatementShapes /\ HolderPlaces

(* The fields of the gate after one of them was assigned.                  *)
LEMMA Fields ==
    ASSUME TypeInv
    PROVE  /\ tx.op = "none" => tx = NoTx
           /\ NoTx.op = "none" /\ NoTx.stmt = "none" /\ NoTx.res = "none"
           /\ \A r : tx # NoTx =>
                  /\ [tx EXCEPT !.res = r].op = tx.op
                  /\ [tx EXCEPT !.res = r].d = tx.d
                  /\ [tx EXCEPT !.res = r].gen = tx.gen
                  /\ [tx EXCEPT !.res = r].stmt = tx.stmt
                  /\ [tx EXCEPT !.res = r].res = r
           /\ \A s, r : tx # NoTx =>
                  /\ [tx EXCEPT !.stmt = s, !.res = r].op = tx.op
                  /\ [tx EXCEPT !.stmt = s, !.res = r].d = tx.d
                  /\ [tx EXCEPT !.stmt = s, !.res = r].gen = tx.gen
                  /\ [tx EXCEPT !.stmt = s, !.res = r].stmt = s
                  /\ [tx EXCEPT !.stmt = s, !.res = r].res = r
<1>1. tx \in Transition
  BY DEF TypeInv, TypeOK
<1>2. tx # NoTx => tx.op # "none"
  BY HolderType
<1>3. tx # NoTx =>
         \/ tx \in [op : {"admit"}, d : Deliveries, gen : Nat,
                   stmt : {"insert", "attach"}, res : Result]
         \/ tx \in [op : {"write", "ack", "watch", "replay", "block"},
                   d : Deliveries, gen : Nat, stmt : Statement \ {"insert"},
                   res : Result]
  BY <1>1 DEF Transition
<1>4. \A r : tx # NoTx =>
                  /\ [tx EXCEPT !.res = r].op = tx.op
                  /\ [tx EXCEPT !.res = r].d = tx.d
                  /\ [tx EXCEPT !.res = r].gen = tx.gen
                  /\ [tx EXCEPT !.res = r].stmt = tx.stmt
                  /\ [tx EXCEPT !.res = r].res = r
  BY <1>3
<1>5. \A s, r : tx # NoTx =>
                  /\ [tx EXCEPT !.stmt = s, !.res = r].op = tx.op
                  /\ [tx EXCEPT !.stmt = s, !.res = r].d = tx.d
                  /\ [tx EXCEPT !.stmt = s, !.res = r].gen = tx.gen
                  /\ [tx EXCEPT !.stmt = s, !.res = r].stmt = s
                  /\ [tx EXCEPT !.stmt = s, !.res = r].res = r
  BY <1>3
<1>6. NoTx.op = "none" /\ NoTx.stmt = "none" /\ NoTx.res = "none"
  BY DEF NoTx
<1> QED BY <1>2, <1>4, <1>5, <1>6

(* The fields of a task after its program counter was assigned.            *)
LEMMA TaskFields ==
    ASSUME TypeInv
    PROVE  /\ IdleTask.pc = "idle"
           /\ \A t \in {writer, reader, watcher} : \A pc :
                  /\ [t EXCEPT !.pc = pc].pc = pc
                  /\ [t EXCEPT !.pc = pc].d = t.d
                  /\ [t EXCEPT !.pc = pc].flag = t.flag
BY TaskUpdates DEF TypeInv, TypeOK, TaskTypeOK

(* The places are preserved by every step.                                 *)
LEMMA PlaceStep == TypeInv /\ PlaceInv /\ [Next]_vars => PlaceInv'
<1> SUFFICES ASSUME TypeInv, PlaceInv, [Next]_vars PROVE PlaceInv'
  OBVIOUS
<1>a. gen \in Nat /\ (tx.op = "admit" => tx.gen \in Nat)
  BY HolderType, NoTxFacts DEF TypeInv, TypeOK, SessTypeOK
<1>b. HolderOK
  BY DEF TypeInv
<1>c. tx.op = "admit" => tx.stmt \in {"insert", "attach"}
  BY HolderType, NoTxFacts
<1> USE DEF PlaceInv, SessionPlaces, TaskPlaces, StatementShapes,
   HolderPlaces, Resting,
        dbVars, bookVars, sessVars, taskVars, supVars, netVars, envVars,
        histVars, vars
<1>1. CASE StoreCommits
  <2>1. tx # NoTx /\ \E r : tx' = [tx EXCEPT !.res = r]
    BY <1>1, Fields DEF StoreCommits
  <2>2. /\ tx'.op = tx.op /\ tx'.d = tx.d /\ tx'.gen = tx.gen /\ tx'.stmt = tx.stmt
    BY <2>1, Fields
  <2>3. UNCHANGED <<sessVars, taskVars, supVars>>
    BY <1>1 DEF StoreCommits
  <2> QED BY <2>2, <2>3
<1>2. CASE StoreFaults
  BY <1>2, <1>a, <1>b, <1>c, Fields, TaskFields
  DEF StoreFaults, Abort, AbortWith, Begin, Release, Done, Failed, HolderOK
<1>3. CASE \E d \in Deliveries : SubmitBegins(d)
  BY <1>3, <1>a, <1>b, <1>c, Fields, TaskFields
  DEF SubmitBegins, Abort, AbortWith, Begin, Release, Done, Failed, HolderOK,
     Ready
<1>4. CASE \E d \in Deliveries : CallerEnqueues(d)
  BY <1>4, <1>a, <1>b, <1>c, Fields, TaskFields
  DEF CallerEnqueues, Abort, AbortWith, Begin, Release, Done, Failed, HolderOK
<1>5. CASE \E d \in Deliveries : CallerCancelled(d)
  BY <1>5, <1>a, <1>b, <1>c, Fields, TaskFields
  DEF CallerCancelled, Abort, AbortWith, Begin, Release, Done, Failed, HolderOK
<1>6. CASE AdmissionCommitted
  <2>1. tx.op = "admit" /\ UNCHANGED <<gen, alive, attached, outq, callers, taskVars, supVars>>
    BY <1>6 DEF AdmissionCommitted, Done
  <2>2. CASE tx' = NoTx
    BY <2>1, <2>2, Fields
  <2>3. CASE tx' = [tx EXCEPT !.stmt = "attach", !.res = "wait"]
    <3>1. tx'.op = "admit" /\ tx'.stmt = "attach" /\ tx'.gen = tx.gen
      BY <2>1, <2>3, Fields
    <3> QED BY <2>1, <3>1
  <2> QED BY <1>6, <2>2, <2>3 DEF AdmissionCommitted, Release
<1>7. CASE AdmissionAttached
  BY <1>7, <1>a, <1>b, <1>c, Fields, TaskFields
  DEF AdmissionAttached, Abort, AbortWith, Begin, Release, Done, Failed,
     HolderOK
<1>8. CASE AdmissionFailed
  BY <1>8, <1>a, <1>b, <1>c, Fields, TaskFields
  DEF AdmissionFailed, Abort, AbortWith, Begin, Release, Done, Failed, HolderOK
<1>9. CASE WriterTakes
  BY <1>9, <1>a, <1>b, <1>c, Fields, TaskFields
  DEF WriterTakes, Abort, AbortWith, Begin, Release, Done, Failed, HolderOK
<1>10. CASE WriterEnters
  BY <1>10, <1>a, <1>b, <1>c, Fields, TaskFields
  DEF WriterEnters, Abort, AbortWith, Begin, Release, Done, Failed, HolderOK,
     WriteStatement
<1>11. CASE WriterMayWrite
  BY <1>11, <1>a, <1>b, <1>c, Fields, TaskFields
  DEF WriterMayWrite, Abort, AbortWith, Begin, Release, Done, Failed, HolderOK
<1>12. CASE WriterEntersLate
  BY <1>12, <1>a, <1>b, <1>c, Fields, TaskFields
  DEF WriterEntersLate, Abort, AbortWith, Begin, Release, Done, Failed,
     HolderOK
<1>13. CASE WriterExpired
  BY <1>13, <1>a, <1>b, <1>c, Fields, TaskFields
  DEF WriterExpired, Abort, AbortWith, Begin, Release, Done, Failed, HolderOK
<1>14. CASE WriterFailed
  BY <1>14, <1>a, <1>b, <1>c, Fields, TaskFields
  DEF WriterFailed, Abort, AbortWith, Begin, Release, Done, Failed, HolderOK
<1>15. CASE WriteReturns
  BY <1>15, <1>a, <1>b, <1>c, Fields, TaskFields
  DEF WriteReturns, Abort, AbortWith, Begin, Release, Done, Failed, HolderOK
<1>16. CASE ReaderSeesAck
  BY <1>16, <1>a, <1>b, <1>c, Fields, TaskFields
  DEF ReaderSeesAck, Abort, AbortWith, Begin, Release, Done, Failed, HolderOK
<1>17. CASE ReaderEnters
  BY <1>17, <1>a, <1>b, <1>c, Fields, TaskFields
  DEF ReaderEnters, Abort, AbortWith, Begin, Release, Done, Failed, HolderOK
<1>18. CASE ReaderAcknowledged
  BY <1>18, <1>a, <1>b, <1>c, Fields, TaskFields
  DEF ReaderAcknowledged, Abort, AbortWith, Begin, Release, Done, Failed,
     HolderOK
<1>19. CASE ReaderFailed
  BY <1>19, <1>a, <1>b, <1>c, Fields, TaskFields
  DEF ReaderFailed, Abort, AbortWith, Begin, Release, Done, Failed, HolderOK
<1>20. CASE \E d \in Deliveries : DeliveryTimesOut(d)
  BY <1>20, <1>a, <1>b, <1>c, Fields, TaskFields
  DEF DeliveryTimesOut, Abort, AbortWith, Begin, Release, Done, Failed,
     HolderOK
<1>21. CASE \E d \in Deliveries : WatcherSees(d)
  BY <1>21, <1>a, <1>b, <1>c, Fields, TaskFields
  DEF WatcherSees, Abort, AbortWith, Begin, Release, Done, Failed, HolderOK
<1>22. CASE WatcherEnters
  BY <1>22, <1>a, <1>b, <1>c, Fields, TaskFields
  DEF WatcherEnters, Abort, AbortWith, Begin, Release, Done, Failed, HolderOK
<1>23. CASE WatcherExpired
  BY <1>23, <1>a, <1>b, <1>c, Fields, TaskFields
  DEF WatcherExpired, Abort, AbortWith, Begin, Release, Done, Failed, HolderOK
<1>24. CASE WatcherFailed
  BY <1>24, <1>a, <1>b, <1>c, Fields, TaskFields
  DEF WatcherFailed, Abort, AbortWith, Begin, Release, Done, Failed, HolderOK
<1>25. CASE DialSucceeds
  BY <1>25, <1>a, <1>b, <1>c, Fields, TaskFields
  DEF DialSucceeds, Abort, AbortWith, Begin, Release, Done, Failed, HolderOK
<1>26. CASE DialFails
  BY <1>26, <1>a, <1>b, <1>c, Fields, TaskFields
  DEF DialFails, Abort, AbortWith, Begin, Release, Done, Failed, HolderOK
<1>27. CASE SessionMarkedKnown
  BY <1>27, <1>a, <1>b, <1>c, Fields, TaskFields
  DEF SessionMarkedKnown, Abort, AbortWith, Begin, Release, Done, Failed,
     HolderOK
<1>28. CASE ReplaySkips
  BY <1>28, <1>a, <1>b, <1>c, Fields, TaskFields
  DEF ReplaySkips, Abort, AbortWith, Begin, Release, Done, Failed, HolderOK
<1>29. CASE ReplayExhausted
  BY <1>29, <1>a, <1>b, <1>c, Fields, TaskFields
  DEF ReplayExhausted, Abort, AbortWith, Begin, Release, Done, Failed, HolderOK
<1>30. CASE ReplayEnters
  BY <1>30, <1>a, <1>b, <1>c, Fields, TaskFields
  DEF ReplayEnters, Abort, AbortWith, Begin, Release, Done, Failed, HolderOK,
     ReplayStatement
<1>31. CASE ReplayAttached
  BY <1>31, <1>a, <1>b, <1>c, Fields, TaskFields
  DEF ReplayAttached, Abort, AbortWith, Begin, Release, Done, Failed, HolderOK
<1>32. CASE ReplayExpired
  BY <1>32, <1>a, <1>b, <1>c, Fields, TaskFields
  DEF ReplayExpired, Abort, AbortWith, Begin, Release, Done, Failed, HolderOK
<1>33. CASE ReplayFailed
  BY <1>33, <1>a, <1>b, <1>c, Fields, TaskFields
  DEF ReplayFailed, Abort, AbortWith, Begin, Release, Done, Failed, HolderOK
<1>34. CASE ReplayDone
  BY <1>34, <1>a, <1>b, <1>c, Fields, TaskFields
  DEF ReplayDone, Abort, AbortWith, Begin, Release, Done, Failed, HolderOK,
     Ready
<1>35. CASE ReplayRefused
  BY <1>35, <1>a, <1>b, <1>c, Fields, TaskFields
  DEF ReplayRefused, Abort, AbortWith, Begin, Release, Done, Failed, HolderOK
<1>36. CASE GenerationEnds
  BY <1>36, <1>a, <1>b, <1>c, Fields, TaskFields
  DEF GenerationEnds, Abort, AbortWith, Begin, Release, Done, Failed,
     HolderOK, AfterGeneration
<1>37. CASE BlockBegins
  BY <1>37, <1>a, <1>b, <1>c, Fields, TaskFields
  DEF BlockBegins, Abort, AbortWith, Begin, Release, Done, Failed, HolderOK,
     BlockNext, BlockEnds
<1>38. CASE BlockContinues
  BY <1>38, <1>a, <1>b, <1>c, Fields, TaskFields
  DEF BlockContinues, Abort, AbortWith, Begin, Release, Done, Failed,
     HolderOK, BlockNext, BlockEnds
<1>39. CASE BlockFailed
  BY <1>39, <1>a, <1>b, <1>c, Fields, TaskFields
  DEF BlockFailed, Abort, AbortWith, Begin, Release, Done, Failed, HolderOK,
     BlockEnds
<1>40. CASE Settle
  BY <1>40, <1>a, <1>b, <1>c, Fields, TaskFields
  DEF Settle, Abort, AbortWith, Begin, Release, Done, Failed, HolderOK
<1>41. CASE SessionMarkFailed
  BY <1>41, <1>a, <1>b, <1>c, Fields, TaskFields
  DEF SessionMarkFailed, Abort, AbortWith, Begin, Release, Done, Failed, HolderOK
<1>42. CASE ConnectionLost
  BY <1>42, <1>a, <1>b, <1>c, Fields, TaskFields
  DEF ConnectionLost, Abort, AbortWith, Begin, Release, Done, Failed, HolderOK
<1>43. CASE BrokerAnswers
  BY <1>43, <1>a, <1>b, <1>c, Fields, TaskFields
  DEF BrokerAnswers, Abort, AbortWith, Begin, Release, Done, Failed, HolderOK
<1>44. CASE BrokerForgets
  BY <1>44, <1>a, <1>b, <1>c, Fields, TaskFields
  DEF BrokerForgets, Abort, AbortWith, Begin, Release, Done, Failed, HolderOK
<1>45. CASE \E d \in Deliveries : DeadlinePasses(d)
  BY <1>45, <1>a, <1>b, <1>c, Fields, TaskFields
  DEF DeadlinePasses, Abort, AbortWith, Begin, Release, Done, Failed, HolderOK
<1>46. CASE \E d \in Deliveries : MessageDeadlinePasses(d)
  BY <1>46, <1>a, <1>b, <1>c, Fields, TaskFields
  DEF MessageDeadlinePasses, Abort, AbortWith, Begin, Release, Done, Failed,
     HolderOK
<1>47. CASE ApplicationStops
  BY <1>47, <1>a, <1>b, <1>c, Fields, TaskFields
  DEF ApplicationStops, Abort, AbortWith, Begin, Release, Done, Failed,
     HolderOK
<1>48. CASE StopCloses
  <2>1. /\ gen' = gen /\ ~alive' /\ attached' = {} /\ outq' = <<>>
        /\ callers' = {}
        /\ UNCHANGED <<tx, todo, taskVars>>
    BY <1>48 DEF StopCloses, Abort, AbortWith
  <2>2. sup' = IF tx.op \in {"replay", "block"} \/ sup = "settle" THEN sup
                                                              ELSE "ending"
    BY <1>48 DEF StopCloses, WorkerCancelled
  <2> QED BY <2>1, <2>2
<1>49. CASE ProcessEnds
  BY <1>49, <1>a, <1>b, <1>c, Fields, TaskFields
  DEF ProcessEnds, Abort, AbortWith, Begin, Release, Done, Failed, HolderOK,
     Volatile
<1>50. CASE ProcessOpens
  BY <1>50, <1>a, <1>b, <1>c, Fields, TaskFields
  DEF ProcessOpens, Abort, AbortWith, Begin, Release, Done, Failed, HolderOK
<1>u. CASE UNCHANGED vars
  BY <1>u
<1> QED BY <1>1, <1>2, <1>3, <1>4, <1>5, <1>6, <1>7, <1>8, <1>9, <1>10,
   <1>11, <1>12, <1>13, <1>14, <1>15, <1>16, <1>17, <1>18, <1>19, <1>20,
   <1>21, <1>22, <1>23, <1>24, <1>25, <1>26, <1>27, <1>28, <1>29, <1>30,
   <1>31, <1>32, <1>33, <1>34, <1>35, <1>36, <1>37, <1>38, <1>39, <1>40,
   <1>41, <1>42, <1>43, <1>44, <1>45, <1>46, <1>47, <1>48, <1>49, <1>50, <1>u
   DEF Next, Submitter, Writer, Reader, Watchdog, Supervisor, Replay,
   Environment
-----------------------------------------------------------------------------
(* The exchange of a live generation.                                      *)
Distinct(s) == \A i, j \in DOMAIN s : s[i] = s[j] => i = j

(* The book holds each delivery once, and what a replay has still to do is *)
(* not attached yet; neither is the delivery of an admission.              *)
BookPlaces ==
    /\ Distinct(order)
    /\ sup = "replay" => Distinct(todo) /\ Members(todo) \cap attached = {}
    /\ tx.op = "admit" => tx.d \notin attached

(* An attached delivery belongs to this generation and is open.            *)
AttachedOwned ==
    \A d \in attached : /\ mem[d].gen = gen
                        /\ mem[d].phase \in {"Queued", "AwaitingAck"}

(* Queued once, or about to be by its caller.                              *)
QueueOwned ==
    /\ \A d \in callers \cup Members(outq) :
           d \in attached /\ mem[d].phase = "Queued"
    /\ Distinct(outq) /\ Members(outq) \cap callers = {}

(* The writer has a delivery that it has yet to write or to expire.        *)
Writing(d) == writer.pc \in {"enter", "tx", "late"} /\ writer.d = d

(* The reader has the PUBACK of a delivery in hand.                        *)
Completing(d) == reader.pc # "idle" /\ reader.d = d

(* What the writer has taken, nobody else has.                             *)
WriterOwns ==
    \A d \in Deliveries : Writing(d) =>
        d \in attached /\ d \notin callers \cup Members(outq)

(* What the reader has taken is on no other way.                           *)
ReaderOwns ==
    \A d \in Deliveries : Completing(d) =>
        d \in attached /\ mem[d].phase = "AwaitingAck" /\ ~Writing(d)

(* On the wire under identifier p, as a PUBLISH or as the PUBACK.          *)
OnWire(d, p) ==
    /\ d \in attached /\ mem[d].phase = "AwaitingAck" /\ mem[d].pid = p
    /\ ~Writing(d) /\ ~Completing(d)

(* Every packet on the wire is that of an attached delivery that awaits    *)
(* its answer, and every PUBACK an answer the broker gave it.              *)
WireOwned ==
    /\ \A i \in DOMAIN toBroker : OnWire(toBroker[i].d, toBroker[i].pid)
    /\ \A i \in DOMAIN toClient : \E d \in Deliveries :
           OnWire(d, toClient[i].pid) /\ <<d, toClient[i].ok>> \in answered

(* An identifier is on the wire once.                                      *)
WireDistinct ==
    /\ \A i, j \in DOMAIN toBroker :
           toBroker[i].pid = toBroker[j].pid => i = j
    /\ \A i, j \in DOMAIN toClient :
           toClient[i].pid = toClient[j].pid => i = j
    /\ \A i \in DOMAIN toBroker, j \in DOMAIN toClient :
           toBroker[i].pid # toClient[j].pid

(* The row of an attached delivery is pending until a statement that ends  *)
(* it has committed; one that may have been written is then kept.          *)
RowHeld ==
    \A d \in attached :
        \/ rows[d].state = "pending"
        \/ /\ tx.d = d /\ tx.res = "ok"
           /\ \/ tx.op = "ack"
              \/ /\ tx.stmt \in {"expire", "quarantine"}
                 /\ rows[d].state = "blocked" \/ ~mem[d].started

(* All of it holds of a live generation; a dead one has nothing.           *)
LiveInv ==
    alive => /\ AttachedOwned /\ QueueOwned /\ WriterOwns /\ ReaderOwns
             /\ WireOwned /\ WireDistinct /\ RowHeld

(* The table's identifiers are unique.                                     *)
RowsDistinct ==
    \A d, e \in Present(rows) : rows[d].pid = rows[e].pid => d = e

(* A record that awaits its answer says that it may have been written.     *)
AwaitingStarted ==
    \A d \in Deliveries : mem[d].phase = "AwaitingAck" => mem[d].started

(* What the holder of the gate knows of the row of its delivery.           *)
StatementHeld ==
    /\ tx.stmt = "attach" /\ tx.res = "ok" => rows[tx.d].state = "pending"
    /\ tx.op = "ack" => IF tx.res = "ok" THEN rows[tx.d].state = "absent"
                        ELSE rows[tx.d].state = "pending" /\ rows[tx.d].started

(* What the reader acts upon is an answer of the broker.                   *)
AnswerHeld ==
    /\ \A d \in Deliveries : Completing(d) => <<d, reader.flag>> \in answered
    /\ \A i \in DOMAIN toBroker : toBroker[i].d \in sent

(* Why a PUBACK finds the delivery it answers: inductive, together with    *)
(* the types, CommitInv and PlaceInv.                                      *)
ExchangeInv ==
    /\ BookPlaces /\ LiveInv /\ RowsDistinct /\ AwaitingStarted /\ StatementHeld
    /\ AnswerHeld
-----------------------------------------------------------------------------
(* Taking the head of a sequence.                                          *)
LEMMA SeqHead ==
    ASSUME NEW D, NEW s \in Seq(D), s # <<>>
    PROVE  /\ Head(s) = s[1] /\ 1 \in DOMAIN s /\ Head(s) \in D
           /\ Tail(s) \in Seq(D)
           /\ \A i \in DOMAIN Tail(s) : Tail(s)[i] = s[i + 1]
           /\ \A i \in DOMAIN Tail(s) : i + 1 \in DOMAIN s /\ i + 1 # 1 /\ i \in Nat
<1>1. /\ Len(s) \in Nat /\ Len(s) # 0 /\ DOMAIN s = 1..Len(s)
      /\ Head(s) = s[1]
  BY LenProperties, EmptySeq, HeadTailProperties
<1>2. /\ Tail(s) \in Seq(D) /\ Len(Tail(s)) = Len(s) - 1
      /\ \A i \in 1..Len(Tail(s)) : Tail(s)[i] = s[i + 1]
  BY HeadTailProperties
<1>3. DOMAIN Tail(s) = 1..Len(Tail(s))
  BY <1>2, LenProperties
<1>4. s[1] \in D
  BY <1>1, ElementOfSeq
<1> QED BY <1>1, <1>2, <1>3, <1>4

(* Appending to a sequence.                                                *)
LEMMA SeqAppend ==
    ASSUME NEW D, NEW s \in Seq(D), NEW e \in D
    PROVE  /\ Append(s, e) \in Seq(D)
           /\ \A i \in DOMAIN s : i \in DOMAIN Append(s, e) /\ Append(s, e)[i] = s[i]
           /\ \A i \in DOMAIN Append(s, e) :
                  i \in DOMAIN s \/ (i = Len(s) + 1 /\ Append(s, e)[i] = e)
           /\ Len(s) + 1 \in DOMAIN Append(s, e) /\ Len(s) + 1 \notin DOMAIN s
<1>1. /\ Append(s, e) \in Seq(D) /\ Len(Append(s, e)) = Len(s) + 1
      /\ \A i \in 1..Len(s) : Append(s, e)[i] = s[i]
      /\ Append(s, e)[Len(s) + 1] = e
  BY AppendProperties
<1>2. /\ Len(s) \in Nat /\ DOMAIN s = 1..Len(s)
      /\ DOMAIN Append(s, e) = 1..Len(s) + 1
  BY <1>1, LenProperties
<1>3. /\ \A i \in DOMAIN s : i \in DOMAIN Append(s, e)
      /\ \A i \in DOMAIN Append(s, e) : i \in DOMAIN s \/ i = Len(s) + 1
      /\ Len(s) + 1 \in DOMAIN Append(s, e) /\ Len(s) + 1 \notin DOMAIN s
  BY <1>2
<1>4. \A i \in DOMAIN s : Append(s, e)[i] = s[i]
  BY <1>1, <1>2
<1>5. \A i \in DOMAIN Append(s, e) :
          i \in DOMAIN s \/ (i = Len(s) + 1 /\ Append(s, e)[i] = e)
  <2> TAKE i \in DOMAIN Append(s, e)
  <2>1. i \in DOMAIN s \/ i = Len(s) + 1
    BY <1>3
  <2>2. Append(s, e)[Len(s) + 1] = e
    BY <1>1
  <2> QED BY <2>1, <2>2
<1> QED BY <1>1, <1>3, <1>4, <1>5

(* The head of a sequence without repetition is not in its tail.           *)
LEMMA DistinctTail ==
    ASSUME NEW s \in Seq(Deliveries), s # <<>>, Distinct(s)
    PROVE  /\ Distinct(Tail(s)) /\ Head(s) \notin Members(Tail(s))
           /\ Members(s) = {Head(s)} \cup Members(Tail(s))
<1>1. /\ Head(s) = s[1] /\ 1 \in DOMAIN s
      /\ \A i \in DOMAIN Tail(s) : Tail(s)[i] = s[i + 1]
      /\ \A i \in DOMAIN Tail(s) : i + 1 \in DOMAIN s /\ i + 1 # 1 /\ i \in Nat
  BY SeqHead
<1>2. Distinct(Tail(s))
  <2> SUFFICES ASSUME NEW i \in DOMAIN Tail(s), NEW j \in DOMAIN Tail(s),
                      Tail(s)[i] = Tail(s)[j]
               PROVE  i = j
    BY DEF Distinct
  <2>1. s[i + 1] = s[j + 1] /\ i + 1 \in DOMAIN s /\ j + 1 \in DOMAIN s
    BY <1>1
  <2>2. i + 1 = j + 1
    BY <2>1 DEF Distinct
  <2> QED BY <1>1, <2>2
<1>3. Head(s) \notin Members(Tail(s))
  BY <1>1 DEF Members, Distinct
<1>4. \A i \in DOMAIN s : i # 1 => \E j \in DOMAIN Tail(s) : i = j + 1
  <2>1. Len(s) \in Nat /\ DOMAIN s = 1..Len(s) /\ Len(Tail(s)) = Len(s) - 1
    BY LenProperties, HeadTailProperties
  <2>2. DOMAIN Tail(s) = 1..Len(s) - 1
    BY <2>1, HeadTailProperties, LenProperties
  <2> TAKE i \in DOMAIN s
  <2>3. i # 1 => i - 1 \in DOMAIN Tail(s) /\ i = (i - 1) + 1
    BY <2>1, <2>2
  <2> QED BY <2>3
<1> QED BY <1>1, <1>2, <1>3, <1>4 DEF Members

(* Appending a new element repeats none.                                   *)
LEMMA DistinctAppend ==
    ASSUME NEW s \in Seq(Deliveries), NEW d \in Deliveries, Distinct(s),
           d \notin Members(s)
    PROVE  Distinct(Append(s, d)) /\ Members(Append(s, d)) = Members(s) \cup {d}
<1>1. /\ \A i \in DOMAIN s : i \in DOMAIN Append(s, d) /\ Append(s, d)[i] = s[i]
      /\ \A i \in DOMAIN Append(s, d) :
             i \in DOMAIN s \/ (i = Len(s) + 1 /\ Append(s, d)[i] = d)
  BY SeqAppend
<1>2. Distinct(Append(s, d))
  BY <1>1 DEF Distinct, Members
<1> QED BY <1>2, MembersAppend

(* Without takes out one position.                                         *)
LEMMA WithoutIndex ==
    ASSUME NEW s \in Seq(Deliveries), NEW d, d \in Members(s)
    PROVE  /\ Len(s) \in Nat /\ DOMAIN s = 1..Len(s)
           /\ DOMAIN Without(s, d) = 1..Len(s) - 1
           /\ \E i \in DOMAIN s :
                 /\ s[i] = d
                 /\ \A j \in 1..Len(s) - 1 :
                        Without(s, d)[j] = s[IF j < i THEN j ELSE j + 1]
<1> DEFINE i == CHOOSE k \in DOMAIN s : s[k] = d
           l == SubSeq(s, 1, i - 1)
           r == SubSeq(s, i + 1, Len(s))
           w == l \o r
<1>1. i \in DOMAIN s /\ s[i] = d /\ Len(s) \in Nat /\ DOMAIN s = 1..Len(s)
  BY LenProperties DEF Members
<1>2. \A j \in 1..Len(s) : s[j] \in Deliveries
  BY ElementOfSeq
<1>3. Without(s, d) = w
  BY DEF Without, i
<1> HIDE DEF i
<1>4. /\ l \in Seq(Deliveries) /\ Len(l) = i - 1
      /\ \A j \in 1..i - 1 : l[j] = s[j]
  <2>1. /\ 1 \in Int /\ i - 1 \in Int /\ \A j \in 1..i - 1 : s[j] \in Deliveries
        /\ i - 1 >= 0
    BY <1>1, <1>2
  <2>2. /\ l \in Seq(Deliveries)
        /\ Len(l) = IF 1 <= i - 1 THEN i - 1 - 1 + 1 ELSE 0
        /\ \A j \in 1..i - 1 - 1 + 1 : l[j] = s[1 + j - 1]
    BY <2>1, SubSeqProperties
  <2> HIDE DEF l
  <2> QED BY <1>1, <2>1, <2>2
<1>5. /\ r \in Seq(Deliveries) /\ Len(r) = Len(s) - i
      /\ \A j \in 1..Len(s) - i : r[j] = s[i + j]
  <2>1. /\ i + 1 \in Int /\ Len(s) \in Int
        /\ \A j \in i + 1..Len(s) : s[j] \in Deliveries
    BY <1>1, <1>2
  <2>2. /\ r \in Seq(Deliveries)
        /\ Len(r) = IF i + 1 <= Len(s) THEN Len(s) - (i + 1) + 1 ELSE 0
        /\ \A j \in 1..Len(s) - (i + 1) + 1 : r[j] = s[i + 1 + j - 1]
    BY <2>1, SubSeqProperties
  <2>3. Len(s) - (i + 1) + 1 = Len(s) - i /\ (~(i + 1 <= Len(s)) => Len(s) - i = 0)
    BY <1>1
  <2>4. \A j \in 1..Len(s) - i : i + 1 + j - 1 = i + j
    BY <1>1
  <2> HIDE DEF r
  <2> QED BY <2>2, <2>3, <2>4
<1> HIDE DEF l, r
<1>6. /\ w \in Seq(Deliveries) /\ Len(w) = Len(l) + Len(r)
      /\ \A j \in 1..Len(w) : w[j] = IF j <= Len(l) THEN l[j] ELSE r[j - Len(l)]
  <2>1. l \in Seq(Deliveries) /\ r \in Seq(Deliveries)
    BY <1>4, <1>5
  <2>2. /\ w \in Seq(Deliveries) /\ Len(w) = Len(l) + Len(r)
        /\ \A j \in 1..Len(l) + Len(r) :
               w[j] = IF j <= Len(l) THEN l[j] ELSE r[j - Len(l)]
    BY <2>1, ConcatProperties
  <2> HIDE DEF w
  <2> QED BY <2>2
<1> HIDE DEF w
<1>7. DOMAIN w = 1..Len(s) - 1
  BY <1>1, <1>4, <1>5, <1>6, LenProperties
<1>8. \A j \in 1..Len(s) - 1 : w[j] = s[IF j < i THEN j ELSE j + 1]
  <2> TAKE j \in 1..Len(s) - 1
  <2>1. CASE j < i
    BY <1>1, <1>4, <1>5, <1>6, <2>1
  <2>2. CASE ~(j < i)
    <3>1. j - Len(l) \in 1..Len(s) - i /\ i + (j - Len(l)) = j + 1 /\ ~(j <= Len(l))
      BY <1>1, <1>4, <2>2
    <3>2. w[j] = r[j - Len(l)]
      <4>1. j \in 1..Len(w)
        BY <1>1, <1>4, <1>5, <1>6
      <4> QED BY <1>6, <3>1, <4>1
    <3> QED BY <1>5, <2>2, <3>1, <3>2
  <2> QED BY <2>1, <2>2
<1> QED BY <1>1, <1>3, <1>7, <1>8

(* Without removes the one copy there is, and nothing else.                *)
LEMMA DistinctWithout ==
    ASSUME NEW s \in Seq(Deliveries), NEW d, Distinct(s)
    PROVE  Distinct(Without(s, d)) /\ Members(Without(s, d)) = Members(s) \ {d}
<1>1. CASE d \notin Members(s)
  BY <1>1 DEF Without
<1>2. CASE d \in Members(s)
  <2> DEFINE w == Without(s, d)
  <2>7. Len(s) \in Nat /\ DOMAIN s = 1..Len(s) /\ DOMAIN w = 1..Len(s) - 1
    BY <1>2, WithoutIndex
  <2>8. PICK i \in DOMAIN s :
            s[i] = d /\ \A j \in 1..Len(s) - 1 : w[j] = s[IF j < i THEN j ELSE j + 1]
    BY <1>2, WithoutIndex
  <2> HIDE DEF w
  <2>1. i \in DOMAIN s /\ s[i] = d /\ Len(s) \in Nat /\ DOMAIN s = 1..Len(s)
    BY <2>7, <2>8
  <2>9. \A j \in 1..Len(s) - 1 : /\ (IF j < i THEN j ELSE j + 1) \in DOMAIN s
                                 /\ (IF j < i THEN j ELSE j + 1) # i
    BY <2>1
  <2>10. \A k \in DOMAIN s : k # i =>
             \E j \in 1..Len(s) - 1 : k = IF j < i THEN j ELSE j + 1
    <3> TAKE k \in DOMAIN s
    <3>1. CASE k < i
      BY <2>1, <3>1
    <3>2. CASE k > i
      <4>1. k - 1 \in 1..Len(s) - 1 /\ ~(k - 1 < i) /\ k = (k - 1) + 1
        BY <2>1, <3>2
      <4> QED BY <4>1
    <3> QED BY <2>1, <3>1, <3>2
  <2>11. Distinct(w)
    <3> SUFFICES ASSUME NEW j \in 1..Len(s) - 1, NEW k \in 1..Len(s) - 1, w[j] = w[k]
                 PROVE  j = k
      BY <2>7 DEF Distinct
    <3>1. (IF j < i THEN j ELSE j + 1) = (IF k < i THEN k ELSE k + 1)
      BY <2>8, <2>9 DEF Distinct
    <3> QED BY <2>1, <3>1
  <2>12. \A k \in DOMAIN s : s[k] = d => k = i
    BY <2>1 DEF Distinct
  <2>13. Members(w) \subseteq Members(s) \ {d}
    BY <2>7, <2>8, <2>9, <2>12 DEF Members
  <2>14. Members(s) \ {d} \subseteq Members(w)
    <3> SUFFICES ASSUME NEW k \in DOMAIN s, s[k] # d PROVE s[k] \in Members(w)
      BY DEF Members
    <3>1. k # i
      BY <2>1
    <3>2. PICK j \in 1..Len(s) - 1 : k = IF j < i THEN j ELSE j + 1
      BY <2>10, <3>1
    <3>3. w[j] = s[k]
      BY <2>8, <3>2
    <3> QED BY <2>7, <3>3 DEF Members
  <2> QED BY <2>11, <2>13, <2>14 DEF w
<1> QED BY <1>1, <1>2

(* Without keeps the others in their order.                                *)
LEMMA WithoutOrder ==
    ASSUME NEW s \in Seq(Deliveries), NEW d,
           NEW a \in DOMAIN Without(s, d), NEW b \in DOMAIN Without(s, d), a < b
    PROVE  \E k, l \in DOMAIN s : /\ k < l
                                  /\ s[k] = Without(s, d)[a]
                                  /\ s[l] = Without(s, d)[b]
<1>1. CASE d \notin Members(s)
  BY <1>1 DEF Without
<1>2. CASE d \in Members(s)
  <2>1. Len(s) \in Nat /\ DOMAIN s = 1..Len(s) /\ DOMAIN Without(s, d) = 1..Len(s) - 1
    BY <1>2, WithoutIndex
  <2>2. PICK i \in DOMAIN s : \A j \in 1..Len(s) - 1 :
            Without(s, d)[j] = s[IF j < i THEN j ELSE j + 1]
    BY <1>2, WithoutIndex
  <2>3. PICK k \in DOMAIN s, l \in DOMAIN s :
            k = (IF a < i THEN a ELSE a + 1) /\ l = (IF b < i THEN b ELSE b + 1)
    BY <2>1
  <2>4. k < l
    BY <2>1, <2>3
  <2>5. s[k] = Without(s, d)[a] /\ s[l] = Without(s, d)[b]
    BY <2>1, <2>2, <2>3
  <2> QED BY <2>4, <2>5
<1> QED BY <1>1, <1>2

(* What the functions of DeliveryRecord leave in the record and in the     *)
(* others.                                                                 *)
LEMMA RecordEdits ==
    ASSUME NEW m \in [Deliveries -> Record], NEW d \in Deliveries
    PROVE  /\ \A g : /\ Attach(m, d, g)[d].phase = "Queued"
                     /\ Attach(m, d, g)[d].gen = g
                     /\ Attach(m, d, g)[d].attempts = m[d].attempts + 1
                     /\ Attach(m, d, g)[d].pid = m[d].pid
                     /\ Attach(m, d, g)[d].started = m[d].started
                     /\ \A e \in Deliveries : e # d => Attach(m, d, g)[e] = m[e]
           /\ /\ MarkStarted(m, d)[d].phase = "AwaitingAck"
              /\ MarkStarted(m, d)[d].gen = m[d].gen
              /\ MarkStarted(m, d)[d].attempts = m[d].attempts
              /\ MarkStarted(m, d)[d].pid = m[d].pid
              /\ MarkStarted(m, d)[d].started
              /\ \A e \in Deliveries : e # d => MarkStarted(m, d)[e] = m[e]
           /\ \A p : /\ [m EXCEPT ![d].phase = p][d].phase = p
                     /\ [m EXCEPT ![d].phase = p][d].gen = m[d].gen
                     /\ [m EXCEPT ![d].phase = p][d].attempts = m[d].attempts
                     /\ [m EXCEPT ![d].phase = p][d].pid = m[d].pid
                     /\ [m EXCEPT ![d].phase = p][d].started = m[d].started
                     /\ \A e \in Deliveries : e # d => [m EXCEPT ![d].phase = p][e] = m[e]
           /\ \A p : /\ [m EXCEPT ![d].pid = p][d].phase = m[d].phase
                     /\ [m EXCEPT ![d].pid = p][d].gen = m[d].gen
                     /\ [m EXCEPT ![d].pid = p][d].attempts = m[d].attempts
                     /\ [m EXCEPT ![d].pid = p][d].pid = p
                     /\ [m EXCEPT ![d].pid = p][d].started = m[d].started
                     /\ \A e \in Deliveries : e # d => [m EXCEPT ![d].pid = p][e] = m[e]
<1>1. m[d] \in Record
  OBVIOUS
<1>2. \A g : Attach(m, d, g) = [m EXCEPT ![d] =
                [m[d] EXCEPT !.phase = "Queued", !.gen = g, !.attempts = m[d].attempts + 1]]
  BY DEF Attach
<1>3. MarkStarted(m, d) = [m EXCEPT ![d] =
                [m[d] EXCEPT !.phase = "AwaitingAck", !.started = TRUE]]
  BY DEF MarkStarted
<1>4. \A p : [m EXCEPT ![d].phase = p] = [m EXCEPT ![d] = [m[d] EXCEPT !.phase = p]]
  OBVIOUS
<1>5. \A p : [m EXCEPT ![d].pid = p] = [m EXCEPT ![d] = [m[d] EXCEPT !.pid = p]]
  OBVIOUS
<1>6. \A r : /\ [m EXCEPT ![d] = r][d] = r
             /\ \A e \in Deliveries : e # d => [m EXCEPT ![d] = r][e] = m[e]
  OBVIOUS
<1>7. \A g : LET r == [m[d] EXCEPT !.phase = "Queued", !.gen = g, !.attempts = m[d].attempts + 1]
             IN /\ r.phase = "Queued" /\ r.gen = g /\ r.attempts = m[d].attempts + 1
                /\ r.pid = m[d].pid /\ r.started = m[d].started
  BY <1>1 DEF Record
<1>8. LET r == [m[d] EXCEPT !.phase = "AwaitingAck", !.started = TRUE]
      IN /\ r.phase = "AwaitingAck" /\ r.gen = m[d].gen /\ r.attempts = m[d].attempts
         /\ r.pid = m[d].pid /\ r.started
  BY <1>1 DEF Record
<1>9. \A p : LET r == [m[d] EXCEPT !.phase = p]
             IN /\ r.phase = p /\ r.gen = m[d].gen /\ r.attempts = m[d].attempts
                /\ r.pid = m[d].pid /\ r.started = m[d].started
  BY <1>1 DEF Record
<1>10. \A p : LET r == [m[d] EXCEPT !.pid = p]
              IN /\ r.phase = m[d].phase /\ r.gen = m[d].gen /\ r.attempts = m[d].attempts
                 /\ r.pid = p /\ r.started = m[d].started
  BY <1>1 DEF Record
<1>11. \A g : /\ Attach(m, d, g)[d].phase = "Queued"
                     /\ Attach(m, d, g)[d].gen = g
                     /\ Attach(m, d, g)[d].attempts = m[d].attempts + 1
                     /\ Attach(m, d, g)[d].pid = m[d].pid
                     /\ Attach(m, d, g)[d].started = m[d].started
                     /\ \A e \in Deliveries : e # d => Attach(m, d, g)[e] = m[e]
  <2> TAKE g
  <2> DEFINE r == [m[d] EXCEPT !.phase = "Queued", !.gen = g, !.attempts = m[d].attempts + 1]
  <2>1. /\ r.phase = "Queued" /\ r.gen = g /\ r.attempts = m[d].attempts + 1
        /\ r.pid = m[d].pid /\ r.started = m[d].started
    BY <1>7
  <2>2. Attach(m, d, g) = [m EXCEPT ![d] = r]
    BY <1>2
  <2> HIDE DEF r
  <2>3. Attach(m, d, g)[d] = r /\ \A e \in Deliveries : e # d => Attach(m, d, g)[e] = m[e]
    BY <1>6, <2>2
  <2> QED BY <2>1, <2>3
<1>12. /\ MarkStarted(m, d)[d].phase = "AwaitingAck"
              /\ MarkStarted(m, d)[d].gen = m[d].gen
              /\ MarkStarted(m, d)[d].attempts = m[d].attempts
              /\ MarkStarted(m, d)[d].pid = m[d].pid
              /\ MarkStarted(m, d)[d].started
              /\ \A e \in Deliveries : e # d => MarkStarted(m, d)[e] = m[e]
  BY <1>3, <1>6, <1>8
<1>13. \A p : /\ [m EXCEPT ![d].phase = p][d].phase = p
                     /\ [m EXCEPT ![d].phase = p][d].gen = m[d].gen
                     /\ [m EXCEPT ![d].phase = p][d].attempts = m[d].attempts
                     /\ [m EXCEPT ![d].phase = p][d].pid = m[d].pid
                     /\ [m EXCEPT ![d].phase = p][d].started = m[d].started
                     /\ \A e \in Deliveries : e # d => [m EXCEPT ![d].phase = p][e] = m[e]
  BY <1>4, <1>6, <1>9
<1>14. \A p : /\ [m EXCEPT ![d].pid = p][d].phase = m[d].phase
                     /\ [m EXCEPT ![d].pid = p][d].gen = m[d].gen
                     /\ [m EXCEPT ![d].pid = p][d].attempts = m[d].attempts
                     /\ [m EXCEPT ![d].pid = p][d].pid = p
                     /\ [m EXCEPT ![d].pid = p][d].started = m[d].started
                     /\ \A e \in Deliveries : e # d => [m EXCEPT ![d].pid = p][e] = m[e]
  BY <1>5, <1>6, <1>10
<1> QED BY <1>11, <1>12, <1>13, <1>14

(* An ended record keeps its identifier, its attempts and its bit.         *)
LEMMA EndedRecord ==
    ASSUME NEW m \in [Deliveries -> Record], NEW d \in Deliveries
    PROVE  /\ FinishTerminal(m, d)[d].phase \in TerminalPhase
           /\ FinishTerminal(m, d)[d].attempts = m[d].attempts
           /\ FinishTerminal(m, d)[d].pid = m[d].pid
           /\ FinishTerminal(m, d)[d].started = m[d].started
           /\ FinishTerminal(m, d)[d].phase # m[d].phase =>
                  FinishTerminal(m, d)[d].phase \in {"Unknown", "NotSent"}
           /\ \A e \in Deliveries : e # d => FinishTerminal(m, d)[e] = m[e]
<1>1. CASE Terminal(m, d)
  BY <1>1 DEF FinishTerminal, Terminal
<1>2. CASE ~Terminal(m, d)
  <2> DEFINE p == IF m[d].started THEN "Unknown" ELSE "NotSent"
             r == [m[d] EXCEPT !.phase = p, !.gen = 0]
  <2>1. FinishTerminal(m, d) = [m EXCEPT ![d] = r]
    BY <1>2 DEF FinishTerminal
  <2>2. m[d] \in Record
    OBVIOUS
  <2>3. r.phase = p /\ r.attempts = m[d].attempts /\ r.pid = m[d].pid /\ r.started = m[d].started
    BY <2>2 DEF Record
  <2>4. p \in {"Unknown", "NotSent"} /\ p \in TerminalPhase
    BY DEF TerminalPhase
  <2> HIDE DEF r, p
  <2>5. FinishTerminal(m, d)[d] = r /\ \A e \in Deliveries : e # d => FinishTerminal(m, d)[e] = m[e]
    BY <2>1
  <2> QED BY <2>3, <2>4, <2>5
<1> QED BY <1>1, <1>2

(* What the end of a session leaves of the records.                        *)
LEMMA DetachedRecords ==
    ASSUME NEW m \in [Deliveries -> Record], NEW S
    PROVE  \A d \in Deliveries :
               /\ Detached(m, S)[d].attempts = m[d].attempts
               /\ Detached(m, S)[d].pid = m[d].pid
               /\ Detached(m, S)[d].started = m[d].started
               /\ \/ Detached(m, S)[d] = m[d]
                  \/ /\ d \in S /\ m[d].phase \notin TerminalPhase
                     /\ Detached(m, S)[d].phase = "AwaitingReconnect"
<1> SUFFICES ASSUME NEW d \in Deliveries
             PROVE  /\ Detached(m, S)[d].attempts = m[d].attempts
                    /\ Detached(m, S)[d].pid = m[d].pid
                    /\ Detached(m, S)[d].started = m[d].started
                    /\ \/ Detached(m, S)[d] = m[d]
                       \/ /\ d \in S /\ m[d].phase \notin TerminalPhase
                          /\ Detached(m, S)[d].phase = "AwaitingReconnect"
  OBVIOUS
<1> DEFINE away == [m[d] EXCEPT !.phase = "AwaitingReconnect", !.gen = 0]
<1>1. Detached(m, S)[d] = m[d]
         \/ (d \in S /\ m[d].phase \notin TerminalPhase /\ Detached(m, S)[d] = away)
  BY DEF Detached, Terminal
<1>2. m[d] \in Record
  OBVIOUS
<1>3. /\ away.phase = "AwaitingReconnect" /\ away.attempts = m[d].attempts
      /\ away.started = m[d].started /\ away.pid = m[d].pid
  BY <1>2 DEF Record
<1> HIDE DEF away
<1> QED BY <1>1, <1>3
-----------------------------------------------------------------------------
(* What the proofs below start from.                                       *)
Base == TypeInv /\ CommitInv /\ PlaceInv /\ ExchangeInv

(* What LiveInv says of a live generation.                                 *)
Held ==
    /\ AttachedOwned /\ QueueOwned /\ WriterOwns /\ ReaderOwns
    /\ WireOwned /\ WireDistinct /\ RowHeld

(* The invariants in the form the steps use them.                          *)
LEMMA BaseFacts ==
    ASSUME Base
    PROVE  /\ TypeInv /\ CommitInv /\ HolderOK
           /\ mem \in [Deliveries -> Record] /\ attached \subseteq Deliveries
           /\ callers \subseteq Deliveries
           /\ order \in Seq(Deliveries) /\ todo \in Seq(Deliveries)
           /\ outq \in Seq(Deliveries)
           /\ tx # NoTx => tx.d \in Deliveries
           /\ writer.pc # "idle" => writer.d \in Deliveries
           /\ reader.pc # "idle" => reader.d \in Deliveries
           /\ SessionPlaces /\ TaskPlaces /\ StatementShapes /\ HolderPlaces
           /\ BookPlaces /\ RowsDistinct /\ AwaitingStarted /\ StatementHeld
           /\ AnswerHeld
           /\ alive => Held /\ sup # "down"
           /\ attached \cap (Deliveries \ admitted) = {}
<1>1. TypeInv /\ CommitInv /\ PlaceInv /\ ExchangeInv
  BY DEF Base
<1>2. /\ mem \in [Deliveries -> Record] /\ attached \subseteq Deliveries
      /\ callers \subseteq Deliveries
      /\ order \in Seq(Deliveries) /\ todo \in Seq(Deliveries)
      /\ outq \in Seq(Deliveries) /\ HolderOK
  BY <1>1 DEF TypeInv, TypeOK, BookTypeOK, SupTypeOK, SessTypeOK
<1>3. /\ tx # NoTx => tx.d \in Deliveries
      /\ writer.pc # "idle" => writer.d \in Deliveries
      /\ reader.pc # "idle" => reader.d \in Deliveries
  BY <1>1, HolderType, TaskFacts DEF TypeInv, TypeOK, TaskTypeOK
<1>4. attached \cap (Deliveries \ admitted) = {}
  BY <1>1, KnownFacts, KnownType DEF CommitInv, AdmittedFirst, KnownHasRecord
<1>5. SessionPlaces /\ TaskPlaces /\ StatementShapes /\ HolderPlaces
  BY <1>1 DEF PlaceInv
<1>6. /\ BookPlaces /\ RowsDistinct /\ AwaitingStarted /\ StatementHeld
      /\ AnswerHeld /\ (alive => Held)
  BY <1>1 DEF ExchangeInv, LiveInv, Held
<1>7. alive => sup # "down"
  BY <1>5 DEF SessionPlaces, Resting
<1> QED BY <1>1, <1>2, <1>3, <1>4, <1>5, <1>6, <1>7

(* A step that leaves the exchange alone: no delivery is attached, queued, *)
(* taken, written or answered.                                             *)
Quiet ==
    /\ UNCHANGED <<gen, attached, outq, toBroker, toClient>>
    /\ callers' \subseteq callers /\ answered \subseteq answered'
    /\ \A d \in attached : mem'[d] = mem[d]
    /\ \A d \in Deliveries : /\ Writing(d)' => Writing(d)
                             /\ Completing(d)' => Completing(d)

(* A quiet step leaves the exchange as it is.                              *)
LEMMA QuietStep ==
    ASSUME Base, alive, Quiet, RowHeld'
    PROVE  Held'
<1>1. /\ mem \in [Deliveries -> Record] /\ attached \subseteq Deliveries
      /\ AttachedOwned /\ QueueOwned /\ WriterOwns /\ ReaderOwns
      /\ WireOwned /\ WireDistinct
  BY BaseFacts DEF Held
<1>2. AttachedOwned'
  BY <1>1 DEF Quiet, AttachedOwned
<1>3. QueueOwned'
  <2>1. \A d \in callers \cup Members(outq) : d \in attached /\ mem[d].phase = "Queued"
    BY <1>1 DEF QueueOwned
  <2>2. \A d \in callers' \cup Members(outq') :
            d \in attached' /\ mem'[d].phase = "Queued"
    BY <2>1 DEF Quiet, Members
  <2>3. Distinct(outq') /\ Members(outq') \cap callers' = {}
    BY <1>1 DEF Quiet, QueueOwned, Members, Distinct
  <2> QED BY <2>2, <2>3 DEF QueueOwned, Distinct, Members
<1>4. WriterOwns'
  BY <1>1 DEF Quiet, WriterOwns, Members
<1>5. ReaderOwns'
  BY <1>1 DEF Quiet, ReaderOwns
<1>6. WireOwned'
  <2>1. \A d \in Deliveries : \A p : OnWire(d, p) => OnWire(d, p)'
    BY <1>1 DEF Quiet, OnWire
  <2>2. \A i \in DOMAIN toBroker : OnWire(toBroker[i].d, toBroker[i].pid) /\ toBroker[i].d \in Deliveries
    BY <1>1 DEF WireOwned, OnWire
  <2>3. \A i \in DOMAIN toBroker : OnWire(toBroker[i].d, toBroker[i].pid)'
    BY <2>1, <2>2 DEF Quiet, OnWire
  <2>4. \A i \in DOMAIN toClient : \E d \in Deliveries :
            OnWire(d, toClient[i].pid)' /\ <<d, toClient[i].ok>> \in answered'
    BY <1>1, <2>1 DEF Quiet, WireOwned, OnWire
  <2> QED BY <2>3, <2>4 DEF Quiet, WireOwned, OnWire
<1>7. WireDistinct'
  BY <1>1 DEF Quiet, WireDistinct
<1> QED BY <1>2, <1>3, <1>4, <1>5, <1>6, <1>7 DEF Held
-----------------------------------------------------------------------------
(* The steps that are not quiet, one by one.                               *)

(* Attaching a delivery to the live generation, on either path.            *)
LEMMA AttachStep ==
    ASSUME Base, alive, NEW d \in Deliveries \ attached,
           mem' = Attach(mem, d, gen), rows[d].state = "pending",
           attached' = attached \cup {d},
           UNCHANGED <<gen, rows, toBroker, toClient, writer, reader,
           answered>>,
           \/ outq' = outq /\ callers' = callers \cup {d}
           \/ outq' = Append(outq, d) /\ callers' = callers,
           tx.op # "ack", tx.stmt \notin {"expire", "quarantine"}
    PROVE  Held'
<1>1. /\ mem \in [Deliveries -> Record] /\ attached \subseteq Deliveries
      /\ outq \in Seq(Deliveries) /\ callers \subseteq Deliveries
      /\ AttachedOwned /\ QueueOwned /\ WriterOwns /\ ReaderOwns
      /\ WireOwned /\ WireDistinct /\ RowHeld
  BY BaseFacts DEF Held
<1>2. /\ mem'[d].phase = "Queued" /\ mem'[d].gen = gen
      /\ \A e \in Deliveries : e # d => mem'[e] = mem[e]
  BY <1>1, RecordEdits
<1>3. \A e \in attached : mem'[e] = mem[e] /\ e # d
  BY <1>1, <1>2
<1>4. AttachedOwned'
  BY <1>1, <1>2, <1>3 DEF AttachedOwned
<1>5. d \notin callers /\ d \notin Members(outq)
  BY <1>1 DEF QueueOwned
<1>6. /\ Members(outq') \cup callers' = Members(outq) \cup callers \cup {d}
      /\ Distinct(outq') /\ Members(outq') \cap callers' = {}
  <2>1. Distinct(outq) /\ Members(outq) \cap callers = {}
    BY <1>1 DEF QueueOwned
  <2>2. CASE outq' = outq /\ callers' = callers \cup {d}
    BY <1>5, <2>1, <2>2
  <2>3. CASE outq' = Append(outq, d) /\ callers' = callers
    <3>1. Distinct(Append(outq, d)) /\ Members(Append(outq, d)) = Members(outq) \cup {d}
      BY <1>1, <1>5, <2>1, DistinctAppend
    <3> QED BY <1>5, <2>1, <2>3, <3>1
  <2> QED BY <2>2, <2>3
<1>7. QueueOwned'
  <2>1. \A e \in callers \cup Members(outq) : e \in attached /\ mem[e].phase = "Queued"
    BY <1>1 DEF QueueOwned
  <2>2. \A e \in callers' \cup Members(outq') : e \in attached' /\ mem'[e].phase = "Queued"
    BY <1>2, <1>3, <1>6, <2>1
  <2> QED BY <1>6, <2>2 DEF QueueOwned, Members, Distinct
<1>8. WriterOwns'
  <2>1. \A e \in Deliveries : Writing(e)' => Writing(e)
    BY DEF Writing
  <2>2. \A e \in Deliveries : Writing(e) => e \in attached /\ e \notin callers \cup Members(outq)
    BY <1>1 DEF WriterOwns
  <2>3. \A e \in attached : e \notin callers \cup Members(outq) => e \notin callers' \cup Members(outq')
    BY <1>3, <1>6
  <2>4. \A e \in Deliveries : Writing(e)' => e \in attached' /\ e \notin callers' \cup Members(outq')
    BY <2>1, <2>2, <2>3
  <2> QED BY <2>4 DEF WriterOwns, Members
<1>9. ReaderOwns'
  BY <1>1, <1>3 DEF ReaderOwns, Writing, Completing
<1>10. WireOwned'
  <2>1. \A e \in Deliveries : \A p : OnWire(e, p) => OnWire(e, p)'
    BY <1>3 DEF OnWire, Writing, Completing
  <2>2. \A i \in DOMAIN toBroker : toBroker[i].d \in Deliveries /\ OnWire(toBroker[i].d, toBroker[i].pid)
    BY <1>1 DEF WireOwned, OnWire
  <2>3. \A i \in DOMAIN toBroker : OnWire(toBroker[i].d, toBroker[i].pid)'
    BY <2>1, <2>2 DEF OnWire
  <2>4. \A i \in DOMAIN toBroker' : OnWire(toBroker[i].d, toBroker[i].pid)'
    BY <2>3
  <2>5. \A i \in DOMAIN toClient' : \E e \in Deliveries :
            OnWire(e, toClient[i].pid)' /\ <<e, toClient[i].ok>>' \in answered'
    <3> SUFFICES ASSUME NEW i \in DOMAIN toClient
                 PROVE  \E e \in Deliveries :
                            /\ OnWire(e, toClient[i].pid)'
                            /\ <<e, toClient[i].ok>>' \in answered'
      OBVIOUS
    <3>1. PICK e \in Deliveries : /\ OnWire(e, toClient[i].pid)
                                  /\ <<e, toClient[i].ok>> \in answered
      BY <1>1 DEF WireOwned
    <3>2. OnWire(e, toClient[i].pid)'
      BY <2>1, <3>1 DEF OnWire
    <3> QED BY <3>1, <3>2
  <2> QED BY <2>4, <2>5 DEF WireOwned
<1>11. WireDistinct'
  BY <1>1 DEF WireDistinct
<1>12. RowHeld'
  BY <1>1, <1>3 DEF RowHeld
<1> QED BY <1>4, <1>7, <1>8, <1>9, <1>10, <1>11, <1>12 DEF Held

(* The caller of a delivery queues it, once.                               *)
LEMMA EnqueueStep ==
    ASSUME Base, alive, NEW d \in Deliveries, CallerEnqueues(d)
    PROVE  Held'
<1>1. /\ mem \in [Deliveries -> Record] /\ attached \subseteq Deliveries
      /\ outq \in Seq(Deliveries)
      /\ AttachedOwned /\ QueueOwned /\ WriterOwns /\ ReaderOwns
      /\ WireOwned /\ WireDistinct /\ RowHeld
  BY BaseFacts DEF Held
<1>2. /\ d \in callers /\ callers' = callers \ {d}
      /\ outq' = Append(outq, d) \/ outq' = outq
      /\ UNCHANGED <<rows, tx, mem, gen, attached, writer, reader, toBroker,
                     toClient, answered>>
  BY DEF CallerEnqueues, dbVars, bookVars, taskVars, netVars, histVars
<1>3. /\ \A e \in callers \cup Members(outq) : e \in attached /\ mem[e].phase = "Queued"
      /\ Distinct(outq) /\ Members(outq) \cap callers = {}
  BY <1>1 DEF QueueOwned
<1>4. d \notin Members(outq)
  BY <1>2, <1>3
<1>5. /\ Members(outq') \cup callers' \subseteq Members(outq) \cup callers
      /\ Distinct(outq') /\ Members(outq') \cap callers' = {}
  <2>1. CASE outq' = outq
    BY <1>2, <1>3, <2>1
  <2>2. CASE outq' = Append(outq, d)
    <3>1. Distinct(outq') /\ Members(outq') = Members(outq) \cup {d}
      BY <1>1, <1>3, <1>4, <2>2, DistinctAppend
    <3> QED BY <1>2, <1>3, <3>1
  <2> QED BY <1>2, <2>1, <2>2
<1>6. QueueOwned'
  <2>1. \A e \in callers' \cup Members(outq') : e \in attached' /\ mem'[e].phase = "Queued"
    BY <1>2, <1>3, <1>5
  <2> QED BY <1>5, <2>1 DEF QueueOwned, Members, Distinct
<1>7. WriterOwns'
  <2>1. \A e \in Deliveries : Writing(e)' => e \in attached' /\ e \notin callers' \cup Members(outq')
    BY <1>1, <1>2, <1>5 DEF WriterOwns, Writing
  <2> QED BY <2>1 DEF WriterOwns, Members
<1>8. AttachedOwned' /\ ReaderOwns' /\ WireDistinct' /\ RowHeld'
  BY <1>1, <1>2 DEF AttachedOwned, ReaderOwns, WireDistinct, RowHeld,
     Writing, Completing
<1>9. WireOwned'
  BY <1>1, <1>2 DEF WireOwned, OnWire, Writing, Completing
<1> QED BY <1>6, <1>7, <1>8, <1>9 DEF Held

(* The writer takes the oldest delivery of the queue, which nobody else    *)
(* has: a delivery on the wire is not queued.                              *)
LEMMA TakeStep ==
    ASSUME Base, alive, WriterTakes
    PROVE  Held'
<1>1. /\ mem \in [Deliveries -> Record] /\ attached \subseteq Deliveries
      /\ outq \in Seq(Deliveries)
      /\ AttachedOwned /\ QueueOwned /\ WriterOwns /\ ReaderOwns
      /\ WireOwned /\ WireDistinct /\ RowHeld
  BY BaseFacts DEF Held
<1> DEFINE h == Head(outq)
<1>2. /\ writer.pc = "idle" /\ outq # <<>> /\ outq' = Tail(outq)
      /\ \/ writer' = writer
         \/ writer' = [pc |-> "enter", d |-> h, flag |-> mem[h].started]
      /\ UNCHANGED <<rows, tx, mem, gen, attached, callers, reader, toBroker,
                     toClient, answered>>
  BY DEF WriterTakes, dbVars, bookVars, netVars, histVars
<1>3. /\ \A e \in callers \cup Members(outq) : e \in attached /\ mem[e].phase = "Queued"
      /\ Distinct(outq) /\ Members(outq) \cap callers = {}
  BY <1>1 DEF QueueOwned
<1>4. /\ Distinct(outq') /\ h \notin Members(outq')
      /\ Members(outq) = {h} \cup Members(outq')
  BY <1>1, <1>2, <1>3, DistinctTail
<1>5. h \in attached /\ mem[h].phase = "Queued" /\ h \notin callers
  BY <1>3, <1>4
<1>6. \A e \in Deliveries : Writing(e)' => e = h
  BY <1>2 DEF Writing
<1> HIDE DEF h
<1>7. QueueOwned'
  <2>1. \A e \in callers' \cup Members(outq') : e \in attached' /\ mem'[e].phase = "Queued"
    BY <1>2, <1>3, <1>4
  <2>2. Members(outq') \cap callers' = {}
    BY <1>2, <1>3, <1>4
  <2> QED BY <1>4, <2>1, <2>2 DEF QueueOwned, Members, Distinct
<1>8. WriterOwns'
  <2>1. \A e \in Deliveries : Writing(e)' => e \in attached' /\ e \notin callers' \cup Members(outq')
    BY <1>2, <1>4, <1>5, <1>6
  <2> QED BY <2>1 DEF WriterOwns, Members
<1>9. ReaderOwns'
  BY <1>1, <1>2, <1>5, <1>6 DEF ReaderOwns, Completing
<1>10. WireOwned'
  <2>1. \A e \in Deliveries : \A p : OnWire(e, p) => OnWire(e, p)'
    BY <1>2, <1>5, <1>6 DEF OnWire, Completing
  <2>2. \A i \in DOMAIN toBroker : toBroker[i].d \in Deliveries /\ OnWire(toBroker[i].d, toBroker[i].pid)
    BY <1>1 DEF WireOwned, OnWire
  <2>3. \A i \in DOMAIN toBroker : OnWire(toBroker[i].d, toBroker[i].pid)'
    BY <1>2, <2>1, <2>2 DEF OnWire
  <2> QED BY <1>1, <1>2, <2>1, <2>3 DEF WireOwned, OnWire
<1>11. AttachedOwned' /\ WireDistinct' /\ RowHeld'
  BY <1>1, <1>2 DEF AttachedOwned, WireDistinct, RowHeld
<1> QED BY <1>7, <1>8, <1>9, <1>10, <1>11 DEF Held

(* Two attached deliveries on the wire, or one and the writer's, never     *)
(* share an identifier: each has its row, and the table's are unique.      *)
LEMMA WireIdentifiers ==
    ASSUME Base, alive, tx.op # "ack",
           NEW d \in attached, NEW e \in attached,
           mem[d].started \/ rows[d].state = "pending",
           mem[e].started \/ rows[e].state = "pending",
           mem[d].pid = mem[e].pid
    PROVE  d = e
<1>1. /\ attached \subseteq Deliveries /\ RowHeld /\ RowsDistinct /\ sup # "down"
      /\ RowMarkedFirst
  BY BaseFacts DEF Held, CommitInv
<1>2. d \in Present(rows) /\ e \in Present(rows)
  BY <1>1 DEF RowHeld, Present
<1>3. rows[d].pid = mem[d].pid /\ rows[e].pid = mem[e].pid
  BY <1>1, <1>2 DEF RowMarkedFirst, Present
<1> QED BY <1>1, <1>2, <1>3 DEF RowsDistinct

(* The possible write: in memory, then on the wire if the session and the  *)
(* deadlines still allow it.                                               *)
LEMMA MayWriteStep ==
    ASSUME Base, alive, alive', WriterMayWrite
    PROVE  Held'
<1>0. PICK d \in Deliveries : d = writer.d
  <2>1. tx.op = "write"
    BY DEF WriterMayWrite, Done
  <2> QED BY <2>1, BaseFacts, NoTxFacts DEF HolderOK
<1>1. /\ mem \in [Deliveries -> Record] /\ attached \subseteq Deliveries
      /\ AttachedOwned /\ QueueOwned /\ WriterOwns /\ ReaderOwns
      /\ WireOwned /\ WireDistinct /\ RowHeld
  BY BaseFacts DEF Held
<1>2. /\ tx.op = "write" /\ tx.res = "ok" /\ tx.stmt \in {"mark", "check"}
      /\ tx.d = d /\ writer.pc = "tx" /\ d \in Deliveries
  <2>1. tx.op = "write" /\ tx.res = "ok" /\ tx.stmt \in {"mark", "check"}
    BY DEF WriterMayWrite, Done
  <2> QED BY <1>0, <2>1, BaseFacts DEF HolderOK
<1>3. d \in attached /\ d \notin callers \cup Members(outq) /\ mem[d].gen = gen
  BY <1>0, <1>1, <1>2 DEF WriterOwns, AttachedOwned, Writing
<1>4. /\ mem' = MarkStarted(mem, d)
      /\ UNCHANGED <<rows, gen, attached, outq, callers, reader, toClient, answered>>
      /\ writer'.d = d /\ writer'.pc \in {"writing", "late"}
      /\ \/ toBroker' = toBroker
         \/ /\ toBroker' = Append(toBroker, [d |-> d, pid |-> mem[d].pid,
                                             dup |-> writer.flag])
            /\ writer'.pc = "writing"
  <2>1. /\ tx.d = d /\ mem[d].gen = gen /\ UNCHANGED <<rows, reader, toClient, answered>>
    BY <1>2, <1>3 DEF WriterMayWrite, dbVars
  <2>2. ~Abort("rejected", MarkStarted(mem, d))
    BY DEF Abort, AbortWith
  <2>3. \/ /\ mem' = MarkStarted(mem, d)
           /\ toBroker' = Append(toBroker, [d |-> d, pid |-> mem[d].pid,
                                             dup |-> writer.flag])
           /\ writer' = [writer EXCEPT !.pc = "writing"]
           /\ UNCHANGED sessVars
        \/ /\ mem' = MarkStarted(mem, d)
           /\ writer' = [writer EXCEPT !.pc = "late"]
           /\ UNCHANGED <<toBroker, sent, sessVars>>
    BY <2>1, <2>2 DEF WriterMayWrite
  <2>4. \A pc : [writer EXCEPT !.pc = pc].pc = pc /\ [writer EXCEPT !.pc = pc].d = d
    BY <1>0, BaseFacts, TaskFields
  <2> QED BY <2>1, <2>3, <2>4 DEF sessVars
<1>5. /\ mem'[d].phase = "AwaitingAck" /\ mem'[d].gen = gen /\ mem'[d].pid = mem[d].pid
      /\ mem'[d].started
      /\ \A e \in Deliveries : e # d => mem'[e] = mem[e]
  BY <1>1, <1>2, <1>3, <1>4, RecordEdits
<1>6. /\ Writing(d) /\ \A e \in Deliveries : Writing(e)' => Writing(e)
      /\ \A e \in Deliveries : Completing(e)' <=> Completing(e)
  BY <1>0, <1>2, <1>4 DEF Writing, Completing
<1>7. rows[d].state = "pending"
  BY <1>1, <1>2, <1>3 DEF RowHeld
<1>8. AttachedOwned'
  BY <1>1, <1>3, <1>4, <1>5 DEF AttachedOwned
<1>9. QueueOwned'
  <2>1. \A e \in callers \cup Members(outq) : e \in attached /\ mem[e].phase = "Queued"
    BY <1>1 DEF QueueOwned
  <2>2. \A e \in callers \cup Members(outq) : e \in attached' /\ mem'[e].phase = "Queued"
    BY <1>1, <1>3, <1>4, <1>5, <2>1
  <2> QED BY <1>1, <1>4, <2>2 DEF QueueOwned, Members, Distinct
<1>10. WriterOwns'
  BY <1>1, <1>4, <1>6 DEF WriterOwns, Members
<1>11. ReaderOwns'
  BY <1>1, <1>4, <1>5, <1>6 DEF ReaderOwns
<1>12. \A e \in Deliveries : \A p : OnWire(e, p) => e # d /\ OnWire(e, p)'
  BY <1>4, <1>5, <1>6 DEF OnWire
<1>13. toBroker' # toBroker => OnWire(d, mem[d].pid)'
  <2>1. ~Completing(d)
    BY <1>1, <1>2, <1>6 DEF ReaderOwns
  <2>2. toBroker' # toBroker => ~Writing(d)'
    BY <1>4 DEF Writing
  <2> QED BY <1>3, <1>4, <1>5, <1>6, <2>1, <2>2, <1>2 DEF OnWire
<1>14. toBroker \in Seq(Publish) /\ [d |-> d, pid |-> mem[d].pid, dup |-> writer.flag] \in Publish
  <2>1. mem[d].pid \in 0..MaxPacketId /\ writer.flag \in BOOLEAN
    BY <1>1, <1>2, TaskFacts, BaseFacts DEF Record, TypeInv, TypeOK, TaskTypeOK
  <2> QED BY <1>2, <2>1, BaseFacts DEF TypeInv, TypeOK, NetTypeOK, Publish
<1>15. \A i \in DOMAIN toBroker : /\ toBroker[i].d \in Deliveries
                                  /\ OnWire(toBroker[i].d, toBroker[i].pid)
  BY <1>1 DEF WireOwned, OnWire
<1>16. \A e \in Deliveries : \A p : OnWire(e, p) => p # mem[d].pid
  <2> SUFFICES ASSUME NEW e \in Deliveries, OnWire(e, mem[d].pid) PROVE FALSE
    OBVIOUS
  <2>1. e \in attached /\ mem[e].started /\ mem[e].pid = mem[d].pid /\ e # d
    BY <1>12, BaseFacts DEF OnWire, AwaitingStarted
  <2> QED BY <1>2, <1>3, <1>7, <2>1, WireIdentifiers
<1>19. \A i \in DOMAIN toClient' : \E e \in Deliveries :
           OnWire(e, toClient[i].pid)' /\ <<e, toClient'[i].ok>> \in answered'
  <2> TAKE i \in DOMAIN toClient'
  <2>1. toClient' = toClient /\ answered' = answered
    BY <1>4
  <2>2. PICK e \in Deliveries :
            OnWire(e, toClient[i].pid) /\ <<e, toClient[i].ok>> \in answered
    BY <1>1, <2>1 DEF WireOwned
  <2>3. OnWire(e, toClient[i].pid)'
    BY <1>12, <2>1, <2>2 DEF OnWire
  <2> QED BY <2>1, <2>2, <2>3
<1>17. CASE toBroker' = toBroker
  <2>1. WireOwned'
    <3>1. \A i \in DOMAIN toBroker : OnWire(toBroker[i].d, toBroker[i].pid)'
      BY <1>12, <1>15, <1>17 DEF OnWire
    <3> QED BY <1>17, <1>19, <3>1 DEF WireOwned, OnWire
  <2>2. WireDistinct'
    BY <1>1, <1>4, <1>17 DEF WireDistinct
  <2> QED BY <2>1, <2>2, <1>8, <1>9, <1>10, <1>11, <1>1, <1>4, <1>7, <1>2,
     <1>3, <1>5 DEF Held, RowHeld
<1>18. CASE toBroker' # toBroker
  <2> DEFINE b == [d |-> d, pid |-> mem[d].pid, dup |-> writer.flag]
  <2>0. toBroker' = Append(toBroker, b)
    BY <1>4, <1>18
  <2>1. b.d = d /\ b.pid = mem[d].pid /\ b \in Publish
    BY <1>14
  <2> HIDE DEF b
  <2>2. /\ \A i \in DOMAIN toBroker : i \in DOMAIN toBroker' /\ toBroker'[i] = toBroker[i]
        /\ \A i \in DOMAIN toBroker' :
               i \in DOMAIN toBroker \/ (i = Len(toBroker) + 1 /\ toBroker'[i] = b)
    BY <1>14, <2>0, <2>1, SeqAppend
  <2>3. WireOwned'
    <3>1. \A i \in DOMAIN toBroker : OnWire(toBroker[i].d, toBroker[i].pid)
            /\ toBroker[i].d \in Deliveries
      BY <1>15
    <3>2. ASSUME NEW i \in DOMAIN toBroker'
          PROVE  OnWire(toBroker[i].d, toBroker[i].pid)'
      <4>1. CASE i \in DOMAIN toBroker
        <5>1. OnWire(toBroker[i].d, toBroker[i].pid) /\ toBroker[i].d \in Deliveries
          BY <3>1, <4>1
        <5>2. toBroker'[i] = toBroker[i]
          BY <2>2, <4>1
        <5> QED BY <1>12, <5>1, <5>2 DEF OnWire
      <4>2. CASE toBroker'[i] = b
        <5>1. toBroker'[i].d = d /\ toBroker'[i].pid = mem[d].pid
          BY <2>1, <4>2
        <5> QED BY <1>5, <1>13, <1>18, <5>1 DEF OnWire
      <4> QED BY <2>2, <4>1, <4>2
    <3> QED BY <1>19, <3>2 DEF WireOwned, OnWire
  <2>4. WireDistinct'
    <3>1. \A i \in DOMAIN toBroker : toBroker[i].pid # mem[d].pid
      BY <1>15, <1>16
    <3>2. \A i \in DOMAIN toClient : toClient[i].pid # mem[d].pid
      BY <1>1, <1>16 DEF WireOwned
    <3>3. \A i, j \in DOMAIN toBroker' : toBroker'[i].pid = toBroker'[j].pid => i = j
      BY <1>1, <2>1, <2>2, <3>1 DEF WireDistinct
    <3>4. \A i \in DOMAIN toBroker', j \in DOMAIN toClient' :
              toBroker'[i].pid # toClient'[j].pid
      BY <1>1, <1>4, <2>1, <2>2, <3>2 DEF WireDistinct
    <3> QED BY <1>1, <1>4, <3>3, <3>4 DEF WireDistinct
  <2>5. RowHeld'
    BY <1>1, <1>2, <1>3, <1>4, <1>5, <1>7 DEF RowHeld
  <2> QED BY <1>8, <1>9, <1>10, <1>11, <2>3, <2>4, <2>5 DEF Held
<1> QED BY <1>17, <1>18

(* The owner of a PUBACK is the delivery it answers: the identifier could  *)
(* not be reused while the answer was on its way.                          *)
LEMMA SeesAckStep ==
    ASSUME Base, alive, alive', ReaderSeesAck
    PROVE  /\ Held'
           /\ \A d \in Deliveries : Completing(d)' => <<d, reader'.flag>> \in answered
<1> DEFINE ack == Head(toClient)
<1>1. /\ mem \in [Deliveries -> Record] /\ attached \subseteq Deliveries
      /\ AttachedOwned /\ QueueOwned /\ WriterOwns /\ ReaderOwns
      /\ WireOwned /\ WireDistinct /\ RowHeld
  BY BaseFacts DEF Held
<1>2. /\ reader.pc = "idle" /\ toClient # <<>> /\ toClient' = Tail(toClient)
      /\ toClient \in Seq(Puback)
      /\ UNCHANGED <<rows, tx, writer, toBroker, answered>>
  BY BaseFacts DEF ReaderSeesAck, dbVars, histVars, TypeInv, TypeOK, NetTypeOK
<1>3. PICK d \in AckOwner(ack.pid) :
          /\ reader' = [pc |-> "enter", d |-> d, flag |-> ack.ok]
          /\ UNCHANGED <<mem, sessVars>>
  BY DEF ReaderSeesAck, Abort, AbortWith
<1>4. tx.op # "ack"
  BY <1>2, BaseFacts DEF HolderOK
<1>5. /\ ack = toClient[1] /\ 1 \in DOMAIN toClient
      /\ \A i \in DOMAIN toClient' : toClient'[i] = toClient[i + 1]
      /\ \A i \in DOMAIN toClient' : i + 1 \in DOMAIN toClient /\ i + 1 # 1 /\ i \in Nat
  BY <1>2, SeqHead
<1> HIDE DEF ack
<1>6. PICK o \in Deliveries : OnWire(o, ack.pid) /\ <<o, ack.ok>> \in answered
  BY <1>1, <1>5 DEF WireOwned
<1>7. d \in attached /\ mem[d].phase = "AwaitingAck" /\ mem[d].pid = ack.pid
  BY <1>3 DEF AckOwner
<1>8. d = o
  <2>1. mem[d].started /\ mem[o].started /\ o \in attached /\ mem[o].pid = mem[d].pid
    BY <1>1, <1>6, <1>7, BaseFacts DEF OnWire, AwaitingStarted
  <2> QED BY <1>4, <1>7, <2>1, WireIdentifiers
<1>9. ~Writing(d) /\ d \in Deliveries
  BY <1>6, <1>8 DEF OnWire
<1>10. \A e \in Deliveries : /\ Completing(e)' <=> e = d
                             /\ Writing(e)' <=> Writing(e)
  BY <1>2, <1>3 DEF Completing, Writing
<1>11. AttachedOwned' /\ QueueOwned' /\ WriterOwns' /\ RowHeld'
  <2>1. UNCHANGED <<mem, attached, callers, outq, rows, tx, gen>>
    BY <1>2, <1>3 DEF sessVars
  <2> QED BY <1>1, <1>10, <2>1 DEF AttachedOwned, QueueOwned, WriterOwns,
     RowHeld, Members, Distinct
<1>12. ReaderOwns'
  BY <1>3, <1>7, <1>9, <1>10 DEF ReaderOwns, sessVars
<1>13. \A e \in Deliveries : \A p : OnWire(e, p) /\ p # ack.pid => OnWire(e, p)'
  BY <1>3, <1>7, <1>10 DEF OnWire, sessVars
<1>14. WireOwned'
  <2>1. \A i \in DOMAIN toBroker : /\ toBroker[i].d \in Deliveries
                                   /\ OnWire(toBroker[i].d, toBroker[i].pid)
                                   /\ toBroker[i].pid # ack.pid
    BY <1>1, <1>5 DEF WireOwned, WireDistinct, OnWire
  <2>2. \A i \in DOMAIN toBroker : OnWire(toBroker[i].d, toBroker[i].pid)'
    BY <1>2, <1>13, <2>1 DEF OnWire
  <2>3. \A i \in DOMAIN toClient' : toClient'[i].pid # ack.pid
    BY <1>1, <1>5 DEF WireDistinct
  <2>4. \A i \in DOMAIN toClient' : \E e \in Deliveries :
            OnWire(e, toClient'[i].pid) /\ <<e, toClient'[i].ok>> \in answered
    BY <1>1, <1>5 DEF WireOwned
  <2>5. \A i \in DOMAIN toClient' : \E e \in Deliveries :
            OnWire(e, toClient[i].pid)' /\ <<e, toClient'[i].ok>> \in answered'
    <3> TAKE i \in DOMAIN toClient'
    <3>1. PICK e \in Deliveries :
              OnWire(e, toClient'[i].pid) /\ <<e, toClient'[i].ok>> \in answered
      BY <2>4
    <3>2. OnWire(e, toClient[i].pid)'
      BY <1>13, <2>3, <3>1 DEF OnWire
    <3> QED BY <1>2, <3>1, <3>2
  <2> QED BY <1>2, <2>2, <2>5 DEF WireOwned, OnWire
<1>15. WireDistinct'
  <2>1. \A i, j \in DOMAIN toClient' : toClient'[i].pid = toClient'[j].pid => i = j
    <3> SUFFICES ASSUME NEW i \in DOMAIN toClient', NEW j \in DOMAIN toClient',
                        toClient'[i].pid = toClient'[j].pid
                 PROVE  i = j
      OBVIOUS
    <3>1. i + 1 = j + 1
      BY <1>1, <1>5 DEF WireDistinct
    <3> QED BY <1>5, <3>1
  <2> QED BY <1>1, <1>2, <1>5, <2>1 DEF WireDistinct
<1>16. \A e \in Deliveries : Completing(e)' => <<e, reader'.flag>> \in answered
  BY <1>3, <1>6, <1>8, <1>10
<1> QED BY <1>11, <1>12, <1>14, <1>15, <1>16 DEF Held
-----------------------------------------------------------------------------
(* The row is gone: the delivery leaves the generation.                    *)
LEMMA AcknowledgedStep ==
    ASSUME Base, alive, ReaderAcknowledged
    PROVE  Held'
<1>0. PICK d \in Deliveries : d = tx.d
  BY BaseFacts, NoTxFacts DEF ReaderAcknowledged, Done
<1>1. /\ mem \in [Deliveries -> Record] /\ attached \subseteq Deliveries
      /\ AttachedOwned /\ QueueOwned /\ WriterOwns /\ ReaderOwns
      /\ WireOwned /\ WireDistinct /\ RowHeld
  BY BaseFacts DEF Held
<1>2. Completing(d)
  BY <1>0, BaseFacts DEF ReaderAcknowledged, Done, HolderOK, Completing
<1>3. d \in attached /\ mem[d].phase = "AwaitingAck" /\ ~Writing(d)
  BY <1>1, <1>2 DEF ReaderOwns
<1>4. /\ attached' = attached \ {d}
      /\ \A e \in Deliveries : e # d => mem'[e] = mem[e]
      /\ reader'.pc = "idle"
      /\ UNCHANGED <<rows, gen, outq, callers, writer, toBroker, toClient, answered>>
  <2>1. mem' = mem \/ \E r : mem' = [mem EXCEPT ![d] = r]
    BY <1>0 DEF ReaderAcknowledged
  <2>2. \A e \in Deliveries : e # d => mem'[e] = mem[e]
    BY <1>1, <2>1
  <2> QED BY <1>0, <2>2 DEF ReaderAcknowledged, dbVars, netVars, histVars,
     IdleTask
<1>5. \A e \in attached' : e # d /\ e \in attached /\ e \in Deliveries /\ mem'[e] = mem[e]
  BY <1>1, <1>4
<1>6. \A e \in Deliveries : ~Completing(e)' /\ (Writing(e)' <=> Writing(e))
  BY <1>4 DEF Completing, Writing
<1>7. AttachedOwned'
  BY <1>1, <1>4, <1>5 DEF AttachedOwned
<1>8. QueueOwned'
  <2>1. \A e \in callers \cup Members(outq) : e \in attached /\ mem[e].phase = "Queued"
    BY <1>1 DEF QueueOwned
  <2>2. \A e \in callers \cup Members(outq) : e \in attached' /\ mem'[e].phase = "Queued"
    BY <1>3, <1>4, <1>5, <2>1
  <2> QED BY <1>1, <1>4, <2>2 DEF QueueOwned, Members, Distinct
<1>9. WriterOwns'
  BY <1>1, <1>3, <1>4, <1>6 DEF WriterOwns, Members
<1>10. ReaderOwns'
  BY <1>6 DEF ReaderOwns
<1>11. \A e \in Deliveries : \A p : OnWire(e, p) => OnWire(e, p)'
  <2>1. \A e \in Deliveries : \A p : OnWire(e, p) => e # d
    BY <1>2 DEF OnWire
  <2> QED BY <1>4, <1>5, <1>6, <2>1 DEF OnWire
<1>12. WireOwned'
  <2>1. \A i \in DOMAIN toBroker : /\ toBroker[i].d \in Deliveries
                                   /\ OnWire(toBroker[i].d, toBroker[i].pid)
    BY <1>1 DEF WireOwned, OnWire
  <2>2. \A i \in DOMAIN toBroker : OnWire(toBroker[i].d, toBroker[i].pid)'
    BY <1>4, <1>11, <2>1 DEF OnWire
  <2>3. \A i \in DOMAIN toClient : \E e \in Deliveries :
            OnWire(e, toClient[i].pid)' /\ <<e, toClient[i].ok>> \in answered
    <3> TAKE i \in DOMAIN toClient
    <3>1. PICK e \in Deliveries :
              OnWire(e, toClient[i].pid) /\ <<e, toClient[i].ok>> \in answered
      BY <1>1 DEF WireOwned
    <3>2. OnWire(e, toClient[i].pid)'
      BY <1>4, <1>11, <3>1 DEF OnWire
    <3> QED BY <3>1, <3>2
  <2> QED BY <1>4, <2>2, <2>3 DEF WireOwned, OnWire
<1>13. WireDistinct'
  BY <1>1, <1>4 DEF WireDistinct
<1>14. RowHeld'
  BY <1>0, <1>1, <1>4, <1>5 DEF RowHeld
<1> QED BY <1>7, <1>8, <1>9, <1>10, <1>12, <1>13, <1>14 DEF Held

(* The broker answers what it received: the PUBACK has the delivery's      *)
(* owner and identifier.                                                   *)
LEMMA AnswersStep ==
    ASSUME Base, alive, BrokerAnswers
    PROVE  Held'
<1>1. /\ mem \in [Deliveries -> Record] /\ attached \subseteq Deliveries
      /\ AttachedOwned /\ QueueOwned /\ WriterOwns /\ ReaderOwns
      /\ WireOwned /\ WireDistinct /\ RowHeld
  BY BaseFacts DEF Held
<1>2. /\ toBroker \in Seq(Publish) /\ toBroker # <<>> /\ toClient \in Seq(Puback)
      /\ toBroker' = Tail(toBroker)
      /\ UNCHANGED <<rows, tx, mem, gen, attached, outq, callers, writer, reader>>
  BY BaseFacts DEF BrokerAnswers, TypeInv, TypeOK, NetTypeOK, dbVars, bookVars,
     sessVars, taskVars
<1>3. /\ Head(toBroker) = toBroker[1] /\ 1 \in DOMAIN toBroker
      /\ Head(toBroker) \in Publish
      /\ \A i \in DOMAIN toBroker' : toBroker'[i] = toBroker[i + 1]
      /\ \A i \in DOMAIN toBroker' : i + 1 \in DOMAIN toBroker /\ i + 1 # 1 /\ i \in Nat
  BY <1>2, SeqHead
<1>4. PICK ok \in BOOLEAN :
          /\ answered' = answered \cup {<<Head(toBroker).d, ok>>}
          /\ toClient' = Append(toClient, [pid |-> Head(toBroker).pid, ok |-> ok])
  BY DEF BrokerAnswers
<1> DEFINE b == Head(toBroker)
           a == [pid |-> b.pid, ok |-> ok]
<1>5. a \in Puback /\ a.pid = b.pid /\ a.ok = ok
  BY <1>3 DEF Publish, Puback
<1>6. b.d \in Deliveries /\ OnWire(b.d, b.pid)
  BY <1>1, <1>3 DEF WireOwned, OnWire
<1> HIDE DEF a, b
<1>7. /\ \A i \in DOMAIN toClient : i \in DOMAIN toClient' /\ toClient'[i] = toClient[i]
      /\ \A i \in DOMAIN toClient' :
             i \in DOMAIN toClient \/ (i = Len(toClient) + 1 /\ toClient'[i] = a)
  BY <1>2, <1>4, <1>5, SeqAppend DEF a, b
<1>8. \A d \in Deliveries : \A p : OnWire(d, p) => OnWire(d, p)'
  BY <1>2 DEF OnWire, Writing, Completing
<1>9. AttachedOwned' /\ QueueOwned' /\ WriterOwns' /\ ReaderOwns' /\ RowHeld'
  <2>1. AttachedOwned' /\ QueueOwned'
    BY <1>1, <1>2 DEF AttachedOwned, QueueOwned, Members, Distinct
  <2>2. WriterOwns' /\ ReaderOwns' /\ RowHeld'
    BY <1>1, <1>2 DEF WriterOwns, ReaderOwns, RowHeld, Writing, Completing,
       Members
  <2> QED BY <2>1, <2>2
<1>10. WireOwned'
  <2>1. \A i \in DOMAIN toBroker' : OnWire(toBroker[i].d, toBroker[i].pid)'
    <3> TAKE i \in DOMAIN toBroker'
    <3>1. /\ toBroker'[i].d \in Deliveries
          /\ OnWire(toBroker'[i].d, toBroker'[i].pid)
      BY <1>1, <1>3 DEF WireOwned, OnWire
    <3> QED BY <1>8, <3>1 DEF OnWire
  <2>2. \A i \in DOMAIN toClient' : \E d \in Deliveries :
            OnWire(d, toClient[i].pid)' /\ <<d, toClient'[i].ok>> \in answered'
    <3> TAKE i \in DOMAIN toClient'
    <3>1. PICK d \in Deliveries :
              OnWire(d, toClient'[i].pid) /\ <<d, toClient'[i].ok>> \in answered'
      <4>1. CASE i \in DOMAIN toClient
        BY <1>1, <1>4, <1>7, <4>1 DEF WireOwned
      <4>2. CASE toClient'[i] = a
        <5>1. <<b.d, ok>> \in answered'
          BY <1>4 DEF b
        <5> QED BY <1>5, <1>6, <4>2, <5>1
      <4> QED BY <1>7, <4>1, <4>2
    <3>2. OnWire(d, toClient[i].pid)'
      BY <1>8, <3>1 DEF OnWire
    <3> QED BY <3>1, <3>2
  <2> QED BY <2>1, <2>2 DEF WireOwned, OnWire
<1>11. WireDistinct'
  <2>1. \A i, j \in DOMAIN toBroker' : toBroker'[i].pid = toBroker'[j].pid => i = j
    <3> SUFFICES ASSUME NEW i \in DOMAIN toBroker', NEW j \in DOMAIN toBroker',
                        toBroker'[i].pid = toBroker'[j].pid
                 PROVE  i = j
      OBVIOUS
    <3>1. i + 1 = j + 1
      BY <1>1, <1>3 DEF WireDistinct
    <3> QED BY <1>3, <3>1
  <2>2. \A i \in DOMAIN toClient : toClient[i].pid # a.pid
    BY <1>1, <1>3, <1>5 DEF WireDistinct, b
  <2>3. \A i, j \in DOMAIN toClient' : toClient'[i].pid = toClient'[j].pid => i = j
    BY <1>1, <1>7, <2>2 DEF WireDistinct
  <2>4. \A i \in DOMAIN toBroker' : toBroker'[i].pid # a.pid
    BY <1>1, <1>3, <1>5 DEF WireDistinct, b
  <2>5. \A i \in DOMAIN toBroker', j \in DOMAIN toClient' :
            toBroker'[i].pid # toClient'[j].pid
    BY <1>1, <1>3, <1>7, <2>4 DEF WireDistinct
  <2> QED BY <2>1, <2>3, <2>5 DEF WireDistinct
<1> QED BY <1>9, <1>10, <1>11 DEF Held

(* A new generation starts with nothing attached.                          *)
LEMMA DialStep ==
    ASSUME Base, DialSucceeds
    PROVE  Held'
<1>1. writer.pc = "idle" /\ reader.pc = "idle"
  BY BaseFacts DEF DialSucceeds, TaskPlaces, Resting
<1>2. /\ attached' = {} /\ outq' = <<>> /\ callers' = {}
      /\ toBroker' = <<>> /\ toClient' = <<>>
      /\ writer'.pc = "idle" /\ reader'.pc = "idle"
  BY <1>1 DEF DialSucceeds, taskVars
<1>3. Members(outq') = {}
  BY <1>2, MembersEmpty
<1>4. DOMAIN toBroker' = {} /\ DOMAIN toClient' = {} /\ DOMAIN outq' = {}
  <2>1. DOMAIN <<>> = {}
    OBVIOUS
  <2> QED BY <1>2, <2>1
<1>5. AttachedOwned' /\ QueueOwned' /\ WriterOwns' /\ ReaderOwns' /\ RowHeld'
  <2>1. AttachedOwned' /\ RowHeld'
    BY <1>2 DEF AttachedOwned, RowHeld
  <2>2. QueueOwned'
    <3>1. \A d \in callers' \cup Members(outq') : d \in attached' /\ mem'[d].phase = "Queued"
      BY <1>2, <1>3
    <3> QED BY <1>2, <1>3, <1>4, <3>1 DEF QueueOwned, Distinct, Members
  <2>3. WriterOwns' /\ ReaderOwns'
    BY <1>2 DEF WriterOwns, ReaderOwns, Writing, Completing
  <2> QED BY <2>1, <2>2, <2>3
<1>6. WireOwned' /\ WireDistinct'
  BY <1>4 DEF WireOwned, WireDistinct
<1> QED BY <1>5, <1>6 DEF Held
-----------------------------------------------------------------------------
(* Of the table a step of the store changes one row, and only as the       *)
(* statement of the holder says.                                           *)
LEMMA CommitRow ==
    ASSUME Base, StoreCommits
    PROVE  /\ tx # NoTx /\ tx.res = "wait" /\ tx.d \in Deliveries
           /\ tx'.op = tx.op /\ tx'.d = tx.d /\ tx'.stmt = tx.stmt /\ tx'.gen = tx.gen
           /\ \/ tx'.res = "error" /\ UNCHANGED <<rows, nextSeq, admitted>>
              \/ /\ tx'.res = "ok" /\ Commits(tx.stmt, rows, tx.d, mem[tx.d].pid)
                 /\ rows'[tx.d] = RowAfter(tx.stmt, rows[tx.d], mem[tx.d].pid, nextSeq)
                 /\ \A e \in Deliveries : e # tx.d => rows'[e] = rows[e]
                 /\ nextSeq' = (IF tx.stmt = "insert" THEN nextSeq + 1 ELSE nextSeq)
                 /\ admitted' = (IF tx.stmt = "insert" THEN admitted \cup {tx.d}
                                                      ELSE admitted)
<1>1. TypeInv /\ rows \in [Deliveries -> Row]
  BY BaseFacts DEF TypeInv, TypeOK, DbTypeOK
<1>2. tx # NoTx /\ tx.res = "wait"
  BY <1>1, Fields DEF StoreCommits
<1>3. tx.d \in Deliveries
  BY <1>2, BaseFacts
<1>4. CASE tx' = [tx EXCEPT !.res = "error"] /\ UNCHANGED <<rows, nextSeq, admitted>>
  BY <1>1, <1>2, <1>3, <1>4, Fields
<1>5. CASE /\ Commits(tx.stmt, rows, tx.d, mem[tx.d].pid)
           /\ rows' = [rows EXCEPT ![tx.d] = RowAfter(tx.stmt, @, mem[tx.d].pid, nextSeq)]
           /\ nextSeq' = (IF tx.stmt = "insert" THEN nextSeq + 1 ELSE nextSeq)
           /\ admitted' = (IF tx.stmt = "insert" THEN admitted \cup {tx.d}
                                                  ELSE admitted)
           /\ tx' = [tx EXCEPT !.res = "ok"]
  <2>1. /\ rows'[tx.d] = RowAfter(tx.stmt, rows[tx.d], mem[tx.d].pid, nextSeq)
        /\ \A e \in Deliveries : e # tx.d => rows'[e] = rows[e]
    BY <1>1, <1>3, <1>5
  <2>2. /\ tx'.op = tx.op /\ tx'.d = tx.d /\ tx'.stmt = tx.stmt /\ tx'.res = "ok" /\ tx'.gen = tx.gen
    BY <1>1, <1>2, <1>5, Fields
  <2> QED BY <1>2, <1>3, <1>5, <2>1, <2>2
<1> QED BY <1>4, <1>5 DEF StoreCommits

(* The states a row can take, by the statement that commits.               *)
LEMMA RowAfterFacts ==
    ASSUME NEW row \in Row, NEW pid, NEW seq
    PROVE  /\ \A stmt \in {"attach", "mark", "check"} :
                 /\ RowAfter(stmt, row, pid, seq).state = row.state
                 /\ RowAfter(stmt, row, pid, seq).pid = row.pid
                 /\ RowAfter(stmt, row, pid, seq).seq = row.seq
                 /\ RowAfter(stmt, row, pid, seq).started <=>
                        (row.started \/ stmt = "mark")
                 /\ RowAfter(stmt, row, pid, seq).attempts =
                        row.attempts + (IF stmt = "attach" THEN 1 ELSE 0)
           /\ /\ RowAfter("insert", row, pid, seq).state = "pending"
              /\ RowAfter("insert", row, pid, seq).pid = pid
              /\ RowAfter("insert", row, pid, seq).seq = seq
              /\ RowAfter("insert", row, pid, seq).attempts = 0
              /\ ~RowAfter("insert", row, pid, seq).started
           /\ RowAfter("delete", row, pid, seq).state = "absent"
           /\ \A stmt \in {"quarantine", "expire"} :
                 LET r == RowAfter(stmt, row, pid, seq) IN
                 \/ /\ r.state = "blocked" /\ r.pid = row.pid /\ r.seq = row.seq
                    /\ r.attempts = row.attempts /\ r.started = row.started
                    /\ stmt = "expire" => row.started
                 \/ r.state = "absent" /\ ~row.started /\ stmt = "expire"
<1>1. /\ row.attempts \in Nat /\ row.started \in BOOLEAN
      /\ [row EXCEPT !.attempts = row.attempts + 1].state = row.state
      /\ [row EXCEPT !.attempts = row.attempts + 1].pid = row.pid
      /\ [row EXCEPT !.attempts = row.attempts + 1].seq = row.seq
      /\ [row EXCEPT !.attempts = row.attempts + 1].started = row.started
      /\ [row EXCEPT !.attempts = row.attempts + 1].attempts = row.attempts + 1
      /\ [row EXCEPT !.started = TRUE].state = row.state
      /\ [row EXCEPT !.started = TRUE].pid = row.pid
      /\ [row EXCEPT !.started = TRUE].seq = row.seq
      /\ [row EXCEPT !.started = TRUE].started = TRUE
      /\ [row EXCEPT !.started = TRUE].attempts = row.attempts
      /\ [row EXCEPT !.state = "blocked"].state = "blocked"
      /\ [row EXCEPT !.state = "blocked"].pid = row.pid
      /\ [row EXCEPT !.state = "blocked"].seq = row.seq
      /\ [row EXCEPT !.state = "blocked"].started = row.started
      /\ [row EXCEPT !.state = "blocked"].attempts = row.attempts
  BY DEF Row
<1>2. /\ RowAfter("attach", row, pid, seq) = [row EXCEPT !.attempts = row.attempts + 1]
      /\ RowAfter("mark", row, pid, seq) = [row EXCEPT !.started = TRUE]
      /\ RowAfter("check", row, pid, seq) = row
      /\ RowAfter("delete", row, pid, seq) = NoRow
      /\ RowAfter("quarantine", row, pid, seq) = [row EXCEPT !.state = "blocked"]
      /\ RowAfter("expire", row, pid, seq) =
            IF row.started THEN [row EXCEPT !.state = "blocked"] ELSE NoRow
      /\ RowAfter("insert", row, pid, seq) =
            [state |-> "pending", pid |-> pid, seq |-> seq, attempts |-> 0,
             started |-> FALSE]
  BY DEF RowAfter, ExpiredRow
<1>3. NoRow.state = "absent"
  BY DEF NoRow
<1>4. \A stmt \in {"attach", "mark", "check"} :
         /\ RowAfter(stmt, row, pid, seq).state = row.state
         /\ RowAfter(stmt, row, pid, seq).pid = row.pid
         /\ RowAfter(stmt, row, pid, seq).seq = row.seq
         /\ (RowAfter(stmt, row, pid, seq).started <=> row.started \/ stmt = "mark")
         /\ RowAfter(stmt, row, pid, seq).attempts =
                row.attempts + (IF stmt = "attach" THEN 1 ELSE 0)
  <2> TAKE stmt \in {"attach", "mark", "check"}
  <2>1. CASE stmt = "attach"
    BY <1>1, <1>2, <2>1
  <2>2. CASE stmt = "mark"
    <3>1. RowAfter(stmt, row, pid, seq) = [row EXCEPT !.started = TRUE]
      BY <1>2, <2>2
    <3>2. RowAfter(stmt, row, pid, seq).started = TRUE
      BY <1>1, <3>1
    <3>3. RowAfter(stmt, row, pid, seq).attempts = row.attempts + 0
      BY <1>1, <3>1
    <3> QED BY <1>1, <2>2, <3>1, <3>2, <3>3
  <2>3. CASE stmt = "check"
    BY <1>1, <1>2, <2>3
  <2> QED BY <2>1, <2>2, <2>3
<1>5. /\ RowAfter("insert", row, pid, seq).state = "pending"
      /\ RowAfter("insert", row, pid, seq).pid = pid
      /\ RowAfter("insert", row, pid, seq).seq = seq
      /\ RowAfter("insert", row, pid, seq).attempts = 0
      /\ ~RowAfter("insert", row, pid, seq).started
  BY <1>2
<1>6. RowAfter("delete", row, pid, seq).state = "absent"
  BY <1>2, <1>3
<1>7. \A stmt \in {"quarantine", "expire"} :
         LET r == RowAfter(stmt, row, pid, seq) IN
         \/ /\ r.state = "blocked" /\ r.pid = row.pid /\ r.seq = row.seq
            /\ r.attempts = row.attempts /\ r.started = row.started
            /\ stmt = "expire" => row.started
         \/ r.state = "absent" /\ ~row.started /\ stmt = "expire"
  <2>1. \/ /\ RowAfter("expire", row, pid, seq) = [row EXCEPT !.state = "blocked"]
           /\ row.started
        \/ RowAfter("expire", row, pid, seq) = NoRow /\ ~row.started
    BY <1>2
  <2> TAKE stmt \in {"quarantine", "expire"}
  <2>2. CASE stmt = "quarantine"
    BY <1>1, <1>2, <2>2
  <2>3. CASE stmt = "expire"
    BY <1>1, <1>3, <2>1, <2>3
  <2> QED BY <2>2, <2>3
<1> QED BY <1>4, <1>5, <1>6, <1>7

(* The row of an attached delivery stays.                                  *)
LEMMA RowHeldStep ==
    ASSUME Base, alive, StoreCommits
    PROVE  RowHeld'
<1>1. /\ RowHeld /\ attached \subseteq Deliveries /\ BookPlaces /\ StatementShapes
      /\ rows \in [Deliveries -> Row] /\ RowMarkedFirst
  BY BaseFacts DEF Held, TypeInv, TypeOK, DbTypeOK, CommitInv
<1>2. UNCHANGED <<mem, attached>>
  BY DEF StoreCommits, bookVars, sessVars
<1>3. tx.res = "wait" /\ tx'.d = tx.d /\ tx'.stmt = tx.stmt /\ tx'.op = tx.op /\ tx.d \in Deliveries
  BY CommitRow
<1>4. \A d \in attached : rows[d].state = "pending"
  BY <1>1, <1>3 DEF RowHeld
<1>5. CASE UNCHANGED rows
  BY <1>2, <1>4, <1>5 DEF RowHeld
<1>6. CASE rows' # rows
  <2> SUFFICES ASSUME NEW d \in attached
               PROVE  \/ rows'[d].state = "pending"
                      \/ /\ tx'.d = d /\ tx'.res = "ok"
                         /\ \/ tx'.op = "ack"
                            \/ /\ tx'.stmt \in {"expire", "quarantine"}
                               /\ rows'[d].state = "blocked" \/ ~mem[d].started
    BY <1>2 DEF RowHeld
  <2>1. /\ tx'.res = "ok"
        /\ rows'[tx.d] = RowAfter(tx.stmt, rows[tx.d], mem[tx.d].pid, nextSeq)
        /\ \A e \in Deliveries : e # tx.d => rows'[e] = rows[e]
    BY <1>6, CommitRow
  <2>2. CASE d # tx.d
    BY <1>1, <1>4, <2>1, <2>2
  <2>3. CASE d = tx.d
    <3>1. tx.op # "admit"
      BY <1>1, <2>3 DEF BookPlaces
    <3>2. tx.stmt \in Statement \ {"insert"}
      <4>1. tx \in Transition /\ tx # NoTx
        BY CommitRow, BaseFacts DEF TypeInv, TypeOK
      <4> QED BY <3>1, <4>1 DEF Transition
    <3>3. mem[d].started => rows[d].started
      BY <1>1, <1>4 DEF RowMarkedFirst
    <3>4. rows[d] \in Row
      BY <1>1
    <3>5. CASE tx.stmt \in {"attach", "mark", "check"}
      BY <1>4, <2>1, <2>3, <3>4, <3>5, RowAfterFacts
    <3>6. CASE tx.stmt = "delete"
      BY <1>1, <1>3, <2>1, <2>3, <3>6 DEF StatementShapes
    <3>7. CASE tx.stmt \in {"quarantine", "expire"}
      BY <1>3, <2>1, <2>3, <3>3, <3>4, <3>7, RowAfterFacts
    <3> QED BY <3>2, <3>5, <3>6, <3>7 DEF Statement
  <2> QED BY <2>2, <2>3
<1> QED BY <1>5, <1>6

(* Most actions are quiet.                                                 *)
LEMMA QuietActions ==
    ASSUME Base, alive, alive',
           \/ StoreCommits \/ StoreFaults
           \/ (\E d \in Deliveries : SubmitBegins(d))
           \/ (\E d \in Deliveries : CallerCancelled(d))
           \/ AdmissionCommitted
           \/ WriterEnters
           \/ WriterEntersLate
           \/ WriteReturns
           \/ ReaderEnters
           \/ (\E d \in Deliveries : WatcherSees(d))
           \/ WatcherEnters
           \/ SessionMarkedKnown
           \/ ReplaySkips
           \/ ReplayEnters
           \/ ReplayDone
           \/ ReplayRefused
           \/ BlockBegins
           \/ BlockContinues
           \/ ApplicationStops
           \/ (\E d \in Deliveries : DeadlinePasses(d))
           \/ (\E d \in Deliveries : MessageDeadlinePasses(d))
           \/ UNCHANGED vars
    PROVE  Quiet /\ RowHeld'
<1>1. /\ mem \in [Deliveries -> Record] /\ attached \subseteq Deliveries /\ TypeInv
      /\ RowHeld /\ HolderOK /\ BookPlaces /\ SessionPlaces
      /\ attached \cap (Deliveries \ admitted) = {}
      /\ tx # NoTx => tx.d \in Deliveries
  BY BaseFacts DEF Held
<1> USE DEF Quiet, Writing, Completing, dbVars, bookVars, sessVars, taskVars,
        supVars, netVars, envVars, histVars
<1>2. CASE StoreCommits
  BY <1>2, RowHeldStep DEF StoreCommits
<1>3. CASE StoreFaults
  BY <1>1, <1>3, Fields, TaskFields, RecordEdits
  DEF RowHeld, BookPlaces, SessionPlaces, HolderOK, StoreFaults, Abort,
     AbortWith, Begin, Release, Done, Failed
<1>4. CASE (\E d \in Deliveries : SubmitBegins(d))
  BY <1>1, <1>4, Fields, TaskFields, RecordEdits
  DEF RowHeld, BookPlaces, SessionPlaces, HolderOK, SubmitBegins, Abort,
     AbortWith, Begin, Release, Done, Failed, Ready
<1>5. CASE (\E d \in Deliveries : CallerCancelled(d))
  BY <1>1, <1>5, Fields, TaskFields, RecordEdits
  DEF RowHeld, BookPlaces, SessionPlaces, HolderOK, CallerCancelled, Abort,
     AbortWith, Begin, Release, Done, Failed
<1>6. CASE AdmissionCommitted
  BY <1>1, <1>6, Fields, TaskFields, RecordEdits
  DEF RowHeld, BookPlaces, SessionPlaces, HolderOK, AdmissionCommitted,
     Abort, AbortWith, Begin, Release, Done, Failed
<1>7. CASE WriterEnters
  BY <1>1, <1>7, Fields, TaskFields, RecordEdits
  DEF RowHeld, BookPlaces, SessionPlaces, HolderOK, WriterEnters, Abort,
     AbortWith, Begin, Release, Done, Failed, WriteStatement
<1>8. CASE WriterEntersLate
  BY <1>1, <1>8, Fields, TaskFields, RecordEdits
  DEF RowHeld, BookPlaces, SessionPlaces, HolderOK, WriterEntersLate, Abort,
     AbortWith, Begin, Release, Done, Failed
<1>9. CASE WriteReturns
  BY <1>1, <1>9, Fields, TaskFields, RecordEdits
  DEF RowHeld, BookPlaces, SessionPlaces, HolderOK, WriteReturns, Abort,
     AbortWith, Begin, Release, Done, Failed
<1>10. CASE ReaderEnters
  <2>1. /\ UNCHANGED <<rows, mem, attached, outq, callers, gen, toBroker, toClient, answered, writer>>
        /\ tx = NoTx /\ (reader'.pc = "idle" \/ reader'.d = reader.d) /\ reader.pc = "enter"
    <3>1. UNCHANGED <<rows, mem, attached, outq, callers, gen, toBroker,
    toClient, answered, writer>>
      BY <1>10 DEF ReaderEnters
    <3>2. tx = NoTx /\ reader.pc = "enter"
      BY <1>10 DEF ReaderEnters
    <3>3. reader' = IdleTask \/ reader' = [reader EXCEPT !.pc = "tx"]
      BY <1>10 DEF ReaderEnters
    <3>4. reader' = IdleTask => reader'.pc = "idle"
      BY <1>1, TaskFields
    <3>5. reader' = [reader EXCEPT !.pc = "tx"] => reader'.d = reader.d
      BY <1>1, TaskFields
    <3> QED BY <3>1, <3>2, <3>3, <3>4, <3>5
  <2>2. RowHeld'
    BY <1>1, <2>1, Fields DEF RowHeld
  <2> QED BY <2>1, <2>2
<1>11. CASE (\E d \in Deliveries : WatcherSees(d))
  BY <1>1, <1>11, Fields, TaskFields, RecordEdits
  DEF RowHeld, BookPlaces, SessionPlaces, HolderOK, WatcherSees, Abort,
     AbortWith, Begin, Release, Done, Failed
<1>12. CASE WatcherEnters
  BY <1>1, <1>12, Fields, TaskFields, RecordEdits
  DEF RowHeld, BookPlaces, SessionPlaces, HolderOK, WatcherEnters, Abort,
     AbortWith, Begin, Release, Done, Failed
<1>13. CASE SessionMarkedKnown
  BY <1>1, <1>13, Fields, TaskFields, RecordEdits
  DEF RowHeld, BookPlaces, SessionPlaces, HolderOK, SessionMarkedKnown,
     Abort, AbortWith, Begin, Release, Done, Failed
<1>14. CASE ReplaySkips
  BY <1>1, <1>14, Fields, TaskFields, RecordEdits
  DEF RowHeld, BookPlaces, SessionPlaces, HolderOK, ReplaySkips, Abort,
     AbortWith, Begin, Release, Done, Failed
<1>15. CASE ReplayEnters
  BY <1>1, <1>15, Fields, TaskFields, RecordEdits
  DEF RowHeld, BookPlaces, SessionPlaces, HolderOK, ReplayEnters, Abort,
     AbortWith, Begin, Release, Done, Failed, ReplayStatement
<1>16. CASE ReplayDone
  BY <1>1, <1>16, Fields, TaskFields, RecordEdits
  DEF RowHeld, BookPlaces, SessionPlaces, HolderOK, ReplayDone, Abort,
     AbortWith, Begin, Release, Done, Failed, Ready
<1>17. CASE ReplayRefused
  BY <1>1, <1>17, Fields, TaskFields, RecordEdits
  DEF RowHeld, BookPlaces, SessionPlaces, HolderOK, ReplayRefused, Abort,
     AbortWith, Begin, Release, Done, Failed
<1>18. CASE BlockBegins
  <2>1. sup = "refuse" /\ attached = {}
    BY <1>1, <1>18 DEF BlockBegins, SessionPlaces, Resting
  <2>2. ~BlockEnds(cause)
    BY <2>1 DEF BlockEnds, Abort, AbortWith
  <2>3. UNCHANGED <<mem, sessVars>>
    BY <1>18, <2>2 DEF BlockBegins, BlockNext
  <2> QED BY <1>18, <2>1, <2>3 DEF BlockBegins, RowHeld
<1>19. CASE BlockContinues
  <2>1. sup = "refuse" /\ attached = {}
    BY <1>1, <1>19, BaseFacts DEF BlockContinues, Done, HolderPlaces,
       SessionPlaces, Resting
  <2>2. ~BlockEnds(cause)
    BY <2>1 DEF BlockEnds, Abort, AbortWith
  <2>3. UNCHANGED <<mem, sessVars>>
    BY <1>19, <2>2 DEF BlockContinues, BlockNext
  <2> QED BY <1>19, <2>1, <2>3 DEF BlockContinues, RowHeld
<1>20. CASE ApplicationStops
  BY <1>1, <1>20, Fields, TaskFields, RecordEdits
  DEF RowHeld, BookPlaces, SessionPlaces, HolderOK, ApplicationStops, Abort,
     AbortWith, Begin, Release, Done, Failed
<1>21. CASE (\E d \in Deliveries : DeadlinePasses(d))
  BY <1>1, <1>21, Fields, TaskFields, RecordEdits
  DEF RowHeld, BookPlaces, SessionPlaces, HolderOK, DeadlinePasses, Abort,
     AbortWith, Begin, Release, Done, Failed
<1>22. CASE (\E d \in Deliveries : MessageDeadlinePasses(d))
  BY <1>1, <1>22, Fields, TaskFields, RecordEdits
  DEF RowHeld, BookPlaces, SessionPlaces, HolderOK, MessageDeadlinePasses,
     Abort, AbortWith, Begin, Release, Done, Failed
<1>u. CASE UNCHANGED vars
  BY <1>1, <1>u DEF vars, RowHeld
<1> QED BY <1>2, <1>3, <1>4, <1>5, <1>6, <1>7, <1>8, <1>9, <1>10, <1>11,
   <1>12, <1>13, <1>14, <1>15, <1>16, <1>17, <1>18, <1>19, <1>20, <1>21,
   <1>22, <1>u
-----------------------------------------------------------------------------
(* Attaching a delivery to the live generation, by its caller or by the    *)
(* replay.                                                                 *)
LEMMA AttachesStep ==
    ASSUME Base, alive, alive', AdmissionAttached \/ ReplayAttached
    PROVE  Held'
<1>1. /\ mem \in [Deliveries -> Record] /\ attached \subseteq Deliveries
      /\ TypeInv /\ RowHeld /\ StatementHeld /\ BookPlaces /\ HolderPlaces
      /\ todo \in Seq(Deliveries)
      /\ tx # NoTx => tx.d \in Deliveries
  BY BaseFacts DEF Held
<1>2. /\ tx.op \in {"admit", "replay"} /\ tx.res = "ok" /\ tx.stmt = "attach"
      /\ tx.d \in Deliveries
  BY <1>1, NoTxFacts DEF AdmissionAttached, ReplayAttached, Done
<1>3. rows[tx.d].state = "pending"
  BY <1>1, <1>2 DEF StatementHeld
<1>4. CASE AdmissionAttached /\ tx.gen = gen
  <2>1. tx.d \notin attached
    BY <1>1, <1>4 DEF BookPlaces, AdmissionAttached, Done
  <2>2. /\ mem' = Attach(mem, tx.d, gen)
        /\ attached' = attached \cup {tx.d} /\ callers' = callers \cup {tx.d}
        /\ outq' = outq /\ tx' = NoTx
        /\ UNCHANGED <<gen, rows, toBroker, toClient, writer, reader, answered>>
    BY <1>4 DEF AdmissionAttached, Release, dbVars, taskVars, netVars, histVars
  <2> QED BY <1>2, <1>3, <2>1, <2>2, AttachStep
<1>5. CASE AdmissionAttached /\ tx.gen # gen
  <2>1. tx.d \notin attached
    BY <1>1, <1>5 DEF BookPlaces, AdmissionAttached, Done
  <2>2. /\ mem' = Attach(mem, tx.d, tx.gen) /\ tx' = NoTx
        /\ UNCHANGED <<gen, rows, toBroker, toClient, writer, reader, answered,
                       attached, outq, callers>>
    BY <1>5 DEF AdmissionAttached, Release, dbVars, taskVars, netVars, histVars
  <2>3. \A e \in attached : mem'[e] = mem[e]
    BY <1>1, <1>2, <2>1, <2>2, RecordEdits
  <2>4. Quiet
    BY <2>2, <2>3 DEF Quiet, Writing, Completing
  <2>5. RowHeld'
    BY <1>1, <1>2, <2>2, <2>3 DEF RowHeld
  <2> QED BY <2>4, <2>5, QuietStep
<1>6. CASE ReplayAttached
  <2>1. sup = "replay" /\ todo # <<>> /\ tx.d = Head(todo)
    BY <1>1, <1>6 DEF HolderPlaces, ReplayAttached, Done
  <2>2. tx.d \notin attached
    <3>1. tx.d \in Members(todo)
      BY <1>1, <2>1, SeqHead DEF Members
    <3> QED BY <1>1, <2>1, <3>1 DEF BookPlaces
  <2>3. /\ mem' = Attach(mem, tx.d, gen)
        /\ attached' = attached \cup {tx.d} /\ outq' = Append(outq, tx.d)
        /\ UNCHANGED <<gen, callers>> /\ tx' = NoTx
        /\ UNCHANGED <<rows, toBroker, toClient, writer, reader, answered>>
    BY <1>6 DEF ReplayAttached, AbortWith, Release, dbVars, taskVars, netVars,
       histVars
  <2> QED BY <1>2, <1>3, <2>2, <2>3, AttachStep
<1> QED BY <1>4, <1>5, <1>6

(* The steps after which the session is dead: whoever aborts it, a dial    *)
(* that fails, the end of a generation, and everything done without one.   *)
Ends ==
    \/ AdmissionFailed
    \/ WriterExpired
    \/ WriterFailed
    \/ ReaderFailed
    \/ (\E d \in Deliveries : DeliveryTimesOut(d))
    \/ WatcherExpired
    \/ WatcherFailed
    \/ DialFails
    \/ ReplayExhausted
    \/ ReplayExpired
    \/ ReplayFailed
    \/ GenerationEnds
    \/ BlockFailed
    \/ Settle
    \/ SessionMarkFailed
    \/ ConnectionLost
    \/ BrokerForgets
    \/ StopCloses
    \/ ProcessEnds
    \/ ProcessOpens

(* A step after which the session is dead has emptied it.                  *)
LEMMA EndsLive ==
    ASSUME Base, Ends PROVE  ~alive'
<1>1. SessionPlaces /\ StatementShapes /\ HolderPlaces
  BY BaseFacts
<1>2. tx # NoTx => tx.op # "none"
  BY BaseFacts, HolderType
<1> USE DEF Abort, AbortWith, sessVars, SessionPlaces, HolderPlaces, Resting
<1>3. CASE AdmissionFailed
  BY <1>1, <1>2, <1>3 DEF AdmissionFailed, Done, Failed
<1>4. CASE WriterExpired
  BY <1>1, <1>2, <1>4 DEF WriterExpired, Done, Failed
<1>5. CASE WriterFailed
  BY <1>1, <1>2, <1>5 DEF WriterFailed, Done, Failed
<1>6. CASE ReaderFailed
  BY <1>1, <1>2, <1>6 DEF ReaderFailed, Done, Failed
<1>7. CASE (\E d \in Deliveries : DeliveryTimesOut(d))
  BY <1>1, <1>2, <1>7 DEF DeliveryTimesOut, Done, Failed
<1>8. CASE WatcherExpired
  BY <1>1, <1>2, <1>8 DEF WatcherExpired, Done, Failed
<1>9. CASE WatcherFailed
  BY <1>1, <1>2, <1>9 DEF WatcherFailed, Done, Failed
<1>10. CASE DialFails
  BY <1>1, <1>2, <1>10 DEF DialFails, Done, Failed
<1>11. CASE ReplayExhausted
  BY <1>1, <1>2, <1>11 DEF ReplayExhausted, Done, Failed
<1>12. CASE ReplayExpired
  BY <1>1, <1>2, <1>12 DEF ReplayExpired, Done, Failed
<1>13. CASE ReplayFailed
  BY <1>1, <1>2, <1>13 DEF ReplayFailed, Done, Failed
<1>14. CASE GenerationEnds
  BY <1>1, <1>2, <1>14 DEF GenerationEnds, Done, Failed, AfterGeneration
<1>15. CASE BlockFailed
  BY <1>1, <1>2, <1>15 DEF BlockFailed, Done, Failed, BlockEnds
<1>16. CASE Settle
  BY <1>1, <1>2, <1>16 DEF Settle, Done, Failed
<1>17. CASE SessionMarkFailed
  BY <1>1, <1>2, <1>17 DEF SessionMarkFailed, Done, Failed
<1>18. CASE ConnectionLost
  BY <1>1, <1>2, <1>18 DEF ConnectionLost, Done, Failed
<1>19. CASE BrokerForgets
  BY <1>1, <1>2, <1>19 DEF BrokerForgets, Done, Failed
<1>20. CASE StopCloses
  BY <1>1, <1>2, <1>20 DEF StopCloses, Done, Failed
<1>21. CASE ProcessEnds
  BY <1>1, <1>2, <1>21 DEF ProcessEnds, Done, Failed, Volatile
<1>22. CASE ProcessOpens
  BY <1>1, <1>2, <1>22 DEF ProcessOpens, Done, Failed
<1> QED BY <1>3, <1>4, <1>5, <1>6, <1>7, <1>8, <1>9, <1>10, <1>11, <1>12,
   <1>13, <1>14, <1>15, <1>16, <1>17, <1>18, <1>19, <1>20, <1>21, <1>22 DEF
   Ends

(* A dead session does not come back within its generation.                *)
LEMMA DeadStays ==
    ASSUME ~alive, alive', Next PROVE  DialSucceeds \/ Ends
BY DEF Next, Submitter, Writer, Reader, Watchdog, Supervisor, Replay,
   Environment, Ends, StoreCommits, StoreFaults, SubmitBegins,
   CallerCancelled, AdmissionCommitted, WriterEnters, WriterEntersLate,
   WriteReturns, ReaderEnters, WatcherSees, WatcherEnters,
   SessionMarkedKnown, ReplaySkips, ReplayEnters, ReplayDone, ReplayRefused,
   BlockBegins, BlockContinues, ApplicationStops, DeadlinePasses,
   MessageDeadlinePasses, AdmissionAttached, ReplayAttached, WriterTakes,
   WriterMayWrite, ReaderSeesAck, ReaderAcknowledged, BrokerAnswers,
   CallerEnqueues, Abort, AbortWith, BlockNext, BlockEnds, bookVars, sessVars

(* The exchange is preserved by every step.                                *)
LEMMA LiveStep ==
    ASSUME Base, [Next]_vars, alive'
    PROVE  Held'
<1>1. ~Ends
  BY EndsLive
<1>2. CASE ~alive
  <2>1. Next
    BY <1>2 DEF vars, sessVars
  <2> QED BY <1>1, <1>2, <2>1, DeadStays, DialStep
<1>3. CASE alive
  <2>1. CASE DialSucceeds
    BY <2>1, DialStep
  <2>2. CASE AdmissionAttached \/ ReplayAttached
    BY <1>3, <2>2, AttachesStep
  <2>3. CASE \E d \in Deliveries : CallerEnqueues(d)
    BY <1>3, <2>3, EnqueueStep
  <2>4. CASE WriterTakes
    BY <1>3, <2>4, TakeStep
  <2>5. CASE WriterMayWrite
    BY <1>3, <2>5, MayWriteStep
  <2>6. CASE ReaderSeesAck
    BY <1>3, <2>6, SeesAckStep
  <2>7. CASE ReaderAcknowledged
    BY <1>3, <2>7, AcknowledgedStep
  <2>8. CASE BrokerAnswers
    BY <1>3, <2>8, AnswersStep
  <2>9. CASE \/ StoreCommits
             \/ StoreFaults
             \/ (\E d \in Deliveries : SubmitBegins(d))
             \/ (\E d \in Deliveries : CallerCancelled(d))
             \/ AdmissionCommitted
             \/ WriterEnters
             \/ WriterEntersLate
             \/ WriteReturns
             \/ ReaderEnters
             \/ (\E d \in Deliveries : WatcherSees(d))
             \/ WatcherEnters
             \/ SessionMarkedKnown
             \/ ReplaySkips
             \/ ReplayEnters
             \/ ReplayDone
             \/ ReplayRefused
             \/ BlockBegins
             \/ BlockContinues
             \/ ApplicationStops
             \/ (\E d \in Deliveries : DeadlinePasses(d))
             \/ (\E d \in Deliveries : MessageDeadlinePasses(d))
             \/ UNCHANGED vars
    BY <1>3, <2>9, QuietActions, QuietStep
  <2> QED
    BY <1>1, <2>1, <2>2, <2>3, <2>4, <2>5, <2>6, <2>7, <2>8, <2>9
    DEF Next, Submitter, Writer, Reader, Watchdog, Supervisor, Replay,
        Environment, Ends
<1> QED BY <1>2, <1>3
-----------------------------------------------------------------------------
(* What a step does to the records: nothing, the end of the session, that  *)
(* with one record ended first, or the step is one of ten.                 *)
RecordChange ==
    \/ UNCHANGED mem
    \/ \E c : AbortWith(c, mem, attached)
    \/ /\ tx.res = "ok" /\ tx.stmt \in {"expire", "quarantine"}
       /\ \E c : AbortWith(c, FinishTerminal(mem, tx.d), attached)
    \/ (\E d \in Deliveries : SubmitBegins(d)) \/ AdmissionCommitted
    \/ AdmissionAttached \/ AdmissionFailed \/ WriterMayWrite
    \/ ReaderAcknowledged \/ ReplayAttached \/ Settle \/ ProcessEnds
    \/ ProcessOpens

(* By cases over the actions.                                              *)
LEMMA RecordChanges ==
    ASSUME [Next]_vars PROVE  RecordChange
<1> USE DEF bookVars
<1>1. CASE StoreCommits \/ StoreFaults
  BY <1>1 DEF StoreCommits, StoreFaults, RecordChange
<1>2. CASE Submitter
  BY <1>2 DEF Submitter, CallerEnqueues, CallerCancelled, RecordChange
<1>3. CASE Writer
  BY <1>3 DEF Writer, WriterTakes, WriterEnters, WriterEntersLate,
     WriterExpired, WriterFailed, WriteReturns, Abort, Done, RecordChange
<1>4. CASE Reader
  BY <1>4 DEF Reader, ReaderSeesAck, ReaderEnters, ReaderFailed, Abort,
     RecordChange
<1>5. CASE Watchdog
  BY <1>5 DEF Watchdog, DeliveryTimesOut, WatcherSees, WatcherEnters,
     WatcherExpired, WatcherFailed, Abort, Done, RecordChange
<1>6. CASE Replay
  BY <1>6 DEF Replay, ReplaySkips, ReplayExhausted, ReplayEnters,
     ReplayExpired, ReplayFailed, ReplayDone, ReplayRefused, Abort, Done,
     RecordChange
<1>7. CASE Supervisor /\ ~Replay
  BY <1>7 DEF Supervisor, DialSucceeds, DialFails, SessionMarkedKnown,
     GenerationEnds, BlockBegins, BlockContinues, BlockFailed, BlockNext,
     BlockEnds, SessionMarkFailed, Abort, RecordChange
<1>8. CASE Environment /\ ~StoreFaults
  BY <1>8 DEF Environment, ConnectionLost, BrokerAnswers, BrokerForgets,
     DeadlinePasses, MessageDeadlinePasses, ApplicationStops, StopCloses,
     Abort, RecordChange
<1>9. CASE UNCHANGED vars
  BY <1>9 DEF vars, RecordChange
<1> QED BY <1>1, <1>2, <1>3, <1>4, <1>5, <1>6, <1>7, <1>8, <1>9 DEF Next

(* Only two steps change the table.                                        *)
LEMMA TableChanges ==
    ASSUME [Next]_vars PROVE  StoreCommits \/ ProcessOpens \/ UNCHANGED rows
<1> USE DEF dbVars
<1>1. CASE StoreFaults
  BY <1>1 DEF StoreFaults
<1>2. CASE Submitter
  BY <1>2 DEF Submitter, SubmitBegins, CallerEnqueues, CallerCancelled,
     AdmissionCommitted, AdmissionAttached, AdmissionFailed
<1>3. CASE Writer
  BY <1>3 DEF Writer, WriterTakes, WriterEnters, WriterMayWrite,
     WriterEntersLate, WriterExpired, WriterFailed, WriteReturns
<1>4. CASE Reader
  BY <1>4 DEF Reader, ReaderSeesAck, ReaderEnters, ReaderAcknowledged,
     ReaderFailed
<1>5. CASE Watchdog
  BY <1>5 DEF Watchdog, DeliveryTimesOut, WatcherSees, WatcherEnters,
     WatcherExpired, WatcherFailed
<1>6. CASE Replay
  BY <1>6 DEF Replay, ReplaySkips, ReplayExhausted, ReplayEnters,
     ReplayAttached, ReplayExpired, ReplayFailed, ReplayDone, ReplayRefused
<1>7. CASE Supervisor /\ ~Replay
  BY <1>7 DEF Supervisor, DialSucceeds, DialFails, SessionMarkedKnown,
     GenerationEnds, BlockBegins, BlockContinues, BlockFailed, Settle,
     SessionMarkFailed
<1>8. CASE Environment /\ ~StoreFaults /\ ~ProcessOpens
  BY <1>8 DEF Environment, ConnectionLost, BrokerAnswers, BrokerForgets,
     DeadlinePasses, MessageDeadlinePasses, ApplicationStops, StopCloses,
     ProcessEnds
<1>9. CASE UNCHANGED vars
  BY <1>9 DEF vars
<1> QED BY <1>1, <1>2, <1>3, <1>4, <1>5, <1>6, <1>7, <1>8, <1>9
        DEF Next, Environment

(* The sweep keeps the identifier of every row it leaves.                  *)
LEMMA SweptFacts ==
    ASSUME NEW table \in [Deliveries -> Row], NEW L, NEW d \in Deliveries
    PROVE  \/ Swept(table, L)[d] = table[d]
              /\ (d \notin L \/ table[d].state # "pending")
           \/ /\ table[d].state = "pending" /\ d \in L
              /\ \/ /\ Swept(table, L)[d].state = "blocked"
                    /\ Swept(table, L)[d].pid = table[d].pid
                    /\ Swept(table, L)[d].seq = table[d].seq
                    /\ Swept(table, L)[d].attempts = table[d].attempts
                    /\ table[d].started /\ Swept(table, L)[d].started
                 \/ Swept(table, L)[d].state = "absent" /\ ~table[d].started
<1>1. table[d] \in Row
  OBVIOUS
<1>2. CASE d \in L /\ table[d].state = "pending"
  <2>1. Swept(table, L)[d] = ExpiredRow(table[d])
    BY <1>2 DEF Swept
  <2>2. ExpiredRow(table[d]) = RowAfter("expire", table[d], 0, 0)
    BY DEF RowAfter
  <2> QED BY <1>1, <1>2, <2>1, <2>2, RowAfterFacts
<1>3. CASE ~(d \in L /\ table[d].state = "pending")
  BY <1>3 DEF Swept
<1> QED BY <1>2, <1>3

(* The identifiers in the table stay unique.                               *)
LEMMA RowsDistinctStep ==
    ASSUME Base, [Next]_vars PROVE  RowsDistinct'
<1>1. RowsDistinct /\ rows \in [Deliveries -> Row] /\ TypeInv
  BY BaseFacts DEF TypeInv, TypeOK, DbTypeOK
<1>2. CASE UNCHANGED rows
  BY <1>1, <1>2 DEF RowsDistinct, Present
<1>3. CASE \A d \in Present(rows') : d \in Present(rows) /\ rows'[d].pid = rows[d].pid
  BY <1>1, <1>3 DEF RowsDistinct, Present
<1>4. CASE StoreCommits /\ rows' # rows
  <2>1. /\ tx.d \in Deliveries /\ Commits(tx.stmt, rows, tx.d, mem[tx.d].pid)
        /\ rows'[tx.d] = RowAfter(tx.stmt, rows[tx.d], mem[tx.d].pid, nextSeq)
        /\ \A e \in Deliveries : e # tx.d => rows'[e] = rows[e]
        /\ rows[tx.d] \in Row
    BY <1>1, <1>4, CommitRow
  <2>2. tx.stmt \in Statement
    <3>1. tx \in Transition /\ tx # NoTx
      BY <1>1, <1>4, CommitRow DEF TypeInv, TypeOK
    <3> QED BY <3>1 DEF Transition, Statement
  <2>3. CASE tx.stmt = "insert"
    <3>1. \A e \in Present(rows) : rows[e].pid # mem[tx.d].pid
      BY <2>1, <2>3 DEF Commits
    <3>2. rows'[tx.d].pid = mem[tx.d].pid
      BY <2>1, <2>3, RowAfterFacts
    <3>3. \A e \in Present(rows') : e # tx.d => e \in Present(rows) /\ rows'[e].pid = rows[e].pid
      BY <2>1 DEF Present
    <3> QED BY <1>1, <3>1, <3>2, <3>3 DEF RowsDistinct, Present
  <2>4. CASE tx.stmt # "insert"
    <3>1. rows[tx.d].state # "absent"
      BY <2>1, <2>2, <2>4 DEF Commits, Statement
    <3>2. rows'[tx.d].state = "absent" \/ rows'[tx.d].pid = rows[tx.d].pid
      BY <2>1, <2>2, <2>4, RowAfterFacts DEF Statement
    <3> QED BY <1>3, <2>1, <3>1, <3>2 DEF Present
  <2> QED BY <2>3, <2>4
<1>5. CASE ProcessOpens
  <2>1. rows' = Swept(rows, late)
    BY <1>5 DEF ProcessOpens
  <2>2. \A d \in Present(rows') : d \in Present(rows) /\ rows'[d].pid = rows[d].pid
    BY <1>1, <2>1, SweptFacts DEF Present
  <2> QED BY <1>3, <2>2
<1> QED BY <1>2, <1>4, <1>5, TableChanges

(* How the phase of a record moves.                                        *)
Moved(m, n, d) ==
    \/ n[d].phase = m[d].phase /\ (m[d].started => n[d].started)
    \/ n[d].phase \notin {"AwaitingAck", "Acknowledged", "Rejected"}
    \/ n[d].phase = "AwaitingAck" /\ n[d].started

(* The end of a session moves no record but to waiting for the next one.   *)
LEMMA AbortMoves ==
    ASSUME NEW m \in [Deliveries -> Record], NEW S, NEW c, AbortWith(c, m, S),
           NEW d \in Deliveries, Moved(mem, m, d)
    PROVE  Moved(mem, mem', d)
<1>1. mem' = m \/ mem' = Detached(m, S)
  BY DEF AbortWith
<1>2. \/ Detached(m, S)[d] = m[d]
      \/ Detached(m, S)[d].phase = "AwaitingReconnect"
  BY DetachedRecords
<1> QED BY <1>1, <1>2 DEF Moved

(* How the phases move in a step.                                          *)
LEMMA PhasesMove ==
    ASSUME Base, [Next]_vars, ~ReaderAcknowledged, NEW d \in Deliveries
    PROVE  Moved(mem, mem', d)
<1>1. /\ mem \in [Deliveries -> Record] /\ TypeInv
      /\ tx # NoTx => tx.d \in Deliveries
  BY BaseFacts
<1>2. CASE UNCHANGED mem
  BY <1>2 DEF Moved
<1>3. CASE \E c : AbortWith(c, mem, attached)
  <2>1. Moved(mem, mem, d)
    BY DEF Moved
  <2> QED BY <1>1, <1>3, <2>1, AbortMoves
<1>4. CASE /\ tx.res = "ok" /\ tx.stmt \in {"expire", "quarantine"}
           /\ \E c : AbortWith(c, FinishTerminal(mem, tx.d), attached)
  <2>1. tx.d \in Deliveries
    BY <1>1, <1>4, NoTxFacts
  <2>2. /\ FinishTerminal(mem, tx.d) \in [Deliveries -> Record]
        /\ Moved(mem, FinishTerminal(mem, tx.d), d)
    <3> DEFINE m == FinishTerminal(mem, tx.d)
    <3>1. m \in [Deliveries -> Record]
      BY <1>1, <2>1, MemType
    <3>2. /\ m[tx.d].phase \in TerminalPhase
          /\ m[tx.d].started = mem[tx.d].started
          /\ m[tx.d].phase # mem[tx.d].phase =>
                m[tx.d].phase \in {"Unknown", "NotSent"}
          /\ \A e \in Deliveries : e # tx.d => m[e] = mem[e]
      BY <1>1, <2>1, EndedRecord
    <3> HIDE DEF m
    <3>3. Moved(mem, m, d)
      BY <3>2 DEF Moved
    <3> QED BY <3>1, <3>3 DEF m
  <2> QED BY <1>4, <2>2, AbortMoves
<1>5. CASE \E e \in Deliveries : SubmitBegins(e)
  <2>1. PICK e \in Deliveries : \E id : mem' = [mem EXCEPT ![e].pid = id]
    BY <1>5 DEF SubmitBegins
  <2> QED BY <1>1, <2>1, RecordEdits DEF Moved
<1>6. CASE AdmissionCommitted
  <2>1. tx.d \in Deliveries
    BY <1>1, <1>6, NoTxFacts DEF AdmissionCommitted, Done
  <2>2. \E p \in {"Queued", "AwaitingReconnect"} : mem' = [mem EXCEPT ![tx.d].phase = p]
    BY <1>6 DEF AdmissionCommitted
  <2> QED BY <1>1, <2>1, <2>2, RecordEdits DEF Moved
<1>7. CASE AdmissionAttached
  <2>1. tx.d \in Deliveries
    BY <1>1, <1>7, NoTxFacts DEF AdmissionAttached, Done
  <2>2. mem' = Attach(mem, tx.d, tx.gen)
    BY <1>7 DEF AdmissionAttached
  <2> QED BY <1>1, <2>1, <2>2, RecordEdits DEF Moved
<1>8. CASE AdmissionFailed
  <2>1. tx.d \in Deliveries
    BY <1>1, <1>8, NoTxFacts DEF AdmissionFailed, Failed
  <2>2. PICK m \in {mem, [mem EXCEPT ![tx.d].pid = 0]} : AbortWith("storage", m, attached)
    BY <1>8 DEF AdmissionFailed, Abort
  <2>3. [mem EXCEPT ![tx.d].pid = 0] \in [Deliveries -> Record]
    BY <1>1, <2>1, RecordUpdates, Constants
  <2>4. Moved(mem, [mem EXCEPT ![tx.d].pid = 0], d) /\ Moved(mem, mem, d)
    BY <1>1, <2>1, RecordEdits DEF Moved
  <2> QED BY <1>1, <2>2, <2>3, <2>4, AbortMoves
<1>9. CASE WriterMayWrite
  <2>1. tx.d \in Deliveries
    BY <1>1, <1>9, NoTxFacts DEF WriterMayWrite, Done
  <2>2. MarkStarted(mem, tx.d) \in [Deliveries -> Record]
    BY <1>1, <2>1, MemType
  <2>4. Moved(mem, MarkStarted(mem, tx.d), d)
    <3>1. CASE d = tx.d
      BY <1>1, <2>1, <3>1, RecordEdits DEF Moved
    <3>2. CASE d # tx.d
      BY <1>1, <2>1, <3>2, RecordEdits DEF Moved
    <3> QED BY <3>1, <3>2
  <2>3. \/ mem' = MarkStarted(mem, tx.d)
        \/ AbortWith("rejected", MarkStarted(mem, tx.d), attached)
        \/ mem' = mem
    BY <1>9 DEF WriterMayWrite, Abort
  <2> QED BY <1>2, <2>2, <2>3, <2>4, AbortMoves
<1>10. CASE ReplayAttached
  <2>1. tx.d \in Deliveries
    BY <1>1, <1>10, NoTxFacts DEF ReplayAttached, Done
  <2>2. Attach(mem, tx.d, gen) \in [Deliveries -> Record]
    BY <1>1, <2>1, MemType DEF TypeInv, TypeOK, SessTypeOK
  <2>4. Moved(mem, Attach(mem, tx.d, gen), d)
    BY <1>1, <2>1, RecordEdits DEF Moved
  <2>3. \/ mem' = Attach(mem, tx.d, gen)
        \/ \E c : AbortWith(c, Attach(mem, tx.d, gen), attached \cup {tx.d})
    BY <1>10 DEF ReplayAttached
  <2> QED BY <2>2, <2>3, <2>4, AbortMoves
<1>11. CASE Settle
  <2>1. mem'[d] = FinishTerminal(mem, d)[d] \/ mem'[d] = mem[d]
    BY <1>11 DEF Settle
  <2> QED BY <1>1, <2>1, EndedRecord DEF Moved
<1>12. CASE ProcessEnds
  BY <1>12 DEF ProcessEnds, Moved, NoRecord
<1>13. CASE ProcessOpens
  <2>1. mem'[d] = mem[d] \/ mem'[d] = RecoveredRecord(rows'[d])
    BY <1>13 DEF ProcessOpens
  <2>2. RecoveredRecord(rows'[d]).phase \in {"AwaitingReconnect", "none"}
    BY DEF RecoveredRecord, NoRecord
  <2> QED BY <2>1, <2>2 DEF Moved
<1> QED BY <1>2, <1>3, <1>4, <1>5, <1>6, <1>7, <1>8, <1>9, <1>10, <1>11,
           <1>12, <1>13, RecordChanges DEF RecordChange

(* The row is gone: the handle has the broker's verdict, and no other      *)
(* record moves.                                                           *)
LEMMA VerdictFacts ==
    ASSUME Base, ReaderAcknowledged
    PROVE  /\ tx.d \in Deliveries /\ tx.op = "ack" /\ tx.res = "ok"
           /\ reader.pc = "tx" /\ reader.d = tx.d
           /\ mem'[tx.d].phase =
                  IF Terminal(mem, tx.d) THEN mem[tx.d].phase
                  ELSE IF reader.flag THEN "Acknowledged" ELSE "Rejected"
           /\ mem'[tx.d].started = mem[tx.d].started
           /\ mem'[tx.d].pid = mem[tx.d].pid
           /\ mem'[tx.d].attempts = mem[tx.d].attempts
           /\ \A e \in Deliveries : e # tx.d => mem'[e] = mem[e]
<1>1. /\ mem \in [Deliveries -> Record] /\ HolderOK
      /\ tx # NoTx => tx.d \in Deliveries
  BY BaseFacts
<1>2. tx.op = "ack" /\ tx.res = "ok" /\ tx.d \in Deliveries
  BY <1>1, NoTxFacts DEF ReaderAcknowledged, Done
<1>3. reader.pc = "tx" /\ reader.d = tx.d
  BY <1>1, <1>2 DEF HolderOK
<1>4. mem[tx.d] \in Record
  BY <1>1, <1>2
<1>5. CASE Terminal(mem, tx.d)
  BY <1>2, <1>3, <1>5 DEF ReaderAcknowledged
<1>6. CASE ~Terminal(mem, tx.d) /\ reader.flag
  <2>1. mem' = [mem EXCEPT ![tx.d].phase = "Acknowledged"]
    BY <1>6 DEF ReaderAcknowledged
  <2> QED BY <1>1, <1>2, <1>3, <1>6, <2>1, RecordEdits
<1>7. CASE ~Terminal(mem, tx.d) /\ ~reader.flag
  <2>1. mem' = [mem EXCEPT ![tx.d] = [mem[tx.d] EXCEPT !.phase = "Rejected", !.gen = 0]]
    BY <1>7 DEF ReaderAcknowledged
  <2> DEFINE r == [mem[tx.d] EXCEPT !.phase = "Rejected", !.gen = 0]
  <2>2. /\ r.phase = "Rejected" /\ r.started = mem[tx.d].started
        /\ r.pid = mem[tx.d].pid /\ r.attempts = mem[tx.d].attempts
    BY <1>4 DEF Record
  <2> HIDE DEF r
  <2>3. mem'[tx.d] = r /\ \A e \in Deliveries : e # tx.d => mem'[e] = mem[e]
    BY <1>1, <1>2, <2>1 DEF r
  <2> QED BY <1>2, <1>3, <1>7, <2>2, <2>3
<1> QED BY <1>5, <1>6, <1>7

(* No record awaits an answer without a possible write.                    *)
LEMMA AwaitingStartedStep ==
    ASSUME Base, [Next]_vars PROVE  AwaitingStarted'
<1>1. AwaitingStarted
  BY BaseFacts
<1> SUFFICES ASSUME NEW d \in Deliveries, mem'[d].phase = "AwaitingAck"
             PROVE  mem'[d].started
  BY DEF AwaitingStarted
<1>2. CASE ReaderAcknowledged
  <2>1. d # tx.d \/ Terminal(mem, tx.d)
    BY <1>2, VerdictFacts
  <2> QED BY <1>1, <1>2, <2>1, VerdictFacts DEF AwaitingStarted, Terminal
<1>3. CASE ~ReaderAcknowledged
  BY <1>1, <1>3, PhasesMove DEF Moved, AwaitingStarted
<1> QED BY <1>2, <1>3
-----------------------------------------------------------------------------
(* What a step does to the gate.                                           *)
GateChange ==
    \/ tx' = tx \/ tx' = NoTx
    \/ tx.res = "wait" /\ tx' = [tx EXCEPT !.res = "error"]
    \/ tx'.res = "wait" /\ tx'.op \in {"write", "watch", "replay", "block"}
    \/ StoreCommits \/ AdmissionCommitted \/ ReaderEnters
    \/ \E d \in Deliveries : SubmitBegins(d)

(* By cases over the actions.                                              *)
LEMMA GateChanges ==
    ASSUME Base, [Next]_vars PROVE  GateChange
<1> USE DEF Release, Begin, GateChange
<1>1. CASE StoreCommits \/ StoreFaults
  BY <1>1 DEF StoreCommits, StoreFaults
<1>2. CASE Submitter
  BY <1>2 DEF Submitter, CallerEnqueues, CallerCancelled, AdmissionAttached,
     AdmissionFailed
<1>3. CASE Writer
  BY <1>3 DEF Writer, WriterTakes, WriterEnters, WriterMayWrite,
     WriterEntersLate, WriterExpired, WriterFailed, WriteReturns
<1>4. CASE Reader
  BY <1>4 DEF Reader, ReaderSeesAck, ReaderAcknowledged, ReaderFailed
<1>5. CASE Watchdog
  BY <1>5 DEF Watchdog, DeliveryTimesOut, WatcherSees, WatcherEnters,
     WatcherExpired, WatcherFailed
<1>6. CASE Replay
  BY <1>6 DEF Replay, ReplaySkips, ReplayExhausted, ReplayEnters,
     ReplayAttached, ReplayExpired, ReplayFailed, ReplayDone, ReplayRefused
<1>7. CASE Supervisor /\ ~Replay
  BY <1>7 DEF Supervisor, DialSucceeds, DialFails, SessionMarkedKnown,
     GenerationEnds, BlockBegins, BlockContinues, BlockFailed, BlockNext,
     Settle, SessionMarkFailed
<1>8. CASE Environment /\ ~StoreFaults
  BY <1>8 DEF Environment, ConnectionLost, BrokerAnswers, BrokerForgets,
     DeadlinePasses, MessageDeadlinePasses, ApplicationStops, StopCloses,
     ProcessEnds, ProcessOpens, Volatile
<1>9. CASE UNCHANGED vars
  BY <1>9 DEF vars
<1> QED BY <1>1, <1>2, <1>3, <1>4, <1>5, <1>6, <1>7, <1>8, <1>9 DEF Next

(* History is never forgotten.                                             *)
LEMMA HistoryGrows ==
    ASSUME [Next]_vars
    PROVE  admitted \subseteq admitted' /\ sent \subseteq sent' /\ answered \subseteq answered'
<1> USE DEF histVars
<1>1. CASE StoreCommits \/ StoreFaults
  BY <1>1 DEF StoreCommits, StoreFaults
<1>2. CASE Submitter
  BY <1>2 DEF Submitter, SubmitBegins, CallerEnqueues, CallerCancelled,
     AdmissionCommitted, AdmissionAttached, AdmissionFailed
<1>3. CASE Writer
  BY <1>3 DEF Writer, WriterTakes, WriterEnters, WriterMayWrite,
     WriterEntersLate, WriterExpired, WriterFailed, WriteReturns
<1>4. CASE Reader
  BY <1>4 DEF Reader, ReaderSeesAck, ReaderEnters, ReaderAcknowledged,
     ReaderFailed
<1>5. CASE Watchdog
  BY <1>5 DEF Watchdog, DeliveryTimesOut, WatcherSees, WatcherEnters,
     WatcherExpired, WatcherFailed
<1>6. CASE Replay
  BY <1>6 DEF Replay, ReplaySkips, ReplayExhausted, ReplayEnters,
     ReplayAttached, ReplayExpired, ReplayFailed, ReplayDone, ReplayRefused
<1>7. CASE Supervisor /\ ~Replay
  BY <1>7 DEF Supervisor, DialSucceeds, DialFails, SessionMarkedKnown,
     GenerationEnds, BlockBegins, BlockContinues, BlockFailed, Settle,
     SessionMarkFailed
<1>8. CASE Environment /\ ~StoreFaults
  BY <1>8 DEF Environment, ConnectionLost, BrokerAnswers, BrokerForgets,
     DeadlinePasses, MessageDeadlinePasses, ApplicationStops, StopCloses,
     ProcessEnds, ProcessOpens
<1>9. CASE UNCHANGED vars
  BY <1>9 DEF vars
<1> QED BY <1>1, <1>2, <1>3, <1>4, <1>5, <1>6, <1>7, <1>8, <1>9 DEF Next

(* What a step does to the reader.                                         *)
LEMMA ReaderChanges ==
    ASSUME [Next]_vars
    PROVE  \/ UNCHANGED reader \/ reader'.pc = "idle"
           \/ ReaderSeesAck \/ ReaderEnters
<1> USE DEF taskVars, IdleTask
<1>1. CASE StoreCommits \/ StoreFaults
  BY <1>1 DEF StoreCommits, StoreFaults
<1>2. CASE Submitter
  BY <1>2 DEF Submitter, SubmitBegins, CallerEnqueues, CallerCancelled,
     AdmissionCommitted, AdmissionAttached, AdmissionFailed
<1>3. CASE Writer
  BY <1>3 DEF Writer, WriterTakes, WriterEnters, WriterMayWrite,
     WriterEntersLate, WriterExpired, WriterFailed, WriteReturns
<1>4. CASE Reader
  BY <1>4 DEF Reader, ReaderAcknowledged, ReaderFailed
<1>5. CASE Watchdog
  BY <1>5 DEF Watchdog, DeliveryTimesOut, WatcherSees, WatcherEnters,
     WatcherExpired, WatcherFailed
<1>6. CASE Replay
  BY <1>6 DEF Replay, ReplaySkips, ReplayExhausted, ReplayEnters,
     ReplayAttached, ReplayExpired, ReplayFailed, ReplayDone, ReplayRefused
<1>7. CASE Supervisor /\ ~Replay
  BY <1>7 DEF Supervisor, DialSucceeds, DialFails, SessionMarkedKnown,
     GenerationEnds, BlockBegins, BlockContinues, BlockFailed, Settle,
     SessionMarkFailed
<1>8. CASE Environment /\ ~StoreFaults /\ ~ProcessEnds
  BY <1>8 DEF Environment, ConnectionLost, BrokerAnswers, BrokerForgets,
     DeadlinePasses, MessageDeadlinePasses, ApplicationStops, StopCloses,
     ProcessOpens
<1>10. CASE ProcessEnds
  BY <1>10 DEF ProcessEnds, Volatile
<1>9. CASE UNCHANGED vars
  BY <1>9 DEF vars
<1> QED BY <1>1, <1>2, <1>3, <1>4, <1>5, <1>6, <1>7, <1>8, <1>9, <1>10 DEF Next

(* What the holder knows of its row stays true until it resumes.           *)
LEMMA StatementHeldStep ==
    ASSUME Base, [Next]_vars PROVE  StatementHeld'
<1>1. /\ StatementHeld /\ StatementShapes /\ TypeInv /\ HolderOK
      /\ rows \in [Deliveries -> Row] /\ RowMarkedFirst /\ DownHasNoRecord
      /\ tx # NoTx => tx.d \in Deliveries
  BY BaseFacts DEF TypeInv, TypeOK, DbTypeOK, CommitInv
<1>2. CASE StoreCommits
  <2>1. /\ tx.res = "wait" /\ tx'.op = tx.op /\ tx'.d = tx.d /\ tx'.stmt = tx.stmt
        /\ tx.d \in Deliveries
    BY <1>2, CommitRow
  <2>2. CASE tx'.res = "error" /\ UNCHANGED rows
    BY <1>1, <2>1, <2>2 DEF StatementHeld
  <2>3. CASE /\ tx'.res = "ok" /\ Commits(tx.stmt, rows, tx.d, mem[tx.d].pid)
             /\ rows'[tx.d] = RowAfter(tx.stmt, rows[tx.d], mem[tx.d].pid, nextSeq)
    <3>1. tx.stmt = "attach" => rows'[tx.d].state = "pending"
      BY <1>1, <2>1, <2>3, RowAfterFacts DEF Commits
    <3>2. tx.stmt = "delete" => rows'[tx.d].state = "absent"
      BY <1>1, <2>1, <2>3, RowAfterFacts
    <3> QED BY <1>1, <2>1, <2>3, <3>1, <3>2 DEF StatementHeld, StatementShapes
  <2> QED BY <1>2, <2>2, <2>3, CommitRow
<1>3. CASE ProcessOpens
  <2>1. tx' = NoTx
    BY <1>1, <1>3 DEF ProcessOpens, DownHasNoRecord
  <2> QED BY <1>1, <2>1, Fields DEF StatementHeld
<1>4. CASE UNCHANGED rows /\ ~StoreCommits
  <2>1. CASE tx' = tx \/ tx' = NoTx
    BY <1>1, <1>4, <2>1, Fields DEF StatementHeld
  <2>2. CASE tx.res = "wait" /\ tx' = [tx EXCEPT !.res = "error"]
    <3>1. /\ tx # NoTx /\ tx'.op = tx.op /\ tx'.d = tx.d /\ tx'.stmt = tx.stmt
          /\ tx'.res = "error"
      BY <1>1, <2>2, Fields
    <3> QED BY <1>1, <1>4, <2>2, <3>1 DEF StatementHeld
  <2>3. CASE tx'.res = "wait" /\ tx'.op # "ack"
    BY <2>3 DEF StatementHeld
  <2>4. CASE AdmissionCommitted
    <3>1. tx' = NoTx \/ (tx'.op = "admit" /\ tx'.res = "wait")
      <4>1. /\ tx.op = "admit"
            /\ tx' = NoTx \/ tx' = [tx EXCEPT !.stmt = "attach", !.res = "wait"]
        BY <2>4 DEF AdmissionCommitted, Done, Release
      <4>2. tx # NoTx
        BY <4>1, NoTxFacts
      <4>3. ASSUME tx' = [tx EXCEPT !.stmt = "attach", !.res = "wait"]
            PROVE  tx'.op = "admit" /\ tx'.res = "wait"
        BY <1>1, <4>1, <4>2, <4>3, Fields
      <4> QED BY <4>1, <4>3
    <3> QED BY <1>1, <2>3, <3>1, Fields DEF StatementHeld
  <2>5. CASE \E d \in Deliveries : SubmitBegins(d)
    BY <2>3, <2>5 DEF SubmitBegins, Begin
  <2>6. CASE ReaderEnters
    <3>1. CASE tx' = tx
      BY <2>1, <3>1
    <3>2. CASE tx' # tx
      <4>1. /\ alive /\ mem[reader.d].phase = "AwaitingAck" /\ reader.d \in attached
            /\ tx = NoTx
            /\ tx' = [op |-> "ack", d |-> reader.d, gen |-> gen, stmt |-> "delete",
                      res |-> "wait"]
        BY <2>6, <3>2 DEF ReaderEnters, Begin
      <4>2. rows[reader.d].state = "pending"
        BY <1>1, <4>1, BaseFacts, Fields DEF Held, RowHeld
      <4>3. mem[reader.d].started /\ reader.d \in Deliveries
        BY <4>1, BaseFacts DEF AwaitingStarted
      <4>4. rows[reader.d].started
        BY <1>1, <4>2, <4>3 DEF RowMarkedFirst
      <4> QED BY <1>4, <4>1, <4>2, <4>4 DEF StatementHeld
    <3> QED BY <3>1, <3>2
  <2> QED BY <1>4, <2>1, <2>2, <2>3, <2>4, <2>5, <2>6, GateChanges DEF
     GateChange
<1> QED BY <1>2, <1>3, <1>4, TableChanges

(* What the reader acts upon stays an answer of the broker.                *)
LEMMA AnswerHeldStep ==
    ASSUME Base, [Next]_vars PROVE  AnswerHeld'
<1>1. AnswerHeld /\ TypeInv /\ HolderOK /\ toBroker \in Seq(Publish)
  BY BaseFacts DEF TypeInv, TypeOK, NetTypeOK
<1>2. sent \subseteq sent' /\ answered \subseteq answered'
  BY HistoryGrows
<1>3. \A d \in Deliveries : Completing(d)' => <<d, reader'.flag>> \in answered'
  <2> SUFFICES ASSUME NEW d \in Deliveries, Completing(d)'
               PROVE  <<d, reader'.flag>> \in answered'
    OBVIOUS
  <2>0. reader'.pc # "idle"
    BY DEF Completing
  <2>1. CASE UNCHANGED reader
    BY <1>1, <1>2, <2>1 DEF AnswerHeld, Completing
  <2>2. CASE reader'.pc = "idle"
    BY <2>2 DEF Completing
  <2>3. CASE ReaderSeesAck
    <3>1. alive
      BY <2>3 DEF ReaderSeesAck
    <3>2. CASE alive'
      BY <1>2, <2>3, <3>1, <3>2, SeesAckStep
    <3>3. CASE ~alive'
      <4>1. UNCHANGED reader
        BY <2>3, <3>1, <3>3 DEF ReaderSeesAck, sessVars
      <4> QED BY <2>1, <4>1
    <3> QED BY <3>2, <3>3
  <2>4. CASE ReaderEnters
    <3>1. reader' = IdleTask \/ reader' = [reader EXCEPT !.pc = "tx"]
      BY <2>4 DEF ReaderEnters
    <3>2. reader' = [reader EXCEPT !.pc = "tx"]
      <4>1. reader' # IdleTask
        BY <1>1, <2>0, TaskFields
      <4> QED BY <3>1, <4>1
    <3>3. reader'.d = reader.d /\ reader'.flag = reader.flag
      BY <1>1, <3>2, TaskFields
    <3>4. reader.pc = "enter"
      BY <2>4 DEF ReaderEnters
    <3> QED BY <1>1, <1>2, <3>3, <3>4 DEF AnswerHeld, Completing
  <2> QED BY <2>1, <2>2, <2>3, <2>4, ReaderChanges
<1>4. \A i \in DOMAIN toBroker' : toBroker'[i].d \in sent'
  <2>1. \A i \in DOMAIN toBroker : toBroker[i].d \in sent
    BY <1>1 DEF AnswerHeld
  <2>2. CASE toBroker' = toBroker
    BY <1>2, <2>1, <2>2
  <2>3. CASE toBroker' = <<>>
    BY <2>3
  <2>4. CASE toBroker # <<>> /\ toBroker' = Tail(toBroker)
    BY <1>1, <1>2, <2>1, <2>4, SeqHead
  <2>5. CASE /\ WriterMayWrite
             /\ toBroker' = Append(toBroker, [d |-> tx.d, pid |-> mem[tx.d].pid,
                                              dup |-> writer.flag])
    <3> DEFINE p == [d |-> tx.d, pid |-> mem[tx.d].pid, dup |-> writer.flag]
    <3>1. tx.op = "write" /\ tx.d \in Deliveries
      BY <2>5, BaseFacts, NoTxFacts DEF WriterMayWrite, Done
    <3>2. mem[tx.d] \in Record /\ writer.flag \in BOOLEAN
      BY <1>1, <3>1, TaskFacts, NoTxFacts DEF TypeInv, TypeOK, BookTypeOK,
         TaskTypeOK, HolderOK
    <3>3. p \in Publish /\ p.d = tx.d
      BY <3>1, <3>2 DEF Publish, Record
    <3>4. sent' = sent \cup {tx.d} \/ toBroker' = toBroker
      BY <2>5 DEF WriterMayWrite
    <3> HIDE DEF p
    <3>5. toBroker' = Append(toBroker, p)
      BY <2>5 DEF p
    <3>6. \A i \in DOMAIN toBroker' :
          \/ i \in DOMAIN toBroker /\ toBroker'[i] = toBroker[i]
          \/ toBroker'[i] = p
      BY <1>1, <3>3, <3>5, SeqAppend
    <3> QED BY <1>2, <2>1, <2>2, <3>3, <3>4, <3>6
  <2> QED BY <1>1, <2>2, <2>3, <2>4, <2>5, OnlyTheWriterWrites
<1> QED BY <1>3, <1>4 DEF AnswerHeld, Completing
-----------------------------------------------------------------------------
(* What a step does to the book.                                           *)
LEMMA OrderChanges ==
    ASSUME [Next]_vars
    PROVE  \/ UNCHANGED order \/ order' = <<>>
           \/ AdmissionCommitted \/ ReaderAcknowledged \/ ProcessOpens
<1> USE DEF bookVars
<1>1. CASE StoreCommits \/ StoreFaults
  BY <1>1 DEF StoreCommits, StoreFaults
<1>2. CASE Submitter
  BY <1>2 DEF Submitter, SubmitBegins, CallerEnqueues, CallerCancelled,
     AdmissionAttached, AdmissionFailed
<1>3. CASE Writer
  BY <1>3 DEF Writer, WriterTakes, WriterEnters, WriterMayWrite,
     WriterEntersLate, WriterExpired, WriterFailed, WriteReturns
<1>4. CASE Reader
  BY <1>4 DEF Reader, ReaderSeesAck, ReaderEnters, ReaderFailed
<1>5. CASE Watchdog
  BY <1>5 DEF Watchdog, DeliveryTimesOut, WatcherSees, WatcherEnters,
     WatcherExpired, WatcherFailed
<1>6. CASE Replay
  BY <1>6 DEF Replay, ReplaySkips, ReplayExhausted, ReplayEnters,
     ReplayAttached, ReplayExpired, ReplayFailed, ReplayDone,
     ReplayRefused
<1>7. CASE Supervisor /\ ~Replay
  BY <1>7 DEF Supervisor, DialSucceeds, DialFails, SessionMarkedKnown,
     GenerationEnds, BlockBegins, BlockContinues, BlockFailed, Settle,
     SessionMarkFailed
<1>8. CASE Environment /\ ~StoreFaults /\ ~ProcessEnds
  BY <1>8 DEF Environment, ConnectionLost, BrokerAnswers, BrokerForgets,
     DeadlinePasses, MessageDeadlinePasses, ApplicationStops, StopCloses
<1>9. CASE ProcessEnds
  BY <1>9 DEF ProcessEnds, Volatile
<1>10. CASE UNCHANGED vars
  BY <1>10 DEF vars
<1> QED BY <1>1, <1>2, <1>3, <1>4, <1>5, <1>6, <1>7, <1>8, <1>9, <1>10
        DEF Next, Environment

(* What a step does to the session's deliveries.                           *)
LEMMA AttachedChanges ==
    ASSUME [Next]_vars
    PROVE  \/ attached' \subseteq attached
           \/ (AdmissionAttached /\ alive /\ tx.gen = gen)
           \/ ReplayAttached
<1> USE DEF sessVars, Abort, AbortWith
<1>1. CASE StoreCommits \/ StoreFaults
  BY <1>1 DEF StoreCommits, StoreFaults
<1>2. CASE Submitter
  BY <1>2 DEF Submitter, SubmitBegins, CallerEnqueues, CallerCancelled,
     AdmissionCommitted, AdmissionAttached, AdmissionFailed
<1>3. CASE Writer
  BY <1>3 DEF Writer, WriterTakes, WriterEnters, WriterMayWrite,
     WriterEntersLate, WriterExpired, WriterFailed, WriteReturns
<1>4. CASE Reader
  BY <1>4 DEF Reader, ReaderSeesAck, ReaderEnters, ReaderAcknowledged,
     ReaderFailed
<1>5. CASE Watchdog
  BY <1>5 DEF Watchdog, DeliveryTimesOut, WatcherSees, WatcherEnters,
     WatcherExpired, WatcherFailed
<1>6. CASE Replay
  BY <1>6 DEF Replay, ReplaySkips, ReplayExhausted, ReplayEnters,
     ReplayExpired, ReplayFailed, ReplayDone, ReplayRefused
<1>7. CASE Supervisor /\ ~Replay
  BY <1>7 DEF Supervisor, DialSucceeds, DialFails, SessionMarkedKnown,
     GenerationEnds, BlockBegins, BlockContinues, BlockFailed, Settle,
     SessionMarkFailed, BlockNext, BlockEnds
<1>8. CASE Environment /\ ~StoreFaults /\ ~ProcessEnds
  BY <1>8 DEF Environment, ConnectionLost, BrokerAnswers, BrokerForgets,
     DeadlinePasses, MessageDeadlinePasses, ApplicationStops, StopCloses,
     ProcessOpens
<1>9. CASE ProcessEnds
  BY <1>9 DEF ProcessEnds, Volatile
<1>10. CASE UNCHANGED vars
  BY <1>10 DEF vars
<1> QED BY <1>1, <1>2, <1>3, <1>4, <1>5, <1>6, <1>7, <1>8, <1>9, <1>10
        DEF Next, Environment

(* What a step leaves of the replay's work.                                *)
LEMMA TodoChanges ==
    ASSUME Base, [Next]_vars
    PROVE  sup' = "replay" =>
               \/ sup = "replay" /\ UNCHANGED todo
               \/ ReplaySkips \/ ReplayAttached \/ SessionMarkedKnown
               \/ DialSucceeds /\ todo' = order
<1> USE DEF supVars
<1>1. CASE StoreCommits \/ StoreFaults
  BY <1>1 DEF StoreCommits, StoreFaults
<1>2. CASE Submitter
  BY <1>2 DEF Submitter, SubmitBegins, CallerEnqueues, CallerCancelled,
     AdmissionCommitted, AdmissionAttached, AdmissionFailed
<1>3. CASE Writer
  BY <1>3 DEF Writer, WriterTakes, WriterEnters, WriterMayWrite,
     WriterEntersLate, WriterExpired, WriterFailed, WriteReturns
<1>4. CASE Reader
  BY <1>4 DEF Reader, ReaderSeesAck, ReaderEnters, ReaderAcknowledged,
     ReaderFailed
<1>5. CASE Watchdog
  BY <1>5 DEF Watchdog, DeliveryTimesOut, WatcherSees, WatcherEnters,
     WatcherExpired, WatcherFailed
<1>6. CASE Replay
  BY <1>6 DEF Replay, ReplayExhausted, ReplayEnters, ReplayExpired,
     ReplayFailed, ReplayDone, ReplayRefused
<1>7. CASE Supervisor /\ ~Replay
  <2>1. AfterGeneration # "replay"
    BY DEF AfterGeneration
  <2>2. tx.op = "block" => sup \in {"block", "refuse"}
    BY BaseFacts DEF HolderPlaces
  <2> QED
    BY <1>7, <2>1, <2>2 DEF Supervisor, DialSucceeds, DialFails,
       GenerationEnds,
     BlockBegins, BlockContinues, BlockFailed, Settle, SessionMarkFailed,
     BlockNext, BlockEnds, Done
<1>8. CASE Environment /\ ~StoreFaults /\ ~ProcessEnds
  BY <1>8 DEF Environment, ConnectionLost, BrokerAnswers, BrokerForgets,
     DeadlinePasses, MessageDeadlinePasses, ApplicationStops, StopCloses,
     WorkerCancelled,
     ProcessOpens
<1>9. CASE ProcessEnds
  BY <1>9 DEF ProcessEnds, Volatile
<1>10. CASE UNCHANGED vars
  BY <1>10 DEF vars
<1> QED BY <1>1, <1>2, <1>3, <1>4, <1>5, <1>6, <1>7, <1>8, <1>9, <1>10
        DEF Next, Environment

(* The book repeats no delivery, and a replay attaches none twice.         *)
LEMMA BookPlacesStep ==
    ASSUME Base, [Next]_vars PROVE  BookPlaces'
<1>1. /\ BookPlaces /\ TypeInv /\ SessionPlaces /\ HolderPlaces
      /\ order \in Seq(Deliveries) /\ todo \in Seq(Deliveries)
      /\ attached \subseteq Deliveries
      /\ attached \cap (Deliveries \ admitted) = {}
      /\ tx # NoTx => tx.d \in Deliveries
  BY BaseFacts
<1>2. Distinct(order) /\ (sup = "replay" => Distinct(todo) /\ Members(todo) \cap attached = {})
      /\ (tx.op = "admit" => tx.d \notin attached)
  BY <1>1 DEF BookPlaces
<1>3. Distinct(<<>>) /\ Members(<<>>) = {}
  <2>1. DOMAIN <<>> = {}
    OBVIOUS
  <2> QED BY <2>1, MembersEmpty DEF Distinct
<1>4. Distinct(order')
  <2>1. CASE UNCHANGED order
    BY <1>2, <2>1
  <2>2. CASE order' = <<>>
    BY <1>3, <2>2
  <2>3. CASE AdmissionCommitted
    <3>1. tx.op = "admit" /\ tx.stmt = "insert" /\ tx.d \in Deliveries /\ order' = Append(order, tx.d)
      BY <1>1, <2>3, NoTxFacts DEF AdmissionCommitted, Done
    <3>2. mem[tx.d].phase = "none"
      BY <3>1, BaseFacts DEF CommitInv, AdmissionHeld
    <3>3. tx.d \notin Members(order)
      BY <3>2, BaseFacts, KnownFacts DEF CommitInv, KnownHasRecord
    <3> QED BY <1>1, <1>2, <3>1, <3>3, DistinctAppend
  <2>4. CASE ReaderAcknowledged
    <3>1. order' = Without(order, tx.d)
      BY <2>4 DEF ReaderAcknowledged
    <3> QED BY <1>1, <1>2, <3>1, DistinctWithout
  <2>5. CASE ProcessOpens
    <3>1. CASE UNCHANGED order
      BY <2>1, <3>1
    <3>2. CASE \E s \in [1..Cardinality(Pending(rows')) -> Pending(rows')] :
                   IsInsertionOrder(s, rows') /\ order' = s
      <4>1. PICK s \in [1..Cardinality(Pending(rows')) -> Pending(rows')] :
                   IsInsertionOrder(s, rows') /\ order' = s
        BY <3>2
      <4>2. order' \in Seq(Deliveries) /\ rows' \in [Deliveries -> Row]
        BY <1>1, TypeStep DEF TypeInv, TypeOK, BookTypeOK, DbTypeOK
      <4>3. \A i \in DOMAIN order' : i \in Nat /\ order'[i] \in Deliveries /\ rows'[order'[i]].seq \in Nat
        <5>1. DOMAIN order' = 1..Len(order') /\ Len(order') \in Nat
          BY <4>2, LenProperties
        <5>2. \A i \in DOMAIN order' : order'[i] \in Deliveries /\ i \in Nat
          BY <4>2, <5>1, ElementOfSeq
        <5>3. \A d \in Deliveries : rows'[d].seq \in Nat
          BY <4>2 DEF Row
        <5> QED BY <5>2, <5>3
      <4>4. \A i, j \in DOMAIN order' : i < j => rows'[order'[i]].seq < rows'[order'[j]].seq
        BY <4>1 DEF IsInsertionOrder
      <4>5. \A i, j \in DOMAIN order' : order'[i] = order'[j] => i = j
        BY <4>3, <4>4
      <4> QED BY <4>5 DEF Distinct
    <3> QED BY <2>5, <3>1, <3>2 DEF ProcessOpens
  <2> QED BY <2>1, <2>2, <2>3, <2>4, <2>5, OrderChanges
<1>5. ASSUME sup' = "replay"
      PROVE  Distinct(todo') /\ Members(todo') \cap attached' = {}
  <2>1. CASE sup = "replay" /\ UNCHANGED todo /\ ~ReplayAttached
    <3>1. attached' \subseteq attached
      BY <1>1, <2>1, AttachedChanges DEF HolderPlaces, AdmissionAttached, Done
    <3> QED BY <1>2, <2>1, <3>1
  <2>2. CASE ReplaySkips
    <3>1. sup = "replay" /\ todo # <<>> /\ todo' = Tail(todo) /\ attached' = attached
      BY <2>2 DEF ReplaySkips, sessVars
    <3> QED BY <1>1, <1>2, <3>1, DistinctTail
  <2>3. CASE ReplayAttached
    <3>1. /\ todo # <<>> /\ todo' = Tail(todo) /\ attached' \subseteq attached \cup {tx.d}
          /\ tx.op = "replay"
      BY <2>3 DEF ReplayAttached, Done, AbortWith
    <3>2. sup = "replay" /\ tx.d = Head(todo)
      BY <1>1, <3>1 DEF HolderPlaces
    <3> QED BY <1>1, <1>2, <3>1, <3>2, DistinctTail
  <2>4. CASE DialSucceeds /\ todo' = order
    <3>1. attached' = {}
      BY <2>4 DEF DialSucceeds
    <3> QED BY <1>2, <2>4, <3>1
  <2>5. CASE SessionMarkedKnown
    <3>1. todo' = order /\ attached' = attached /\ sup = "marking"
      BY <2>5 DEF SessionMarkedKnown, sessVars
    <3>2. attached = {}
      BY <1>1, <3>1 DEF SessionPlaces
    <3> QED BY <1>2, <3>1, <3>2
  <2> QED BY <1>5, <2>1, <2>2, <2>3, <2>4, <2>5, TodoChanges
<1>6. ASSUME tx'.op = "admit" PROVE  tx'.d \notin attached'
  <2>1. CASE tx.op = "admit" /\ tx'.d = tx.d
    <3>1. tx' # NoTx
      BY <1>1, <1>6, NoTxFacts
    <3>2. ~AdmissionAttached /\ ~ReplayAttached
      BY <3>1 DEF AdmissionAttached, ReplayAttached, Release
    <3> QED BY <1>2, <2>1, <3>2, AttachedChanges
  <2>2. CASE \E d \in Deliveries : SubmitBegins(d)
    <3>1. PICK d \in Deliveries : SubmitBegins(d)
      BY <2>2
    <3>2. attached' = attached /\ tx'.d = d /\ d \notin admitted
      BY <3>1 DEF SubmitBegins, Begin
    <3> QED BY <1>1, <3>1, <3>2
  <2>3. CASE tx' = tx
    BY <1>6, <2>1, <2>3
  <2>4. CASE tx' = NoTx
    BY <1>6, <2>4, NoTxFacts
  <2>5. CASE tx.res = "wait" /\ tx' = [tx EXCEPT !.res = "error"]
    BY <1>1, <1>6, <2>1, <2>5, Fields
  <2>6. CASE StoreCommits
    BY <1>6, <2>1, <2>6, CommitRow
  <2>7. CASE AdmissionCommitted
    <3>1. tx.op = "admit" /\ tx # NoTx
      BY <2>7, NoTxFacts DEF AdmissionCommitted, Done
    <3>2. tx' = NoTx \/ tx' = [tx EXCEPT !.stmt = "attach", !.res = "wait"]
      BY <2>7 DEF AdmissionCommitted, Release
    <3>3. ASSUME tx' = [tx EXCEPT !.stmt = "attach", !.res = "wait"] PROVE tx'.d = tx.d
      BY <1>1, <3>1, <3>3, Fields
    <3> QED BY <2>1, <2>4, <3>1, <3>2, <3>3
  <2>8. CASE ReaderEnters
    <3>1. tx' = tx \/ tx' = [op |-> "ack", d |-> reader.d, gen |-> gen, stmt |-> "delete",
                             res |-> "wait"]
      BY <2>8 DEF ReaderEnters, Begin
    <3> QED BY <1>6, <2>3, <3>1
  <2> QED BY <1>6, <2>2, <2>3, <2>4, <2>5, <2>6, <2>7, <2>8, GateChanges DEF
     GateChange
<1>7. (sup' = "replay" => Distinct(todo') /\ Members(todo') \cap attached' = {})
  BY <1>5
<1>8. tx'.op = "admit" => tx'.d \notin attached'
  BY <1>6
<1> QED BY <1>4, <1>7, <1>8 DEF BookPlaces, Distinct, Members

(* The exchange is inductive.                                              *)
LEMMA ExchangeStep ==
    ASSUME TypeInv, CommitInv, PlaceInv, ExchangeInv, [Next]_vars
    PROVE  PlaceInv' /\ ExchangeInv'
<1>1. Base
  BY DEF Base
<1>2. PlaceInv'
  BY PlaceStep
<1>3. LiveInv'
  <2>1. alive' => Held'
    BY <1>1, LiveStep
  <2> QED BY <2>1 DEF Held, LiveInv
<1>4. BookPlaces' /\ RowsDistinct' /\ AwaitingStarted' /\ StatementHeld' /\ AnswerHeld'
  BY <1>1, BookPlacesStep, RowsDistinctStep, AwaitingStartedStep,
     StatementHeldStep,
     AnswerHeldStep
<1> QED BY <1>2, <1>3, <1>4 DEF ExchangeInv

(* It holds at the start.                                                  *)
LEMMA InitExchange == Init => PlaceInv /\ ExchangeInv
<1> SUFFICES ASSUME Init PROVE PlaceInv /\ ExchangeInv
  OBVIOUS
<1>0. /\ NoTx.op = "none" /\ NoTx.stmt = "none" /\ NoTx.res = "none"
      /\ IdleTask.pc = "idle"
  BY DEF NoTx, IdleTask
<1>1. PlaceInv
  BY <1>0 DEF Init, PlaceInv, SessionPlaces, TaskPlaces, StatementShapes,
     HolderPlaces, Resting
<1>2. BookPlaces
  <2>1. DOMAIN order = {}
    BY DEF Init
  <2> QED BY <1>0, <2>1 DEF Init, BookPlaces, Distinct
<1>3. LiveInv
  BY DEF Init, LiveInv
<1>4. RowsDistinct /\ AwaitingStarted /\ StatementHeld
  BY <1>0 DEF Init, RowsDistinct, AwaitingStarted, StatementHeld, Present,
     EmptyTable,
     NoRow, NoRecord
<1>5. AnswerHeld
  <2>1. DOMAIN toBroker = {}
    BY DEF Init
  <2> QED BY <1>0, <2>1 DEF Init, AnswerHeld, Completing
<1> QED BY <1>1, <1>2, <1>3, <1>4, <1>5 DEF ExchangeInv

(* A delivery of a live generation is in one place and in one copy, and    *)
(* the table has its row (Session.deliveries, outgoing, write_one,         *)
(* read_loop and the outbox taken together).                               *)
THEOREM ExchangeInvariant == Spec => [](PlaceInv /\ ExchangeInv)
<1>1. Init => PlaceInv /\ ExchangeInv
  BY InitExchange
<1>2. TypeInv /\ CommitInv /\ PlaceInv /\ ExchangeInv /\ [Next]_vars =>
          PlaceInv' /\ ExchangeInv'
  BY ExchangeStep
<1> QED BY <1>1, <1>2, TypeInvariant, CommitInvariant, PTL DEF Spec
-----------------------------------------------------------------------------
(* Only the writer hands a delivery to a socket.                           *)
LEMMA SentChanges ==
    ASSUME [Next]_vars
    PROVE  \/ UNCHANGED sent
           \/ WriterMayWrite /\ sent' = sent \cup {tx.d}
<1> USE DEF histVars
<1>1. CASE StoreCommits \/ StoreFaults
  BY <1>1 DEF StoreCommits, StoreFaults
<1>2. CASE Submitter
  BY <1>2 DEF Submitter, SubmitBegins, CallerEnqueues, CallerCancelled,
     AdmissionCommitted, AdmissionAttached, AdmissionFailed
<1>3. CASE Writer
  BY <1>3 DEF Writer, WriterTakes, WriterEnters, WriterMayWrite,
     WriterEntersLate, WriterExpired, WriterFailed, WriteReturns
<1>4. CASE Reader
  BY <1>4 DEF Reader, ReaderSeesAck, ReaderEnters, ReaderAcknowledged,
     ReaderFailed
<1>5. CASE Watchdog
  BY <1>5 DEF Watchdog, DeliveryTimesOut, WatcherSees, WatcherEnters,
     WatcherExpired, WatcherFailed
<1>6. CASE Replay
  BY <1>6 DEF Replay, ReplaySkips, ReplayExhausted, ReplayEnters,
     ReplayAttached, ReplayExpired, ReplayFailed, ReplayDone,
     ReplayRefused
<1>7. CASE Supervisor /\ ~Replay
  BY <1>7 DEF Supervisor, DialSucceeds, DialFails, SessionMarkedKnown,
     GenerationEnds, BlockBegins, BlockContinues, BlockFailed, Settle,
     SessionMarkFailed
<1>8. CASE Environment /\ ~StoreFaults /\ ~ProcessEnds
  BY <1>8 DEF Environment, ConnectionLost, BrokerAnswers, BrokerForgets,
     DeadlinePasses, MessageDeadlinePasses, ApplicationStops, StopCloses,
     ProcessOpens
<1>9. CASE ProcessEnds
  BY <1>9 DEF ProcessEnds, Volatile
<1>10. CASE UNCHANGED vars
  BY <1>10 DEF vars
<1> QED BY <1>1, <1>2, <1>3, <1>4, <1>5, <1>6, <1>7, <1>8, <1>9, <1>10
        DEF Next, Environment

(* A row that says "possibly written" stays until the broker answered.     *)
LEMMA EvidenceStep ==
    ASSUME Base, EvidenceKept, [Next]_vars
    PROVE  EvidenceKept'
<1>1. /\ TypeInv /\ RowMarkedFirst /\ WriteHeld /\ StatementShapes /\ AnswerHeld /\ HolderOK
      /\ rows \in [Deliveries -> Row] /\ sent' \subseteq Deliveries
  BY BaseFacts, TypeStep DEF TypeInv, TypeOK, DbTypeOK, HistTypeOK, CommitInv
<1>2. RowMarkedFirst'
  BY BaseFacts, CommitStep DEF CommitInv
<1>3. answered \subseteq answered'
  BY HistoryGrows
<1> SUFFICES ASSUME NEW d \in sent'
             PROVE  /\ rows'[d].state # "absent" => rows'[d].started
                    /\ rows'[d].state = "absent" => Answered(d)'
  BY DEF EvidenceKept, Answered
<1>4. d \in Deliveries
  BY <1>1
<1>5. rows'[d].state # "absent" => rows'[d].started
  BY <1>2, <1>4 DEF RowMarkedFirst
<1>6. ASSUME rows'[d].state = "absent" PROVE  Answered(d)'
  <2>1. Answered(d) => Answered(d)'
    BY <1>3 DEF Answered
  <2>2. CASE d \notin sent
    <3>1. WriterMayWrite /\ d = tx.d
      BY <2>2, SentChanges
    <3>2. rows[d].state = "pending" /\ rows' = rows
      BY <1>1, <3>1 DEF WriterMayWrite, Done, WriteHeld, dbVars
    <3> QED BY <1>6, <3>2
  <2>3. CASE d \in sent /\ rows[d].state = "absent"
    BY <2>1, <2>3 DEF EvidenceKept, Answered
  <2>4. CASE d \in sent /\ rows[d].state # "absent"
    <3>1. rows[d].started
      BY <1>1, <1>4, <2>4 DEF RowMarkedFirst
    <3>2. CASE StoreCommits
      <4>1. /\ tx.d = d /\ tx # NoTx
            /\ rows'[d] = RowAfter(tx.stmt, rows[d], mem[d].pid, nextSeq)
        BY <1>4, <1>6, <2>4, <3>2, BaseFacts, CommitRow
      <4>2. tx.stmt \in Statement
        BY <1>1, <4>1 DEF TypeInv, TypeOK, Transition, Statement
      <4>3. tx.stmt = "delete"
        BY <1>1, <1>4, <1>6, <2>4, <3>1, <4>1, <4>2, RowAfterFacts DEF
           Statement
      <4>4. Completing(d)
        BY <1>1, <4>1, <4>3 DEF StatementShapes, HolderOK, Completing
      <4>5. Answered(d)
        <5>1. reader.flag \in BOOLEAN
          BY <1>1, <4>4, TaskFacts DEF TypeInv, TypeOK, TaskTypeOK, Completing
        <5> QED BY <1>1, <1>4, <4>4, <5>1 DEF AnswerHeld, Answered
      <4> QED BY <2>1, <4>5
    <3>3. CASE ProcessOpens
      <4>1. rows' = Swept(rows, late)
        BY <3>3 DEF ProcessOpens
      <4> QED BY <1>1, <1>4, <1>6, <2>4, <3>1, <4>1, SweptFacts
    <3>4. CASE UNCHANGED rows
      BY <1>6, <2>4, <3>4
    <3> QED BY <3>2, <3>3, <3>4, TableChanges
  <2> QED BY <2>2, <2>3, <2>4
<1> QED BY <1>5, <1>6

(* A delivery whose bytes ever reached a socket keeps a row that says so,  *)
(* through crashes and restarts, until the broker has answered it:         *)
(* record_may_write commits before the write, and only acknowledge         *)
(* deletes.                                                                *)
THEOREM EvidenceHolds == Spec => []EvidenceKept
<1>1. Init => EvidenceKept
  BY DEF Init, EvidenceKept
<1>2. TypeInv /\ CommitInv /\ PlaceInv /\ ExchangeInv /\ EvidenceKept /\ [Next]_vars
          => EvidenceKept'
  BY EvidenceStep DEF Base
<1> QED BY <1>1, <1>2, TypeInvariant, CommitInvariant, ExchangeInvariant, PTL
   DEF Spec

(* A handle completes only by the answer to its own delivery.              *)
LEMMA CompletionStep ==
    ASSUME Base, CompletionIsTrue, [Next]_vars
    PROVE  CompletionIsTrue'
<1>1. /\ TypeInv /\ StatementHeld /\ AnswerHeld /\ AdmissionHeld
      /\ rows \in [Deliveries -> Row]
  BY BaseFacts DEF TypeInv, TypeOK, DbTypeOK, CommitInv
<1>2. answered \subseteq answered'
  BY HistoryGrows
<1> SUFFICES ASSUME NEW d \in Deliveries
             PROVE  /\ mem'[d].phase = "Acknowledged" => <<d, TRUE>> \in answered'
                    /\ mem'[d].phase = "Rejected" => <<d, FALSE>> \in answered'
                    /\ mem'[d].phase \in {"Acknowledged", "Rejected"} =>
                           rows'[d].state = "absent"
  BY DEF CompletionIsTrue
<1>3. /\ mem[d].phase = "Acknowledged" => <<d, TRUE>> \in answered
      /\ mem[d].phase = "Rejected" => <<d, FALSE>> \in answered
      /\ mem[d].phase \in {"Acknowledged", "Rejected"} => rows[d].state = "absent"
  BY DEF CompletionIsTrue
<1>4. CASE mem'[d].phase = mem[d].phase
  <2>1. ASSUME mem[d].phase \in {"Acknowledged", "Rejected"}
        PROVE  rows'[d].state = "absent"
    <3>1. CASE UNCHANGED rows
      BY <1>3, <2>1, <3>1
    <3>2. CASE StoreCommits /\ rows' # rows
      <4>1. /\ Commits(tx.stmt, rows, tx.d, mem[tx.d].pid) /\ tx # NoTx
            /\ d # tx.d => rows'[d] = rows[d]
        BY <3>2, BaseFacts, CommitRow
      <4>2. tx.stmt = "insert" => tx.op = "admit"
        BY <1>1, <4>1 DEF TypeInv, TypeOK, Transition
      <4>3. tx.stmt = "insert" => mem[tx.d].phase = "none"
        BY <1>1, <4>2 DEF AdmissionHeld
      <4>4. tx.stmt \in Statement
        BY <1>1, <4>1 DEF TypeInv, TypeOK, Transition, Statement
      <4>5. tx.stmt # "insert" => rows[tx.d].state # "absent"
        BY <4>1, <4>4 DEF Commits, Statement
      <4> QED BY <1>3, <2>1, <4>1, <4>3, <4>5
    <3>3. CASE ProcessOpens
      <4>1. rows' = Swept(rows, late)
        BY <3>3 DEF ProcessOpens
      <4> QED BY <1>1, <1>3, <2>1, <4>1, SweptFacts
    <3> QED BY <3>1, <3>2, <3>3, TableChanges
  <2> QED BY <1>2, <1>3, <1>4, <2>1
<1>5. CASE ReaderAcknowledged /\ mem'[d].phase # mem[d].phase
  <2>1. /\ d = tx.d /\ tx.op = "ack" /\ tx.res = "ok" /\ Completing(d)
        /\ mem'[d].phase = IF reader.flag THEN "Acknowledged" ELSE "Rejected"
    BY <1>5, VerdictFacts DEF Completing
  <2>2. <<d, reader.flag>> \in answered /\ reader.flag \in BOOLEAN
    BY <1>1, <2>1, TaskFacts DEF AnswerHeld, TypeInv, TypeOK, TaskTypeOK,
       Completing
  <2>3. rows'[d].state = "absent"
    BY <1>1, <1>5, <2>1 DEF StatementHeld, ReaderAcknowledged, dbVars
  <2> QED BY <1>2, <2>1, <2>2, <2>3
<1>6. CASE ~ReaderAcknowledged /\ mem'[d].phase # mem[d].phase
  <2>1. mem'[d].phase \notin {"Acknowledged", "Rejected"}
    BY <1>6, PhasesMove DEF Moved
  <2> QED BY <2>1
<1> QED BY <1>4, <1>5, <1>6

(* A handle completes by PUBACK only if the broker answered this very      *)
(* delivery, with that verdict, after its row was deleted, although packet *)
(* identifiers are reused.                                                 *)
THEOREM CompletionHolds == Spec => []CompletionIsTrue
<1>1. Init => CompletionIsTrue
  BY DEF Init, CompletionIsTrue, NoRecord
<1>2. TypeInv /\ CommitInv /\ PlaceInv /\ ExchangeInv /\ CompletionIsTrue /\ [Next]_vars
          => CompletionIsTrue'
  BY CompletionStep DEF Base
<1> QED BY <1>1, <1>2, TypeInvariant, CommitInvariant, ExchangeInvariant, PTL
   DEF Spec

(* What a step does to the writer.                                         *)
LEMMA WriterChanges ==
    ASSUME [Next]_vars
    PROVE  \/ UNCHANGED writer \/ writer'.pc \in {"idle", "enter"}
           \/ WriterEnters \/ WriterEntersLate \/ WriterMayWrite
           \/ WriterExpired \/ WriterFailed \/ WriteReturns
<1> USE DEF taskVars, IdleTask
<1>1. CASE StoreCommits \/ StoreFaults
  BY <1>1 DEF StoreCommits, StoreFaults
<1>2. CASE Submitter
  BY <1>2 DEF Submitter, SubmitBegins, CallerEnqueues, CallerCancelled,
     AdmissionCommitted, AdmissionAttached, AdmissionFailed
<1>3. CASE Writer
  BY <1>3 DEF Writer, WriterTakes
<1>4. CASE Reader
  BY <1>4 DEF Reader, ReaderSeesAck, ReaderEnters, ReaderAcknowledged,
     ReaderFailed
<1>5. CASE Watchdog
  BY <1>5 DEF Watchdog, DeliveryTimesOut, WatcherSees, WatcherEnters,
     WatcherExpired, WatcherFailed
<1>6. CASE Replay
  BY <1>6 DEF Replay, ReplaySkips, ReplayExhausted, ReplayEnters,
     ReplayAttached, ReplayExpired, ReplayFailed, ReplayDone,
     ReplayRefused
<1>7. CASE Supervisor /\ ~Replay
  BY <1>7 DEF Supervisor, DialSucceeds, DialFails, SessionMarkedKnown,
     GenerationEnds, BlockBegins, BlockContinues, BlockFailed, Settle,
     SessionMarkFailed
<1>8. CASE Environment /\ ~StoreFaults /\ ~ProcessEnds
  BY <1>8 DEF Environment, ConnectionLost, BrokerAnswers, BrokerForgets,
     DeadlinePasses, MessageDeadlinePasses, ApplicationStops, StopCloses,
     ProcessOpens
<1>9. CASE ProcessEnds
  BY <1>9 DEF ProcessEnds, Volatile
<1>10. CASE UNCHANGED vars
  BY <1>10 DEF vars
<1> QED BY <1>1, <1>2, <1>3, <1>4, <1>5, <1>6, <1>7, <1>8, <1>9, <1>10
        DEF Next, Environment

(* The writer exits only under a dead session.                             *)
LEMMA OutlivesStep ==
    ASSUME Base, WriterOutlivesSession, [Next]_vars
    PROVE  WriterOutlivesSession'
<1>1. TypeInv /\ TaskPlaces /\ HolderOK
  BY BaseFacts
<1> SUFFICES ASSUME writer'.pc = "exit", alive' PROVE FALSE
  BY DEF WriterOutlivesSession
<1>2. ~DialSucceeds
  BY <1>1 DEF DialSucceeds, TaskPlaces, Resting, taskVars
<1>3. ~Ends
  BY EndsLive
<1>4. alive
  <2>1. CASE UNCHANGED vars
    BY <2>1 DEF vars, sessVars
  <2> QED BY <1>2, <1>3, <2>1, DeadStays
<1>5. CASE UNCHANGED writer
  BY <1>4, <1>5 DEF WriterOutlivesSession
<1>6. CASE WriterEnters \/ WriterEntersLate
  <2>1. writer' = [writer EXCEPT !.pc = "tx"]
    BY <1>6 DEF WriterEnters, WriterEntersLate
  <2> QED BY <1>1, <2>1, TaskFields
<1>7. CASE WriterMayWrite
  <2>1. tx.op = "write" /\ writer.pc = "tx" /\ writer.d = tx.d /\ tx.d \in Deliveries
    BY <1>1, <1>7, BaseFacts, NoTxFacts DEF WriterMayWrite, Done, HolderOK
  <2>2. mem[tx.d].gen = gen
    BY <1>4, <2>1, BaseFacts DEF Held, WriterOwns, AttachedOwned, Writing
  <2>3. ~Abort("rejected", MarkStarted(mem, tx.d))
    BY DEF Abort, AbortWith
  <2>4. \E pc \in {"writing", "late"} : writer' = [writer EXCEPT !.pc = pc]
    BY <1>4, <1>7, <2>2, <2>3 DEF WriterMayWrite
  <2> QED BY <1>1, <2>4, TaskFields
<1>8. CASE WriterExpired \/ WriterFailed
  BY <1>8, <1>3 DEF Ends
<1>9. CASE WriteReturns
  BY <1>4, <1>9 DEF WriteReturns, IdleTask
<1> QED BY <1>5, <1>6, <1>7, <1>8, <1>9, WriterChanges

(* The write loop never returns from under a live session.                 *)
THEOREM OutlivesHolds == Spec => []WriterOutlivesSession
<1>1. Init => WriterOutlivesSession
  BY DEF Init, WriterOutlivesSession
<1>2. TypeInv /\ CommitInv /\ PlaceInv /\ ExchangeInv /\ WriterOutlivesSession
          /\ [Next]_vars => WriterOutlivesSession'
  BY OutlivesStep DEF Base
<1> QED BY <1>1, <1>2, TypeInvariant, CommitInvariant, ExchangeInvariant, PTL
   DEF Spec
-----------------------------------------------------------------------------
(* What a step does to the capacity of a session that lives on.            *)
LEMMA SlotChanges ==
    ASSUME [Next]_vars, alive'
    PROVE  \/ UNCHANGED <<slots, attached, gen>>
           \/ (\E d \in Deliveries : SubmitBegins(d)) \/ AdmissionCommitted
           \/ AdmissionAttached \/ ReaderAcknowledged \/ ReplayAttached
           \/ DialSucceeds
<1> USE DEF sessVars, Abort, AbortWith
<1>1. CASE StoreCommits \/ StoreFaults
  BY <1>1 DEF StoreCommits, StoreFaults
<1>2. CASE Submitter
  BY <1>2 DEF Submitter, CallerEnqueues, CallerCancelled, AdmissionFailed
<1>3. CASE Writer
  BY <1>3 DEF Writer, WriterTakes, WriterEnters, WriterMayWrite,
     WriterEntersLate, WriterExpired, WriterFailed, WriteReturns
<1>4. CASE Reader
  BY <1>4 DEF Reader, ReaderSeesAck, ReaderEnters, ReaderFailed
<1>5. CASE Watchdog
  BY <1>5 DEF Watchdog, DeliveryTimesOut, WatcherSees, WatcherEnters,
     WatcherExpired, WatcherFailed
<1>6. CASE Replay
  BY <1>6 DEF Replay, ReplaySkips, ReplayExhausted, ReplayEnters,
     ReplayExpired, ReplayFailed, ReplayDone, ReplayRefused
<1>7. CASE Supervisor /\ ~Replay
  BY <1>7 DEF Supervisor, DialFails, SessionMarkedKnown, GenerationEnds,
     BlockBegins, BlockContinues, BlockFailed, Settle, SessionMarkFailed,
     BlockNext, BlockEnds
<1>8. CASE Environment /\ ~StoreFaults /\ ~ProcessEnds
  BY <1>8 DEF Environment, ConnectionLost, BrokerAnswers, BrokerForgets,
     DeadlinePasses, MessageDeadlinePasses, ApplicationStops, StopCloses,
     ProcessOpens
<1>9. CASE ProcessEnds
  BY <1>9 DEF ProcessEnds, Volatile
<1>10. CASE UNCHANGED vars
  BY <1>10 DEF vars
<1> QED BY <1>1, <1>2, <1>3, <1>4, <1>5, <1>6, <1>7, <1>8, <1>9, <1>10
        DEF Next, Environment

(* Only its own steps, and the end of its session, end an admission.       *)
LEMMA AdmissionStays ==
    ASSUME [Next]_vars, alive', tx.op = "admit", tx # NoTx,
           ~StoreCommits, ~StoreFaults, ~AdmissionCommitted,
           ~AdmissionAttached
    PROVE  tx' = tx
<1> USE DEF Done, Failed, Release, Begin
<1>2. CASE Submitter
  BY <1>2 DEF Submitter, SubmitBegins, CallerEnqueues, CallerCancelled,
     AdmissionFailed, Abort, AbortWith
<1>3. CASE Writer
  BY <1>3 DEF Writer, WriterTakes, WriterEnters, WriterMayWrite,
     WriterEntersLate, WriterExpired, WriterFailed, WriteReturns
<1>4. CASE Reader
  BY <1>4 DEF Reader, ReaderSeesAck, ReaderEnters, ReaderAcknowledged,
     ReaderFailed
<1>5. CASE Watchdog
  BY <1>5 DEF Watchdog, DeliveryTimesOut, WatcherSees, WatcherEnters,
     WatcherExpired, WatcherFailed
<1>6. CASE Replay
  BY <1>6 DEF Replay, ReplaySkips, ReplayExhausted, ReplayEnters,
     ReplayAttached, ReplayExpired, ReplayFailed, ReplayDone,
     ReplayRefused
<1>7. CASE Supervisor /\ ~Replay
  BY <1>7 DEF Supervisor, DialSucceeds, DialFails, SessionMarkedKnown,
     GenerationEnds, BlockBegins, BlockContinues, BlockFailed, Settle,
     SessionMarkFailed, BlockNext
<1>8. CASE Environment /\ ~StoreFaults /\ ~ProcessEnds
  BY <1>8 DEF Environment, ConnectionLost, BrokerAnswers, BrokerForgets,
     DeadlinePasses, MessageDeadlinePasses, ApplicationStops, StopCloses,
     ProcessOpens
<1>9. CASE ProcessEnds
  BY <1>9 DEF ProcessEnds, Volatile
<1>10. CASE UNCHANGED vars
  BY <1>10 DEF vars
<1> QED BY <1>2, <1>3, <1>4, <1>5, <1>6, <1>7, <1>8, <1>9, <1>10
        DEF Next, Environment

(* An admission under way under a session that lives on.                   *)
LEMMA AdmissionKept ==
    ASSUME Base, [Next]_vars, alive',
           ~(\E d \in Deliveries : SubmitBegins(d)), ~AdmissionCommitted,
           ~AdmissionAttached
    PROVE  /\ tx'.op = "admit" <=> tx.op = "admit"
           /\ tx.op = "admit" => tx'.gen = tx.gen
<1>0. /\ NoTx.op = "none"
      /\ tx \in Transition
  BY BaseFacts, NoTxFacts DEF TypeInv, TypeOK
<1>1. CASE StoreCommits \/ StoreFaults
  <2>1. tx.res = "wait" /\ (tx' = [tx EXCEPT !.res = "ok"]
                              \/ tx' = [tx EXCEPT !.res = "error"])
    BY <1>1 DEF StoreCommits, StoreFaults
  <2>2. tx # NoTx
    BY <2>1, NoTxFacts
  <2>3. PICK r : tx' = [tx EXCEPT !.res = r]
    BY <2>1
  <2>4. tx'.op = tx.op /\ tx'.gen = tx.gen
    <3>1. TypeInv
      BY BaseFacts
    <3> QED BY <2>2, <2>3, <3>1, Fields
  <2> QED BY <2>4
<1>2. CASE ~StoreCommits /\ ~StoreFaults /\ tx.op = "admit"
  <2>1. tx # NoTx
    BY <1>0, <1>2
  <2>2. tx' = tx
    BY <1>2, <2>1, AdmissionStays
  <2> QED BY <1>2, <2>2
<1>3. CASE ~StoreCommits /\ tx.op # "admit"
  <2>1. tx.res = "wait" => tx # NoTx
    BY NoTxFacts
  <2>2. tx' = [tx EXCEPT !.res = "error"] /\ tx.res = "wait" => tx'.op = tx.op
    BY <1>0, <2>1, BaseFacts, Fields
  <2>3. ReaderEnters => tx' = tx \/ tx'.op = "ack"
    BY DEF ReaderEnters, Begin
  <2> QED BY <1>0, <1>3, <2>2, <2>3, GateChanges DEF GateChange
<1> QED BY <1>1, <1>2, <1>3

(* Every step keeps the count of the slots.                                *)
LEMMA SlotsStep ==
    ASSUME Base, SlotsExact, [Next]_vars
    PROVE  SlotsExact'
<1>1. /\ TypeInv /\ BookPlaces /\ HolderPlaces /\ attached \subseteq Deliveries
      /\ slots \in Int /\ gen \in Nat
      /\ tx # NoTx => tx.d \in Deliveries /\ tx.res # "none"
  BY BaseFacts, HolderType DEF TypeInv, TypeOK, SessTypeOK, Transition, Result
<1> DEFINE reserved == IF tx.op = "admit" /\ tx.gen = gen /\ tx.res # "none" THEN 1 ELSE 0
<1> SUFFICES ASSUME alive'
             PROVE  slots' = Cardinality(attached')
                       + (IF tx'.op = "admit" /\ tx'.gen = gen' /\ tx'.res # "none"
                          THEN 1 ELSE 0)
  BY DEF SlotsExact
<1>2. IsFiniteSet(attached) /\ Cardinality(attached) \in Nat
  BY <1>1, FS_Subset, FS_CardinalityType, OutboxAssumption
<1>3. /\ NoTx.op = "none"
      /\ tx.op = "admit" => tx # NoTx /\ tx.res # "none"
      /\ tx'.op = "admit" => tx'.res # "none"
  <2>1. TypeInv'
    BY <1>1, TypeStep
  <2>2. tx'.op = "admit" => tx'.res # "none"
    BY <2>1, NoTxFacts DEF TypeInv, TypeOK, Transition, Result
  <2> QED BY <1>1, <2>2, NoTxFacts
<1>4. CASE DialSucceeds
  <2>1. slots' = 0 /\ attached' = {} /\ gen' = gen + 1 /\ tx' = tx
    BY <1>4 DEF DialSucceeds
  <2>2. tx.op = "admit" => tx.gen \in Nat /\ tx.gen <= gen
    BY <1>1, NoTxFacts DEF HolderPlaces, TypeInv, TypeOK, Transition
  <2>3. ~(tx'.op = "admit" /\ tx'.gen = gen')
    BY <1>1, <2>1, <2>2
  <2> QED BY <2>1, <2>3, FS_EmptySet
<1>5. ~DialSucceeds => alive
  <2>1. ~Ends
    BY EndsLive
  <2>2. CASE UNCHANGED vars
    BY <2>2 DEF vars, sessVars
  <2> QED BY <2>1, <2>2, DeadStays
<1>6. alive => slots = Cardinality(attached) + reserved
  BY DEF SlotsExact
<1>7. CASE (\E d \in Deliveries : SubmitBegins(d)) /\ ~DialSucceeds
  <2>1. /\ tx = NoTx /\ slots' = slots + 1 /\ attached' = attached /\ gen' = gen
        /\ tx'.op = "admit" /\ tx'.gen = gen /\ tx'.res = "wait"
    BY <1>7 DEF SubmitBegins, Begin
  <2>2. reserved = 0
    BY <1>3, <2>1
  <2> QED BY <1>2, <1>5, <1>6, <1>7, <2>1, <2>2
<1>8. CASE AdmissionCommitted /\ ~DialSucceeds
  <2>1. tx.op = "admit" /\ attached' = attached /\ gen' = gen /\ alive
    BY <1>5, <1>8 DEF AdmissionCommitted, Done
  <2>2. CASE /\ tx' = [tx EXCEPT !.stmt = "attach", !.res = "wait"]
             /\ slots' = slots
    <3>1. tx'.op = "admit" /\ tx'.gen = tx.gen
      BY <1>1, <1>3, <2>1, <2>2, Fields
    <3> QED BY <1>3, <1>6, <2>1, <2>2, <3>1
  <2>3. CASE tx' = NoTx /\ slots' = IF alive /\ tx.gen = gen THEN slots - 1 ELSE slots
    <3>1. reserved = IF tx.gen = gen THEN 1 ELSE 0
      BY <1>3, <2>1
    <3> HIDE DEF reserved
    <3>2. slots' = Cardinality(attached)
      BY <1>1, <1>2, <1>6, <2>1, <2>3, <3>1
    <3> QED BY <1>2, <1>3, <2>1, <2>3, <3>2
  <2> QED BY <1>8, <2>2, <2>3 DEF AdmissionCommitted, Release
<1>9. CASE AdmissionAttached /\ ~DialSucceeds
  <2>1. tx.op = "admit" /\ slots' = slots /\ gen' = gen /\ alive /\ tx' = NoTx
    BY <1>5, <1>9 DEF AdmissionAttached, Done, Release
  <2>2. CASE tx.gen = gen
    <3>1. attached' = attached \cup {tx.d} /\ tx.d \notin attached
      BY <1>1, <1>9, <2>1, <2>2 DEF AdmissionAttached, BookPlaces
    <3>2. Cardinality(attached') = Cardinality(attached) + 1
      BY <1>2, <3>1, FS_AddElement
    <3>3. reserved = 1
      BY <1>3, <2>1, <2>2
    <3> QED BY <1>2, <1>3, <1>6, <2>1, <3>2, <3>3
  <2>3. CASE tx.gen # gen
    <3>1. attached' = attached
      BY <1>9, <2>3 DEF AdmissionAttached
    <3> QED BY <1>3, <1>6, <2>1, <2>3, <3>1
  <2> QED BY <2>2, <2>3
<1>10. CASE ReaderAcknowledged /\ ~DialSucceeds
  <2>1. /\ tx.op = "ack" /\ attached' = attached \ {tx.d} /\ gen' = gen /\ alive
        /\ tx' = NoTx /\ slots' = IF slots > 0 THEN slots - 1 ELSE 0
    BY <1>5, <1>10 DEF ReaderAcknowledged, Done, Release, SlotReturned
  <2>2. tx.d \in attached
    BY <1>10, <2>1, BaseFacts, VerdictFacts DEF Held, ReaderOwns, Completing
  <2>3. Cardinality(attached') = Cardinality(attached) - 1
    BY <1>2, <2>1, <2>2, FS_RemoveElement
  <2>4. Cardinality(attached') \in Nat
    BY <1>2, <2>1, FS_RemoveElement, FS_CardinalityType
  <2>5. reserved = 0
    BY <2>1
  <2> QED BY <1>2, <1>3, <1>6, <2>1, <2>3, <2>4, <2>5
<1>11. CASE ReplayAttached /\ ~DialSucceeds
  <2>1. tx.op = "replay" /\ alive
    BY <1>5, <1>11 DEF ReplayAttached, Done
  <2>2. /\ attached' = attached \cup {tx.d} /\ gen' = gen /\ slots' = slots + 1
        /\ tx' = NoTx
    BY <1>11 DEF ReplayAttached, AbortWith, Release
  <2>3. tx.d \notin attached
    <3>1. sup = "replay" /\ todo # <<>> /\ tx.d = Head(todo)
      BY <1>1, <2>1 DEF HolderPlaces
    <3>2. tx.d \in Members(todo)
      BY <3>1, BaseFacts, SeqHead DEF Members
    <3> QED BY <1>1, <3>1, <3>2 DEF BookPlaces
  <2>4. Cardinality(attached') = Cardinality(attached) + 1
    BY <1>2, <2>2, <2>3, FS_AddElement
  <2>5. reserved = 0
    BY <2>1
  <2> QED BY <1>2, <1>3, <1>6, <2>1, <2>2, <2>4, <2>5
<1>12. CASE UNCHANGED <<slots, attached, gen>> /\ ~DialSucceeds
            /\ ~(\E d \in Deliveries : SubmitBegins(d)) /\ ~AdmissionCommitted
            /\ ~AdmissionAttached
  <2>1. /\ tx'.op = "admit" <=> tx.op = "admit"
        /\ tx.op = "admit" => tx'.gen = tx.gen
    BY <1>12, AdmissionKept
  <2> QED BY <1>3, <1>5, <1>6, <1>12, <2>1
<1> QED BY <1>4, <1>7, <1>8, <1>9, <1>10, <1>11, <1>12, SlotChanges

(* delivery_slots is one per attached delivery and one for an admission,   *)
(* so that inflight capacity is neither leaked nor given away twice.       *)
THEOREM SlotsHold == Spec => []SlotsExact
<1>1. Init => SlotsExact
  BY DEF Init, SlotsExact
<1>2. TypeInv /\ CommitInv /\ PlaceInv /\ ExchangeInv /\ SlotsExact /\ [Next]_vars
          => SlotsExact'
  BY SlotsStep DEF Base
<1> QED BY <1>1, <1>2, TypeInvariant, CommitInvariant, ExchangeInvariant, PTL
   DEF Spec
-----------------------------------------------------------------------------
(* Only the store admits a delivery; only the broker answers one.          *)
LEMMA HistoryChanges ==
    ASSUME [Next]_vars
    PROVE  /\ UNCHANGED admitted \/ StoreCommits
           /\ UNCHANGED answered \/ BrokerAnswers
<1> USE DEF histVars
<1>1. CASE StoreCommits \/ StoreFaults
  BY <1>1 DEF StoreCommits, StoreFaults
<1>2. CASE Submitter
  BY <1>2 DEF Submitter, SubmitBegins, CallerEnqueues, CallerCancelled,
     AdmissionCommitted, AdmissionAttached, AdmissionFailed
<1>3. CASE Writer
  BY <1>3 DEF Writer, WriterTakes, WriterEnters, WriterMayWrite,
     WriterEntersLate, WriterExpired, WriterFailed, WriteReturns
<1>4. CASE Reader
  BY <1>4 DEF Reader, ReaderSeesAck, ReaderEnters, ReaderAcknowledged,
     ReaderFailed
<1>5. CASE Watchdog
  BY <1>5 DEF Watchdog, DeliveryTimesOut, WatcherSees, WatcherEnters,
     WatcherExpired, WatcherFailed
<1>6. CASE Replay
  BY <1>6 DEF Replay, ReplaySkips, ReplayExhausted, ReplayEnters,
     ReplayAttached, ReplayExpired, ReplayFailed, ReplayDone,
     ReplayRefused
<1>7. CASE Supervisor /\ ~Replay
  BY <1>7 DEF Supervisor, DialSucceeds, DialFails, SessionMarkedKnown,
     GenerationEnds, BlockBegins, BlockContinues, BlockFailed, Settle,
     SessionMarkFailed
<1>8. CASE Environment /\ ~StoreFaults /\ ~ProcessEnds
  BY <1>8 DEF Environment, ConnectionLost, BrokerAnswers, BrokerForgets,
     DeadlinePasses,
     MessageDeadlinePasses, ApplicationStops, StopCloses, ProcessOpens
<1>9. CASE ProcessEnds
  BY <1>9 DEF ProcessEnds, Volatile
<1>10. CASE UNCHANGED vars
  BY <1>10 DEF vars
<1> QED BY <1>1, <1>2, <1>3, <1>4, <1>5, <1>6, <1>7, <1>8, <1>9, <1>10
        DEF Next, Environment

(* The deliveries the contract calls answered.                             *)
AnsweredNow == {d \in Deliveries : Answered(d)}

(* The entry of a row.                                                     *)
LEMMA EntryNow ==
    ASSUME NEW d \in Deliveries
    PROVE  /\ rows[d].state = "blocked" => Entry[d] = "quarantined"
           /\ rows[d].state = "pending" =>
                  Entry[d] = IF rows[d].started THEN "possible" ELSE "unsent"
           /\ rows[d].state = "absent" =>
                  Entry[d] = IF d \in admitted THEN "erased" ELSE "none"
BY DEF Entry

(* The entry of a row after a step.                                        *)
LEMMA EntryNext ==
    ASSUME NEW d \in Deliveries
    PROVE  /\ rows'[d].state = "blocked" => Entry'[d] = "quarantined"
           /\ rows'[d].state = "pending" =>
                  Entry'[d] = IF rows'[d].started THEN "possible" ELSE "unsent"
           /\ rows'[d].state = "absent" =>
                  Entry'[d] = IF d \in admitted' THEN "erased" ELSE "none"
BY DEF Entry

(* A row that stays keeps its entry.                                       *)
LEMMA EntryKept ==
    ASSUME NEW d \in Deliveries, rows'[d] = rows[d], d \in admitted' <=> d \in admitted
    PROVE  Entry'[d] = Entry[d]
BY DEF Entry

(* The step is one of the contract, or none.                               *)
Maps == Contract!Next \/ UNCHANGED <<Entry, sent, AnsweredNow>>

(* A step that changes one entry is the step Becomes of the contract.      *)
LEMMA EntryBecomes ==
    ASSUME NEW d \in Deliveries, NEW from, NEW to,
           Entry[d] = from, Entry'[d] = to,
           \A e \in Deliveries : e # d => Entry'[e] = Entry[e],
           UNCHANGED <<sent, answered>>
    PROVE  Contract!Becomes(d, from, to)
<1>1. UNCHANGED AnsweredNow
  BY DEF AnsweredNow, Answered
<1>2. Entry' = [Entry EXCEPT ![d] = to]
  <2>1. Entry = [e \in Deliveries |-> Entry[e]] /\ Entry' = [e \in Deliveries |-> Entry'[e]]
    BY DEF Entry
  <2> QED BY <2>1
<1> QED BY <1>1, <1>2 DEF Contract!Becomes, AnsweredNow

(* A step that changes no entry is none of the contract.                   *)
LEMMA NothingSaid ==
    ASSUME \A d \in Deliveries : Entry'[d] = Entry[d],
           UNCHANGED <<sent, answered>>
    PROVE  Maps
<1>1. UNCHANGED AnsweredNow
  BY DEF AnsweredNow, Answered
<1>2. Entry = [e \in Deliveries |-> Entry[e]] /\ Entry' = [e \in Deliveries |-> Entry'[e]]
  BY DEF Entry
<1>3. Entry' = Entry
  BY <1>2
<1> QED BY <1>1, <1>3 DEF Maps

(* A statement that commits is one step of the contract.                   *)
LEMMA CommitMaps ==
    ASSUME Base, StoreCommits
    PROVE  Maps
<1>1. /\ TypeInv /\ StatementShapes /\ StatementHeld /\ AnswerHeld /\ HolderOK
      /\ rows \in [Deliveries -> Row] /\ AdmittedFirst /\ AdmissionHeld
  BY BaseFacts DEF TypeInv, TypeOK, DbTypeOK, CommitInv
<1>2. UNCHANGED <<sent, answered>>
  BY DEF StoreCommits
<1> DEFINE d == tx.d
<1>3. d \in Deliveries /\ tx # NoTx /\ tx.res = "wait" /\ rows[d] \in Row
  BY <1>1, CommitRow
<1>4. CASE UNCHANGED <<rows, admitted>>
  <2>1. \A e \in Deliveries : Entry'[e] = Entry[e]
    BY <1>4, EntryKept
  <2> QED BY <1>2, <2>1, NothingSaid
<1>5. CASE ~UNCHANGED <<rows, admitted>>
  <2>1. /\ Commits(tx.stmt, rows, d, mem[d].pid)
        /\ rows'[d] = RowAfter(tx.stmt, rows[d], mem[d].pid, nextSeq)
        /\ \A e \in Deliveries : e # d => rows'[e] = rows[e]
        /\ admitted' = (IF tx.stmt = "insert" THEN admitted \cup {d} ELSE admitted)
    BY <1>5, CommitRow
  <2> HIDE DEF d
  <2>2. \A e \in Deliveries : e # d => Entry'[e] = Entry[e]
    BY <2>1, EntryKept
  <2>3. CASE tx.stmt = "insert"
    <3>1. rows[d].state = "absent" /\ rows'[d].state = "pending" /\ ~rows'[d].started
      BY <1>3, <2>1, <2>3, RowAfterFacts DEF Commits
    <3>2. d \notin admitted
      <4>1. tx.op = "admit"
        BY <1>1, <1>3, <2>3, HolderType DEF StatementShapes
      <4> QED BY <1>1, <1>3, <2>3, <4>1 DEF d, AdmissionHeld
    <3>3. Entry[d] = "none" /\ Entry'[d] = "unsent"
      BY <1>3, <3>1, <3>2, EntryNow, EntryNext
    <3>4. Contract!Admit(d)
      BY <1>2, <1>3, <2>2, <3>3, EntryBecomes DEF Contract!Admit
    <3> QED BY <1>3, <3>4 DEF Maps, Contract!Next
  <2>4. CASE tx.stmt \in {"attach", "check"}
    <3>1. /\ rows[d].state = "pending" /\ rows'[d].state = rows[d].state
          /\ rows'[d].started <=> rows[d].started
      <4>1. rows[d].state = "pending"
        BY <2>1, <2>4 DEF Commits
      <4>2. tx.stmt \in {"attach", "mark", "check"} /\ tx.stmt # "mark"
        BY <2>4
      <4> QED BY <1>3, <2>1, <4>1, <4>2, RowAfterFacts
    <3>2. Entry'[d] = Entry[d]
      BY <1>3, <3>1, EntryNow, EntryNext
    <3> QED BY <1>2, <2>2, <3>2, NothingSaid
  <2>5. CASE tx.stmt = "mark"
    <3>1. /\ rows[d].state = "pending" /\ rows'[d].state = rows[d].state
          /\ rows'[d].started
      BY <1>3, <2>1, <2>5, RowAfterFacts DEF Commits
    <3>2. CASE rows[d].started
      <4>1. Entry'[d] = Entry[d]
        BY <1>3, <3>1, <3>2, EntryNow, EntryNext
      <4> QED BY <1>2, <2>2, <4>1, NothingSaid
    <3>3. CASE ~rows[d].started
      <4>1. Entry[d] = "unsent" /\ Entry'[d] = "possible"
        BY <1>3, <3>1, <3>3, EntryNow, EntryNext
      <4>2. Contract!Mark(d)
        BY <1>2, <1>3, <2>2, <4>1, EntryBecomes DEF Contract!Mark
      <4> QED BY <1>3, <4>2 DEF Maps, Contract!Next
    <3> QED BY <3>2, <3>3
  <2>6. CASE tx.stmt = "quarantine"
    <3>1. rows[d].state \in {"pending", "blocked"} /\ rows'[d].state = "blocked"
      BY <1>3, <2>1, <2>6, RowAfterFacts DEF Commits, Row
    <3>2. CASE rows[d].state = "blocked"
      <4>1. Entry'[d] = Entry[d]
        BY <1>3, <3>1, <3>2, EntryNow, EntryNext
      <4> QED BY <1>2, <2>2, <4>1, NothingSaid
    <3>3. CASE rows[d].state = "pending"
      <4>1. Entry[d] \in {"unsent", "possible"} /\ Entry'[d] = "quarantined"
        BY <1>3, <3>1, <3>3, EntryNow, EntryNext
      <4>2. Contract!Quarantine(d)
        BY <1>2, <1>3, <2>2, <4>1, EntryBecomes DEF Contract!Quarantine
      <4> QED BY <1>3, <4>2 DEF Maps, Contract!Next
    <3> QED BY <3>1, <3>2, <3>3
  <2>7. CASE tx.stmt = "expire"
    <3>1. /\ rows[d].state = "pending"
          /\ \/ rows[d].started /\ rows'[d].state = "blocked"
             \/ ~rows[d].started /\ rows'[d].state = "absent"
      BY <1>3, <2>1, <2>7, RowAfterFacts DEF Commits
    <3>2. d \in admitted /\ d \in admitted'
      BY <1>1, <1>3, <2>1, <3>1 DEF AdmittedFirst
    <3>3. /\ Entry[d] \in {"unsent", "possible"}
          /\ Entry'[d] = IF Entry[d] = "unsent" THEN "erased" ELSE "quarantined"
      BY <1>3, <3>1, <3>2, EntryNow, EntryNext
    <3>4. Contract!Expire({d})
      <4>1. UNCHANGED AnsweredNow
        BY <1>2 DEF AnsweredNow, Answered
      <4>2. Entry' = [e \in Deliveries |-> Entry'[e]]
        BY DEF Entry
      <4>3. Entry' = [e \in Deliveries |->
                        IF e \notin {d} THEN Entry[e]
                        ELSE IF Entry[e] = "unsent" THEN "erased"
                                                    ELSE "quarantined"]
        BY <1>3, <2>2, <3>3, <4>2
      <4> QED BY <1>2, <3>3, <4>1, <4>3 DEF Contract!Expire, AnsweredNow
    <3> QED BY <1>3, <3>4 DEF Maps, Contract!Next
  <2>8. CASE tx.stmt = "delete"
    <3>1. tx.op = "ack"
      BY <1>1, <1>3, <2>8 DEF StatementShapes
    <3>2. rows[d].state = "pending" /\ rows[d].started /\ rows'[d].state = "absent"
      BY <1>1, <1>3, <2>1, <2>8, <3>1, RowAfterFacts DEF StatementHeld, d
    <3>3. d \in admitted /\ d \in admitted'
      BY <1>1, <1>3, <2>1, <3>2 DEF AdmittedFirst
    <3>4. Entry[d] = "possible" /\ Entry'[d] = "erased"
      BY <1>3, <3>2, <3>3, EntryNow, EntryNext
    <3>5. Answered(d)
      <4>1. Completing(d)
        BY <1>1, <3>1 DEF HolderOK, Completing, d
      <4>2. reader \in Task
        BY <1>1 DEF TypeInv, TypeOK, TaskTypeOK
      <4>3. reader.flag \in BOOLEAN
        <5>1. IdleTask.flag \in BOOLEAN
          BY DEF IdleTask
        <5> QED BY <4>2, <5>1 DEF Task
      <4> QED BY <1>1, <1>3, <4>1, <4>3 DEF AnswerHeld, Answered
    <3>6. Contract!Complete(d)
      BY <1>2, <1>3, <2>2, <3>4, <3>5, EntryBecomes DEF Contract!Complete
    <3> QED BY <1>3, <3>6 DEF Maps, Contract!Next
  <2>9. tx.stmt \in Statement
    BY <1>1, <1>3, HolderType
  <2> QED BY <2>3, <2>4, <2>5, <2>6, <2>7, <2>8, <2>9 DEF Statement
<1> QED BY <1>4, <1>5

(* Opening the file sweeps rows whose deadline passed.                     *)
LEMMA OpensMaps ==
    ASSUME Base, ProcessOpens
    PROVE  Maps
<1>1. rows \in [Deliveries -> Row] /\ AdmittedFirst
  BY BaseFacts DEF TypeInv, TypeOK, DbTypeOK, CommitInv
<1>2. rows' = Swept(rows, late) /\ UNCHANGED <<sent, answered, admitted>>
  BY DEF ProcessOpens, histVars
<1> DEFINE S == {d \in Deliveries : d \in late /\ rows[d].state = "pending"}
<1>3. ASSUME NEW d \in Deliveries
      PROVE  /\ d \in S => Entry[d] \in {"unsent", "possible"}
             /\ Entry'[d] = IF d \notin S THEN Entry[d]
                            ELSE IF Entry[d] = "unsent" THEN "erased"
                                                        ELSE "quarantined"
  <2>1. rows[d].state = "pending" => d \in admitted /\ d \in admitted'
    BY <1>1, <1>2 DEF AdmittedFirst
  <2>2. CASE d \notin S
    <3>1. rows'[d] = rows[d]
      BY <1>1, <1>2, <2>2, SweptFacts
    <3> QED BY <1>2, <2>2, <3>1, EntryKept
  <2>3. CASE d \in S
    <3>1. /\ rows[d].state = "pending"
          /\ \/ rows'[d].state = "blocked" /\ rows[d].started
             \/ rows'[d].state = "absent" /\ ~rows[d].started
      BY <1>1, <1>2, <2>3, SweptFacts
    <3> QED BY <2>1, <2>3, <3>1, EntryNow, EntryNext
  <2> QED BY <2>2, <2>3
<1> HIDE DEF S
<1>4. Contract!Expire(S)
  <2>1. UNCHANGED AnsweredNow
    BY <1>2 DEF AnsweredNow, Answered
  <2>2. Entry' = [e \in Deliveries |-> Entry'[e]]
    BY DEF Entry
  <2>3. S \subseteq Deliveries
    BY DEF S
  <2>4. \A d \in S : Entry[d] \in {"unsent", "possible"}
    BY <1>3, <2>3
  <2>5. Entry' = [d \in Deliveries |->
                    IF d \notin S THEN Entry[d]
                    ELSE IF Entry[d] = "unsent" THEN "erased"
                                                ELSE "quarantined"]
    BY <1>3, <2>2
  <2> QED BY <1>2, <2>1, <2>4, <2>5 DEF Contract!Expire, AnsweredNow
<1>5. S \in SUBSET Deliveries
  BY DEF S
<1> QED BY <1>4, <1>5 DEF Maps, Contract!Next

(* A write hands over a delivery whose entry says that it may.             *)
LEMMA WriteMaps ==
    ASSUME Base, WriterMayWrite, sent' = sent \cup {tx.d},
           UNCHANGED <<rows, admitted, answered>>
    PROVE  Maps
<1>1. tx.d \in Deliveries
  BY BaseFacts, NoTxFacts DEF WriterMayWrite, Done
<1>2. rows[tx.d].state = "pending" /\ rows[tx.d].started
  BY BaseFacts DEF WriterMayWrite, Done, CommitInv, WriteHeld
<1>3. Entry[tx.d] = "possible"
  BY <1>1, <1>2, EntryNow
<1>4. Entry' = Entry /\ UNCHANGED AnsweredNow
  BY DEF Entry, AnsweredNow, Answered
<1>5. Contract!Transmit(tx.d)
  BY <1>3, <1>4 DEF Contract!Transmit, AnsweredNow
<1> QED BY <1>1, <1>5 DEF Maps, Contract!Next

(* The broker answers what it was handed.                                  *)
LEMMA AnswerMaps ==
    ASSUME Base, BrokerAnswers
    PROVE  Maps
<1>1. toBroker \in Seq(Publish) /\ toBroker # <<>> /\ AnswerHeld
  BY BaseFacts DEF TypeInv, TypeOK, NetTypeOK, BrokerAnswers
<1> DEFINE d == Head(toBroker).d
<1>2. PICK ok \in BOOLEAN : answered' = answered \cup {<<d, ok>>}
  BY DEF BrokerAnswers
<1>3. UNCHANGED <<rows, admitted, sent>>
  BY DEF BrokerAnswers, dbVars
<1>4. 1 \in DOMAIN toBroker /\ Head(toBroker) = toBroker[1] /\ toBroker[1] \in Publish
  BY <1>1
<1>5. d \in sent /\ d \in Deliveries
  BY <1>1, <1>4 DEF AnswerHeld, Publish
<1> HIDE DEF d
<1>6. Entry' = Entry
  BY <1>3 DEF Entry
<1>7. AnsweredNow' = AnsweredNow \cup {d}
  <2>1. ASSUME NEW e \in Deliveries
        PROVE  Answered(e)' <=> Answered(e) \/ e = d
    BY <1>2 DEF Answered
  <2> QED BY <1>5, <2>1 DEF AnsweredNow
<1>8. Contract!Answer(d)
  BY <1>3, <1>5, <1>6, <1>7 DEF Contract!Answer, AnsweredNow
<1> QED BY <1>5, <1>8 DEF Maps, Contract!Next

(* Every step maps to a step of the contract, or to none.                  *)
LEMMA NextMaps ==
    ASSUME Base, [Next]_vars
    PROVE  Maps
<1>1. CASE StoreCommits
  BY <1>1, CommitMaps
<1>2. CASE ProcessOpens
  BY <1>2, OpensMaps
<1>3. CASE BrokerAnswers
  BY <1>3, AnswerMaps
<1>4. CASE ~StoreCommits /\ ~ProcessOpens /\ ~BrokerAnswers
  <2>1. UNCHANGED <<rows, admitted, answered>>
    BY <1>4, TableChanges, HistoryChanges
  <2>2. CASE WriterMayWrite /\ sent' = sent \cup {tx.d}
    BY <2>1, <2>2, WriteMaps
  <2>3. CASE UNCHANGED sent
    BY <2>1, <2>3, EntryKept, NothingSaid
  <2> QED BY <2>2, <2>3, SentChanges
<1> QED BY <1>1, <1>2, <1>3, <1>4

(* The durable client implements DeliveryContract: admitted once, marked   *)
(* before any byte, forgotten only when answered or certainly unsent,      *)
(* quarantined for good.                                                   *)
THEOREM ContractIsKept == Spec => ImplementsContract
<1>1. Init => Contract!Init
  <2> SUFFICES ASSUME Init PROVE Contract!Init
    OBVIOUS
  <2>1. /\ \A d \in Deliveries : rows[d].state = "absent" /\ d \notin admitted
        /\ sent = {} /\ answered = {}
    BY DEF Init, EmptyTable, NoRow
  <2>2. \A d \in Deliveries : Entry[d] = "none"
    BY <2>1, EntryNow
  <2>3. Entry = [d \in Deliveries |-> Entry[d]]
    BY DEF Entry
  <2>4. AnsweredNow = {}
    BY <2>1 DEF AnsweredNow, Answered
  <2> QED BY <2>1, <2>2, <2>3, <2>4 DEF Contract!Init, AnsweredNow
<1>2. TypeInv /\ CommitInv /\ PlaceInv /\ ExchangeInv /\ [Next]_vars
          => [Contract!Next]_(Contract!vars)
  BY NextMaps DEF Base, Maps, Contract!vars, AnsweredNow
<1> QED BY <1>1, <1>2, TypeInvariant, CommitInvariant, ExchangeInvariant, PTL
        DEF Spec, ImplementsContract, Contract!Spec
-----------------------------------------------------------------------------
(* The book and the table.                                                 *)

(* A handle of the book that has not ended.                                *)
Open(d) == d \in Members(order) /\ ~Terminal(mem, d)

(* The row of d agrees with its record.                                    *)
RowMatches(d) ==
    /\ rows[d].state = "pending" => Open(d)
    /\ Open(d) => /\ rows[d].state # "absent"
                  /\ rows[d].attempts = mem[d].attempts
                  /\ rows[d].started <=> mem[d].started

(* The row of a statement that has committed is a step ahead of its record *)
(* until the holder of the gate resumes.                                   *)
Ahead(d) == tx.d = d /\ tx.res = "ok"

(* What each statement has put into the row of d.                          *)
AheadMatches(d) ==
    /\ tx.stmt = "insert" =>
           /\ d \notin Members(order)
           /\ rows[d].state = "pending" /\ rows[d].attempts = 0
           /\ ~rows[d].started
    /\ tx.stmt = "attach" =>
           /\ Open(d) /\ rows[d].state = "pending"
           /\ rows[d].attempts = mem[d].attempts + 1
           /\ rows[d].started <=> mem[d].started
    /\ tx.stmt \in {"mark", "check"} =>
           /\ Open(d) /\ rows[d].state = "pending" /\ rows[d].started
           /\ rows[d].attempts = mem[d].attempts
    /\ tx.stmt = "quarantine" => RowMatches(d)
    /\ tx.stmt \in {"expire", "quarantine", "delete"} =>
           rows[d].state # "pending"

(* A record that stands for nothing has never been attached or written.    *)
BlankRecords ==
    \A d \in Deliveries : mem[d].phase = "none" =>
        mem[d].attempts = 0 /\ ~mem[d].started

(* A stopped supervisor leaves no transition behind.                       *)
StoppedRests == sup = "stopped" => tx = NoTx

(* Every row of a running client agrees with its record, or is the one     *)
(* step ahead of it.                                                       *)
MatchInv ==
    sup \notin {"down", "stopped"} =>
        \A d \in Deliveries :
            IF Ahead(d) THEN AheadMatches(d) ELSE RowMatches(d)

(* What the holder of the gate is sure of while its statement runs.        *)
HolderSure ==
    /\ tx.op = "admit" /\ tx.stmt = "attach" => Open(tx.d)
    /\ tx.op = "replay" /\ alive => Open(tx.d)
    /\ tx.op = "block" => Open(tx.d) /\ Members(todo) \subseteq Members(order)
    /\ tx.op = "watch" /\ alive => tx.d \in attached

(* What a replay has still to do is in the book.                           *)
ReplayKnown ==
    sup = "replay" /\ alive => Members(todo) \subseteq Members(order)

(* The row an admission inserts has room, and no other row has its         *)
(* identifier.                                                             *)
InsertFits ==
    tx.stmt = "insert" /\ tx.res = "wait" =>
        \/ Blocked(rows) # {}
        \/ /\ Cardinality(Present(rows)) < MaxRecords
           /\ \A e \in Present(rows) : rows[e].pid # mem[tx.d].pid

(* What excuses a storage error: a failing statement, or a quarantined     *)
(* row.                                                                    *)
Trouble == faults > 0 \/ Blocked(rows) # {}

(* A statement on which a live client depends is refused under such        *)
(* trouble only.                                                           *)
ErrorCaused ==
    tx.res = "error" /\ (alive \/ tx.op \in {"admit", "block"}) => Trouble

(* Why book and table agree: inductive, together with the above.           *)
TableInv ==
    /\ BlankRecords /\ StoppedRests /\ MatchInv /\ HolderSure /\ ReplayKnown
-----------------------------------------------------------------------------
(* A step that changes neither the table nor the book, but for the end of  *)
(* the session, and takes or gives up the gate at most after a quarantine. *)
Keeps ==
    /\ UNCHANGED <<rows, order>>
    /\ UNCHANGED mem \/ \E c : AbortWith(c, mem, attached)
    /\ tx' = tx \/ (tx'.res # "ok" /\ (tx.res = "ok" => tx.stmt = "quarantine"))

(* The holder whose row has expired or is in quarantine ends its handle.   *)
Finishes ==
    /\ UNCHANGED <<rows, order>>
    /\ tx.res = "ok" /\ tx.stmt \in {"expire", "quarantine"} /\ tx' = NoTx
    /\ \E c : AbortWith(c, FinishTerminal(mem, tx.d), attached)

(* What a step does to the table, the book and the gate.                   *)
LEMMA BookChanges ==
    ASSUME TypeInv, [Next]_vars
    PROVE  \/ StoreCommits \/ Keeps \/ Finishes
           \/ (\E d \in Deliveries : SubmitBegins(d)) \/ AdmissionCommitted
           \/ AdmissionAttached \/ AdmissionFailed \/ WriterMayWrite
           \/ ReaderAcknowledged \/ ReplayAttached \/ Settle
           \/ ProcessEnds \/ ProcessOpens
<1> USE DEF dbVars, bookVars, Abort, Done, Failed, Release, Begin, Keeps,
   Finishes
<1>0. NoTx.res = "none" /\ (tx.res = "wait" => tx # NoTx)
  BY NoTxFacts
<1>1. CASE StoreFaults
  <2>1. tx.res = "wait" /\ tx' = [tx EXCEPT !.res = "error"]
    BY <1>1 DEF StoreFaults
  <2>2. tx'.res = "error"
    BY <1>0, <2>1, Fields
  <2> QED BY <1>1, <2>1, <2>2 DEF StoreFaults
<1>2. CASE Submitter
  BY <1>0, <1>2 DEF Submitter, CallerEnqueues, CallerCancelled
<1>3. CASE Writer
  BY <1>0, <1>3 DEF Writer, WriterTakes, WriterEnters, WriterEntersLate,
     WriterExpired, WriterFailed, WriteReturns
<1>4. CASE Reader
  BY <1>0, <1>4 DEF Reader, ReaderSeesAck, ReaderEnters, ReaderFailed
<1>5. CASE Watchdog
  BY <1>0, <1>5 DEF Watchdog, DeliveryTimesOut, WatcherSees, WatcherEnters,
     WatcherExpired, WatcherFailed
<1>6. CASE Replay
  BY <1>0, <1>6 DEF Replay, ReplaySkips, ReplayExhausted, ReplayEnters,
     ReplayExpired, ReplayFailed, ReplayDone, ReplayRefused
<1>7. CASE Supervisor /\ ~Replay
  BY <1>0, <1>7 DEF Supervisor, DialSucceeds, DialFails, SessionMarkedKnown,
     GenerationEnds, BlockBegins, BlockContinues, BlockFailed,
     SessionMarkFailed, BlockNext, BlockEnds
<1>8. CASE Environment /\ ~StoreFaults /\ ~ProcessEnds
  BY <1>0, <1>8 DEF Environment, ConnectionLost, BrokerAnswers, BrokerForgets,
     DeadlinePasses, MessageDeadlinePasses, ApplicationStops, StopCloses
<1>10. CASE UNCHANGED vars
  BY <1>0, <1>10 DEF vars
<1> QED BY <1>1, <1>2, <1>3, <1>4, <1>5, <1>6, <1>7, <1>8, <1>10
        DEF Next, Environment

(* The sides of a record that the table knows.                             *)
Same(m, n, d) ==
    /\ n[d].attempts = m[d].attempts
    /\ n[d].started <=> m[d].started
    /\ Terminal(n, d) <=> Terminal(m, d)
    /\ n[d].phase = "none" => m[d].phase = "none"

(* The end of a session changes no side of a record that the table knows.  *)
LEMMA DetachedSame ==
    ASSUME NEW m \in [Deliveries -> Record], NEW S, NEW c, AbortWith(c, m, S),
           NEW d \in Deliveries
    PROVE  Same(m, mem', d)
<1>1. mem' = m \/ mem' = Detached(m, S)
  BY DEF AbortWith
<1>2. /\ Detached(m, S)[d].attempts = m[d].attempts
      /\ Detached(m, S)[d].started = m[d].started
      /\ \/ Detached(m, S)[d] = m[d]
         \/ /\ m[d].phase \notin TerminalPhase
            /\ Detached(m, S)[d].phase = "AwaitingReconnect"
  BY DetachedRecords
<1>3. "AwaitingReconnect" \notin TerminalPhase
  BY DEF TerminalPhase
<1> QED BY <1>1, <1>2, <1>3 DEF Same, Terminal

(* Nor does a step that keeps the book.                                    *)
LEMMA KeepsSame ==
    ASSUME Base, Keeps, NEW d \in Deliveries
    PROVE  Same(mem, mem', d)
<1>1. mem \in [Deliveries -> Record]
  BY BaseFacts
<1>2. CASE UNCHANGED mem
  BY <1>2 DEF Same, Terminal
<1>3. CASE \E c : AbortWith(c, mem, attached)
  BY <1>1, <1>3, DetachedSame
<1> QED BY <1>2, <1>3 DEF Keeps

(* A holder that finishes a delivery ends its record and no other.         *)
LEMMA FinishesSame ==
    ASSUME Base, Finishes, NEW d \in Deliveries
    PROVE  /\ tx # NoTx /\ tx.d \in Deliveries
           /\ d # tx.d => Same(mem, mem', d)
           /\ d = tx.d => Terminal(mem', d) /\ mem'[d].phase # "none"
<1>1. mem \in [Deliveries -> Record] /\ tx # NoTx /\ tx.d \in Deliveries
  BY BaseFacts, NoTxFacts DEF Finishes
<1> DEFINE m == FinishTerminal(mem, tx.d)
<1>2. m \in [Deliveries -> Record]
  BY <1>1, MemType DEF TypeInv
<1>3. m[tx.d].phase \in TerminalPhase /\ \A e \in Deliveries : e # tx.d => m[e] = mem[e]
  BY <1>1, EndedRecord
<1>4. PICK c : AbortWith(c, m, attached)
  BY DEF Finishes
<1> HIDE DEF m
<1>5. Same(m, mem', d)
  BY <1>2, <1>4, DetachedSame
<1>6. "none" \notin TerminalPhase
  BY DEF TerminalPhase
<1> QED BY <1>1, <1>3, <1>5, <1>6 DEF Same, Terminal

(* An admission that begins reserves an identifier.                        *)
LEMMA SubmitSame ==
    ASSUME Base, NEW e \in Deliveries, SubmitBegins(e), NEW d \in Deliveries
    PROVE  Same(mem, mem', d)
<1>1. mem \in [Deliveries -> Record]
  BY BaseFacts
<1>2. PICK id : mem' = [mem EXCEPT ![e].pid = id]
  BY DEF SubmitBegins
<1>3. CASE d = e
  BY <1>1, <1>2, <1>3, RecordEdits DEF Same, Terminal
<1>4. CASE d # e
  BY <1>1, <1>2, <1>4, RecordEdits DEF Same, Terminal
<1> QED BY <1>3, <1>4

(* One that fails gives it back.                                           *)
LEMMA AdmissionFailedSame ==
    ASSUME Base, AdmissionFailed, NEW d \in Deliveries
    PROVE  Same(mem, mem', d)
<1>1. mem \in [Deliveries -> Record] /\ tx # NoTx /\ tx.d \in Deliveries
  BY BaseFacts, NoTxFacts DEF AdmissionFailed, Failed
<1> DEFINE n == [mem EXCEPT ![tx.d].pid = 0]
<1>2. n \in [Deliveries -> Record]
  BY <1>1, RecordUpdates, Constants
<1>3. Same(mem, n, d)
  <2>1. CASE d = tx.d
    BY <1>1, <2>1, RecordEdits DEF Same, Terminal
  <2>2. CASE d # tx.d
    BY <1>1, <2>2, RecordEdits DEF Same, Terminal
  <2> QED BY <2>1, <2>2
<1>4. Same(mem, mem, d)
  BY DEF Same
<1>5. PICK m \in {mem, n} : AbortWith("storage", m, attached)
  BY DEF AdmissionFailed, Abort
<1> HIDE DEF n
<1>6. Same(m, mem', d)
  BY <1>1, <1>2, <1>5, DetachedSame
<1>7. Same(mem, m, d)
  BY <1>3, <1>4, <1>5
<1> QED BY <1>6, <1>7 DEF Same

(* One that commits opens the record.                                      *)
LEMMA CommittedSame ==
    ASSUME Base, AdmissionCommitted, NEW d \in Deliveries
    PROVE  /\ tx # NoTx /\ tx.d \in Deliveries
           /\ d # tx.d => Same(mem, mem', d)
           /\ d = tx.d => /\ mem'[d].attempts = mem[d].attempts
                          /\ mem'[d].started <=> mem[d].started
                          /\ ~Terminal(mem', d) /\ mem'[d].phase # "none"
<1>1. mem \in [Deliveries -> Record] /\ tx # NoTx /\ tx.d \in Deliveries
  BY BaseFacts, NoTxFacts DEF AdmissionCommitted, Done
<1>2. PICK p \in {"Queued", "AwaitingReconnect"} : mem' = [mem EXCEPT ![tx.d].phase = p]
  BY DEF AdmissionCommitted
<1>3. p \notin TerminalPhase /\ p # "none"
  BY DEF TerminalPhase
<1>4. CASE d = tx.d
  BY <1>1, <1>2, <1>3, <1>4, RecordEdits DEF Terminal
<1>5. CASE d # tx.d
  BY <1>1, <1>2, <1>5, RecordEdits DEF Same, Terminal
<1> QED BY <1>1, <1>4, <1>5

(* Attaching counts an attempt.                                            *)
LEMMA AttachedSame ==
    ASSUME Base, AdmissionAttached \/ ReplayAttached, NEW d \in Deliveries
    PROVE  /\ tx # NoTx /\ tx.d \in Deliveries
           /\ d # tx.d => Same(mem, mem', d)
           /\ d = tx.d => /\ mem'[d].attempts = mem[d].attempts + 1
                          /\ mem'[d].started <=> mem[d].started
                          /\ ~Terminal(mem', d) /\ mem'[d].phase # "none"
<1>1. mem \in [Deliveries -> Record] /\ tx # NoTx /\ tx.d \in Deliveries
      /\ TypeInv
  BY BaseFacts, NoTxFacts DEF AdmissionAttached, ReplayAttached, Done
<1>2. PICK g \in {tx.gen, gen} :
         \/ mem' = Attach(mem, tx.d, g)
         \/ \E c : AbortWith(c, Attach(mem, tx.d, g), attached \cup {tx.d})
  BY DEF AdmissionAttached, ReplayAttached
<1>3. g \in Nat
  BY <1>1, HolderType DEF TypeInv, TypeOK, SessTypeOK
<1> DEFINE m == Attach(mem, tx.d, g)
<1>4. m \in [Deliveries -> Record]
  BY <1>1, <1>3, MemType
<1>5. /\ m[tx.d].phase = "Queued" /\ m[tx.d].attempts = mem[tx.d].attempts + 1
      /\ m[tx.d].started = mem[tx.d].started
      /\ \A e \in Deliveries : e # tx.d => m[e] = mem[e]
  BY <1>1, RecordEdits
<1> HIDE DEF m
<1>6. Same(m, mem', d)
  <2>1. CASE mem' = m
    BY <2>1 DEF Same, Terminal
  <2>2. CASE \E c : AbortWith(c, m, attached \cup {tx.d})
    BY <1>4, <2>2, DetachedSame
  <2> QED BY <1>2, <2>1, <2>2 DEF m
<1>7. "Queued" \notin TerminalPhase
  BY DEF TerminalPhase
<1> QED BY <1>1, <1>5, <1>6, <1>7 DEF Same, Terminal

(* The possible write is marked.                                           *)
LEMMA MayWriteSame ==
    ASSUME Base, WriterMayWrite, NEW d \in Deliveries
    PROVE  /\ tx # NoTx /\ tx.d \in Deliveries
           /\ d # tx.d => Same(mem, mem', d)
           /\ d = tx.d => /\ mem'[d].attempts = mem[d].attempts
                          /\ mem'[d].started
                          /\ ~Terminal(mem', d) /\ mem'[d].phase # "none"
<1>1. mem \in [Deliveries -> Record] /\ tx # NoTx /\ tx.d \in Deliveries
      /\ TypeInv
  BY BaseFacts, NoTxFacts DEF WriterMayWrite, Done
<1> DEFINE m == MarkStarted(mem, tx.d)
<1>2. m \in [Deliveries -> Record]
  BY <1>1, MemType
<1>3. /\ m[tx.d].phase = "AwaitingAck" /\ m[tx.d].attempts = mem[tx.d].attempts
      /\ m[tx.d].started
      /\ \A e \in Deliveries : e # tx.d => m[e] = mem[e]
  BY <1>1, RecordEdits
<1>4. mem' = m \/ AbortWith("rejected", m, attached)
  BY DEF WriterMayWrite, Abort
<1> HIDE DEF m
<1>5. Same(m, mem', d)
  <2>1. CASE mem' = m
    BY <2>1 DEF Same, Terminal
  <2>2. CASE AbortWith("rejected", m, attached)
    BY <1>2, <2>2, DetachedSame
  <2> QED BY <1>4, <2>1, <2>2
<1>6. "AwaitingAck" \notin TerminalPhase
  BY DEF TerminalPhase
<1> QED BY <1>1, <1>3, <1>5, <1>6 DEF Same, Terminal

(* A PUBACK ends the record it is for.                                     *)
LEMMA AcknowledgedSame ==
    ASSUME Base, ReaderAcknowledged, NEW d \in Deliveries
    PROVE  /\ tx # NoTx /\ tx.d \in Deliveries
           /\ d # tx.d => Same(mem, mem', d)
           /\ d = tx.d => mem'[d].phase # "none" \/ mem'[d] = mem[d]
<1>1. mem \in [Deliveries -> Record] /\ tx # NoTx /\ tx.d \in Deliveries
  BY BaseFacts, NoTxFacts DEF ReaderAcknowledged, Done
<1>2. \/ mem' = mem
      \/ mem' = [mem EXCEPT ![tx.d].phase = "Acknowledged"]
      \/ mem' = [mem EXCEPT ![tx.d] = [@ EXCEPT !.phase = "Rejected", !.gen = 0]]
  BY DEF ReaderAcknowledged
<1>3. d # tx.d => mem'[d] = mem[d]
  BY <1>1, <1>2
<1>4. mem'[tx.d] = mem[tx.d] \/ mem'[tx.d].phase \in {"Acknowledged", "Rejected"}
  <2>1. [mem[tx.d] EXCEPT !.phase = "Rejected", !.gen = 0].phase = "Rejected"
    BY <1>1 DEF Record
  <2>2. [mem[tx.d] EXCEPT !.phase = "Acknowledged"].phase = "Acknowledged"
    BY <1>1 DEF Record
  <2> QED BY <1>1, <1>2, <2>1, <2>2
<1> QED BY <1>1, <1>3, <1>4 DEF Same, Terminal
-----------------------------------------------------------------------------
(* A supervisor without a client stays at rest until the process opens, and none works for it. *)
LEMMA RestSteps ==
    ASSUME Base, [Next]_vars
    PROVE  /\ sup \in {"down", "stopped"} => ProcessOpens \/ sup' \in {"down", "stopped"}
           /\ sup' = "stopped" => Settle \/ sup = "stopped"
           /\ sup = "stopped" /\ tx = NoTx => tx' = NoTx
<1> USE DEF supVars, Done, Failed, Begin, Release, Ready, Resting
<1>0. /\ HolderPlaces /\ TaskPlaces /\ SessionPlaces
      /\ NoTx.op = "none" /\ NoTx.res = "none"
  BY BaseFacts, NoTxFacts
<1> USE DEF HolderPlaces, TaskPlaces, SessionPlaces
<1>1. CASE StoreCommits \/ StoreFaults
  BY <1>0, <1>1 DEF StoreCommits, StoreFaults
<1>2. CASE Submitter
  BY <1>0, <1>2 DEF Submitter, SubmitBegins, CallerEnqueues, CallerCancelled,
     AdmissionCommitted, AdmissionAttached, AdmissionFailed
<1>3. CASE Writer
  BY <1>0, <1>3 DEF Writer, WriterTakes, WriterEnters, WriterMayWrite,
     WriterEntersLate, WriterExpired, WriterFailed, WriteReturns
<1>4. CASE Reader
  BY <1>0, <1>4 DEF Reader, ReaderSeesAck, ReaderEnters, ReaderAcknowledged,
     ReaderFailed
<1>5. CASE Watchdog
  BY <1>0, <1>5 DEF Watchdog, DeliveryTimesOut, WatcherSees, WatcherEnters,
     WatcherExpired, WatcherFailed
<1>6. CASE Replay
  BY <1>0, <1>6 DEF Replay, ReplaySkips, ReplayExhausted, ReplayEnters,
     ReplayAttached, ReplayExpired, ReplayFailed, ReplayDone,
     ReplayRefused
<1>7. CASE Supervisor /\ ~Replay /\ ~Settle
  BY <1>0, <1>7 DEF Supervisor, DialSucceeds, DialFails, SessionMarkedKnown,
     GenerationEnds, BlockBegins, BlockContinues, BlockFailed,
     SessionMarkFailed, BlockNext, BlockEnds, AfterGeneration
<1>11. CASE ProcessOpens
  BY <1>0, <1>11, NoTxFacts DEF ProcessOpens
<1>12. CASE Settle
  BY <1>12 DEF Settle
<1>8. CASE Environment /\ ~StoreFaults /\ ~ProcessEnds /\ ~ProcessOpens
  BY <1>0, <1>8 DEF Environment, ConnectionLost, BrokerAnswers, BrokerForgets,
     DeadlinePasses, MessageDeadlinePasses, ApplicationStops, StopCloses,
     WorkerCancelled
<1>9. CASE ProcessEnds
  BY <1>0, <1>9 DEF ProcessEnds, Volatile
<1>10. CASE UNCHANGED vars
  BY <1>0, <1>10 DEF vars
<1> QED BY <1>1, <1>2, <1>3, <1>4, <1>5, <1>6, <1>7, <1>8, <1>9, <1>10,
   <1>11, <1>12
        DEF Next, Environment

(* Row and record of d agree, or the row is the one step ahead.            *)
Fits(d) == IF Ahead(d) THEN AheadMatches(d) ELSE RowMatches(d)

(* A side of the row or the record that did not move still fits.           *)
LEMMA SameFits ==
    ASSUME Base, NEW d \in Deliveries, Same(mem, mem', d), UNCHANGED <<rows, order>>
    PROVE  /\ Open(d)' <=> Open(d)
           /\ RowMatches(d) => RowMatches(d)'
           /\ AheadMatches(d) /\ tx' = tx => AheadMatches(d)'
<1>1. Open(d)' <=> Open(d)
  BY DEF Same, Open
<1>2. RowMatches(d) => RowMatches(d)'
  BY <1>1 DEF Same, RowMatches
<1>3. ASSUME AheadMatches(d), tx' = tx PROVE AheadMatches(d)'
  BY <1>1, <1>2, <1>3 DEF Same, AheadMatches
<1> QED BY <1>1, <1>2, <1>3

(* A statement that commits puts the row of its delivery one step ahead.   *)
LEMMA CommitFits ==
    ASSUME Base, StoreCommits, NEW d \in Deliveries, Fits(d)
    PROVE  Fits(d)'
<1>1. /\ tx # NoTx /\ tx.res = "wait" /\ tx.d \in Deliveries
      /\ tx'.op = tx.op /\ tx'.d = tx.d /\ tx'.stmt = tx.stmt
  BY CommitRow
<1>2. mem' = mem /\ order' = order
  BY DEF StoreCommits, bookVars
<1>3. Same(mem, mem', d)
  BY <1>2 DEF Same, Terminal
<1>4. RowMatches(d)
  BY <1>1 DEF Fits, Ahead
<1>5. CASE tx'.res = "error" /\ rows' = rows
  <2>1. RowMatches(d)'
    BY <1>2, <1>3, <1>4, <1>5, SameFits
  <2>2. ~Ahead(d)'
    BY <1>5 DEF Ahead
  <2> QED BY <2>1, <2>2 DEF Fits
<1>6. CASE d # tx.d /\ rows'[d] = rows[d]
  <2>1. ~Ahead(d)'
    BY <1>1, <1>6 DEF Ahead
  <2>2. RowMatches(d)'
    BY <1>2, <1>4, <1>6 DEF RowMatches, Open, Terminal
  <2> QED BY <2>1, <2>2 DEF Fits
<1>7. CASE /\ d = tx.d /\ tx'.res = "ok"
           /\ Commits(tx.stmt, rows, tx.d, mem[tx.d].pid)
           /\ rows'[d] = RowAfter(tx.stmt, rows[d], mem[d].pid, nextSeq)
  <2>1. rows[d] \in Row /\ mem[d] \in Record /\ AdmissionHeld /\ WriteHeld
        /\ StatementShapes /\ KnownHasRecord
    BY BaseFacts DEF TypeInv, TypeOK, DbTypeOK, CommitInv
  <2>2. Ahead(d)'
    BY <1>1, <1>7 DEF Ahead
  <2>3. Open(d)' <=> Open(d)
    BY <1>2 DEF Open, Terminal
  <2>4. tx.stmt \in Statement
    BY <1>1, BaseFacts, HolderType
  <2>5. CASE tx.stmt = "insert"
    <3>1. /\ rows'[d].state = "pending" /\ rows'[d].attempts = 0
          /\ ~rows'[d].started
      BY <1>7, <2>1, <2>5, RowAfterFacts
    <3>2. tx.op = "admit"
      <4>1. TypeInv /\ tx \in Transition
        BY BaseFacts DEF TypeInv, TypeOK
      <4> QED BY <1>1, <2>5, <4>1 DEF Transition
    <3>3. mem[d].phase = "none"
      BY <1>7, <2>1, <2>5, <3>2 DEF AdmissionHeld
    <3>4. d \notin Members(order)
      BY <2>1, <3>3, KnownFacts DEF KnownHasRecord
    <3> QED BY <1>1, <1>2, <2>2, <2>5, <3>1, <3>4 DEF Fits, AheadMatches
  <2>6. CASE tx.stmt \in {"attach", "mark", "check"}
    <3>1. rows[d].state = "pending"
      BY <1>7, <2>6 DEF Commits
    <3>2. /\ Open(d) /\ rows[d].attempts = mem[d].attempts
          /\ rows[d].started <=> mem[d].started
      BY <1>4, <3>1 DEF RowMatches
    <3>3. /\ rows'[d].state = "pending"
          /\ rows'[d].started <=> (rows[d].started \/ tx.stmt = "mark")
          /\ rows'[d].attempts = rows[d].attempts
                                     + (IF tx.stmt = "attach" THEN 1 ELSE 0)
      BY <1>7, <2>1, <2>6, <3>1, RowAfterFacts
    <3>4. rows[d].attempts + 0 = rows[d].attempts
      BY <2>1 DEF Row
    <3>5. tx.stmt = "check" => mem[d].started
      <4>1. tx.stmt = "check" => tx.op = "write"
        <5>1. TypeInv /\ tx \in Transition
          BY BaseFacts DEF TypeInv, TypeOK
        <5> QED BY <1>1, <2>1, <5>1 DEF Transition, StatementShapes
      <4> QED BY <1>7, <2>1, <4>1 DEF WriteHeld
    <3>6. tx.stmt = "attach" => AheadMatches(d)'
      BY <1>1, <1>2, <2>3, <3>2, <3>3 DEF AheadMatches
    <3>7. tx.stmt \in {"mark", "check"} => AheadMatches(d)'
      BY <1>1, <1>2, <2>3, <3>2, <3>3, <3>4, <3>5 DEF AheadMatches
    <3> QED BY <2>2, <2>6, <3>6, <3>7 DEF Fits
  <2>7. CASE tx.stmt = "delete"
    <3>1. rows'[d].state = "absent"
      BY <1>7, <2>1, <2>7, RowAfterFacts
    <3> QED BY <1>1, <2>2, <2>7, <3>1 DEF Fits, AheadMatches
  <2>8. CASE tx.stmt = "expire"
    <3>1. rows'[d].state # "pending"
      BY <1>7, <2>1, <2>8, RowAfterFacts
    <3> QED BY <1>1, <2>2, <2>8, <3>1 DEF Fits, AheadMatches
  <2>9. CASE tx.stmt = "quarantine"
    <3>1. /\ rows'[d].state = "blocked" /\ rows'[d].attempts = rows[d].attempts
          /\ rows'[d].started <=> rows[d].started
      BY <1>7, <2>1, <2>9, RowAfterFacts
    <3>2. RowMatches(d)'
      BY <1>2, <1>4, <2>3, <3>1 DEF RowMatches
    <3> QED BY <1>1, <2>2, <2>9, <3>1, <3>2 DEF Fits, AheadMatches
  <2> QED BY <2>4, <2>5, <2>6, <2>7, <2>8, <2>9 DEF Statement
<1> QED BY <1>1, <1>5, <1>6, <1>7, CommitRow
-----------------------------------------------------------------------------
(* An admission that has committed opens the record its row was made for.  *)
LEMMA CommittedFits ==
    ASSUME Base, BlankRecords, AdmissionCommitted, NEW d \in Deliveries, Fits(d)
    PROVE  Fits(d)'
<1>1. /\ tx.op = "admit" /\ tx.res = "ok" /\ tx.stmt = "insert"
      /\ tx # NoTx /\ tx.d \in Deliveries
      /\ rows' = rows /\ order' = Append(order, tx.d)
  BY CommittedSame DEF AdmissionCommitted, Done, dbVars
<1>2. tx'.res # "ok"
  <2>1. NoTx.res # "ok"
    BY NoTxFacts
  <2>2. ASSUME tx' = [tx EXCEPT !.stmt = "attach", !.res = "wait"]
        PROVE  tx'.res = "wait"
    <3>1. TypeInv
      BY BaseFacts
    <3> QED BY <1>1, <2>2, <3>1, Fields
  <2> QED BY <2>1, <2>2 DEF AdmissionCommitted, Release
<1>3. ~Ahead(d)'
  BY <1>2 DEF Ahead
<1>4. Members(order') = Members(order) \cup {tx.d}
  BY <1>1, BaseFacts, MembersAppend
<1>5. CASE d # tx.d
  <2>1. Same(mem, mem', d)
    BY <1>5, CommittedSame
  <2>2. RowMatches(d)
    BY <1>5 DEF Fits, Ahead
  <2>3. RowMatches(d)'
    BY <1>1, <1>4, <1>5, <2>1, <2>2 DEF RowMatches, Same, Open
  <2> QED BY <1>3, <2>3 DEF Fits
<1>6. CASE d = tx.d
  <2>1. /\ mem'[d].attempts = mem[d].attempts
        /\ mem'[d].started <=> mem[d].started
        /\ ~Terminal(mem', d)
    BY <1>6, CommittedSame
  <2>2. /\ rows[d].state = "pending" /\ rows[d].attempts = 0
        /\ ~rows[d].started
    BY <1>1, <1>6 DEF Fits, Ahead, AheadMatches
  <2>3. mem[d].phase = "none"
    BY <1>1, <1>6, BaseFacts DEF CommitInv, AdmissionHeld
  <2>4. mem[d].attempts = 0 /\ ~mem[d].started
    BY <2>3 DEF BlankRecords
  <2>5. RowMatches(d)'
    BY <1>1, <1>4, <1>6, <2>1, <2>2, <2>4 DEF RowMatches, Open
  <2> QED BY <1>3, <2>5 DEF Fits
<1> QED BY <1>5, <1>6

(* The row of an attached delivery counts the attempt its record counts.   *)
LEMMA AttachedFits ==
    ASSUME Base, AdmissionAttached \/ ReplayAttached, NEW d \in Deliveries,
           Fits(d)
    PROVE  Fits(d)'
<1>1. /\ tx.res = "ok" /\ tx.stmt = "attach" /\ tx' = NoTx
      /\ rows' = rows /\ order' = order /\ tx.d \in Deliveries
  BY AttachedSame DEF AdmissionAttached, ReplayAttached, Done, Release, dbVars
<1>2. ~Ahead(d)'
  BY <1>1, NoTxFacts DEF Ahead
<1>3. CASE d # tx.d
  <2>1. Same(mem, mem', d) /\ RowMatches(d)
    BY <1>3, AttachedSame DEF Fits, Ahead
  <2> QED BY <1>1, <1>2, <2>1, SameFits DEF Fits
<1>4. CASE d = tx.d
  <2>1. /\ mem'[d].attempts = mem[d].attempts + 1
        /\ mem'[d].started <=> mem[d].started
        /\ ~Terminal(mem', d)
    BY <1>4, AttachedSame
  <2>2. /\ Open(d) /\ rows[d].state = "pending"
        /\ rows[d].attempts = mem[d].attempts + 1
        /\ rows[d].started <=> mem[d].started
    BY <1>1, <1>4 DEF Fits, Ahead, AheadMatches
  <2>3. RowMatches(d)'
    BY <1>1, <2>1, <2>2 DEF RowMatches, Open
  <2> QED BY <1>2, <2>3 DEF Fits
<1> QED BY <1>3, <1>4

(* The possible write is in the row that the record now follows.           *)
LEMMA MayWriteFits ==
    ASSUME Base, WriterMayWrite, NEW d \in Deliveries, Fits(d)
    PROVE  Fits(d)'
<1>1. /\ tx.res = "ok" /\ tx.stmt \in {"mark", "check"} /\ tx' = NoTx
      /\ rows' = rows /\ order' = order /\ tx.d \in Deliveries
  BY MayWriteSame DEF WriterMayWrite, Done, Release, dbVars
<1>2. ~Ahead(d)'
  BY <1>1, NoTxFacts DEF Ahead
<1>3. CASE d # tx.d
  <2>1. Same(mem, mem', d) /\ RowMatches(d)
    BY <1>3, MayWriteSame DEF Fits, Ahead
  <2> QED BY <1>1, <1>2, <2>1, SameFits DEF Fits
<1>4. CASE d = tx.d
  <2>1. /\ mem'[d].attempts = mem[d].attempts
        /\ mem'[d].started /\ ~Terminal(mem', d)
    BY <1>4, MayWriteSame
  <2>2. /\ Open(d) /\ rows[d].state = "pending"
        /\ rows[d].attempts = mem[d].attempts /\ rows[d].started
    BY <1>1, <1>4 DEF Fits, Ahead, AheadMatches
  <2>3. RowMatches(d)'
    BY <1>1, <2>1, <2>2 DEF RowMatches, Open
  <2> QED BY <1>2, <2>3 DEF Fits
<1> QED BY <1>3, <1>4

(* The deleted row is that of the delivery that leaves the book.           *)
LEMMA AcknowledgedFits ==
    ASSUME Base, ReaderAcknowledged, NEW d \in Deliveries, Fits(d)
    PROVE  Fits(d)'
<1>1. /\ tx.res = "ok" /\ tx.stmt = "delete" /\ tx' = NoTx
      /\ rows' = rows /\ order' = Without(order, tx.d) /\ tx.d \in Deliveries
  BY AcknowledgedSame DEF ReaderAcknowledged, Done, Release, dbVars
<1>2. ~Ahead(d)'
  BY <1>1, NoTxFacts DEF Ahead
<1>3. Members(order') = Members(order) \ {tx.d}
  BY <1>1, BaseFacts, DistinctWithout DEF BookPlaces
<1>4. CASE d # tx.d
  <2>1. Same(mem, mem', d) /\ RowMatches(d)
    BY <1>4, AcknowledgedSame DEF Fits, Ahead
  <2>2. RowMatches(d)'
    BY <1>1, <1>3, <1>4, <2>1 DEF RowMatches, Same, Open
  <2> QED BY <1>2, <2>2 DEF Fits
<1>5. CASE d = tx.d
  <2>1. rows[d].state # "pending"
    BY <1>1, <1>5 DEF Fits, Ahead, AheadMatches
  <2>2. RowMatches(d)'
    BY <1>1, <1>3, <1>5, <2>1 DEF RowMatches, Open
  <2> QED BY <1>2, <2>2 DEF Fits
<1> QED BY <1>4, <1>5

(* A process that opens the file makes its book from the table.            *)
LEMMA OpenedFits ==
    ASSUME Base, ProcessOpens, sup' # "down", NEW d \in Deliveries
    PROVE  Fits(d)' /\ (mem'[d].phase = "none" => mem'[d] = NoRecord)
<1>1. /\ tx' = NoTx /\ mem'[d] = RecoveredRecord(rows'[d])
      /\ \E s : IsInsertionOrder(s, rows') /\ order' = s
  BY BaseFacts DEF ProcessOpens, CommitInv, DownHasNoRecord
<1>2. Members(order') = Pending(rows')
  BY <1>1 DEF IsInsertionOrder
<1>3. ~Ahead(d)'
  BY <1>1, NoTxFacts DEF Ahead
<1>4. CASE rows'[d].state = "pending"
  <2>1. /\ mem'[d].phase = "AwaitingReconnect"
        /\ mem'[d].attempts = rows'[d].attempts
        /\ mem'[d].started = rows'[d].started
    BY <1>1, <1>4 DEF RecoveredRecord
  <2>2. ~Terminal(mem', d)
    BY <2>1 DEF Terminal, TerminalPhase
  <2>3. RowMatches(d)'
    BY <1>2, <1>4, <2>1, <2>2 DEF RowMatches, Open, Pending
  <2> QED BY <1>3, <2>1, <2>3 DEF Fits
<1>5. CASE rows'[d].state # "pending"
  <2>1. mem'[d] = NoRecord
    BY <1>1, <1>5 DEF RecoveredRecord
  <2>2. RowMatches(d)'
    BY <1>2, <1>5 DEF RowMatches, Open, Pending
  <2> QED BY <1>3, <2>1, <2>2 DEF Fits
<1> QED BY <1>4, <1>5

(* Every step keeps book and table together.                               *)
LEMMA MatchStep ==
    ASSUME Base, TableInv, [Next]_vars PROVE  MatchInv'
<1> SUFFICES ASSUME sup' \notin {"down", "stopped"}, NEW d \in Deliveries
             PROVE  Fits(d)'
  BY DEF MatchInv, Fits
<1>1. CASE ProcessOpens
  BY <1>1, OpenedFits
<1>2. CASE ~ProcessOpens
  <2>1. sup \notin {"down", "stopped"}
    BY <1>2, RestSteps
  <2>2. Fits(d) /\ TypeInv /\ BlankRecords
    BY <2>1, BaseFacts DEF TableInv, MatchInv, Fits
  <2>3. CASE StoreCommits
    BY <2>2, <2>3, CommitFits
  <2>4. CASE Keeps
    <3>1. Same(mem, mem', d) /\ UNCHANGED <<rows, order>>
      BY <2>4, KeepsSame DEF Keeps
    <3>2. CASE tx' = tx
      <4>1. Ahead(d)' <=> Ahead(d)
        BY <3>2 DEF Ahead
      <4> QED BY <2>2, <3>1, <3>2, <4>1, SameFits DEF Fits
    <3>3. CASE tx'.res # "ok" /\ (tx.res = "ok" => tx.stmt = "quarantine")
      <4>1. ~Ahead(d)'
        BY <3>3 DEF Ahead
      <4>2. RowMatches(d)
        BY <2>2, <3>3 DEF Fits, Ahead, AheadMatches
      <4> QED BY <3>1, <4>1, <4>2, SameFits DEF Fits
    <3> QED BY <2>4, <3>2, <3>3 DEF Keeps
  <2>5. CASE Finishes
    <3>1. /\ UNCHANGED <<rows, order>> /\ tx.res = "ok" /\ tx' = NoTx
          /\ tx.stmt \in {"expire", "quarantine"}
      BY <2>5 DEF Finishes
    <3>2. ~Ahead(d)'
      BY <3>1, NoTxFacts DEF Ahead
    <3>3. CASE d # tx.d
      <4>1. Same(mem, mem', d) /\ RowMatches(d)
        BY <2>2, <2>5, <3>3, FinishesSame DEF Fits, Ahead
      <4> QED BY <3>1, <3>2, <4>1, SameFits DEF Fits
    <3>4. CASE d = tx.d
      <4>1. rows[d].state # "pending"
        BY <2>2, <3>1, <3>4 DEF Fits, Ahead, AheadMatches
      <4>2. Terminal(mem', d)
        BY <2>5, <3>4, FinishesSame
      <4>3. RowMatches(d)'
        BY <3>1, <4>1, <4>2 DEF RowMatches, Open
      <4> QED BY <3>2, <4>3 DEF Fits
    <3> QED BY <3>3, <3>4
  <2>6. CASE (\E e \in Deliveries : SubmitBegins(e)) \/ AdmissionFailed
    <3>1. Same(mem, mem', d)
      BY <2>6, SubmitSame, AdmissionFailedSame
    <3>2. /\ UNCHANGED <<rows, order>>
          /\ tx.res # "ok" /\ tx'.res # "ok"
      BY <2>6, NoTxFacts DEF SubmitBegins, AdmissionFailed, Begin, Failed,
         Release, dbVars
    <3>3. RowMatches(d) /\ ~Ahead(d)'
      BY <2>2, <3>2 DEF Fits, Ahead
    <3> QED BY <3>1, <3>2, <3>3, SameFits DEF Fits
  <2>7. CASE AdmissionCommitted
    BY <2>2, <2>7, CommittedFits
  <2>8. CASE AdmissionAttached \/ ReplayAttached
    BY <2>2, <2>8, AttachedFits
  <2>9. CASE WriterMayWrite
    BY <2>2, <2>9, MayWriteFits
  <2>10. CASE ReaderAcknowledged
    BY <2>2, <2>10, AcknowledgedFits
  <2>11. ~Settle /\ ~ProcessEnds
    BY DEF Settle, ProcessEnds
  <2> QED BY <1>2, <2>2, <2>3, <2>4, <2>5, <2>6, <2>7, <2>8, <2>9, <2>10,
             <2>11, BookChanges
<1> QED BY <1>1, <1>2

(* A client that has not started has no records.                           *)
LEMMA BlankStep ==
    ASSUME Base, TableInv, [Next]_vars PROVE  BlankRecords'
<1> SUFFICES ASSUME NEW d \in Deliveries, mem'[d].phase = "none"
             PROVE  mem'[d].attempts = 0 /\ ~mem'[d].started
  BY DEF BlankRecords
<1>1. /\ mem[d].phase = "none" => mem[d].attempts = 0 /\ ~mem[d].started
      /\ TypeInv /\ mem \in [Deliveries -> Record]
  BY BaseFacts DEF TableInv, BlankRecords
<1>2. CASE Same(mem, mem', d) \/ mem'[d] = mem[d]
  BY <1>1, <1>2 DEF Same
<1>3. CASE mem'[d] = NoRecord
  BY <1>3 DEF NoRecord
<1>4. CASE StoreCommits
  BY <1>2, <1>4 DEF StoreCommits, bookVars
<1>5. CASE Keeps \/ Finishes
  BY <1>2, <1>5, KeepsSame, FinishesSame
<1>6. CASE (\E e \in Deliveries : SubmitBegins(e)) \/ AdmissionFailed
  BY <1>2, <1>6, SubmitSame, AdmissionFailedSame
<1>7. CASE AdmissionCommitted \/ AdmissionAttached \/ ReplayAttached
  BY <1>2, <1>7, CommittedSame, AttachedSame
<1>8. CASE WriterMayWrite \/ ReaderAcknowledged
  BY <1>2, <1>8, MayWriteSame, AcknowledgedSame
<1>9. CASE Settle
  <2>1. mem'[d] = mem[d] \/ mem'[d] = FinishTerminal(mem, d)[d]
    BY <1>9 DEF Settle
  <2>2. FinishTerminal(mem, d)[d].phase # "none"
    BY <1>1, EndedRecord DEF TerminalPhase
  <2> QED BY <1>2, <2>1, <2>2
<1>10. CASE ProcessEnds
  BY <1>3, <1>10 DEF ProcessEnds
<1>11. CASE ProcessOpens
  <2>1. CASE sup' = "down"
    BY <1>2, <1>11, <2>1 DEF ProcessOpens
  <2>2. CASE sup' # "down"
    BY <1>3, <1>11, <2>2, OpenedFits
  <2> QED BY <2>1, <2>2
<1> QED BY <1>1, <1>4, <1>5, <1>6, <1>7, <1>8, <1>9, <1>10, <1>11, BookChanges
-----------------------------------------------------------------------------
(* Who holds the gate after a step.                                        *)
LEMMA HolderChanges ==
    ASSUME Base, [Next]_vars
    PROVE  \/ tx' = tx \/ tx' = NoTx
           \/ tx # NoTx /\ tx'.op = tx.op /\ tx'.d = tx.d /\ tx'.stmt = tx.stmt
           \/ tx'.op \in {"write", "ack"}
           \/ (\E d \in Deliveries : SubmitBegins(d)) \/ AdmissionCommitted
           \/ ReplayEnters \/ BlockBegins \/ BlockContinues \/ WatcherEnters
<1> USE DEF Release, Begin
<1>11. CASE StoreCommits
  BY <1>11, CommitRow
<1>1. CASE StoreFaults
  <2>1. tx.res = "wait" /\ tx' = [tx EXCEPT !.res = "error"]
    BY <1>1 DEF StoreFaults
  <2>2. TypeInv /\ tx # NoTx
    BY <2>1, BaseFacts, NoTxFacts
  <2> QED BY <2>1, <2>2, Fields
<1>2. CASE Submitter
  BY <1>2 DEF Submitter, CallerEnqueues, CallerCancelled,
     AdmissionAttached, AdmissionFailed
<1>3. CASE Writer
  BY <1>3 DEF Writer, WriterTakes, WriterEnters, WriterMayWrite,
     WriterEntersLate, WriterExpired, WriterFailed, WriteReturns
<1>4. CASE Reader
  BY <1>4 DEF Reader, ReaderSeesAck, ReaderEnters, ReaderAcknowledged,
     ReaderFailed
<1>5. CASE Watchdog
  BY <1>5 DEF Watchdog, DeliveryTimesOut, WatcherSees, WatcherExpired,
     WatcherFailed
<1>6. CASE Replay
  BY <1>6 DEF Replay, ReplaySkips, ReplayExhausted, ReplayAttached,
     ReplayExpired, ReplayFailed, ReplayDone, ReplayRefused
<1>7. CASE Supervisor /\ ~Replay
  BY <1>7 DEF Supervisor, DialSucceeds, DialFails, SessionMarkedKnown,
     GenerationEnds, BlockFailed, Settle, SessionMarkFailed
<1>8. CASE Environment /\ ~StoreFaults /\ ~ProcessEnds
  BY <1>8 DEF Environment, ConnectionLost, BrokerAnswers, BrokerForgets,
     DeadlinePasses, MessageDeadlinePasses, ApplicationStops, StopCloses,
     ProcessOpens
<1>9. CASE ProcessEnds
  BY <1>9 DEF ProcessEnds, Volatile
<1>10. CASE UNCHANGED vars
  BY <1>10 DEF vars
<1> QED BY <1>1, <1>2, <1>3, <1>4, <1>5, <1>6, <1>7, <1>8, <1>9, <1>10, <1>11
        DEF Next, Environment

(* What a quarantine has still to do stays until it goes on.               *)
LEMMA TodoStays ==
    ASSUME Base, [Next]_vars, tx.op = "block"
    PROVE  BlockContinues \/ tx' = NoTx \/ todo' = todo
<1> USE DEF supVars, Release, Done, Failed, HolderPlaces
<1>0. HolderPlaces /\ tx # NoTx
  BY BaseFacts, NoTxFacts
<1>1. CASE StoreCommits \/ StoreFaults
  BY <1>0, <1>1 DEF StoreCommits, StoreFaults
<1>2. CASE Submitter
  BY <1>0, <1>2 DEF Submitter, SubmitBegins, CallerEnqueues, CallerCancelled,
     AdmissionCommitted, AdmissionAttached, AdmissionFailed
<1>3. CASE Writer
  BY <1>0, <1>3 DEF Writer, WriterTakes, WriterEnters, WriterMayWrite,
     WriterEntersLate, WriterExpired, WriterFailed, WriteReturns
<1>4. CASE Reader
  BY <1>0, <1>4 DEF Reader, ReaderSeesAck, ReaderEnters, ReaderAcknowledged,
     ReaderFailed
<1>5. CASE Watchdog
  BY <1>0, <1>5 DEF Watchdog, DeliveryTimesOut, WatcherSees, WatcherEnters,
     WatcherExpired, WatcherFailed
<1>6. CASE Replay
  BY <1>0, <1>6 DEF Replay, ReplaySkips, ReplayExhausted, ReplayEnters,
     ReplayAttached, ReplayExpired, ReplayFailed, ReplayDone,
     ReplayRefused
<1>7. CASE Supervisor /\ ~Replay
  BY <1>0, <1>7 DEF Supervisor, DialSucceeds, DialFails, SessionMarkedKnown,
     GenerationEnds, BlockBegins, BlockFailed, Settle, SessionMarkFailed
<1>8. CASE Environment /\ ~StoreFaults /\ ~ProcessEnds
  BY <1>0, <1>8 DEF Environment, ConnectionLost, BrokerAnswers, BrokerForgets,
     DeadlinePasses, MessageDeadlinePasses, ApplicationStops, StopCloses,
     ProcessOpens
<1>9. CASE ProcessEnds
  BY <1>0, <1>9 DEF ProcessEnds, Volatile
<1>10. CASE UNCHANGED vars
  BY <1>0, <1>10 DEF vars
<1> QED BY <1>1, <1>2, <1>3, <1>4, <1>5, <1>6, <1>7, <1>8, <1>9, <1>10
        DEF Next, Environment

(* While the watchdog expires a delivery of a live session, none is detached. *)
LEMMA AttachedStays ==
    ASSUME Base, [Next]_vars, alive', tx.op = "watch"
    PROVE  attached \subseteq attached'
<1> USE DEF sessVars, Done, Abort, AbortWith, HolderPlaces, BlockEnds,
   BlockNext
<1>0. /\ HolderPlaces /\ tx # NoTx /\ sup # "dial"
  BY BaseFacts, NoTxFacts DEF TaskPlaces, Resting, HolderOK
<1>1. CASE StoreCommits \/ StoreFaults
  BY <1>0, <1>1 DEF StoreCommits, StoreFaults
<1>2. CASE Submitter
  BY <1>0, <1>2 DEF Submitter, SubmitBegins, CallerEnqueues, CallerCancelled,
     AdmissionCommitted, AdmissionAttached, AdmissionFailed
<1>3. CASE Writer
  BY <1>0, <1>3 DEF Writer, WriterTakes, WriterEnters, WriterMayWrite,
     WriterEntersLate, WriterExpired, WriterFailed, WriteReturns
<1>4. CASE Reader
  BY <1>0, <1>4 DEF Reader, ReaderSeesAck, ReaderEnters, ReaderAcknowledged,
     ReaderFailed
<1>5. CASE Watchdog
  BY <1>0, <1>5 DEF Watchdog, DeliveryTimesOut, WatcherSees, WatcherEnters,
     WatcherExpired, WatcherFailed
<1>6. CASE Replay
  BY <1>0, <1>6 DEF Replay, ReplaySkips, ReplayExhausted, ReplayEnters,
     ReplayAttached, ReplayExpired, ReplayFailed, ReplayDone,
     ReplayRefused
<1>7. CASE Supervisor /\ ~Replay
  BY <1>0, <1>7 DEF Supervisor, DialSucceeds, DialFails, SessionMarkedKnown,
     GenerationEnds, BlockBegins, BlockContinues, BlockFailed, Settle,
     SessionMarkFailed
<1>8. CASE Environment /\ ~StoreFaults /\ ~ProcessEnds
  BY <1>0, <1>8 DEF Environment, ConnectionLost, BrokerAnswers, BrokerForgets,
     DeadlinePasses, MessageDeadlinePasses, ApplicationStops, StopCloses,
     ProcessOpens
<1>9. CASE ProcessEnds
  BY <1>0, <1>9 DEF ProcessEnds, Volatile
<1>10. CASE UNCHANGED vars
  BY <1>0, <1>10 DEF vars
<1> QED BY <1>1, <1>2, <1>3, <1>4, <1>5, <1>6, <1>7, <1>8, <1>9, <1>10
        DEF Next, Environment

(* A session comes alive by a dial only.                                   *)
LEMMA Revives ==
    ASSUME Base, [Next]_vars, ~alive, alive' PROVE  DialSucceeds
BY DeadStays, EndsLive DEF vars, sessVars

(* The gate changes hands at a new transition only.                        *)
LEMMA HolderStays ==
    ASSUME Base, [Next]_vars, tx # NoTx, tx'.op = tx.op, tx'.stmt = tx.stmt
    PROVE  /\ order' = order
           /\ \A d \in Deliveries : Same(mem, mem', d)
<1>1. /\ TypeInv /\ tx.op # "none" /\ NoTx.op = "none"
  BY BaseFacts, HolderType, NoTxFacts
<1>2. tx' # NoTx
  BY <1>1
<1>3. ~AdmissionCommitted
  <2>1. ASSUME tx.stmt = "insert", tx' = [tx EXCEPT !.stmt = "attach", !.res = "wait"]
        PROVE  tx'.stmt # tx.stmt
    BY <1>1, <2>1, Fields
  <2> QED BY <1>2, <2>1 DEF AdmissionCommitted, Done, Release
<1>4. sup = "down" => tx = NoTx
  BY BaseFacts DEF CommitInv, DownHasNoRecord
<1>5. StoreCommits \/ Keeps
  <2>1. ~Finishes /\ ~AdmissionAttached /\ ~AdmissionFailed /\ ~WriterMayWrite
        /\ ~ReaderAcknowledged /\ ~ReplayAttached
    BY <1>2 DEF Finishes, AdmissionAttached, AdmissionFailed, WriterMayWrite,
       ReaderAcknowledged, ReplayAttached, Release
  <2>2. ~ProcessEnds
    BY <1>2 DEF ProcessEnds, Volatile
  <2>3. ~Settle /\ ~ProcessOpens /\ ~\E d \in Deliveries : SubmitBegins(d)
    BY <1>4 DEF Settle, ProcessOpens, SubmitBegins, Begin
  <2> QED BY <1>1, <1>3, <2>1, <2>2, <2>3, BookChanges
<1>6. CASE StoreCommits
  <2>1. mem' = mem /\ order' = order
    BY <1>6 DEF StoreCommits, bookVars
  <2> QED BY <2>1 DEF Same, Terminal
<1>7. CASE Keeps
  BY <1>7, KeepsSame DEF Keeps
<1> QED BY <1>5, <1>6, <1>7

(* The next record of a quarantine is one of the book.                     *)
LEMMA BlockSure ==
    ASSUME Base, NEW s \in Seq(Deliveries), Members(s) \subseteq Members(order),
           order' = order, BlockNext(s), tx' # NoTx
    PROVE  /\ \E d \in Deliveries : tx'.d = d /\ Open(d)'
           /\ Members(todo') \subseteq Members(order')
<1>1. PICK i \in DOMAIN s :
          /\ OpenRecord(s[i])
          /\ tx' = [op |-> "block", d |-> s[i], gen |-> gen,
                    stmt |-> "quarantine", res |-> "wait"]
          /\ todo' = SubSeq(s, i + 1, Len(s)) /\ mem' = mem
  BY DEF BlockNext, Release
<1>2. tx'.d = s[i] /\ s[i] \in Deliveries
  BY <1>1, ElementOfSeq, LenProperties
<1>3. s[i] \in Members(order)
  BY MembersSubSeq
<1>4. Open(s[i])'
  BY <1>1, <1>3 DEF Open, OpenRecord, Terminal
<1>5. Members(SubSeq(s, i + 1, Len(s))) \subseteq Members(s)
  BY MembersSubSeq
<1> QED BY <1>1, <1>2, <1>4, <1>5

(* What a holder is sure of its row stays true.                            *)
LEMMA HolderSureStep ==
    ASSUME Base, TableInv, [Next]_vars PROVE  HolderSure'
<1>1. /\ TypeInv /\ HolderSure /\ ReplayKnown /\ HolderPlaces
      /\ order \in Seq(Deliveries) /\ todo \in Seq(Deliveries)
      /\ NoTx.op = "none" /\ (tx # NoTx => tx.d \in Deliveries)
  BY BaseFacts, NoTxFacts DEF TableInv
<1>2. CASE tx' = NoTx \/ tx'.op \in {"write", "ack"}
  BY <1>1, <1>2 DEF HolderSure
<1>3. CASE \/ tx' = tx
           \/ tx # NoTx /\ tx'.op = tx.op /\ tx'.d = tx.d /\ tx'.stmt = tx.stmt
  <2> SUFFICES ASSUME tx # NoTx, tx' # NoTx PROVE HolderSure'
    BY <1>2, <1>3
  <2>1. /\ tx'.op = tx.op /\ tx'.d = tx.d /\ tx'.stmt = tx.stmt
        /\ tx.d \in Deliveries
    BY <1>1, <1>3
  <2>2. /\ order' = order /\ \A d \in Deliveries : Same(mem, mem', d)
    BY <2>1, HolderStays
  <2>3. \A d \in Deliveries : Open(d) => Open(d)'
    BY <2>2 DEF Same, Open
  <2>4. PICK d \in Deliveries : d = tx.d
    BY <2>1
  <2>5. Open(tx.d) => Open(d)'
    BY <2>3, <2>4
  <2>6. tx.op = "block" => Members(todo') \subseteq Members(order')
    <3> SUFFICES ASSUME tx.op = "block" PROVE Members(todo') \subseteq Members(order')
      OBVIOUS
    <3>1. CASE BlockContinues
      <4>1. BlockNext(todo) /\ Members(todo) \subseteq Members(order)
        BY <1>1, <3>1 DEF BlockContinues, HolderSure
      <4> QED BY <1>1, <2>2, <4>1, BlockSure
    <3>2. CASE todo' = todo
      BY <1>1, <2>2, <3>2 DEF HolderSure
    <3> QED BY <3>1, <3>2, TodoStays
  <2>7. tx.op = "replay" /\ alive' => alive
    BY <1>1, Revives DEF HolderPlaces, DialSucceeds
  <2>8. tx.op = "watch" /\ alive' => alive /\ tx.d \in attached'
    <3> SUFFICES ASSUME tx.op = "watch", alive' PROVE alive /\ tx.d \in attached'
      OBVIOUS
    <3>1. alive
      BY BaseFacts, Revives DEF TaskPlaces, Resting, HolderOK, DialSucceeds
    <3> QED BY <1>1, <3>1, AttachedStays DEF HolderSure
  <2>9. /\ tx.op = "admit" /\ tx.stmt = "attach" => Open(d)'
        /\ tx.op = "replay" /\ alive' => Open(d)'
        /\ tx.op = "block" => Open(d)'
    BY <1>1, <2>5, <2>7 DEF HolderSure
  <2> QED BY <2>1, <2>4, <2>6, <2>8, <2>9 DEF HolderSure
<1>4. CASE \E d \in Deliveries : SubmitBegins(d)
  <2>1. tx'.op = "admit" /\ tx'.stmt = "insert"
    BY <1>4 DEF SubmitBegins, Begin
  <2> QED BY <2>1 DEF HolderSure
<1>5. CASE AdmissionCommitted /\ tx' # NoTx
  <2>1. /\ tx' = [tx EXCEPT !.stmt = "attach", !.res = "wait"]
        /\ order' = Append(order, tx.d) /\ tx # NoTx /\ tx.d \in Deliveries
        /\ tx.op = "admit"
    BY <1>1, <1>5 DEF AdmissionCommitted, Done, Release
  <2>2. tx'.op = "admit" /\ tx'.d = tx.d
    BY <1>1, <2>1, Fields
  <2>3. PICK d \in Deliveries : d = tx.d
    BY <2>1
  <2>4. ~Terminal(mem', d) /\ d \in Members(order')
    BY <1>1, <1>5, <2>1, <2>3, CommittedSame, MembersAppend
  <2>5. Open(d)'
    BY <2>4 DEF Open
  <2> QED BY <2>2, <2>3, <2>5 DEF HolderSure
<1>6. CASE ReplayEnters
  <2>1. /\ tx'.op = "replay" /\ tx'.d = Head(todo) /\ sup = "replay"
        /\ todo # <<>> /\ ~Terminal(mem, Head(todo))
        /\ mem' = mem /\ order' = order /\ alive' = alive
    BY <1>6 DEF ReplayEnters, Begin, bookVars, sessVars
  <2>2. Head(todo) \in Members(todo)
    BY <1>1, <2>1, MembersHead
  <2>3. PICK d : d = Head(todo)
    OBVIOUS
  <2>4. alive => Open(d)'
    BY <1>1, <2>1, <2>2, <2>3 DEF ReplayKnown, Open, Terminal
  <2> QED BY <2>1, <2>3, <2>4 DEF HolderSure
<1>7. CASE (BlockBegins \/ BlockContinues) /\ tx' # NoTx
  <2>1. PICK s \in Seq(Deliveries) :
            Members(s) \subseteq Members(order) /\ BlockNext(s)
    BY <1>1, <1>7 DEF BlockBegins, BlockContinues, Done, HolderSure
  <2>2. order' = order
    BY <1>7 DEF BlockBegins, BlockContinues
  <2>3. tx'.op = "block"
    BY <1>7, <2>1 DEF BlockNext, Release
  <2>4. /\ \E d \in Deliveries : tx'.d = d /\ Open(d)'
        /\ Members(todo') \subseteq Members(order')
    BY <1>7, <2>1, <2>2, BlockSure
  <2>5. PICK d \in Deliveries : tx'.d = d /\ Open(d)'
    BY <2>4
  <2> QED BY <2>3, <2>4, <2>5 DEF HolderSure
<1>8. CASE WatcherEnters
  <2>1. \/ tx' = tx /\ tx = NoTx
        \/ tx'.op = "watch" /\ tx'.d = watcher.d /\ watcher.d \in attached
    BY <1>8 DEF WatcherEnters, Begin
  <2>2. attached' = attached
    BY <1>8 DEF WatcherEnters, sessVars
  <2> QED BY <1>2, <2>1, <2>2 DEF HolderSure
<1> QED BY <1>2, <1>3, <1>4, <1>5, <1>6, <1>7, <1>8, HolderChanges

(* What a replay has still to do stays in the book.                        *)
LEMMA ReplayKnownStep ==
    ASSUME Base, TableInv, [Next]_vars PROVE  ReplayKnown'
<1> SUFFICES ASSUME sup' = "replay", alive'
             PROVE  Members(todo') \subseteq Members(order')
  BY DEF ReplayKnown
<1>1. /\ TypeInv /\ ReplayKnown /\ BookPlaces /\ HolderPlaces
      /\ order \in Seq(Deliveries) /\ todo \in Seq(Deliveries)
      /\ NoTx.op = "none" /\ (tx # NoTx => tx.d \in Deliveries)
  BY BaseFacts, NoTxFacts DEF TableInv
<1>2. CASE SessionMarkedKnown \/ (DialSucceeds /\ todo' = order)
  BY <1>2 DEF SessionMarkedKnown, DialSucceeds, bookVars
<1>3. CASE sup = "replay"
  <2>1. alive
    BY <1>3, Revives DEF DialSucceeds
  <2>2. Members(todo) \subseteq Members(order)
    BY <1>1, <1>3, <2>1 DEF ReplayKnown
  <2>3. CASE UNCHANGED todo
    <3>1. CASE UNCHANGED order
      BY <2>2, <2>3, <3>1
    <3>2. CASE AdmissionCommitted
      <4>1. order' = Append(order, tx.d) /\ tx.d \in Deliveries
        BY <1>1, <3>2 DEF AdmissionCommitted, Done
      <4> QED BY <1>1, <2>2, <2>3, <4>1, MembersAppend
    <3>3. CASE ReaderAcknowledged
      <4>1. /\ order' = Without(order, tx.d) /\ tx.d \in Deliveries
            /\ tx.op = "ack"
        BY <1>1, <3>3 DEF ReaderAcknowledged, Done
      <4>2. Completing(tx.d)
        BY <4>1, BaseFacts DEF HolderOK, Completing
      <4>3. tx.d \in attached
        BY <2>1, <4>1, <4>2, BaseFacts DEF Held, ReaderOwns
      <4>4. tx.d \notin Members(todo)
        BY <1>1, <1>3, <4>3 DEF BookPlaces
      <4>5. Members(order') = Members(order) \ {tx.d}
        BY <1>1, <4>1, DistinctWithout DEF BookPlaces
      <4> QED BY <2>2, <2>3, <4>4, <4>5
    <3>4. UNCHANGED order \/ AdmissionCommitted \/ ReaderAcknowledged
      BY <1>1, <1>3, BookChanges
         DEF StoreCommits, Keeps, Finishes, SubmitBegins, AdmissionAttached,
             AdmissionFailed, WriterMayWrite, ReplayAttached, Settle,
             ProcessEnds, ProcessOpens, bookVars
    <3> QED BY <3>1, <3>2, <3>3, <3>4
  <2>4. CASE ReplaySkips \/ ReplayAttached
    <3>1. /\ todo # <<>> /\ todo' = Tail(todo) /\ order' = order
      BY <2>4 DEF ReplaySkips, ReplayAttached, bookVars
    <3> QED BY <1>1, <2>2, <3>1, MembersHead
  <2> QED BY <1>2, <2>3, <2>4, TodoChanges
<1> QED BY <1>2, <1>3, TodoChanges DEF ReplaySkips, ReplayAttached, Done,
   HolderPlaces

(* The relation of book and table is inductive.                            *)
LEMMA TableStep ==
    ASSUME Base, TableInv, [Next]_vars PROVE  TableInv'
<1>1. StoppedRests'
  BY RestSteps DEF TableInv, StoppedRests, Settle
<1> QED BY <1>1, MatchStep, BlankStep, HolderSureStep, ReplayKnownStep
        DEF TableInv

(* It holds at the start.                                                  *)
LEMMA InitTable == Init => TableInv
<1> SUFFICES ASSUME Init PROVE TableInv
  OBVIOUS
<1>1. \A d \in Deliveries : mem[d] = NoRecord
  BY DEF Init
<1> QED BY <1>1, NoTxFacts
        DEF Init, TableInv, BlankRecords, StoppedRests, MatchInv, HolderSure,
            ReplayKnown, NoRecord

(* Every row agrees with the record of its delivery, or is ahead of it by  *)
(* the one statement the holder of the gate has not seen the result of     *)
(* (the functions of _client and _session that await the outbox and then   *)
(* change the handle).                                                     *)
THEOREM TableInvariant == Spec => []TableInv
<1>1. ASSUME TypeInv, CommitInv, PlaceInv, ExchangeInv, TableInv, [Next]_vars
      PROVE  TableInv'
  BY <1>1, TableStep DEF Base
<1>2. TypeInv /\ CommitInv /\ PlaceInv /\ ExchangeInv /\ TableInv /\ [Next]_vars
      => TableInv'
  BY <1>1
<1> QED BY <1>2, InitTable, TypeInvariant, CommitInvariant, ExchangeInvariant,
           PTL DEF Spec

(* Between transitions of a running client the pending rows are the open   *)
(* handles, and agree with them on identifier, attempts and the possible   *)
(* write: no crash, refusal or failing statement splits the outbox from    *)
(* Session.deliveries.                                                     *)
THEOREM BookMatches == Spec => []BookMatchesTable
<1>1. ASSUME TypeInv, CommitInv, PlaceInv, ExchangeInv, TableInv
      PROVE  BookMatchesTable
  <2>1. Base
    BY <1>1 DEF Base
  <2>2. /\ mem \in [Deliveries -> Record] /\ rows \in [Deliveries -> Row]
        /\ order \in Seq(Deliveries) /\ RowMarkedFirst
    BY <2>1, BaseFacts DEF TypeInv, TypeOK, DbTypeOK, CommitInv
  <2> SUFFICES ASSUME tx = NoTx, sup \notin {"down", "stopped"}
               PROVE  LET open == {d \in Members(order) : ~Terminal(mem, d)} IN
                      /\ Pending(rows) \subseteq open
                      /\ open \subseteq Present(rows)
                      /\ \A d \in open : /\ mem[d].pid = rows[d].pid
                                         /\ mem[d].attempts = rows[d].attempts
                                         /\ mem[d].started = rows[d].started
    BY DEF BookMatchesTable
  <2>3. \A d \in Deliveries : RowMatches(d)
    BY <1>1, NoTxFacts DEF TableInv, MatchInv, Ahead
  <2>4. Members(order) \subseteq Deliveries
    BY <2>2, ElementOfSeq DEF Members
  <2>5. \A d \in Deliveries : rows[d].state # "absent" => mem[d].pid = rows[d].pid
    BY <2>2 DEF RowMarkedFirst
  <2>6. \A d \in Deliveries : rows[d].started \in BOOLEAN /\ mem[d].started \in BOOLEAN
    BY <2>2 DEF Row, Record
  <2> QED BY <2>3, <2>4, <2>5, <2>6
          DEF RowMatches, Open, Pending, Present
<1>2. TypeInv /\ CommitInv /\ PlaceInv /\ ExchangeInv /\ TableInv
      => BookMatchesTable
  BY <1>1
<1> QED BY <1>2, TypeInvariant, CommitInvariant, ExchangeInvariant,
           TableInvariant, PTL
-----------------------------------------------------------------------------
(* The end of the client.                                                  *)

(* A handle somebody may still be waiting for.                             *)
Unsettled(d) == mem[d].phase # "none" /\ ~Terminal(mem, d)

(* Such a handle is in the book, from which replays and the last settling  *)
(* take their work.                                                        *)
Listed == \A d \in Deliveries : Unsettled(d) => d \in Members(order)

(* What the application was told of a delivery whose row stays pending is  *)
(* what the row says to the next process.                                  *)
ToldAsKept(d) ==
    rows[d].state = "pending" =>
        mem[d].phase = IF rows[d].started THEN "Unknown" ELSE "NotSent"

(* Why a stopped client leaves nothing behind: inductive, with the above.  *)
StopInv ==
    /\ Listed
    /\ sup = "stopped" => order = <<>> /\ \A d \in Deliveries : ToldAsKept(d)

(* A client that has stopped holds neither the gate nor a session, its     *)
(* book is empty, every handle it ever gave out has ended, and none in     *)
(* disagreement with the row it leaves to the next process.                *)
NothingLeftOpen ==
    sup = "stopped" =>
        /\ tx = NoTx /\ ~alive /\ order = <<>>
        /\ \A d \in Deliveries : ~Unsettled(d) /\ ToldAsKept(d)

(* The end of a session opens no handle.                                   *)
LEMMA AbortOpensNone ==
    ASSUME NEW m \in [Deliveries -> Record], NEW S, NEW c, AbortWith(c, m, S),
           NEW d \in Deliveries, d \in S => m[d].phase # "none", Unsettled(d)'
    PROVE  m[d].phase # "none" /\ ~Terminal(m, d)
<1>1. mem'[d].phase # "none" /\ mem'[d].phase \notin TerminalPhase
  BY DEF Unsettled, Terminal
<1>2. CASE mem'[d] = m[d]
  BY <1>1, <1>2 DEF Terminal
<1>3. CASE d \in S /\ ~Terminal(m, d)
  BY <1>3
<1>4. Detached(m, S)[d] = m[d] \/ (d \in S /\ ~Terminal(m, d))
  BY DEF Detached
<1>5. mem' = m \/ mem' = Detached(m, S)
  BY DEF AbortWith
<1> QED BY <1>2, <1>3, <1>4, <1>5

(* A step after which a handle is open found it open, or puts it into the  *)
(* book, or is the start of a process.                                     *)
LEMMA OpensInBook ==
    ASSUME Base, TableInv, [Next]_vars, ~ProcessOpens, NEW d \in Deliveries,
           Unsettled(d)'
    PROVE  \/ Unsettled(d) /\ order' = order
           \/ Open(d) /\ order' = order
           \/ AdmissionCommitted /\ (d = tx.d \/ Unsettled(d))
           \/ ReaderAcknowledged /\ d # tx.d /\ Unsettled(d)
           \/ Settle /\ d \notin Members(order) /\ Unsettled(d)
<1>1. /\ TypeInv /\ mem \in [Deliveries -> Record] /\ HolderOK
      /\ HolderPlaces /\ TaskPlaces
      /\ tx # NoTx => tx.d \in Deliveries
      /\ d \in attached => mem[d].phase # "none"
  BY BaseFacts DEF CommitInv, KnownHasRecord, Known
<1>2. mem'[d].phase # "none" /\ mem'[d].phase \notin TerminalPhase
  BY DEF Unsettled, Terminal
<1>3. CASE mem'[d].phase = mem[d].phase /\ order' = order
  BY <1>2, <1>3 DEF Unsettled, Terminal
<1>4. CASE StoreCommits
  BY <1>3, <1>4 DEF StoreCommits, bookVars
<1>5. CASE Keeps
  <2>1. CASE \E c : AbortWith(c, mem, attached)
    BY <1>1, <1>5, <2>1, AbortOpensNone DEF Keeps, Unsettled
  <2> QED BY <1>3, <1>5, <2>1 DEF Keeps
<1>6. CASE Finishes
  <2> DEFINE m == FinishTerminal(mem, tx.d)
  <2>1. /\ tx.d \in Deliveries /\ order' = order
        /\ \E c : AbortWith(c, m, attached)
    BY <1>1, <1>6, NoTxFacts DEF Finishes
  <2>2. m \in [Deliveries -> Record]
    BY <1>1, <2>1, MemType
  <2>3. m[tx.d].phase \in TerminalPhase /\ (d # tx.d => m[d] = mem[d])
    BY <1>1, <2>1, EndedRecord
  <2> HIDE DEF m
  <2>4. d \in attached => m[d].phase # "none"
    BY <1>1, <2>3 DEF TerminalPhase
  <2>5. m[d].phase # "none" /\ ~Terminal(m, d)
    BY <2>1, <2>2, <2>4, AbortOpensNone
  <2>6. d # tx.d
    BY <2>3, <2>5 DEF Terminal
  <2> QED BY <2>1, <2>3, <2>5, <2>6 DEF Unsettled, Terminal
<1>7. CASE \E e \in Deliveries : SubmitBegins(e)
  <2>1. PICK e \in Deliveries : \E id : mem' = [mem EXCEPT ![e].pid = id]
    BY <1>7 DEF SubmitBegins
  <2>2. mem'[d].phase = mem[d].phase
    BY <1>1, <2>1, RecordEdits
  <2> QED BY <1>3, <1>7, <2>2 DEF SubmitBegins
<1>8. CASE AdmissionFailed
  <2> DEFINE n == [mem EXCEPT ![tx.d].pid = 0]
  <2>1. tx.d \in Deliveries /\ order' = order
    BY <1>1, <1>8, NoTxFacts DEF AdmissionFailed, Failed
  <2>2. n \in [Deliveries -> Record]
    BY <1>1, <2>1, RecordUpdates, Constants
  <2>3. n[d].phase = mem[d].phase
    BY <1>1, <2>1, RecordEdits
  <2>4. PICK m \in {mem, n} : AbortWith("storage", m, attached)
    BY <1>8 DEF AdmissionFailed, Abort
  <2> HIDE DEF n
  <2>5. m \in [Deliveries -> Record] /\ m[d].phase = mem[d].phase
    BY <1>1, <2>2, <2>3
  <2>6. m[d].phase # "none" /\ ~Terminal(m, d)
    BY <1>1, <2>4, <2>5, AbortOpensNone
  <2> QED BY <2>1, <2>5, <2>6 DEF Unsettled, Terminal
<1>9. CASE AdmissionCommitted
  <2>1. tx.d \in Deliveries
    BY <1>1, <1>9, NoTxFacts DEF AdmissionCommitted, Done
  <2>2. \E p : mem' = [mem EXCEPT ![tx.d].phase = p]
    BY <1>9 DEF AdmissionCommitted
  <2>3. d # tx.d => mem'[d] = mem[d]
    BY <1>1, <2>1, <2>2
  <2> QED BY <1>2, <1>9, <2>3 DEF Unsettled, Terminal
<1>10. CASE AdmissionAttached \/ ReplayAttached
  <2>1. /\ tx.d \in Deliveries /\ order' = order
        /\ tx.res = "ok" /\ tx.stmt = "attach"
    BY <1>1, <1>10, NoTxFacts DEF AdmissionAttached, ReplayAttached, Done
  <2>2. Open(tx.d)
    <3>1. CASE AdmissionAttached
      BY <3>1 DEF TableInv, HolderSure, AdmissionAttached, Done
    <3>2. CASE ReplayAttached
      <4>1. sup = "replay"
        BY <1>1, <3>2 DEF ReplayAttached, Done, HolderPlaces
      <4> QED BY <2>1, <4>1 DEF TableInv, MatchInv, Ahead, AheadMatches
    <3> QED BY <1>10, <3>1, <3>2
  <2>3. PICK g \in {tx.gen, gen} :
           \/ mem' = Attach(mem, tx.d, g)
           \/ \E c : AbortWith(c, Attach(mem, tx.d, g), attached \cup {tx.d})
    BY <1>10 DEF AdmissionAttached, ReplayAttached
  <2>4. g \in Nat
    BY <1>1, <2>1, <2>3, NoTxFacts, HolderType DEF TypeInv, TypeOK, SessTypeOK
  <2> DEFINE m == Attach(mem, tx.d, g)
  <2>5. m \in [Deliveries -> Record] /\ (d # tx.d => m[d] = mem[d])
    BY <1>1, <2>1, <2>4, MemType, RecordEdits
  <2>6. CASE d # tx.d
    <3>1. CASE mem' = m
      BY <1>3, <2>1, <2>5, <2>6, <3>1
    <3>2. CASE \E c : AbortWith(c, m, attached \cup {tx.d})
      <4> HIDE DEF m
      <4>1. d \in attached \cup {tx.d} => m[d].phase # "none"
        BY <1>1, <2>5, <2>6
      <4>2. m[d].phase # "none" /\ ~Terminal(m, d)
        BY <2>5, <3>2, <4>1, AbortOpensNone
      <4> QED BY <2>1, <2>5, <2>6, <4>2 DEF Unsettled, Terminal
    <3> QED BY <2>3, <3>1, <3>2
  <2> QED BY <2>1, <2>2, <2>6
<1>11. CASE WriterMayWrite
  <2>1. /\ tx.d \in Deliveries /\ order' = order
        /\ tx.res = "ok" /\ tx.stmt \in {"mark", "check"}
    BY <1>1, <1>11, NoTxFacts DEF WriterMayWrite, Done
  <2>2. Open(tx.d)
    <3>1. writer.pc = "tx"
      BY <1>1, <1>11 DEF WriterMayWrite, Done, HolderOK
    <3>2. sup \notin {"down", "stopped"}
      BY <1>1, <3>1 DEF TaskPlaces, Resting
    <3> QED BY <2>1, <3>2 DEF TableInv, MatchInv, Ahead, AheadMatches
  <2> DEFINE m == MarkStarted(mem, tx.d)
  <2>3. m \in [Deliveries -> Record] /\ (d # tx.d => m[d] = mem[d])
    BY <1>1, <2>1, MemType, RecordEdits
  <2>4. mem' = m \/ AbortWith("rejected", m, attached)
    BY <1>11 DEF WriterMayWrite, Abort
  <2> HIDE DEF m
  <2>5. CASE d # tx.d
    <3>1. CASE mem' = m
      BY <1>3, <2>1, <2>3, <2>5, <3>1
    <3>2. CASE AbortWith("rejected", m, attached)
      <4>1. m[d].phase # "none" /\ ~Terminal(m, d)
        BY <1>1, <2>3, <2>5, <3>2, AbortOpensNone
      <4> QED BY <2>1, <2>3, <2>5, <4>1 DEF Unsettled, Terminal
    <3> QED BY <2>4, <3>1, <3>2
  <2> QED BY <2>1, <2>2, <2>5
<1>12. CASE ReaderAcknowledged
  <2>1. CASE d = tx.d
    <3>1. mem'[d].phase \in TerminalPhase
      BY <1>12, <2>1, VerdictFacts DEF Terminal, TerminalPhase
    <3> QED BY <1>2, <3>1
  <2>2. CASE d # tx.d
    <3>1. mem'[d] = mem[d]
      BY <1>12, <2>2, VerdictFacts
    <3> QED BY <1>2, <1>12, <2>2, <3>1 DEF Unsettled, Terminal
  <2> QED BY <2>1, <2>2
<1>13. CASE Settle
  <2>1. mem'[d] = IF d \in Members(order) THEN FinishTerminal(mem, d)[d] ELSE mem[d]
    BY <1>13 DEF Settle
  <2>2. FinishTerminal(mem, d)[d].phase \in TerminalPhase
    BY <1>1, EndedRecord
  <2> QED BY <1>2, <1>13, <2>1, <2>2 DEF Unsettled, Terminal
<1>14. CASE ProcessEnds
  <2>1. mem'[d].phase = "none"
    BY <1>14 DEF ProcessEnds, NoRecord
  <2> QED BY <1>2, <2>1
<1> QED BY <1>1, <1>4, <1>5, <1>6, <1>7, <1>8, <1>9, <1>10, <1>11, <1>12,
           <1>13, <1>14, BookChanges

(* Every open handle stays in the book, and one that opens enters it.      *)
LEMMA ListedStep ==
    ASSUME Base, TableInv, Listed, [Next]_vars PROVE  Listed'
<1> SUFFICES ASSUME NEW d \in Deliveries, Unsettled(d)'
             PROVE  (d \in Members(order))'
  BY DEF Listed
<1>1. Unsettled(d) => d \in Members(order)
  BY DEF Listed
<1>2. order \in Seq(Deliveries) /\ BookPlaces
      /\ (tx # NoTx => tx.d \in Deliveries)
  BY BaseFacts
<1>3. CASE ProcessOpens /\ sup' = "down"
  <2>1. mem' = mem /\ order' = order
    BY <1>3 DEF ProcessOpens
  <2> QED BY <1>1, <2>1 DEF Unsettled, Terminal
<1>4. CASE ProcessOpens /\ sup' # "down"
  <2>1. /\ mem'[d] = RecoveredRecord(rows'[d])
        /\ \E s : IsInsertionOrder(s, rows') /\ order' = s
    BY <1>4 DEF ProcessOpens
  <2>2. rows'[d].state = "pending"
    BY <2>1 DEF RecoveredRecord, NoRecord, Unsettled
  <2> QED BY <2>1, <2>2 DEF IsInsertionOrder, Pending
<1>5. CASE ~ProcessOpens
  <2>1. CASE order' = order /\ d \in Members(order)
    BY <2>1
  <2>2. CASE AdmissionCommitted /\ (d = tx.d \/ Unsettled(d))
    <3>1. tx.d \in Deliveries /\ order' = Append(order, tx.d)
      BY <1>2, <2>2, NoTxFacts DEF AdmissionCommitted, Done
    <3>2. Members(Append(order, tx.d)) = Members(order) \cup {tx.d}
      BY <1>2, <3>1, MembersAppend
    <3> QED BY <1>1, <2>2, <3>1, <3>2
  <2>3. CASE ReaderAcknowledged /\ d # tx.d /\ Unsettled(d)
    <3>1. order' = Without(order, tx.d)
      BY <2>3 DEF ReaderAcknowledged
    <3>2. Members(Without(order, tx.d)) = Members(order) \ {tx.d}
      BY <1>2, DistinctWithout DEF BookPlaces
    <3> QED BY <1>1, <2>3, <3>1, <3>2
  <2>4. ~(d \notin Members(order) /\ Unsettled(d))
    BY <1>1
  <2>5. Open(d) => d \in Members(order)
    BY DEF Open
  <2> QED BY <1>1, <1>5, <2>1, <2>2, <2>3, <2>4, <2>5, OpensInBook
<1> QED BY <1>3, <1>4, <1>5

(* Settling tells of every delivery what its row says, for no transition   *)
(* holds the gate.                                                         *)
LEMMA SettleTells ==
    ASSUME Base, TableInv, Settle, NEW d \in Deliveries
    PROVE  ToldAsKept(d)'
<1>1. /\ rows' = rows
      /\ mem'[d] = IF d \in Members(order) THEN FinishTerminal(mem, d)[d]
                                           ELSE mem[d]
  BY DEF Settle, dbVars
<1>2. sup = "settle" /\ tx = NoTx
  BY DEF Settle
<1>3. RowMatches(d)
  BY <1>2, NoTxFacts DEF TableInv, MatchInv, Ahead
<1> SUFFICES ASSUME rows[d].state = "pending"
             PROVE  mem'[d].phase = IF rows[d].started THEN "Unknown"
                                                       ELSE "NotSent"
  BY <1>1 DEF ToldAsKept
<1>4. /\ d \in Members(order) /\ ~Terminal(mem, d)
      /\ rows[d].started <=> mem[d].started
  BY <1>3 DEF RowMatches, Open
<1>5. mem \in [Deliveries -> Record]
  BY BaseFacts
<1> DEFINE p == IF mem[d].started THEN "Unknown" ELSE "NotSent"
<1>6. FinishTerminal(mem, d)[d] = [mem[d] EXCEPT !.phase = p, !.gen = 0]
  BY <1>4, <1>5 DEF FinishTerminal
<1>7. [mem[d] EXCEPT !.phase = p, !.gen = 0].phase = p
  BY <1>5 DEF Record
<1> QED BY <1>1, <1>4, <1>6, <1>7

(* A stopped client does nothing more, until its process ends.             *)
LEMMA StoppedStays ==
    ASSUME Base, TableInv, [Next]_vars, sup = "stopped", sup' = "stopped"
    PROVE  rows' = rows /\ mem' = mem /\ order' = order
<1>1. tx = NoTx /\ ~alive /\ TypeInv
  BY BaseFacts DEF TableInv, StoppedRests, SessionPlaces, Resting
<1>2. NoTx.op = "none" /\ NoTx.res = "none"
  BY NoTxFacts
<1>3. CASE Keeps
  BY <1>1, <1>3 DEF Keeps, AbortWith
<1>4. ~StoreCommits /\ ~Finishes /\ ~AdmissionCommitted /\ ~AdmissionAttached
      /\ ~AdmissionFailed /\ ~WriterMayWrite /\ ~ReaderAcknowledged
      /\ ~ReplayAttached
  BY <1>1, <1>2 DEF StoreCommits, Finishes, AdmissionCommitted,
     AdmissionAttached, AdmissionFailed, WriterMayWrite, ReaderAcknowledged,
     ReplayAttached, Done, Failed
<1>5. ~Settle /\ ~ProcessEnds /\ ~ProcessOpens
      /\ ~\E d \in Deliveries : SubmitBegins(d)
  BY DEF Settle, ProcessEnds, ProcessOpens, SubmitBegins, Ready
<1> QED BY <1>1, <1>3, <1>4, <1>5, BookChanges

(* Every step keeps it.                                                    *)
LEMMA StopStep ==
    ASSUME Base, TableInv, StopInv, [Next]_vars PROVE  StopInv'
<1>1. Listed'
  BY ListedStep DEF StopInv
<1> SUFFICES ASSUME sup' = "stopped"
             PROVE  /\ order' = <<>>
                    /\ \A d \in Deliveries : ToldAsKept(d)'
  BY <1>1 DEF StopInv
<1>2. CASE sup = "stopped"
  <2>1. rows' = rows /\ mem' = mem /\ order' = order
    BY <1>2, StoppedStays
  <2> QED BY <1>2, <2>1 DEF StopInv, ToldAsKept
<1>3. CASE Settle
  <2>1. order' = <<>>
    BY <1>3 DEF Settle
  <2> QED BY <1>3, <2>1, SettleTells
<1> QED BY <1>2, <1>3, RestSteps

(* When the supervisor has stopped (supervise, settle_deliveries), nothing *)
(* it gave out is left: no transition that could still publish a result,   *)
(* no session, no open handle; and a handle whose row stays pending ended  *)
(* as NotSent exactly when the row says that nothing was written.          *)
THEOREM StopLeavesNothingOpen == Spec => []NothingLeftOpen
<1>1. Init => StopInv
  <2> SUFFICES ASSUME Init PROVE StopInv
    OBVIOUS
  <2>1. \A d \in Deliveries : mem[d] = NoRecord
    BY DEF Init
  <2> QED BY <2>1 DEF Init, StopInv, Listed, Unsettled, NoRecord
<1>2. TypeInv /\ CommitInv /\ PlaceInv /\ ExchangeInv /\ TableInv /\ StopInv
      /\ [Next]_vars => StopInv'
  BY StopStep DEF Base
<1>3. TypeInv /\ CommitInv /\ PlaceInv /\ ExchangeInv /\ TableInv /\ StopInv
      => NothingLeftOpen
  <2> SUFFICES ASSUME TypeInv, CommitInv, PlaceInv, ExchangeInv, TableInv,
                      StopInv, sup = "stopped"
               PROVE  /\ tx = NoTx /\ ~alive /\ order = <<>>
                      /\ \A d \in Deliveries : ~Unsettled(d) /\ ToldAsKept(d)
    BY DEF NothingLeftOpen
  <2>1. tx = NoTx /\ ~alive
    BY DEF TableInv, StoppedRests, PlaceInv, SessionPlaces, Resting
  <2>2. order = <<>> /\ \A d \in Deliveries : ToldAsKept(d)
    BY DEF StopInv
  <2>3. \A d \in Deliveries : ~Unsettled(d)
    BY <2>2, MembersEmpty DEF StopInv, Listed
  <2> QED BY <2>1, <2>2, <2>3
<1> QED BY <1>1, <1>2, <1>3, TypeInvariant, CommitInvariant,
           ExchangeInvariant, TableInvariant, PTL DEF Spec
-----------------------------------------------------------------------------
(* Storage errors.                                                         *)

(* The invariant behind StorageErrorNeedsFault.                            *)
ErrorInv == InsertFits /\ ErrorCaused /\ StorageErrorNeedsFault

(* A step that marks the session known and fails leaves a fault behind.    *)
LEMMA MarkFaults ==
    ASSUME TypeInv, SessionMarkFailed PROVE faults' > 0
BY DEF SessionMarkFailed, TypeInv, TypeOK, EnvTypeOK

(* Failing statements are counted.                                         *)
LEMMA FaultsGrow ==
    ASSUME [Next]_vars
    PROVE  StoreFaults \/ SessionMarkFailed \/ UNCHANGED faults
<1> USE DEF envVars
<1>1. CASE StoreCommits
  BY <1>1 DEF StoreCommits
<1>2. CASE Submitter
  BY <1>2 DEF Submitter, SubmitBegins, CallerEnqueues, CallerCancelled,
     AdmissionCommitted, AdmissionAttached, AdmissionFailed
<1>3. CASE Writer
  BY <1>3 DEF Writer, WriterTakes, WriterEnters, WriterMayWrite,
     WriterEntersLate, WriterExpired, WriterFailed, WriteReturns
<1>4. CASE Reader
  BY <1>4 DEF Reader, ReaderSeesAck, ReaderEnters, ReaderAcknowledged,
     ReaderFailed
<1>5. CASE Watchdog
  BY <1>5 DEF Watchdog, DeliveryTimesOut, WatcherSees, WatcherEnters,
     WatcherExpired, WatcherFailed
<1>6. CASE Replay
  BY <1>6 DEF Replay, ReplaySkips, ReplayExhausted, ReplayEnters,
     ReplayAttached, ReplayExpired, ReplayFailed, ReplayDone,
     ReplayRefused
<1>7. CASE Supervisor /\ ~Replay /\ ~SessionMarkFailed
  BY <1>7 DEF Supervisor, DialSucceeds, DialFails, SessionMarkedKnown,
     GenerationEnds, BlockBegins, BlockContinues, BlockFailed, Settle
<1>8. CASE Environment /\ ~StoreFaults /\ ~ProcessEnds
  BY <1>8 DEF Environment, ConnectionLost, BrokerAnswers, BrokerForgets,
     DeadlinePasses, MessageDeadlinePasses, ApplicationStops, StopCloses,
     ProcessOpens
<1>9. CASE ProcessEnds
  BY <1>9 DEF ProcessEnds, Volatile
<1>10. CASE UNCHANGED vars
  BY <1>10 DEF vars
<1> QED BY <1>1, <1>2, <1>3, <1>4, <1>5, <1>6, <1>7, <1>8, <1>9, <1>10
        DEF Next, Environment

(* A row is on its way into the table from the beginning of its admission. *)
LEMMA InsertChanges ==
    ASSUME Base, [Next]_vars, tx'.stmt = "insert", tx'.res = "wait"
    PROVE  \/ UNCHANGED tx \/ \E d \in Deliveries : SubmitBegins(d)
<1> USE DEF Release, Begin
<1>0. NoTx.stmt = "none" /\ NoTx.res = "none"
  BY BaseFacts, Fields
<1>1. CASE StoreCommits \/ StoreFaults
  <2>1. CASE StoreFaults
    <3>1. tx.res = "wait" /\ tx' = [tx EXCEPT !.res = "error"]
      BY <2>1 DEF StoreFaults
    <3>2. TypeInv /\ tx # NoTx
      BY <3>1, BaseFacts, NoTxFacts
    <3> QED BY <3>1, <3>2, Fields
  <2> QED BY <1>1, <2>1, CommitRow
<1>2. CASE Submitter
  <2>1. CASE tx.op = "admit" /\ tx' = [tx EXCEPT !.stmt = "attach", !.res = "wait"]
    <3>1. TypeInv /\ tx # NoTx
      BY <2>1, BaseFacts, NoTxFacts
    <3> QED BY <2>1, <3>1, Fields
  <2> QED BY <1>0, <1>2, <2>1 DEF Done, Submitter, CallerEnqueues,
     CallerCancelled,
     AdmissionCommitted, AdmissionAttached, AdmissionFailed
<1>3. CASE Writer
  BY <1>0, <1>3 DEF Writer, WriterTakes, WriterEnters, WriterMayWrite,
     WriterEntersLate, WriterExpired, WriterFailed, WriteReturns,
     WriteStatement
<1>4. CASE Reader
  BY <1>0, <1>4 DEF Reader, ReaderSeesAck, ReaderEnters, ReaderAcknowledged,
     ReaderFailed
<1>5. CASE Watchdog
  BY <1>0, <1>5 DEF Watchdog, DeliveryTimesOut, WatcherSees, WatcherEnters,
     WatcherExpired, WatcherFailed
<1>6. CASE Replay
  BY <1>0, <1>6 DEF Replay, ReplaySkips, ReplayExhausted, ReplayEnters,
     ReplayAttached, ReplayExpired, ReplayFailed, ReplayDone,
     ReplayRefused, ReplayStatement
<1>7. CASE Supervisor /\ ~Replay
  BY <1>0, <1>7 DEF Supervisor, DialSucceeds, DialFails, SessionMarkedKnown,
     GenerationEnds, BlockBegins, BlockContinues, BlockFailed, Settle,
     SessionMarkFailed, BlockNext, BlockEnds
<1>8. CASE Environment /\ ~StoreFaults /\ ~ProcessEnds
  BY <1>0, <1>8 DEF Environment, ConnectionLost, BrokerAnswers, BrokerForgets,
     DeadlinePasses, MessageDeadlinePasses, ApplicationStops, StopCloses,
     ProcessOpens
<1>9. CASE ProcessEnds
  BY <1>0, <1>9 DEF ProcessEnds, Volatile
<1>10. CASE UNCHANGED vars
  BY <1>0, <1>10 DEF vars
<1> QED BY <1>1, <1>2, <1>3, <1>4, <1>5, <1>6, <1>7, <1>8, <1>9, <1>10
        DEF Next, Environment

(* A statement fails in the store only.                                    *)
LEMMA ErrorChanges ==
    ASSUME Base, [Next]_vars, tx'.res = "error"
    PROVE  UNCHANGED tx \/ StoreFaults \/ StoreCommits
<1> USE DEF Release, Begin
<1>0. NoTx.stmt = "none" /\ NoTx.res = "none"
  BY BaseFacts, Fields
<1>1. CASE StoreCommits \/ StoreFaults
  BY <1>1
<1>2. CASE Submitter
  <2>1. CASE tx.op = "admit" /\ tx' = [tx EXCEPT !.stmt = "attach", !.res = "wait"]
    <3>1. TypeInv /\ tx # NoTx
      BY <2>1, BaseFacts, NoTxFacts
    <3> QED BY <2>1, <3>1, Fields
  <2> QED BY <1>0, <1>2, <2>1 DEF Done, Submitter, SubmitBegins,
     CallerEnqueues, CallerCancelled,
     AdmissionCommitted, AdmissionAttached, AdmissionFailed
<1>3. CASE Writer
  BY <1>0, <1>3 DEF Writer, WriterTakes, WriterEnters, WriterMayWrite,
     WriterEntersLate, WriterExpired, WriterFailed, WriteReturns
<1>4. CASE Reader
  BY <1>0, <1>4 DEF Reader, ReaderSeesAck, ReaderEnters, ReaderAcknowledged,
     ReaderFailed
<1>5. CASE Watchdog
  BY <1>0, <1>5 DEF Watchdog, DeliveryTimesOut, WatcherSees, WatcherEnters,
     WatcherExpired, WatcherFailed
<1>6. CASE Replay
  BY <1>0, <1>6 DEF Replay, ReplaySkips, ReplayExhausted, ReplayEnters,
     ReplayAttached, ReplayExpired, ReplayFailed, ReplayDone,
     ReplayRefused
<1>7. CASE Supervisor /\ ~Replay
  BY <1>0, <1>7 DEF Supervisor, DialSucceeds, DialFails, SessionMarkedKnown,
     GenerationEnds, BlockBegins, BlockContinues, BlockFailed, Settle,
     SessionMarkFailed, BlockNext, BlockEnds
<1>8. CASE Environment /\ ~StoreFaults /\ ~ProcessEnds
  BY <1>0, <1>8 DEF Environment, ConnectionLost, BrokerAnswers, BrokerForgets,
     DeadlinePasses, MessageDeadlinePasses, ApplicationStops, StopCloses,
     ProcessOpens
<1>9. CASE ProcessEnds
  BY <1>0, <1>9 DEF ProcessEnds, Volatile
<1>10. CASE UNCHANGED vars
  BY <1>0, <1>10 DEF vars
<1> QED BY <1>1, <1>2, <1>3, <1>4, <1>5, <1>6, <1>7, <1>8, <1>9, <1>10
        DEF Next, Environment

(* Who reports a storage error.                                            *)
LEMMA CauseChanges ==
    ASSUME [Next]_vars, cause' = "storage"
    PROVE  \/ cause = "storage"
           \/ tx.res = "error" /\ (alive \/ tx.op = "block")
           \/ SessionMarkFailed
<1> USE DEF sessVars, Abort, AbortWith, Failed
<1>1. CASE StoreCommits \/ StoreFaults
  BY <1>1 DEF StoreCommits, StoreFaults
<1>2. CASE Submitter
  BY <1>2 DEF Submitter, SubmitBegins, CallerEnqueues, CallerCancelled,
     AdmissionCommitted, AdmissionAttached, AdmissionFailed
<1>3. CASE Writer
  BY <1>3 DEF Writer, WriterTakes, WriterEnters, WriterMayWrite,
     WriterEntersLate, WriterExpired, WriterFailed, WriteReturns
<1>4. CASE Reader
  BY <1>4 DEF Reader, ReaderSeesAck, ReaderEnters, ReaderAcknowledged,
     ReaderFailed
<1>5. CASE Watchdog
  BY <1>5 DEF Watchdog, DeliveryTimesOut, WatcherSees, WatcherEnters,
     WatcherExpired, WatcherFailed
<1>6. CASE Replay
  BY <1>6 DEF Replay, ReplaySkips, ReplayExhausted, ReplayEnters,
     ReplayAttached, ReplayExpired, ReplayFailed, ReplayDone,
     ReplayRefused
<1>7. CASE Supervisor /\ ~Replay /\ ~SessionMarkFailed
  BY <1>7 DEF Supervisor, DialSucceeds, DialFails, SessionMarkedKnown,
     GenerationEnds, BlockBegins, BlockContinues, BlockFailed, Settle,
     BlockNext, BlockEnds
<1>8. CASE Environment /\ ~StoreFaults /\ ~ProcessEnds
  BY <1>8 DEF Environment, ConnectionLost, BrokerAnswers, BrokerForgets,
     DeadlinePasses, MessageDeadlinePasses, ApplicationStops, StopCloses,
     ProcessOpens
<1>9. CASE ProcessEnds
  BY <1>9 DEF ProcessEnds, Volatile
<1>10. CASE UNCHANGED vars
  BY <1>10 DEF vars
<1> QED BY <1>1, <1>2, <1>3, <1>4, <1>5, <1>6, <1>7, <1>8, <1>9, <1>10
        DEF Next, Environment

(* Neither a fault nor a quarantined row is ever forgotten.                *)
LEMMA TroubleStays ==
    ASSUME Base, [Next]_vars, Trouble PROVE  Trouble'
<1>1. /\ TypeInv /\ faults \in Nat /\ rows \in [Deliveries -> Row]
      /\ StatementHeld
  BY BaseFacts DEF TypeInv, TypeOK, EnvTypeOK, DbTypeOK
<1>2. CASE faults > 0
  BY <1>1, <1>2, FaultsGrow, MarkFaults DEF Trouble, StoreFaults
<1>3. ASSUME NEW d \in Deliveries, rows[d].state = "blocked" PROVE rows'[d].state = "blocked"
  <2>1. CASE StoreCommits
    <3>1. CASE rows'[d] = rows[d]
      BY <1>3, <3>1
    <3>2. CASE /\ d = tx.d /\ Commits(tx.stmt, rows, d, mem[d].pid)
               /\ rows'[d] = RowAfter(tx.stmt, rows[d], mem[d].pid, nextSeq)
      <4>1. tx.stmt \notin {"insert", "attach", "mark", "check", "expire"}
        BY <1>3, <3>2 DEF Commits
      <4>2. tx # NoTx /\ tx.res = "wait" /\ tx.stmt \in Statement
        BY <1>1, <2>1, CommitRow, HolderType
      <4>3. tx.stmt # "delete"
        BY <1>1, <1>3, <3>2, <4>2, BaseFacts DEF StatementHeld, StatementShapes
      <4>4. tx.stmt = "quarantine"
        BY <4>1, <4>2, <4>3 DEF Statement
      <4> QED BY <1>1, <3>2, <4>4, RowAfterFacts
    <3> QED BY <2>1, <3>1, <3>2, CommitRow
  <2>2. CASE ProcessOpens
    BY <1>3, <2>2 DEF ProcessOpens, Swept
  <2> QED BY <1>3, <2>1, <2>2, TableChanges
<1> QED BY <1>2, <1>3 DEF Trouble, Blocked

(* A statement is refused over a quarantined row only.                     *)
LEMMA RefusalCaused ==
    ASSUME Base, TableInv, InsertFits, tx.res = "wait",
           alive \/ tx.op \in {"admit", "block"},
           ~Commits(tx.stmt, rows, tx.d, mem[tx.d].pid)
    PROVE  Trouble
<1> SUFFICES ASSUME Blocked(rows) = {} PROVE FALSE
  BY DEF Trouble
<1>1. /\ TypeInv /\ tx # NoTx /\ tx.d \in Deliveries /\ HolderSure /\ MatchInv
      /\ StoppedRests /\ rows \in [Deliveries -> Row]
  BY BaseFacts, NoTxFacts DEF TableInv, TypeInv, TypeOK, DbTypeOK
<1>2. /\ tx.stmt \in Statement
      /\ tx.op \in {"admit", "write", "ack", "watch", "replay", "block"}
      /\ tx.op = "admit" => tx.stmt \in {"insert", "attach"}
  BY <1>1, HolderType
<1>3. sup \notin {"down", "stopped"}
  BY <1>1, BaseFacts DEF CommitInv, DownHasNoRecord, StoppedRests
<1>4. RowMatches(tx.d)
  BY <1>1, <1>3 DEF MatchInv, Ahead
<1>5. rows[tx.d].state # "blocked"
  BY <1>1 DEF Blocked
<1>6. Open(tx.d) => rows[tx.d].state = "pending"
  BY <1>1, <1>4, <1>5 DEF RowMatches, Row
<1>7. rows[tx.d].state = "pending" => tx.stmt = "insert"
  <2>1. CASE tx.stmt \in {"attach", "mark", "check", "expire"}
    BY <2>1 DEF Commits
  <2>2. CASE tx.stmt \in {"delete", "quarantine"}
    BY <2>2 DEF Commits
  <2> QED BY <1>2, <2>1, <2>2 DEF Statement
<1>8. tx.stmt # "insert"
  <2> SUFFICES ASSUME tx.stmt = "insert" PROVE FALSE
    OBVIOUS
  <2>1. tx.op = "admit"
    BY <1>1 DEF TypeInv, TypeOK, Transition
  <2>2. rows[tx.d].state = "absent"
    BY <1>1, <2>1, BaseFacts DEF CommitInv, AdmissionHeld, AdmittedFirst
  <2> QED BY <2>2 DEF InsertFits, Commits
<1>9. tx.op # "admit"
  BY <1>1, <1>2, <1>6, <1>7, <1>8 DEF HolderSure
<1>10. tx.op # "block"
  BY <1>1, <1>6, <1>7, <1>8 DEF HolderSure
<1>11. alive
  BY <1>9, <1>10
<1>12. tx.op # "replay"
  BY <1>1, <1>6, <1>7, <1>8, <1>11 DEF HolderSure
<1>13. tx.d \in attached => rows[tx.d].state = "pending"
  BY <1>11, BaseFacts DEF Held, RowHeld
<1>14. tx.op # "watch"
  BY <1>1, <1>7, <1>8, <1>11, <1>13 DEF HolderSure
<1>15. tx.op # "write"
  <2>1. tx.op = "write" => Writing(tx.d)
    BY BaseFacts DEF HolderOK, Writing
  <2>2. tx.op = "write" => tx.d \in attached
    BY <1>1, <1>11, <2>1, BaseFacts DEF Held, WriterOwns
  <2> QED BY <1>7, <1>8, <1>13, <2>2
<1>16. tx.op # "ack"
  BY <1>7, <1>8, BaseFacts DEF StatementHeld
<1> QED BY <1>2, <1>9, <1>10, <1>12, <1>14, <1>15, <1>16

(* Every step keeps the cause of an error in sight.                        *)
LEMMA ErrorCausedStep ==
    ASSUME Base, TableInv, InsertFits, ErrorCaused, [Next]_vars
    PROVE  ErrorCaused'
<1> SUFFICES ASSUME tx'.res = "error", alive' \/ tx'.op \in {"admit", "block"}
             PROVE  Trouble'
  BY DEF ErrorCaused
<1>1. CASE tx' = tx
  <2>1. tx # NoTx /\ tx.res = "error"
    BY <1>1, NoTxFacts
  <2>2. CASE alive \/ tx.op \in {"admit", "block"}
    BY <2>1, <2>2, TroubleStays DEF ErrorCaused
  <2>3. CASE ~alive /\ alive' /\ tx.op \notin {"admit", "block"}
    <3>1. sup = "dial" /\ writer.pc = "idle" /\ reader.pc = "idle"
          /\ watcher.pc = "idle"
      BY <2>3, BaseFacts, Revives DEF DialSucceeds, TaskPlaces, Resting
    <3>2. tx.op \in {"admit", "write", "ack", "watch", "replay", "block"}
      BY <2>1, BaseFacts, HolderType
    <3> QED BY <2>3, <3>1, <3>2, BaseFacts DEF HolderOK, HolderPlaces
  <2> QED BY <1>1, <2>2, <2>3
<1>2. CASE StoreFaults
  BY <1>2, BaseFacts DEF StoreFaults, Trouble, TypeInv, TypeOK, EnvTypeOK
<1>3. CASE StoreCommits
  <2>1. /\ tx.res = "wait" /\ tx'.op = tx.op /\ UNCHANGED rows
    BY <1>3, CommitRow
  <2>2. ~Commits(tx.stmt, rows, tx.d, mem[tx.d].pid)
    <3>1. tx' = [tx EXCEPT !.res = "ok"] => tx'.res = "ok"
      BY <2>1, BaseFacts, NoTxFacts, Fields
    <3> QED BY <1>3, <3>1 DEF StoreCommits
  <2>3. alive' = alive
    BY <1>3 DEF StoreCommits, sessVars
  <2>4. Trouble
    BY <2>1, <2>2, <2>3, RefusalCaused
  <2> QED BY <2>4, TroubleStays
<1> QED BY <1>1, <1>2, <1>3, ErrorChanges

(* A sequence has no more members than places.                             *)
LEMMA MembersFit ==
    ASSUME NEW s \in Seq(Deliveries)
    PROVE  IsFiniteSet(Members(s)) /\ Cardinality(Members(s)) <= Len(s)
<1>1. Len(s) \in Nat /\ DOMAIN s = 1..Len(s) /\ s \in [1..Len(s) -> Deliveries]
  BY LenProperties
<1>2. s \in Surjection(1..Len(s), Members(s))
  BY <1>1 DEF Surjection, Members
<1>3. IsFiniteSet(1..Len(s)) /\ Cardinality(1..Len(s)) = Len(s)
  BY <1>1, FS_Interval
<1>4. IsFiniteSet(Members(s)) /\ Cardinality(Members(s)) <= Cardinality(1..Len(s))
  BY <1>2, <1>3, FS_Surjection
<1> QED BY <1>3, <1>4

(* The table has room for what the book has, and no row has the            *)
(* identifier that an admission takes.                                     *)
LEMMA SubmitFits ==
    ASSUME MaxInflight <= MaxRecords, Base, TableInv, NEW d \in Deliveries,
           SubmitBegins(d)
    PROVE  InsertFits'
<1>1. /\ tx = NoTx /\ tx'.d = d /\ rows' = rows /\ sup = "ready"
      /\ Len(order) < MaxInflight
      /\ \E id \in FreePids : mem' = [mem EXCEPT ![d].pid = id]
  BY DEF SubmitBegins, Begin, Ready, dbVars
<1>2. /\ order \in Seq(Deliveries) /\ mem \in [Deliveries -> Record]
      /\ rows \in [Deliveries -> Row] /\ RowMarkedFirst /\ MatchInv
  BY BaseFacts DEF TypeInv, TypeOK, DbTypeOK, CommitInv, TableInv
<1> SUFFICES ASSUME Blocked(rows) = {}
             PROVE  /\ Cardinality(Present(rows)) < MaxRecords
                    /\ \A e \in Present(rows) : rows[e].pid # mem'[d].pid
  BY <1>1 DEF InsertFits
<1>3. Present(rows) \subseteq Members(order)
  <2>1. \A e \in Deliveries : RowMatches(e)
    BY <1>1, <1>2, NoTxFacts DEF MatchInv, Ahead
  <2>2. \A e \in Present(rows) : rows[e].state = "pending"
    BY <1>2 DEF Present, Blocked, Row
  <2> QED BY <2>1, <2>2 DEF Present, RowMatches, Open
<1>4. Cardinality(Present(rows)) < MaxRecords
  <2>1. /\ IsFiniteSet(Members(order))
        /\ Cardinality(Members(order)) <= Len(order)
    BY <1>2, MembersFit
  <2>2. /\ IsFiniteSet(Present(rows))
        /\ Cardinality(Present(rows)) <= Cardinality(Members(order))
    BY <1>3, <2>1, FS_Subset
  <2>3. /\ Cardinality(Present(rows)) \in Nat
        /\ Cardinality(Members(order)) \in Nat
        /\ Len(order) \in Nat /\ MaxInflight \in Nat /\ MaxRecords \in Nat
    BY <1>2, <2>1, <2>2, FS_CardinalityType, LenProperties,
       OutboxAssumption, DeliveryAssumption
  <2> QED BY <1>1, <2>1, <2>2, <2>3
<1>5. ASSUME NEW e \in Present(rows) PROVE rows[e].pid # mem'[d].pid
  <2>1. PICK id \in FreePids : mem' = [mem EXCEPT ![d].pid = id]
    BY <1>1
  <2>2. mem'[d].pid = id
    BY <1>2, <2>1, RecordEdits
  <2>3. id \notin Reserved
    BY <2>1 DEF FreePids
  <2>4. rows[e].pid = mem[e].pid
    BY <1>1, <1>2, <1>5 DEF RowMarkedFirst, Present
  <2>5. mem[e].pid \in Reserved
    BY <1>3, <1>5 DEF Reserved
  <2> QED BY <2>2, <2>3, <2>4, <2>5
<1> QED BY <1>4, <1>5

(* Every step keeps the place of the row being inserted.                   *)
LEMMA InsertFitsStep ==
    ASSUME MaxInflight <= MaxRecords, Base, TableInv, InsertFits, [Next]_vars
    PROVE  InsertFits'
<1>1. CASE \E d \in Deliveries : SubmitBegins(d)
  BY <1>1, SubmitFits
<1>2. CASE tx' = tx
  <2> SUFFICES ASSUME tx.stmt = "insert", tx.res = "wait" PROVE InsertFits'
    BY <1>2 DEF InsertFits
  <2>1. /\ tx # NoTx /\ TypeInv /\ mem \in [Deliveries -> Record]
        /\ tx.d \in Deliveries /\ tx.op # "none" /\ NoTx.op = "none"
    BY BaseFacts, NoTxFacts, HolderType
  <2>2. ~StoreCommits
    BY <1>2, CommitRow
  <2>3. ~ProcessOpens
    BY <2>1, BaseFacts DEF ProcessOpens, CommitInv, DownHasNoRecord
  <2>4. Keeps
    <3>1. ~Finishes /\ ~AdmissionCommitted /\ ~AdmissionAttached
          /\ ~AdmissionFailed /\ ~WriterMayWrite
          /\ ~ReaderAcknowledged /\ ~ReplayAttached
      BY <1>2 DEF Finishes, AdmissionCommitted, AdmissionAttached,
         AdmissionFailed, WriterMayWrite, ReaderAcknowledged, ReplayAttached,
         Done, Failed
    <3>2. ~Settle /\ ~ProcessEnds /\ ~\E d \in Deliveries : SubmitBegins(d)
      BY <1>2, <2>1 DEF Settle, ProcessEnds, Volatile, SubmitBegins, Begin
    <3> QED BY <2>1, <2>2, <2>3, <3>1, <3>2, BookChanges
  <2>5. mem'[tx.d].pid = mem[tx.d].pid
    BY <2>1, <2>4, DetachedRecords DEF Keeps, AbortWith
  <2>6. rows' = rows
    BY <2>4 DEF Keeps
  <2> QED BY <1>2, <2>5, <2>6 DEF InsertFits
<1>3. CASE tx'.stmt # "insert" \/ tx'.res # "wait"
  BY <1>3 DEF InsertFits
<1> QED BY <1>1, <1>2, <1>3, InsertChanges

(* The causes of storage errors are inductive.                             *)
LEMMA ErrorStep ==
    ASSUME MaxInflight <= MaxRecords, Base, TableInv, ErrorInv, [Next]_vars
    PROVE  ErrorInv'
<1>1. InsertFits' /\ ErrorCaused'
  BY InsertFitsStep, ErrorCausedStep DEF ErrorInv
<1>2. ASSUME cause' = "storage", ~SessionMarkFailed PROVE Trouble
  <2>1. cause = "storage" \/ (tx.res = "error" /\ (alive \/ tx.op = "block"))
    BY <1>2, CauseChanges
  <2> QED BY <2>1 DEF ErrorInv, ErrorCaused, StorageErrorNeedsFault, Trouble
<1>3. StorageErrorNeedsFault'
  <2>1. CASE SessionMarkFailed
    BY <2>1, MarkFaults DEF Base, StorageErrorNeedsFault
  <2>2. CASE cause' = "storage" /\ ~SessionMarkFailed
    BY <1>2, <2>2, TroubleStays DEF StorageErrorNeedsFault, Trouble
  <2> QED BY <2>1, <2>2 DEF StorageErrorNeedsFault
<1> QED BY <1>1, <1>3 DEF ErrorInv

(* When the table has room for as many rows as may be in flight, no        *)
(* sequence of legal calls makes the outbox refuse a statement that a live *)
(* session depends on: a generation ends in a storage error only after a   *)
(* statement failed, or over quarantined rows (Outbox and durable_client   *)
(* taken together).                                                        *)
THEOREM StorageErrorHolds ==
    ASSUME MaxInflight <= MaxRecords
    PROVE  Spec => []StorageErrorNeedsFault
<1>1. Init => ErrorInv
  BY NoTxFacts DEF Init, ErrorInv, InsertFits, ErrorCaused,
     StorageErrorNeedsFault
<1>2. ASSUME TypeInv, CommitInv, PlaceInv, ExchangeInv, TableInv, ErrorInv,
             [Next]_vars
      PROVE  ErrorInv'
  BY <1>2, ErrorStep DEF Base
<1>3. TypeInv /\ CommitInv /\ PlaceInv /\ ExchangeInv /\ TableInv /\ ErrorInv
      /\ [Next]_vars => ErrorInv'
  BY <1>2
<1>4. ErrorInv => StorageErrorNeedsFault
  BY DEF ErrorInv
<1> QED BY <1>1, <1>3, <1>4, TypeInvariant, CommitInvariant, ExchangeInvariant,
           TableInvariant, PTL DEF Spec
-----------------------------------------------------------------------------
(* The order of retransmissions.                                           *)
(* The row of e was inserted before that of d, and both are there.         *)
Older(e, d) ==
    /\ rows[e].state # "absent" /\ rows[d].state # "absent"
    /\ rows[e].seq < rows[d].seq

(* A delivery that may have been written, and has not been written again   *)
(* on this connection.                                                     *)
Missing(e) ==
    /\ Open(e) /\ mem[e].started
    /\ ~(e \in attached /\ mem[e].phase = "AwaitingAck")

(* With the writer, or queued for it.                                      *)
Leaving(e) == Writing(e) \/ e \in Members(outq)

(* Position m of s comes after one of e.                                   *)
Follows(s, m, e) == \E k \in DOMAIN s : k < m /\ s[k] = e

(* The book is in insertion order, and a new row is its newest.            *)
BookSorted ==
    /\ \A i, j \in DOMAIN order : i < j => ~Older(order[j], order[i])
    /\ \A d \in Deliveries : rows[d].state # "absent" => rows[d].seq < nextSeq
    /\ tx.stmt = "insert" /\ tx.res = "ok" =>
           \A d \in Deliveries : ~Older(tx.d, d)

(* A caller enqueues the first copy.                                       *)
CallersFresh == \A d \in callers : ~mem[d].started

(* What is older than the delivery the writer is to write again has gone   *)
(* ahead of it.                                                            *)
WriterInTurn ==
    \A d \in Deliveries : Writing(d) /\ writer.flag =>
        \A e \in Deliveries : Missing(e) => ~Older(e, d)

(* What is older than a queued copy is ahead of it in the queue.           *)
QueueInTurn ==
    \A m \in DOMAIN outq : mem[outq[m]].started =>
        \A e \in Deliveries : Missing(e) /\ Older(e, outq[m]) =>
            Writing(e) \/ Follows(outq, m, e)

(* What is older than a delivery the replay has still to attach is ahead   *)
(* of it on the way.                                                       *)
ReplayInTurn ==
    sup = "replay" =>
        \A m \in DOMAIN todo : \A e \in Deliveries :
            Missing(e) /\ Older(e, todo[m]) =>
                Leaving(e) \/ Follows(todo, m, e)

(* Why retransmissions leave in the order of insertion: inductive,         *)
(* together with TableInv and what it rests on.                            *)
TurnInv ==
    /\ BookSorted
    /\ alive => CallersFresh /\ WriterInTurn /\ QueueInTurn /\ ReplayInTurn
-----------------------------------------------------------------------------
(* What a step under a session that lives on does to it.                   *)
LEMMA LiveChanges ==
    ASSUME Base, [Next]_vars, alive, alive'
    PROVE  /\ \/ UNCHANGED writer \/ WriterTakes \/ WriterEnters
              \/ WriterEntersLate \/ WriterMayWrite \/ WriteReturns
           /\ \/ UNCHANGED outq \/ WriterTakes \/ ReplayAttached
              \/ \E d \in Deliveries : CallerEnqueues(d)
           /\ attached \subseteq attached' \/ ReaderAcknowledged
           /\ callers' \subseteq callers \/ AdmissionAttached
<1> USE DEF sessVars, taskVars, Abort, AbortWith
<1>0. ~Ends /\ ~DialSucceeds
  BY EndsLive, BaseFacts DEF DialSucceeds, SessionPlaces, Resting
<1>1. CASE StoreCommits
  BY <1>1 DEF StoreCommits
<1>2. CASE Submitter
  BY <1>0, <1>2 DEF Submitter, SubmitBegins, CallerEnqueues, CallerCancelled,
     AdmissionCommitted, AdmissionAttached, Ends
<1>3. CASE Writer
  BY <1>0, <1>3 DEF Writer, WriterTakes, WriterEnters, WriterMayWrite,
     WriterEntersLate, WriteReturns, Ends
<1>4. CASE Reader
  BY <1>0, <1>4 DEF Reader, ReaderSeesAck, ReaderEnters, ReaderAcknowledged,
     Ends
<1>5. CASE Watchdog
  BY <1>0, <1>5 DEF Watchdog, WatcherSees, WatcherEnters, Ends
<1>6. CASE Replay
  BY <1>0, <1>6 DEF Replay, ReplaySkips, ReplayEnters, ReplayAttached,
     ReplayDone, ReplayRefused, Ends
<1>7. CASE Supervisor /\ ~Replay
  <2>1. sup # "block"
    BY BaseFacts DEF SessionPlaces, Resting
  <2> QED
    BY <1>0, <1>7, <2>1 DEF Supervisor, SessionMarkedKnown, BlockBegins,
       BlockContinues, BlockNext, BlockEnds, Ends
<1>8. CASE Environment
  BY <1>0, <1>8 DEF Environment, BrokerAnswers, DeadlinePasses,
     MessageDeadlinePasses, ApplicationStops, StoreFaults, Ends
<1>9. CASE UNCHANGED vars
  BY <1>9 DEF vars
<1> QED BY <1>1, <1>2, <1>3, <1>4, <1>5, <1>6, <1>7, <1>8, <1>9 DEF Next

(* The last sequence number given out.                                     *)
LEMMA SeqGrows ==
    ASSUME [Next]_vars
    PROVE  StoreCommits \/ UNCHANGED nextSeq
<1> USE DEF dbVars
<1>1. CASE StoreFaults
  BY <1>1 DEF StoreFaults
<1>2. CASE Submitter
  BY <1>2 DEF Submitter, SubmitBegins, CallerEnqueues, CallerCancelled,
     AdmissionCommitted, AdmissionAttached, AdmissionFailed
<1>3. CASE Writer
  BY <1>3 DEF Writer, WriterTakes, WriterEnters, WriterMayWrite,
     WriterEntersLate, WriterExpired, WriterFailed, WriteReturns
<1>4. CASE Reader
  BY <1>4 DEF Reader, ReaderSeesAck, ReaderEnters, ReaderAcknowledged,
     ReaderFailed
<1>5. CASE Watchdog
  BY <1>5 DEF Watchdog, DeliveryTimesOut, WatcherSees, WatcherEnters,
     WatcherExpired, WatcherFailed
<1>6. CASE Replay
  BY <1>6 DEF Replay, ReplaySkips, ReplayExhausted, ReplayEnters,
     ReplayAttached, ReplayExpired, ReplayFailed, ReplayDone, ReplayRefused
<1>7. CASE Supervisor /\ ~Replay
  BY <1>7 DEF Supervisor, DialSucceeds, DialFails, SessionMarkedKnown,
     GenerationEnds, BlockBegins, BlockContinues, BlockFailed, Settle,
     SessionMarkFailed
<1>8. CASE Environment /\ ~StoreFaults
  BY <1>8 DEF Environment, ConnectionLost, BrokerAnswers, BrokerForgets,
     DeadlinePasses, MessageDeadlinePasses, ApplicationStops, StopCloses,
     ProcessEnds, ProcessOpens
<1>9. CASE UNCHANGED vars
  BY <1>9 DEF vars
<1> QED BY <1>1, <1>2, <1>3, <1>4, <1>5, <1>6, <1>7, <1>8, <1>9
        DEF Next, Environment

(* A row keeps its sequence number; a new one has the next.                *)
LEMMA SeqStep ==
    ASSUME Base, [Next]_vars, NEW d \in Deliveries, rows'[d].state # "absent"
    PROVE  \/ rows[d].state # "absent" /\ rows'[d].seq = rows[d].seq
           \/ /\ StoreCommits /\ tx.stmt = "insert" /\ tx.d = d /\ tx'.res = "ok"
              /\ rows'[d].seq = nextSeq /\ nextSeq' = nextSeq + 1
<1>1. TypeInv /\ rows \in [Deliveries -> Row]
  BY BaseFacts DEF TypeInv, TypeOK, DbTypeOK
<1>2. CASE UNCHANGED rows
  BY <1>2
<1>3. CASE ProcessOpens
  <2>1. rows' = Swept(rows, late)
    BY <1>3 DEF ProcessOpens
  <2> QED BY <1>1, <2>1, SweptFacts
<1>4. CASE StoreCommits /\ rows' # rows
  <2>1. /\ tx # NoTx /\ tx'.res = "ok" /\ tx.d \in Deliveries
        /\ Commits(tx.stmt, rows, tx.d, mem[tx.d].pid)
        /\ rows'[tx.d] = RowAfter(tx.stmt, rows[tx.d], mem[tx.d].pid, nextSeq)
        /\ \A e \in Deliveries : e # tx.d => rows'[e] = rows[e]
        /\ tx.stmt = "insert" => nextSeq' = nextSeq + 1
    BY <1>4, CommitRow
  <2>2. rows[tx.d] \in Row
    BY <1>1, <2>1
  <2>3. CASE d # tx.d
    BY <2>1, <2>3
  <2>4. CASE d = tx.d /\ tx.stmt = "insert"
    BY <1>4, <2>1, <2>2, <2>4, RowAfterFacts
  <2>5. CASE d = tx.d /\ tx.stmt # "insert"
    <3>1. tx.stmt \in Statement
      <4>1. tx \in Transition
        BY <1>1 DEF TypeInv, TypeOK
      <4> QED BY <2>1, <4>1 DEF Transition, Statement
    <3>2. rows[d].state # "absent"
      BY <2>1, <2>5, <3>1 DEF Commits, Statement
    <3>3. rows'[d].seq = rows[d].seq
      BY <2>1, <2>2, <2>5, <3>1, RowAfterFacts DEF Statement
    <3> QED BY <3>2, <3>3
  <2> QED BY <2>3, <2>4, <2>5
<1> QED BY <1>2, <1>3, <1>4, TableChanges

(* What is being inserted is unknown to the book.                          *)
LEMMA InsertFacts ==
    ASSUME Base, tx.stmt = "insert"
    PROVE  /\ tx # NoTx /\ tx.op = "admit" /\ tx.d \in Deliveries
           /\ mem[tx.d].phase = "none" /\ ~mem[tx.d].started
<1>1. tx \in Transition /\ NoTx.stmt = "none"
  BY BaseFacts, Fields DEF TypeInv, TypeOK
<1>2. tx # NoTx /\ tx.op = "admit"
  BY <1>1 DEF Transition
<1> QED BY <1>2, BaseFacts DEF CommitInv, AdmissionHeld

(* The age of two known deliveries does not change.                        *)
LEMMA OlderStays ==
    ASSUME Base, [Next]_vars, NEW e \in Deliveries, NEW d \in Deliveries,
           mem[e].phase # "none", mem[d].phase # "none", Older(e, d)'
    PROVE  Older(e, d)
<1>1. \A f \in Deliveries : tx.stmt = "insert" /\ tx.d = f => mem[f].phase = "none"
  BY InsertFacts
<1>2. rows'[e].state # "absent" /\ rows'[d].state # "absent"
  BY DEF Older
<1>3. /\ rows[e].state # "absent" /\ rows'[e].seq = rows[e].seq
      /\ rows[d].state # "absent" /\ rows'[d].seq = rows[d].seq
  BY <1>1, <1>2, SeqStep
<1> QED BY <1>3 DEF Older
-----------------------------------------------------------------------------
(* Who is in the book after a step of a running client.                    *)
LEMMA BookStays ==
    ASSUME Base, [Next]_vars, alive, alive', NEW e \in Members(order')
    PROVE  e \in Members(order) \/ (AdmissionCommitted /\ e = tx.d)
<1>1. order \in Seq(Deliveries) /\ (tx # NoTx => tx.d \in Deliveries)
  BY BaseFacts
<1>2. ~ProcessOpens
  BY EndsLive DEF Ends
<1>3. CASE order' = <<>>
  BY <1>3, MembersEmpty
<1>4. CASE AdmissionCommitted
  <2>1. order' = Append(order, tx.d) /\ tx.d \in Deliveries
    BY <1>1, <1>4, NoTxFacts DEF AdmissionCommitted, Done
  <2> QED BY <1>1, <1>4, <2>1, MembersAppend
<1>5. CASE ReaderAcknowledged
  <2>1. order' = Without(order, tx.d) /\ Distinct(order)
    BY <1>5, BaseFacts DEF ReaderAcknowledged, BookPlaces
  <2> QED BY <1>1, <2>1, DistinctWithout
<1> QED BY <1>2, <1>3, <1>4, <1>5, OrderChanges

(* A written delivery of a live session is written under it.               *)
LEMMA MayWriteLive ==
    ASSUME Base, alive, alive', WriterMayWrite
    PROVE  /\ tx.d \in attached /\ Writing(tx.d) /\ tx.d \in Deliveries
           /\ mem' = MarkStarted(mem, tx.d)
           /\ attached' = attached /\ order' = order /\ callers' = callers
           /\ writer' = [writer EXCEPT !.pc = "writing"]
                 \/ writer' = [writer EXCEPT !.pc = "late"]
<1>1. tx.op = "write" /\ writer.pc = "tx" /\ writer.d = tx.d /\ tx.d \in Deliveries
  BY BaseFacts, NoTxFacts DEF WriterMayWrite, Done, HolderOK
<1>2. tx.d \in attached /\ Writing(tx.d) /\ mem[tx.d].gen = gen
  BY <1>1, BaseFacts DEF Held, WriterOwns, AttachedOwned, Writing
<1>3. ~Abort("rejected", MarkStarted(mem, tx.d))
  BY DEF Abort, AbortWith
<1>4. /\ mem' = MarkStarted(mem, tx.d) /\ UNCHANGED sessVars
      /\ writer' = [writer EXCEPT !.pc = "writing"]
           \/ writer' = [writer EXCEPT !.pc = "late"]
  BY <1>2, <1>3 DEF WriterMayWrite
<1>5. order' = order
  BY DEF WriterMayWrite
<1> QED BY <1>1, <1>2, <1>4, <1>5 DEF sessVars

(* Under a session that lives on no delivery becomes a missing one, and    *)
(* only the writer's delivery is marked.                                   *)
LEMMA MissingStays ==
    ASSUME Base, TableInv, [Next]_vars, alive, alive', NEW e \in Deliveries
    PROVE  /\ Missing(e)' => Missing(e)
           /\ mem'[e].started => mem[e].started \/ (WriterMayWrite /\ Writing(e))
<1>1. /\ mem \in [Deliveries -> Record] /\ attached \subseteq Deliveries
      /\ tx # NoTx => tx.d \in Deliveries
      /\ ~Ends /\ HolderSure /\ HolderPlaces /\ BookPlaces
      /\ todo \in Seq(Deliveries)
  BY BaseFacts, EndsLive DEF TableInv
<1>2. tx.op = "admit" => ~mem[tx.d].started
  BY BaseFacts DEF CommitInv, AdmissionHeld
<1>3. ASSUME mem'[e] = mem[e], e \in attached => e \in attached',
             ~AdmissionCommitted \/ e # tx.d
      PROVE  Missing(e)' => Missing(e)
  BY <1>3, BookStays DEF Missing, Open, Terminal
<1>4. ASSUME mem'[e] = mem[e], ~ReaderAcknowledged, ~AdmissionCommitted
      PROVE  Missing(e)' => Missing(e)
  BY <1>3, <1>4, LiveChanges
<1>5. CASE UNCHANGED mem /\ ~ReaderAcknowledged /\ ~AdmissionCommitted
  BY <1>4, <1>5
<1>6. CASE \E d \in Deliveries : SubmitBegins(d)
  <2>1. PICK d \in Deliveries : /\ \E id : mem' = [mem EXCEPT ![d].pid = id]
                                /\ order' = order /\ attached' = attached
    BY <1>6 DEF SubmitBegins
  <2>2. mem'[e].phase = mem[e].phase /\ mem'[e].started = mem[e].started
    BY <1>1, <2>1, RecordEdits
  <2> QED BY <2>1, <2>2 DEF Missing, Open, Terminal
<1>7. CASE AdmissionCommitted
  <2>1. tx.op = "admit" /\ tx.d \in Deliveries /\ attached' = attached
    BY <1>1, <1>7, NoTxFacts DEF AdmissionCommitted, Done
  <2>2. \E p : mem' = [mem EXCEPT ![tx.d].phase = p]
    BY <1>7 DEF AdmissionCommitted
  <2>3. mem'[e].started = mem[e].started
    BY <1>1, <2>1, <2>2, RecordEdits
  <2>4. CASE e = tx.d
    BY <1>2, <2>1, <2>3, <2>4 DEF Missing
  <2>5. CASE e # tx.d
    <3>1. mem'[e] = mem[e]
      BY <1>1, <2>1, <2>2, <2>5, RecordEdits
    <3> QED BY <1>3, <2>1, <2>3, <2>5, <3>1
  <2> QED BY <2>4, <2>5
<1>8. CASE AdmissionAttached
  <2>1. /\ tx.op = "admit" /\ tx.d \in Deliveries /\ mem' = Attach(mem, tx.d, tx.gen)
    BY <1>1, <1>8, NoTxFacts DEF AdmissionAttached, Done
  <2>2. ~AdmissionCommitted /\ ~ReaderAcknowledged
    BY <1>8, <2>1 DEF AdmissionAttached, AdmissionCommitted,
       ReaderAcknowledged, Done
  <2>3. mem'[e].started = mem[e].started
    BY <1>1, <2>1, RecordEdits
  <2>4. CASE e = tx.d
    BY <1>2, <2>1, <2>3, <2>4 DEF Missing
  <2>5. CASE e # tx.d
    <3>1. mem'[e] = mem[e]
      BY <1>1, <2>1, <2>5, RecordEdits
    <3> QED BY <1>4, <2>2, <2>3, <3>1
  <2> QED BY <2>4, <2>5
<1>9. CASE WriterMayWrite
  <2>1. /\ tx.d \in attached /\ Writing(tx.d) /\ tx.d \in Deliveries
        /\ mem' = MarkStarted(mem, tx.d) /\ attached' = attached /\ order' = order
    BY <1>9, MayWriteLive
  <2>2. CASE e = tx.d
    <3>1. mem'[e].phase = "AwaitingAck"
      BY <1>1, <2>1, <2>2, RecordEdits
    <3> QED BY <1>9, <2>1, <2>2, <3>1 DEF Missing
  <2>3. CASE e # tx.d
    <3>1. mem'[e] = mem[e]
      BY <1>1, <2>1, <2>3, RecordEdits
    <3> QED BY <2>1, <3>1 DEF Missing, Open, Terminal
  <2> QED BY <2>2, <2>3
<1>10. CASE ReaderAcknowledged
  <2>1. /\ tx.op = "ack" /\ mem'[tx.d].started = mem[tx.d].started
        /\ tx.d \in Deliveries /\ attached' = attached \ {tx.d}
        /\ \A f \in Deliveries : f # tx.d => mem'[f] = mem[f]
    BY <1>10, VerdictFacts DEF ReaderAcknowledged
  <2>2. CASE e = tx.d
    <3>1. mem'[e].phase \in TerminalPhase
      BY <1>10, <2>2, VerdictFacts DEF Terminal, TerminalPhase
    <3> QED BY <2>1, <2>2, <3>1 DEF Missing, Open, Terminal
  <2>3. CASE e # tx.d
    <3>1. mem'[e] = mem[e]
      BY <2>1, <2>3
    <3> QED BY <1>3, <2>1, <2>3, <3>1
  <2> QED BY <2>2, <2>3
<1>11. CASE ReplayAttached
  <2>1. /\ tx.op = "replay" /\ tx.d \in Deliveries /\ order' = order
        /\ mem' = Attach(mem, tx.d, gen) /\ attached' = attached \cup {tx.d}
    BY <1>1, <1>11, NoTxFacts DEF ReplayAttached, Done, AbortWith
  <2>2. mem'[e].started = mem[e].started
    BY <1>1, <2>1, RecordEdits
  <2>3. CASE e = tx.d
    <3>1. sup = "replay" /\ todo # <<>> /\ tx.d = Head(todo) /\ Open(tx.d)
      BY <1>1, <2>1 DEF HolderPlaces, HolderSure
    <3>2. tx.d \notin attached
      BY <1>1, <3>1, MembersHead DEF BookPlaces
    <3> QED BY <2>2, <2>3, <3>1, <3>2 DEF Missing
  <2>4. CASE e # tx.d
    <3>1. mem'[e] = mem[e]
      BY <1>1, <2>1, <2>4, RecordEdits
    <3> QED BY <2>1, <2>2, <2>4, <3>1 DEF Missing, Open, Terminal
  <2> QED BY <2>3, <2>4
<1>12. /\ ~\E c : AbortWith(c, mem, attached)
       /\ ~\E c : AbortWith(c, FinishTerminal(mem, tx.d), attached)
       /\ ~AdmissionFailed /\ ~Settle /\ ~ProcessEnds /\ ~ProcessOpens
  BY <1>1 DEF AbortWith, Ends
<1> QED BY <1>5, <1>6, <1>7, <1>8, <1>9, <1>10, <1>11, <1>12, RecordChanges
        DEF RecordChange

(* Nothing older goes missing.                                             *)
LEMMA NoneNew ==
    ASSUME Base, TableInv, [Next]_vars, alive, alive', NEW e \in Deliveries,
           NEW d \in Deliveries, mem[d].phase # "none", Missing(e)', Older(e, d)'
    PROVE  Missing(e) /\ Older(e, d)
<1>1. Missing(e)
  BY MissingStays
<1>2. e \in Members(order)
  BY <1>1 DEF Missing, Open
<1>3. mem[e].phase # "none"
  BY <1>2, BaseFacts, KnownFacts DEF CommitInv, KnownHasRecord
<1> QED BY <1>1, <1>3, OlderStays

(* A missing delivery on its way stays there, or is written.               *)
LEMMA WritingStays ==
    ASSUME Base, TableInv, [Next]_vars, alive, alive', NEW e \in Deliveries,
           Writing(e), Missing(e)'
    PROVE  Writing(e)'
<1>1. TypeInv /\ mem \in [Deliveries -> Record] /\ HolderOK
  BY BaseFacts
<1>2. CASE UNCHANGED writer
  BY <1>2 DEF Writing
<1>3. CASE WriterTakes \/ WriteReturns
  BY <1>3 DEF WriterTakes, WriteReturns, Writing
<1>4. CASE WriterEnters \/ WriterEntersLate
  <2>1. writer' = [writer EXCEPT !.pc = "tx"]
    BY <1>4 DEF WriterEnters, WriterEntersLate
  <2> QED BY <1>1, <2>1, TaskFields DEF Writing
<1>5. CASE WriterMayWrite
  <2>1. /\ tx.d \in attached' /\ Writing(tx.d) /\ tx.d \in Deliveries
        /\ mem' = MarkStarted(mem, tx.d)
    BY <1>5, MayWriteLive
  <2>2. e = tx.d
    BY <2>1 DEF Writing
  <2>3. mem'[e].phase = "AwaitingAck"
    BY <1>1, <2>1, <2>2, RecordEdits
  <2> QED BY <2>1, <2>2, <2>3 DEF Missing
<1> QED BY <1>2, <1>3, <1>4, <1>5, LiveChanges

(* What the writer has after a step it had before, or has just taken.      *)
LEMMA WritingNow ==
    ASSUME Base, [Next]_vars, alive, alive', NEW d \in Deliveries, Writing(d)'
    PROVE  \/ Writing(d) /\ writer'.flag = writer.flag
           \/ /\ WriterTakes /\ d = Head(outq) /\ writer.pc = "idle"
              /\ outq # <<>> /\ writer'.flag = mem[d].started
<1>1. TypeInv /\ HolderOK
  BY BaseFacts
<1>2. CASE UNCHANGED writer
  BY <1>2 DEF Writing
<1>3. CASE WriterTakes
  <2>1. writer.pc = "idle" /\ outq # <<>>
    BY <1>3 DEF WriterTakes
  <2>2. writer' = writer \/ writer' = [pc |-> "enter", d |-> Head(outq),
                                       flag |-> mem[Head(outq)].started]
    BY <1>3 DEF WriterTakes
  <2> QED BY <1>3, <2>1, <2>2 DEF Writing
<1>4. CASE WriterEnters \/ WriterEntersLate
  <2>1. /\ writer' = [writer EXCEPT !.pc = "tx"]
        /\ writer.pc \in {"enter", "late"}
    BY <1>4 DEF WriterEnters, WriterEntersLate
  <2>2. writer'.d = writer.d /\ writer'.flag = writer.flag
    BY <1>1, <2>1, TaskFields
  <2> QED BY <2>1, <2>2 DEF Writing
<1>5. CASE WriterMayWrite
  <2>1. Writing(tx.d) /\ \E pc : writer' = [writer EXCEPT !.pc = pc]
    BY <1>5, MayWriteLive
  <2>2. writer'.d = writer.d /\ writer'.flag = writer.flag
    BY <1>1, <2>1, TaskFields
  <2> QED BY <2>1, <2>2 DEF Writing
<1>6. CASE WriteReturns
  BY <1>6 DEF WriteReturns, Writing, IdleTask
<1> QED BY <1>2, <1>3, <1>4, <1>5, <1>6, LiveChanges
-----------------------------------------------------------------------------
(* The row just inserted stays so until its holder resumes.                *)
LEMMA InsertOk ==
    ASSUME Base, [Next]_vars, tx'.stmt = "insert", tx'.res = "ok"
    PROVE  \/ tx' = tx /\ ~StoreCommits
           \/ StoreCommits /\ tx.stmt = "insert" /\ tx'.d = tx.d
<1>0. TypeInv /\ NoTx.stmt = "none"
  BY BaseFacts, Fields
<1>1. CASE tx' = tx
  BY <1>1, CommitRow
<1>2. CASE tx' = NoTx
  BY <1>0, <1>2
<1>3. CASE tx.res = "wait" /\ tx' = [tx EXCEPT !.res = "error"]
  BY <1>0, <1>3, Fields, NoTxFacts
<1>4. CASE StoreCommits
  BY <1>4, CommitRow
<1>5. CASE AdmissionCommitted
  <2>1. tx # NoTx
    BY <1>5, NoTxFacts DEF AdmissionCommitted, Done
  <2>2. tx' = NoTx \/ tx' = [tx EXCEPT !.stmt = "attach", !.res = "wait"]
    BY <1>5 DEF AdmissionCommitted, Release
  <2> QED BY <1>0, <2>1, <2>2, Fields
<1>6. CASE ReaderEnters
  BY <1>1, <1>6 DEF ReaderEnters, Begin
<1>7. CASE \E d \in Deliveries : SubmitBegins(d)
  BY <1>7 DEF SubmitBegins, Begin
<1> QED BY <1>1, <1>2, <1>3, <1>4, <1>5, <1>6, <1>7, GateChanges DEF GateChange

(* The book stays sorted.                                                  *)
LEMMA BookSortedStep ==
    ASSUME Base, BookSorted, [Next]_vars
    PROVE  BookSorted'
<1>1. /\ order \in Seq(Deliveries) /\ nextSeq \in Nat
      /\ rows \in [Deliveries -> Row] /\ TypeInv
      /\ tx # NoTx => tx.d \in Deliveries
  BY BaseFacts DEF TypeInv, TypeOK, DbTypeOK
<1>2. order' \in Seq(Deliveries) /\ rows' \in [Deliveries -> Row]
  BY <1>1, TypeStep DEF TypeInv, TypeOK, BookTypeOK, DbTypeOK
<1>3. /\ \A d \in Deliveries : rows[d].seq \in Nat
      /\ \A d \in Deliveries : rows[d].state # "absent" => rows[d].seq < nextSeq
  BY <1>1 DEF BookSorted, Row
<1>4. \A d \in Deliveries : rows'[d].state # "absent" => rows'[d].seq < nextSeq'
  <2> SUFFICES ASSUME NEW d \in Deliveries, rows'[d].state # "absent"
               PROVE  rows'[d].seq < nextSeq'
    OBVIOUS
  <2>1. nextSeq' = nextSeq \/ nextSeq' = nextSeq + 1
    <3>1. CASE StoreCommits
      BY <3>1, CommitRow
    <3> QED BY <3>1, SeqGrows
  <2> QED BY <1>1, <1>3, <2>1, SeqStep
<1>5. ASSUME tx'.stmt = "insert", tx'.res = "ok", NEW e \in Deliveries, tx'.d = e
      PROVE  \A d \in Deliveries : ~Older(e, d)'
  <2> SUFFICES ASSUME NEW d \in Deliveries, Older(e, d)' PROVE FALSE
    OBVIOUS
  <2>1. /\ rows'[e].state # "absent" /\ rows'[d].state # "absent"
        /\ rows'[e].seq < rows'[d].seq
    BY DEF Older
  <2>2. CASE tx' = tx /\ ~StoreCommits
    <3>1. Older(e, d)
      BY <2>1, <2>2, SeqStep DEF Older
    <3> QED BY <1>5, <2>2, <3>1 DEF BookSorted
  <2>3. CASE StoreCommits /\ tx.stmt = "insert" /\ tx'.d = tx.d
    <3>1. rows'[e].seq = nextSeq
      BY <1>1, <1>5, <2>3, CommitRow, RowAfterFacts
    <3>2. CASE d = e
      BY <1>2, <2>1, <3>2 DEF Row
    <3>3. CASE d # e
      <4>1. rows[d].state # "absent" /\ rows'[d].seq = rows[d].seq
        BY <1>5, <2>1, <2>3, <3>3, SeqStep
      <4> QED BY <1>1, <1>3, <2>1, <3>1, <4>1
    <3> QED BY <3>2, <3>3
  <2> QED BY <1>5, <2>2, <2>3, InsertOk
<1>6. ASSUME NEW i \in DOMAIN order', NEW j \in DOMAIN order', i < j
      PROVE  ~Older(order[j], order[i])'
  <2>1. PICK a \in Deliveries, b \in Deliveries : a = order'[i] /\ b = order'[j]
    BY <1>2, ElementOfSeq, LenProperties
  <2> SUFFICES ASSUME Older(b, a)' PROVE FALSE
    BY <2>1
  <2>2. ASSUME a \in Members(order), b \in Members(order)
        PROVE  Older(b, a)
    <3>1. mem[a].phase # "none" /\ mem[b].phase # "none"
      BY <2>2, BaseFacts, KnownFacts DEF CommitInv, KnownHasRecord
    <3> QED BY <3>1, OlderStays
  <2>3. \A k, l \in DOMAIN order : k < l => ~Older(order[l], order[k])
    BY DEF BookSorted
  <2>4. CASE UNCHANGED order
    <3>1. Older(b, a)
      BY <2>1, <2>2, <2>4 DEF Members
    <3> QED BY <1>6, <2>1, <2>3, <2>4, <3>1
  <2>5. CASE order' = <<>>
    BY <2>5
  <2>6. CASE AdmissionCommitted
    <3>1. /\ order' = Append(order, tx.d) /\ tx.d \in Deliveries
          /\ tx.stmt = "insert" /\ tx.res = "ok" /\ rows' = rows
      BY <1>1, <2>6, NoTxFacts DEF AdmissionCommitted, Done, dbVars
    <3>2. Older(b, a)
      BY <3>1 DEF Older
    <3>3. DOMAIN order = 1..Len(order) /\ DOMAIN order' = 1..Len(order) + 1 /\ Len(order) \in Nat
      BY <1>1, <1>2, <3>1, AppendProperties, LenProperties
    <3>4. i \in DOMAIN order
      BY <1>6, <3>3
    <3>5. order'[i] = order[i]
      BY <1>1, <3>1, <3>4, SeqAppend
    <3>6. CASE j \in DOMAIN order
      <4>1. order'[j] = order[j]
        BY <1>1, <3>1, <3>6, SeqAppend
      <4> QED BY <1>6, <2>1, <2>3, <3>2, <3>4, <3>5, <3>6, <4>1
    <3>7. CASE j \notin DOMAIN order
      <4>1. b = tx.d
        BY <1>1, <2>1, <3>1, <3>7, SeqAppend
      <4> QED BY <3>1, <3>2, <4>1 DEF BookSorted
    <3> QED BY <3>6, <3>7
  <2>7. CASE ReaderAcknowledged
    <3>1. order' = Without(order, tx.d) /\ rows' = rows
      BY <2>7 DEF ReaderAcknowledged, dbVars
    <3>2. Older(b, a)
      BY <3>1 DEF Older
    <3>3. PICK k \in DOMAIN order, l \in DOMAIN order :
              k < l /\ order[k] = a /\ order[l] = b
      BY <1>1, <1>6, <2>1, <3>1, WithoutOrder
    <3> QED BY <2>3, <3>2, <3>3
  <2>8. CASE ProcessOpens
    <3>1. CASE \E s \in [1..Cardinality(Pending(rows')) -> Pending(rows')] :
                   IsInsertionOrder(s, rows') /\ order' = s
      <4>1. rows'[order'[i]].seq < rows'[order'[j]].seq
        BY <1>6, <3>1 DEF IsInsertionOrder
      <4>2. rows'[b].seq < rows'[a].seq /\ rows'[a].seq \in Nat /\ rows'[b].seq \in Nat
        BY <1>2 DEF Older, Row
      <4> QED BY <2>1, <4>1, <4>2
    <3> QED BY <2>4, <2>8, <3>1 DEF ProcessOpens
  <2> QED BY <2>4, <2>5, <2>6, <2>7, <2>8, OrderChanges
<1>7. ASSUME tx'.stmt = "insert", tx'.res = "ok"
      PROVE  \A d \in Deliveries : ~Older(tx.d, d)'
  <2>1. tx'.d \in Deliveries
    <3>1. tx' # NoTx /\ tx' \in Transition
      BY <1>1, <1>7, NoTxFacts, TypeStep DEF TypeInv, TypeOK
    <3> QED BY <3>1 DEF Transition
  <2>2. PICK e \in Deliveries : tx'.d = e
    BY <2>1
  <2> QED BY <1>5, <1>7, <2>2 DEF Older
<1> QED BY <1>4, <1>6, <1>7 DEF BookSorted
-----------------------------------------------------------------------------
(* All of it but the order of the book holds of a live generation.         *)
Turns == CallersFresh /\ WriterInTurn /\ QueueInTurn /\ ReplayInTurn

(* A delivery the client has in hand has a record.                         *)
LEMMA HandsKnown ==
    ASSUME Base
    PROVE  /\ \A d \in Members(order) \cup Members(outq) \cup Members(todo)
                          \cup callers \cup attached :
                  d \in Deliveries /\ mem[d].phase # "none"
           /\ \A d \in Deliveries : Writing(d) => mem[d].phase # "none"
<1>1. Known \subseteq Deliveries /\ \A d \in Known : mem[d].phase # "none"
  BY BaseFacts, KnownType DEF CommitInv, KnownHasRecord
<1>2. \A d \in Deliveries : Writing(d) => d \in Known
  BY KnownFacts DEF Writing
<1> QED BY <1>1, <1>2, KnownFacts

(* What callers are about to enqueue stays unwritten.                      *)
LEMMA CallersStep ==
    ASSUME Base, TableInv, Turns, [Next]_vars, alive, alive'
    PROVE  CallersFresh'
<1> SUFFICES ASSUME NEW d \in callers', mem'[d].started PROVE FALSE
  BY DEF CallersFresh
<1>1. /\ WriterOwns /\ BookPlaces /\ (tx # NoTx => tx.d \in Deliveries)
      /\ callers \subseteq Deliveries
  BY BaseFacts DEF Held
<1>2. CASE d \in callers
  <2>1. d \in Deliveries /\ ~Writing(d) /\ ~mem[d].started
    BY <1>1, <1>2 DEF WriterOwns, Turns, CallersFresh
  <2> QED BY <2>1, MissingStays
<1>3. CASE AdmissionAttached /\ d \notin callers
  <2>1. tx.op = "admit" /\ tx.d \in Deliveries /\ d = tx.d
    BY <1>1, <1>3, NoTxFacts DEF AdmissionAttached, Done
  <2>2. ~mem[d].started /\ ~Writing(d)
    BY <1>1, <2>1, BaseFacts DEF CommitInv, AdmissionHeld, BookPlaces,
       WriterOwns
  <2> QED BY <2>1, <2>2, MissingStays
<1> QED BY <1>2, <1>3, LiveChanges

(* Taking from the queue gives the writer what is due.                     *)
LEMMA WriterTurnStep ==
    ASSUME Base, TableInv, Turns, [Next]_vars, alive, alive'
    PROVE  WriterInTurn'
<1> SUFFICES ASSUME NEW d \in Deliveries, Writing(d)', writer'.flag,
                    NEW e \in Deliveries, Missing(e)', Older(e, d)'
             PROVE  FALSE
  BY DEF WriterInTurn
<1>1. CASE Writing(d) /\ writer'.flag = writer.flag
  <2>1. Missing(e) /\ Older(e, d)
    BY <1>1, NoneNew, HandsKnown
  <2> QED BY <1>1, <2>1 DEF Turns, WriterInTurn
<1>2. CASE /\ WriterTakes /\ d = Head(outq) /\ writer.pc = "idle"
           /\ outq # <<>> /\ writer'.flag = mem[d].started
  <2>1. /\ d = outq[1] /\ 1 \in DOMAIN outq /\ d \in Members(outq)
        /\ DOMAIN outq \subseteq Nat \ {0}
    BY <1>2, BaseFacts, SeqHead, MembersHead, LenProperties
  <2>2. Missing(e) /\ Older(e, d)
    BY <2>1, NoneNew, HandsKnown
  <2>3. ~Writing(e)
    BY <1>2 DEF Writing
  <2>4. ~Follows(outq, 1, e)
    BY <2>1 DEF Follows
  <2> QED BY <1>2, <2>1, <2>2, <2>3, <2>4 DEF Turns, QueueInTurn
<1> QED BY <1>1, <1>2, WritingNow

(* A delivery of the queue that was marked was so before.                  *)
LEMMA QueueKeeps ==
    ASSUME Base, TableInv, [Next]_vars, alive, alive', NEW d \in Members(outq),
           mem'[d].started
    PROVE  mem[d].started
<1>1. d \in Deliveries /\ ~Writing(d)
  BY BaseFacts, HandsKnown DEF Held, WriterOwns
<1> QED BY <1>1, MissingStays

(* The writer takes what it is offered by a live session.                  *)
LEMMA TakesHead ==
    ASSUME Base, alive, WriterTakes
    PROVE  writer' = [pc |-> "enter", d |-> Head(outq),
                      flag |-> mem[Head(outq)].started]
<1>1. outq # <<>> /\ outq \in Seq(Deliveries)
  BY BaseFacts DEF WriterTakes
<1>2. Head(outq) \in Members(outq)
  BY <1>1, MembersHead
<1>3. mem[Head(outq)].phase = "Queued" /\ mem[Head(outq)].gen = gen
  BY <1>2, BaseFacts DEF Held, QueueOwned, AttachedOwned
<1> QED BY <1>3 DEF WriterTakes, Terminal, TerminalPhase

(* The queue stays in turn.                                                *)
LEMMA QueueTurnStep ==
    ASSUME Base, TableInv, Turns, [Next]_vars, alive, alive'
    PROVE  QueueInTurn'
<1>1. /\ outq \in Seq(Deliveries) /\ todo \in Seq(Deliveries)
      /\ DOMAIN outq = 1..Len(outq) /\ Len(outq) \in Nat
      /\ (tx # NoTx => tx.d \in Deliveries) /\ HolderPlaces
  BY BaseFacts, LenProperties
<1>2. CASE UNCHANGED outq
  <2> SUFFICES ASSUME NEW m \in DOMAIN outq, mem'[outq[m]].started,
                      NEW e \in Deliveries, Missing(e)', Older(e, outq[m])'
               PROVE  Writing(e)' \/ Follows(outq, m, e)
    BY <1>2 DEF QueueInTurn, Follows, Older
  <2>1. PICK d \in Deliveries : d = outq[m] /\ d \in Members(outq)
    BY <1>1, ElementOfSeq DEF Members
  <2>2. mem[d].started
    BY <2>1, QueueKeeps
  <2>3. Older(e, d)'
    BY <1>2, <2>1 DEF Older
  <2>4. Missing(e) /\ Older(e, d)
    BY <2>1, <2>3, NoneNew, HandsKnown
  <2>5. Writing(e) \/ Follows(outq, m, e)
    BY <2>1, <2>2, <2>4 DEF Turns, QueueInTurn
  <2> QED BY <2>5, WritingStays
<1>3. CASE WriterTakes
  <2>1. outq # <<>> /\ outq' = Tail(outq) /\ writer.pc = "idle"
    BY <1>3 DEF WriterTakes
  <2>2. /\ \A i \in DOMAIN Tail(outq) : Tail(outq)[i] = outq[i + 1]
        /\ \A i \in DOMAIN Tail(outq) : i + 1 \in DOMAIN outq /\ i \in Nat
        /\ Head(outq) = outq[1]
    BY <1>1, <2>1, SeqHead
  <2>9. DOMAIN Tail(outq) = 1..Len(outq) - 1
    BY <1>1, <2>1, HeadTailProperties, LenProperties
  <2>3. ~Writing(outq[1]) /\ writer' = [pc |-> "enter", d |-> Head(outq),
                      flag |-> mem[Head(outq)].started]
    BY <1>3, <2>1, TakesHead DEF Writing
  <2> SUFFICES ASSUME NEW m \in DOMAIN Tail(outq), mem'[Tail(outq)[m]].started,
                      NEW e \in Deliveries, Missing(e)', Older(e, outq[m])'
               PROVE  Writing(e)' \/ Follows(Tail(outq), m, e)
    BY <2>1 DEF QueueInTurn, Follows, Older
  <2>4. PICK d \in Deliveries : d = outq[m + 1] /\ d \in Members(outq)
    BY <1>1, <2>2, ElementOfSeq DEF Members
  <2>5. mem[d].started
    BY <2>2, <2>4, QueueKeeps
  <2>6. Older(e, d)'
    BY <2>1, <2>2, <2>4 DEF Older
  <2>7. Missing(e) /\ Older(e, d)
    BY <2>4, <2>6, NoneNew, HandsKnown
  <2>8. Follows(outq, m + 1, e)
    <3>1. ~Writing(e)
      BY <2>1 DEF Writing
    <3> QED BY <2>2, <2>4, <2>5, <2>7, <3>1 DEF Turns, QueueInTurn
  <2>10. PICK k \in DOMAIN outq : k < m + 1 /\ outq[k] = e
    BY <2>8 DEF Follows
  <2>11. CASE k = 1
    BY <2>2, <2>3, <2>10, <2>11 DEF Writing
  <2>12. CASE k # 1
    <3>1. k - 1 \in DOMAIN Tail(outq) /\ k - 1 < m /\ (k - 1) + 1 = k
      BY <1>1, <2>2, <2>9, <2>10, <2>12
    <3>2. Tail(outq)[k - 1] = e
      BY <2>2, <2>10, <3>1
    <3> QED BY <3>1, <3>2 DEF Follows
  <2> QED BY <2>11, <2>12
<1>4. ASSUME NEW f \in Deliveries, outq' = Append(outq, f),
             ASSUME NEW e \in Deliveries, mem'[f].started, Missing(e)', Older(e, f)'
             PROVE  Writing(e) \/ e \in Members(outq)
      PROVE  QueueInTurn'
  <2>1. /\ \A i \in DOMAIN outq : i \in DOMAIN outq' /\ outq'[i] = outq[i]
        /\ \A i \in DOMAIN outq' :
               i \in DOMAIN outq \/ (i = Len(outq) + 1 /\ outq'[i] = f)
    BY <1>1, <1>4, SeqAppend
  <2> SUFFICES ASSUME NEW m \in DOMAIN outq', mem'[outq'[m]].started,
                      NEW e \in Deliveries, Missing(e)', Older(e, outq[m])'
               PROVE  Writing(e)' \/ Follows(outq, m, e)'
    BY DEF QueueInTurn, Follows, Older
  <2>2. CASE m \in DOMAIN outq
    <3>1. PICK d \in Deliveries : d = outq[m] /\ d \in Members(outq)
      BY <1>1, <2>2, ElementOfSeq DEF Members
    <3>2. mem[d].started
      BY <2>1, <2>2, <3>1, QueueKeeps
    <3>3. Older(e, d)'
      BY <2>1, <2>2, <3>1 DEF Older
    <3>4. Missing(e) /\ Older(e, d)
      BY <3>1, <3>3, NoneNew, HandsKnown
    <3>5. Writing(e) \/ Follows(outq, m, e)
      BY <2>2, <3>1, <3>2, <3>4 DEF Turns, QueueInTurn
    <3>6. Follows(outq, m, e) => Follows(outq, m, e)'
      BY <2>1 DEF Follows
    <3> QED BY <3>5, <3>6, WritingStays
  <2>3. CASE m = Len(outq) + 1 /\ outq'[m] = f
    <3>1. mem'[f].started /\ Older(e, f)'
      BY <2>3 DEF Older
    <3>2. Writing(e) \/ e \in Members(outq)
      BY <1>4, <3>1
    <3>3. e \in Members(outq) => Follows(outq, m, e)'
      <4>1. \A k \in DOMAIN outq : k < m
        BY <1>1, <2>3
      <4> QED BY <2>1, <4>1 DEF Members, Follows
    <3> QED BY <3>2, <3>3, WritingStays
  <2> QED BY <2>1, <2>2, <2>3
<1>5. CASE \E f \in Deliveries : CallerEnqueues(f)
  <2>1. PICK f \in Deliveries : CallerEnqueues(f)
    BY <1>5
  <2>2. f \in callers /\ (outq' = outq \/ outq' = Append(outq, f))
    BY <2>1 DEF CallerEnqueues
  <2>3. ~Writing(f) /\ ~mem[f].started
    BY <2>2, BaseFacts DEF Held, WriterOwns, Turns, CallersFresh
  <2>4. ~mem'[f].started
    BY <2>3, MissingStays
  <2> QED BY <1>2, <1>4, <2>2, <2>4
<1>6. CASE ReplayAttached
  <2>1. /\ tx.op = "replay" /\ tx.d \in Deliveries
        /\ outq' = Append(outq, tx.d)
    BY <1>1, <1>6, NoTxFacts DEF ReplayAttached, Done, AbortWith
  <2>2. sup = "replay" /\ todo # <<>> /\ tx.d = Head(todo)
    BY <1>1, <2>1 DEF HolderPlaces
  <2>3. /\ tx.d = todo[1] /\ 1 \in DOMAIN todo /\ DOMAIN todo \subseteq Nat \ {0}
        /\ tx.d \in Members(todo)
    BY <1>1, <2>2, SeqHead, LenProperties, MembersHead
  <2>4. PICK f \in Deliveries : f = tx.d
    BY <2>1
  <2>5. ASSUME NEW e \in Deliveries, mem'[f].started, Missing(e)', Older(e, f)'
        PROVE  Writing(e) \/ e \in Members(outq)
    <3>1. Missing(e) /\ Older(e, f)
      BY <2>3, <2>4, <2>5, NoneNew, HandsKnown
    <3>2. ~Follows(todo, 1, e)
      BY <2>3 DEF Follows
    <3> QED BY <2>2, <2>3, <2>4, <3>1, <3>2 DEF Turns, ReplayInTurn, Leaving
  <2> QED BY <1>4, <2>1, <2>4, <2>5
<1> QED BY <1>2, <1>3, <1>5, <1>6, LiveChanges
-----------------------------------------------------------------------------
(* What is on its way stays so until it is written.                        *)
LEMMA LeavingStays ==
    ASSUME Base, TableInv, [Next]_vars, alive, alive', NEW e \in Deliveries,
           Leaving(e), Missing(e)'
    PROVE  Leaving(e)'
<1>1. outq \in Seq(Deliveries) /\ (tx # NoTx => tx.d \in Deliveries)
  BY BaseFacts
<1>2. CASE Writing(e)
  BY <1>2, WritingStays DEF Leaving
<1>3. CASE e \in Members(outq) /\ UNCHANGED outq
  BY <1>3 DEF Leaving, Members
<1>4. CASE e \in Members(outq) /\ WriterTakes
  <2>1. outq # <<>> /\ outq' = Tail(outq)
    BY <1>4 DEF WriterTakes
  <2>2. CASE e = Head(outq)
    BY <1>4, <2>2, TakesHead DEF Leaving, Writing
  <2>3. CASE e # Head(outq)
    <3>1. PICK k \in DOMAIN outq : outq[k] = e
      BY <1>4 DEF Members
    <3>2. Head(outq) = outq[1] /\ DOMAIN outq = 1..Len(outq) /\ Len(outq) \in Nat
      BY <1>1, <2>1, SeqHead, LenProperties
    <3>3. DOMAIN Tail(outq) = 1..Len(outq) - 1
      BY <1>1, <2>1, HeadTailProperties, LenProperties
    <3>4. k - 1 \in DOMAIN Tail(outq) /\ (k - 1) + 1 = k
      BY <2>3, <3>1, <3>2, <3>3
    <3>5. Tail(outq)[k - 1] = e
      BY <1>1, <2>1, <3>1, <3>4, SeqHead
    <3> QED BY <2>1, <3>4, <3>5 DEF Leaving, Members
  <2> QED BY <2>2, <2>3
<1>5. CASE /\ e \in Members(outq)
           /\ ReplayAttached \/ \E d \in Deliveries : CallerEnqueues(d)
  <2>1. outq' = outq \/ \E d \in Deliveries : outq' = Append(outq, d)
    <3>1. CASE ReplayAttached
      BY <1>1, <3>1, NoTxFacts DEF ReplayAttached, Done, AbortWith
    <3>2. CASE \E d \in Deliveries : CallerEnqueues(d)
      BY <3>2 DEF CallerEnqueues
    <3> QED BY <1>5, <3>1, <3>2
  <2>2. e \in Members(outq')
    BY <1>1, <1>5, <2>1, MembersAppend
  <2> QED BY <2>2 DEF Leaving, Members
<1> QED BY <1>2, <1>3, <1>4, <1>5, LiveChanges DEF Leaving

(* A copy of the book is in turn.                                          *)
LEMMA CopyInTurn ==
    ASSUME Base, BookSorted, [Next]_vars, NEW m \in DOMAIN order',
           NEW e \in Deliveries, Missing(e)', Older(e, order[m])'
    PROVE  Follows(order, m, e)'
<1>1. order' \in Seq(Deliveries) /\ rows' \in [Deliveries -> Row]
  BY BaseFacts, TypeStep DEF TypeInv, TypeOK, BookTypeOK, DbTypeOK
<1>2. PICK k \in DOMAIN order' : order'[k] = e
  BY DEF Missing, Open, Members
<1>3. PICK d \in Deliveries : d = order'[m]
  BY <1>1, ElementOfSeq, LenProperties
<1>4. Older(e, d)'
  BY <1>3 DEF Older
<1>5. e # d
  BY <1>1, <1>4 DEF Older, Row
<1>6. ~(m < k)
  <2> SUFFICES ASSUME m < k PROVE FALSE
    OBVIOUS
  <2>1. ~Older(order[k], order[m])'
    BY BookSortedStep DEF BookSorted
  <2> QED BY <1>2, <1>3, <1>4, <2>1 DEF Older
<1>7. k \in Nat /\ m \in Nat /\ k # m
  BY <1>1, <1>2, <1>3, <1>5, LenProperties
<1> QED BY <1>2, <1>6, <1>7 DEF Follows

(* The replay goes on in turn.                                             *)
LEMMA ReplayTurnStep ==
    ASSUME Base, TableInv, BookSorted, Turns, [Next]_vars, alive, alive'
    PROVE  ReplayInTurn'
<1>1. /\ todo \in Seq(Deliveries) /\ outq \in Seq(Deliveries)
      /\ DOMAIN todo = 1..Len(todo) /\ Len(todo) \in Nat
      /\ (tx # NoTx => tx.d \in Deliveries)
  BY BaseFacts, LenProperties
<1> SUFFICES ASSUME sup' = "replay", NEW m \in DOMAIN todo',
                    NEW e \in Deliveries, Missing(e)', Older(e, todo[m])'
             PROVE  Leaving(e)' \/ Follows(todo, m, e)'
  BY DEF ReplayInTurn, Older, Follows
<1>2. CASE sup = "replay" /\ UNCHANGED todo
  <2>1. PICK d \in Deliveries : d = todo[m] /\ d \in Members(todo)
    BY <1>1, <1>2, ElementOfSeq DEF Members
  <2>2. Older(e, d)'
    BY <1>2, <2>1 DEF Older
  <2>3. Missing(e) /\ Older(e, d)
    BY <2>1, <2>2, NoneNew, HandsKnown
  <2>4. Leaving(e) \/ Follows(todo, m, e)
    BY <1>2, <2>1, <2>3 DEF Turns, ReplayInTurn
  <2> QED BY <1>2, <2>4, LeavingStays DEF Follows
<1>3. CASE ReplaySkips \/ ReplayAttached
  <2>1. /\ todo # <<>> /\ todo' = Tail(todo) /\ sup = "replay"
    <3>1. ReplayAttached => sup = "replay"
      BY BaseFacts, NoTxFacts DEF ReplayAttached, Done, HolderPlaces
    <3> QED BY <1>3, <3>1 DEF ReplaySkips, ReplayAttached
  <2>2. /\ \A i \in DOMAIN Tail(todo) : Tail(todo)[i] = todo[i + 1]
        /\ \A i \in DOMAIN Tail(todo) : i + 1 \in DOMAIN todo /\ i \in Nat
        /\ Head(todo) = todo[1]
    BY <1>1, <2>1, SeqHead
  <2>3. DOMAIN Tail(todo) = 1..Len(todo) - 1
    BY <1>1, <2>1, HeadTailProperties, LenProperties
  <2>4. PICK d \in Deliveries : d = todo[m + 1] /\ d \in Members(todo)
    BY <1>1, <2>1, <2>2, ElementOfSeq DEF Members
  <2>5. Older(e, d)'
    BY <2>1, <2>2, <2>4 DEF Older
  <2>6. Missing(e) /\ Older(e, d)
    BY <2>4, <2>5, NoneNew, HandsKnown
  <2>7. Leaving(e) \/ Follows(todo, m + 1, e)
    BY <2>1, <2>2, <2>4, <2>6 DEF Turns, ReplayInTurn
  <2>8. CASE Leaving(e)
    BY <2>8, LeavingStays
  <2>9. CASE Follows(todo, m + 1, e)
    <3>1. PICK k \in DOMAIN todo : k < m + 1 /\ todo[k] = e
      BY <2>9 DEF Follows
    <3>2. CASE k # 1
      <4>1. k - 1 \in DOMAIN Tail(todo) /\ k - 1 < m /\ (k - 1) + 1 = k
        BY <1>1, <2>1, <2>2, <2>3, <3>1, <3>2
      <4>2. Tail(todo)[k - 1] = e
        BY <2>2, <3>1, <4>1
      <4> QED BY <2>1, <4>1, <4>2 DEF Follows
    <3>3. CASE k = 1 /\ ReplaySkips
      BY <2>2, <2>6, <3>1, <3>3 DEF ReplaySkips, Missing, Open, Terminal
    <3>4. CASE k = 1 /\ ReplayAttached
      <4>1. tx.op = "replay" /\ tx # NoTx /\ outq' = Append(outq, tx.d)
        BY <1>1, <3>4, NoTxFacts DEF ReplayAttached, Done, AbortWith
      <4>2. tx.d = e
        BY <2>2, <3>1, <3>4, <4>1, BaseFacts DEF HolderPlaces
      <4>3. e \in Members(outq')
        BY <1>1, <4>1, <4>2, MembersAppend
      <4> QED BY <4>3 DEF Leaving, Members
    <3> QED BY <1>3, <3>2, <3>3, <3>4
  <2> QED BY <2>7, <2>8, <2>9
<1>4. CASE SessionMarkedKnown
  <2>1. todo' = order'
    BY <1>4 DEF SessionMarkedKnown, bookVars
  <2>2. Older(e, order[m])'
    BY <2>1 DEF Older
  <2> QED BY <2>1, <2>2, CopyInTurn DEF Follows
<1>5. ~DialSucceeds
  BY BaseFacts DEF DialSucceeds, SessionPlaces, Resting
<1> QED BY <1>2, <1>3, <1>4, <1>5, TodoChanges

(* A new connection starts with nothing queued and a copy of the book.     *)
LEMMA DialTurn ==
    ASSUME Base, BookSorted, [Next]_vars, ~alive, alive'
    PROVE  Turns'
<1>1. DialSucceeds
  BY Revives
<1>2. /\ sup = "dial" /\ outq' = <<>> /\ callers' = {} /\ writer' = writer
      /\ order' = order /\ (sup' = "replay" => todo' = order')
  BY <1>1 DEF DialSucceeds, taskVars, bookVars
<1>3. writer'.pc = "idle"
  BY <1>2, BaseFacts DEF TaskPlaces, Resting
<1>4. CallersFresh' /\ WriterInTurn'
  BY <1>2, <1>3 DEF CallersFresh, WriterInTurn, Writing
<1>5. QueueInTurn'
  BY <1>2 DEF QueueInTurn
<1>6. ReplayInTurn'
  <2> SUFFICES ASSUME sup' = "replay", NEW m \in DOMAIN todo',
                      NEW e \in Deliveries, Missing(e)', Older(e, todo[m])'
               PROVE  Leaving(e)' \/ Follows(todo, m, e)'
    BY DEF ReplayInTurn, Older, Follows
  <2>1. todo' = order'
    BY <1>2
  <2>2. Older(e, order[m])'
    BY <2>1 DEF Older
  <2> QED BY <2>1, <2>2, CopyInTurn DEF Follows
<1> QED BY <1>4, <1>5, <1>6 DEF Turns

(* Every step keeps what is to be written again in turn.                   *)
LEMMA TurnStep ==
    Base /\ TableInv /\ TurnInv /\ [Next]_vars => TurnInv'
<1> SUFFICES ASSUME Base, TableInv, TurnInv, [Next]_vars PROVE TurnInv'
  OBVIOUS
<1>1. BookSorted'
  BY BookSortedStep DEF TurnInv
<1>2. CASE alive /\ alive'
  <2>1. BookSorted /\ Turns
    BY <1>2 DEF TurnInv, Turns
  <2>2. CallersFresh' /\ WriterInTurn' /\ QueueInTurn' /\ ReplayInTurn'
    BY <1>2, <2>1, CallersStep, WriterTurnStep, QueueTurnStep, ReplayTurnStep
  <2> QED BY <1>1, <2>2 DEF TurnInv
<1>3. CASE ~alive /\ alive'
  <2>1. Turns'
    BY <1>3, DialTurn DEF TurnInv
  <2> QED BY <1>1, <2>1 DEF TurnInv, Turns
<1>4. CASE ~alive'
  BY <1>1, <1>4 DEF TurnInv
<1> QED BY <1>2, <1>3, <1>4
-----------------------------------------------------------------------------
(* Nothing is in the book at the start.                                    *)
LEMMA InitTurn == Init => TurnInv
<1> SUFFICES ASSUME Init PROVE TurnInv
  OBVIOUS
<1>1. /\ order = <<>> /\ tx = NoTx /\ ~alive
      /\ \A d \in Deliveries : rows[d].state = "absent"
  BY DEF Init, EmptyTable, NoRow
<1>2. NoTx.stmt # "insert"
  BY DEF NoTx
<1>3. DOMAIN order = {}
  BY <1>1
<1> QED BY <1>1, <1>2, <1>3 DEF TurnInv, BookSorted

(* The retransmissions of a generation are in the order of insertion.      *)
THEOREM TurnInvariant == Spec => []TurnInv
<1>1. ASSUME TypeInv, CommitInv, PlaceInv, ExchangeInv, TableInv, TurnInv,
             [Next]_vars
      PROVE  TurnInv'
  BY <1>1, TurnStep DEF Base
<1>2. TypeInv /\ CommitInv /\ PlaceInv /\ ExchangeInv /\ TableInv /\ TurnInv
      /\ [Next]_vars => TurnInv'
  BY <1>1
<1> QED BY <1>2, InitTurn, TypeInvariant, CommitInvariant, ExchangeInvariant,
           TableInvariant, PTL DEF Spec

(* Bytes are written under a live session only.                            *)
LEMMA WriteIsLive ==
    ASSUME Base, [Next]_vars, NEW d \in Deliveries, NEW dup \in BOOLEAN,
           Writes(d, dup)
    PROVE  alive
<1>1. WriterMayWrite /\ toBroker \in Seq(Publish)
  BY WriteIsTheWriters, BaseFacts DEF Base, TypeInv, TypeOK, NetTypeOK
<1>2. toBroker' # toBroker
  BY <1>1, LenProperties DEF Writes
<1> QED BY <1>1, <1>2 DEF WriterMayWrite

(* When a copy is written again, every earlier delivery of the book that   *)
(* may have been written has ended or was written again before it on this  *)
(* connection (replay_deliveries copies the book in insertion order;       *)
(* write_one takes the head of the queue).                                 *)
THEOREM ReplayOrderHolds == Spec => ReplayKeepsOrder
<1>1. ASSUME TypeInv, CommitInv, PlaceInv, ExchangeInv, TableInv, TurnInv,
             [Next]_vars
      PROVE  \A d \in Deliveries : Writes(d, TRUE) =>
                 \A e \in Members(order) :
                     rows[e].seq < rows[d].seq /\ mem[e].started =>
                         Terminal(mem, e) \/ mem[e].phase = "AwaitingAck"
  <2>1. Base
    BY <1>1 DEF Base
  <2> SUFFICES ASSUME NEW d \in Deliveries, Writes(d, TRUE),
                      NEW e \in Members(order), rows[e].seq < rows[d].seq,
                      mem[e].started, ~Terminal(mem, e),
                      mem[e].phase # "AwaitingAck"
               PROVE  FALSE
    OBVIOUS
  <2>2. /\ WriterMayWrite /\ d = tx.d /\ writer.flag /\ alive
    BY <1>1, <2>1, WriteIsTheWriters, WriteIsLive
  <2>3. tx # NoTx /\ tx.op = "write" /\ tx.res = "ok" /\ tx.stmt \in {"mark", "check"}
    BY <2>2, NoTxFacts DEF WriterMayWrite, Done
  <2>4. Writing(d)
    BY <2>1, <2>2, <2>3, BaseFacts DEF HolderOK, Writing
  <2>5. rows[d].state = "pending"
    BY <1>1, <2>2, <2>3 DEF CommitInv, WriteHeld
  <2>6. e \in Deliveries /\ rows \in [Deliveries -> Row]
    BY <2>1, BaseFacts, ElementOfSeq DEF Members, TypeInv, TypeOK, DbTypeOK
  <2>7. sup \notin {"down", "stopped"}
    BY <1>1, <2>3 DEF TableInv, StoppedRests, CommitInv, DownHasNoRecord
  <2>8. e # d
    BY <2>6 DEF Row
  <2>9. RowMatches(e)
    BY <1>1, <2>2, <2>6, <2>7, <2>8 DEF TableInv, MatchInv, Ahead
  <2>10. Missing(e) /\ rows[e].state # "absent"
    BY <2>9 DEF RowMatches, Missing, Open
  <2>11. Older(e, d)
    BY <2>5, <2>10 DEF Older
  <2> QED BY <1>1, <2>2, <2>4, <2>6, <2>10, <2>11 DEF TurnInv, WriterInTurn
<1>2. TypeInv /\ CommitInv /\ PlaceInv /\ ExchangeInv /\ TableInv /\ TurnInv
      /\ [Next]_vars =>
      [\A d \in Deliveries : Writes(d, TRUE) =>
           \A e \in Members(order) :
               rows[e].seq < rows[d].seq /\ mem[e].started =>
                   Terminal(mem, e) \/ mem[e].phase = "AwaitingAck"]_vars
  BY <1>1
<1> QED BY <1>2, TypeInvariant, CommitInvariant, ExchangeInvariant,
           TableInvariant, TurnInvariant, PTL DEF Spec, ReplayKeepsOrder
=============================================================================
