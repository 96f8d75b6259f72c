--------------------------- MODULE DurableDelivery ---------------------------
(***************************************************************************)
(* Durable QoS 1 delivery: the client side of Client::submit_durable_-     *)
(* delivery, the writer, the reader, the expiry watchdog and the           *)
(* supervisor of one client, over the SQLite outbox, with process crashes, *)
(* lost connections, a broker that forgets its session, passing deadlines  *)
(* and failing storage.                                                    *)
(*                                                                         *)
(* The program runs coroutines on one thread: what happens between two     *)
(* suspension points is one step.  DurableRuntime::transition serializes   *)
(* the durable transitions through a semaphore; `tx' is the transition     *)
(* that holds it, suspended in one SQLite statement.  The statement        *)
(* commits in one step (StoreCommits) and the holder learns of it in a     *)
(* later one, so a crash, a lost connection or a step of a coroutine that  *)
(* does not need the gate can come between the two.                        *)
(***************************************************************************)
EXTENDS Outbox, Integers, Sequences

CONSTANTS
    NoDelivery,          \* stands for no delivery
    Mqtt5,               \* Config.protocol is Mqtt5 (else Mqtt311)
    MaxInflight,         \* Config.max_inflight
    ReconnectAttempts,   \* Config.reconnect_attempts
    Expirable,           \* deliveries whose expires_at_ms can pass
    MessageExpirable,    \* deliveries whose message_expiry_at_ms can pass
    MaxGen,              \* bound: connections of one process life
    MaxLives,            \* bound: process lives
    MaxFaults            \* bound: SQLite statements that fail

ASSUME DeliveryAssumption ==
    /\ NoDelivery \notin Deliveries
    /\ Mqtt5 \in BOOLEAN
    /\ ~Mqtt5 => MessageExpirable = {}  \* a property of MQTT 5
    /\ MaxInflight \in Nat \ {0}
    /\ MaxRecords <= MaxInflight        \* with_durable_client refuses others
    /\ ReconnectAttempts \in Nat
    /\ Expirable \subseteq Deliveries
    /\ MessageExpirable \subseteq Deliveries
    /\ MaxGen \in Nat /\ MaxLives \in Nat /\ MaxFaults \in Nat

VARIABLES
    \* --- the SQLite file
    rows,        \* durable_outbox
    nextSeq,     \* durable_meta.next_sequence
    known,       \* durable_meta.known_session
    \* --- the gate
    tx,          \* the transition that holds it, or NoTx
    \* --- DeliveryBook and DeliveryRecord
    mem,         \* the record of each delivery this process knows
    order,       \* DeliveryBook.order, whose members are also `active'
    nextPid,     \* DeliveryBook.next_packet_id
    \* --- Session of the current generation
    gen,         \* Client.generation
    alive,       \* Session.alive
    cause,       \* Session.failure_reason, or what ended the dial
    attached,    \* Session.deliveries
    slots,       \* Session.delivery_slots
    outq,        \* Session.outgoing
    callers,     \* submitters that have yet to enqueue their delivery
    \* --- the tasks of the generation
    writer, reader, watcher,
    \* --- Client::supervise
    sup,         \* where the supervisor is
    todo,        \* the records it still has to replay or to block
    everReady, tries, stopped, needPresent,
    \* --- the broker and the connection
    toBroker, toClient,
    present,     \* the broker holds a session for the client identifier
    \* --- the environment's bounds, and history
    late,        \* deliveries past expires_at_ms
    stale,       \* deliveries past message_expiry_at_ms
    lives, faults,
    admitted,    \* identifiers whose admission has ever committed
    sent,        \* identifiers ever handed to a socket
    answered     \* <<d, accepted>>: the broker has answered d's PUBLISH

dbVars   == <<rows, nextSeq, known>>
bookVars == <<mem, order, nextPid>>
sessVars == <<gen, alive, cause, attached, slots, outq, callers>>
taskVars == <<writer, reader, watcher>>
supVars  == <<sup, todo, everReady, tries, stopped, needPresent>>
netVars  == <<toBroker, toClient, present>>
envVars  == <<late, stale, lives, faults>>
histVars == <<admitted, sent, answered>>
vars == <<dbVars, tx, bookVars, sessVars, taskVars, supVars, netVars, envVars,
          histVars>>
-----------------------------------------------------------------------------
TerminalPhase == {"Acknowledged", "Rejected", "NotSent", "Unknown"}
Phase == {"none", "Queued", "AwaitingAck", "AwaitingReconnect"}
             \cup TerminalPhase

NoRecord == [phase |-> "none", pid |-> 0, gen |-> 0, attempts |-> 0,
             started |-> FALSE]

NoTx   == [op |-> "none", d |-> NoDelivery, gen |-> 0, stmt |-> "none",
           res |-> "none"]
IdleTask == [pc |-> "idle", d |-> NoDelivery, flag |-> FALSE]

Terminal(m, d) == m[d].phase \in TerminalPhase
Members(s)     == {s[i] : i \in DOMAIN s}
Without(s, d)  ==
    IF d \in Members(s)
    THEN LET i == CHOOSE k \in DOMAIN s : s[k] = d
         IN  SubSeq(s, 1, i - 1) \o SubSeq(s, i + 1, Len(s))
    ELSE s

(* DeliveryBook.reserved: the identifiers of the active records and the    *)
(* one an admission reserves before its first suspension.                  *)
Reserved == {mem[d].pid : d \in Members(order)}
                \cup (IF tx.op = "admit" THEN {mem[tx.d].pid} ELSE {})

(* allocate_packet_id: the first identifier from next_packet_id on, round  *)
(* the end of the range, that is not reserved.                             *)
FreePids ==
    LET At(k) == ((nextPid - 1 + k) % MaxPacketId) + 1
    IN  {At(k) : k \in {n \in 0..MaxPacketId - 1 :
                            /\ At(n) \notin Reserved
                            /\ \A j \in 0..n - 1 : At(j) \in Reserved}}

(* Where the next allocation starts.                                       *)
NextAfter(id) == (id % MaxPacketId) + 1

(* Mutation: the possible write is not remembered in memory. *)
MarkStartedPhaseOnly(m, d) == [m EXCEPT ![d].phase = "AwaitingAck"]

(* Mutation: only an unanswered write of this attempt counts. *)
FinishTerminalByPhase(m, d) ==
    IF Terminal(m, d) THEN m
    ELSE [m EXCEPT ![d] =
             [@ EXCEPT !.phase = IF m[d].phase = "AwaitingAck" THEN "Unknown"
                                                               ELSE "NotSent",
                       !.gen = 0]]

(* DeliveryRecord::attach, mark_started, finish_terminal.                  *)
Attach(m, d, g) ==
    [m EXCEPT ![d] = [@ EXCEPT !.phase = "Queued", !.gen = g,
                               !.attempts = m[d].attempts + 1]]
MarkStarted(m, d) ==
    [m EXCEPT ![d] = [@ EXCEPT !.phase = "AwaitingAck", !.started = TRUE]]
FinishTerminal(m, d) ==
    IF Terminal(m, d) THEN m
    ELSE [m EXCEPT ![d] =
             [@ EXCEPT !.phase = IF m[d].started THEN "Unknown" ELSE "NotSent",
                       !.gen = 0]]

(* DeliveryRecord::detach, for every delivery of the ending generation.    *)
Detached(m, S) ==
    [d \in Deliveries |->
        IF d \in S /\ m[d].gen = gen /\ ~Terminal(m, d)
        THEN [m[d] EXCEPT !.phase = "AwaitingReconnect", !.gen = 0]
        ELSE m[d]]

(* Session::abort_with(c), after the caller has changed the records to m   *)
(* and Session.deliveries to S.  It acts once; the first cause stays.      *)
AbortWith(c, m, S) ==
    /\ mem'      = IF alive THEN Detached(m, S) ELSE m
    /\ cause'    = IF alive THEN c ELSE cause
    /\ alive'    = FALSE
    /\ attached' = {}
    /\ slots'    = 0
    /\ outq'     = <<>>
    /\ callers'  = {}      \* their enqueue_delivery finds a dead session
    /\ UNCHANGED gen

Abort(c, m) == AbortWith(c, m, attached)

(* Take the gate and start a statement under it.                           *)
Begin(op, d, stmt) ==
    /\ tx = NoTx
    /\ tx' = [op |-> op, d |-> d, gen |-> gen, stmt |-> stmt, res |-> "wait"]

(* The holder `op' sees its statement `stmt' done.                         *)
Done(op, stmts) == tx.op = op /\ tx.res = "ok" /\ tx.stmt \in stmts
Failed(op)      == tx.op = op /\ tx.res = "error"
Release         == tx' = NoTx

(* Client.ready: a caller may use the current session.                     *)
Ready == sup = "ready" /\ ~stopped
-----------------------------------------------------------------------------
(* The store.                                                              *)

StoreCommits ==
    /\ tx.res = "wait"
    /\ LET d == tx.d IN
       IF Commits(tx.stmt, rows, d, mem[d].pid)
       THEN /\ rows' = [rows EXCEPT ![d] =
                           RowAfter(tx.stmt, @, mem[d].pid, nextSeq)]
            /\ nextSeq' = IF tx.stmt = "insert" THEN nextSeq + 1 ELSE nextSeq
            /\ admitted' = IF tx.stmt = "insert" THEN admitted \cup {d}
                                                 ELSE admitted
            /\ tx' = [tx EXCEPT !.res = "ok"]
       ELSE /\ tx' = [tx EXCEPT !.res = "error"]
            /\ UNCHANGED <<rows, nextSeq, admitted>>
    /\ UNCHANGED <<known, bookVars, sessVars, taskVars, supVars, netVars,
                   envVars, sent, answered>>

(* A statement that fails is rolled back and raises DurableStoreError.     *)
StoreFaults ==
    /\ tx.res = "wait"
    /\ faults < MaxFaults
    /\ faults' = faults + 1
    /\ tx' = [tx EXCEPT !.res = "error"]
    /\ UNCHANGED <<dbVars, bookVars, sessVars, taskVars, supVars, netVars,
                   late, stale, lives, histVars>>
-----------------------------------------------------------------------------
(* Client::submit_durable_delivery.                                        *)

(* Inside the gate, before the first suspension: the application uses each *)
(* delivery identifier once.                                               *)
SubmitBegins(d) ==
    /\ Ready /\ alive
    /\ d \notin admitted \cup late
    /\ Len(order) < MaxInflight
    /\ Begin("admit", d, "insert")
    /\ \E id \in FreePids :
           /\ mem' = [mem EXCEPT ![d].pid = id]
           /\ nextPid' = NextAfter(id)
    /\ slots' = slots + 1
    /\ UNCHANGED <<dbVars, order, gen, alive, cause, attached, outq, callers,
                   taskVars, supVars, netVars, envVars, histVars>>

(* The admission has committed.  The record enters the book; it is         *)
(* attached only if the generation it was admitted under is still the      *)
(* ready one, else "a later replay owns attachment".                       *)
AdmissionCommitted ==
    /\ Done("admit", {"insert"})
    /\ order' = Append(order, tx.d)
    /\ IF Ready /\ alive /\ tx.gen = gen
       THEN /\ mem' = [mem EXCEPT ![tx.d].phase = "Queued"]
            /\ tx' = [tx EXCEPT !.stmt = "attach", !.res = "wait"]
            /\ UNCHANGED slots
       ELSE /\ mem' = [mem EXCEPT ![tx.d].phase = "AwaitingReconnect"]
            /\ slots' = IF alive /\ tx.gen = gen THEN slots - 1 ELSE slots
            /\ Release
    /\ UNCHANGED <<dbVars, nextPid, gen, alive, cause, attached, outq, callers,
                   taskVars, supVars, netVars, envVars, histVars>>

AdmissionAttached ==
    /\ Done("admit", {"attach"})
    /\ mem' = Attach(mem, tx.d, tx.gen)
    /\ IF alive /\ tx.gen = gen
       THEN /\ attached' = attached \cup {tx.d}
            /\ callers' = callers \cup {tx.d}
       ELSE UNCHANGED <<attached, callers>>
    /\ Release
    /\ UNCHANGED <<dbVars, order, nextPid, gen, alive, cause, slots, outq,
                   taskVars, supVars, netVars, envVars, histVars>>

(* A storage error stops the client: record_stop, stopped, abort_with.     *)
AdmissionFailed ==
    /\ Failed("admit")
    /\ Abort("storage", IF tx.stmt = "insert"
                        THEN [mem EXCEPT ![tx.d].pid = 0] ELSE mem)
    /\ stopped' = TRUE
    /\ Release
    /\ UNCHANGED <<dbVars, order, nextPid, taskVars, sup, todo, everReady,
                   tries, needPresent, netVars, envVars, histVars>>

(* After the gate, a checkpoint for cancellation, then enqueue_delivery.   *)
CallerEnqueues(d) ==
    /\ d \in callers
    /\ callers' = callers \ {d}
    /\ outq' = IF mem[d].gen = gen /\ ~Terminal(mem, d) THEN Append(outq, d)
                                                        ELSE outq
    /\ UNCHANGED <<dbVars, tx, bookVars, gen, alive, cause, attached, slots,
                   taskVars, supVars, netVars, envVars, histVars>>

CallerCancelled(d) ==
    /\ d \in callers
    /\ callers' = callers \ {d}
    /\ UNCHANGED <<dbVars, tx, bookVars, gen, alive, cause, attached, slots,
                   outq, taskVars, supVars, netVars, envVars, histVars>>
-----------------------------------------------------------------------------
(* Session::write_one for a delivery.                                      *)

(* Take the next item, skip it when its record is no longer this           *)
(* generation's, and remember whether an earlier write may have started.   *)
WriterTakes ==
    /\ writer.pc = "idle" /\ alive /\ outq # <<>>
    /\ outq' = Tail(outq)
    /\ LET d == Head(outq) IN
       writer' = IF Terminal(mem, d) \/ mem[d].gen # gen THEN writer
                 ELSE [pc |-> "enter", d |-> d, flag |-> mem[d].started]
    /\ UNCHANGED <<dbVars, tx, bookVars, gen, alive, cause, attached, slots,
                   callers, reader, watcher, supVars, netVars, envVars,
                   histVars>>

WriteStatement(d) ==
    IF d \in stale THEN "quarantine"
    ELSE IF d \in late THEN "expire"
    ELSE IF mem[d].started THEN "check" ELSE "mark"

(* The transition re-reads the clock under the gate, not the session.      *)
WriterEnters ==
    /\ writer.pc = "enter"
    /\ Begin("write", writer.d, WriteStatement(writer.d))
    /\ writer' = [writer EXCEPT !.pc = "tx"]
    /\ UNCHANGED <<dbVars, bookVars, sessVars, reader, watcher, supVars,
                   netVars, envVars, histVars>>

(* The possible write is on disk: publish it in memory, then recheck the   *)
(* generation and the deadline before the bytes reach the socket.  The     *)
(* packet is encoded last, and cannot be once its Message Expiry passed.   *)
WriterMayWrite ==
    /\ Done("write", {"mark", "check"})
    /\ LET d     == tx.d
           owned == alive /\ mem[d].gen = gen
       IN  \/ /\ owned /\ d \notin late \cup stale
              /\ mem' = MarkStarted(mem, d)
              /\ toBroker' = Append(toBroker, [d |-> d, pid |-> mem[d].pid,
                                               dup |-> writer.flag])
              /\ sent' = sent \cup {d}
              /\ writer' = [writer EXCEPT !.pc = "writing"]
              /\ UNCHANGED sessVars
           \/ /\ owned /\ d \in stale \ late
              /\ Abort("rejected", MarkStarted(mem, d))
              /\ writer' = [writer EXCEPT !.pc = "exit"]
              /\ UNCHANGED <<toBroker, sent>>
           \/ /\ ~owned \/ d \in late
              /\ mem' = MarkStarted(mem, d)
              /\ writer' = [writer EXCEPT !.pc = IF owned THEN "late"
                                                         ELSE "exit"]
              /\ UNCHANGED <<toBroker, sent, sessVars>>
    /\ Release
    /\ UNCHANGED <<dbVars, order, nextPid, reader, watcher, supVars, toClient,
                   present, envVars, admitted, answered>>

(* The deadline passed while the possible write was being persisted.       *)
WriterEntersLate ==
    /\ writer.pc = "late"
    /\ Begin("write", writer.d, "expire")
    /\ writer' = [writer EXCEPT !.pc = "tx"]
    /\ UNCHANGED <<dbVars, bookVars, sessVars, reader, watcher, supVars,
                   netVars, envVars, histVars>>

(* Mutation: an expiry ends the writer but not its session. *)
WriterExpiredQuietly ==
    /\ Done("write", {"expire", "quarantine"})
    /\ mem' = FinishTerminal(mem, tx.d)
    /\ writer' = [writer EXCEPT !.pc = "exit"]
    /\ Release
    /\ UNCHANGED <<dbVars, order, nextPid, sessVars, reader, watcher, supVars,
                   netVars, envVars, histVars>>

WriterExpired ==
    /\ Done("write", {"expire", "quarantine"})
    /\ Abort("rejected", FinishTerminal(mem, tx.d))
    /\ writer' = [writer EXCEPT !.pc = "exit"]
    /\ Release
    /\ UNCHANGED <<dbVars, order, nextPid, reader, watcher, supVars, netVars,
                   envVars, histVars>>

WriterFailed ==
    /\ Failed("write")
    /\ Abort("storage", mem)
    /\ writer' = [writer EXCEPT !.pc = "exit"]
    /\ Release
    /\ UNCHANGED <<dbVars, order, nextPid, reader, watcher, supVars, netVars,
                   envVars, histVars>>

WriteReturns ==
    /\ writer.pc = "writing"
    /\ writer' = IF alive THEN IdleTask ELSE [writer EXCEPT !.pc = "exit"]
    /\ UNCHANGED <<dbVars, tx, bookVars, sessVars, reader, watcher, supVars,
                   netVars, envVars, histVars>>
-----------------------------------------------------------------------------
(* Client::read_loop on PUBACK.                                            *)

(* Mutation: a PUBACK completes any delivery in flight. *)
AckOwnerAnyPid(pid) ==
    {d \in attached : mem[d].gen = gen /\ mem[d].phase = "AwaitingAck"}

(* The delivery a PUBACK belongs to.                                       *)
AckOwner(pid) ==
    {d \in attached : /\ mem[d].pid = pid
                      /\ mem[d].gen = gen
                      /\ mem[d].phase = "AwaitingAck"}

ReaderSeesAck ==
    /\ reader.pc = "idle" /\ alive /\ toClient # <<>>
    /\ toClient' = Tail(toClient)
    /\ LET ack == Head(toClient)
       IN  \/ \E d \in AckOwner(ack.pid) :
                 /\ reader' = [pc |-> "enter", d |-> d, flag |-> ack.ok]
                 /\ UNCHANGED <<mem, sessVars>>
           \/ /\ AckOwner(ack.pid) = {}
              /\ Abort("protocol", mem)
              /\ UNCHANGED reader
    /\ UNCHANGED <<dbVars, tx, order, nextPid, writer, watcher, supVars,
                   toBroker, present, envVars, histVars>>

(* Under the gate the owner is validated again.                            *)
ReaderEnters ==
    /\ reader.pc = "enter" /\ tx = NoTx
    /\ IF /\ alive
          /\ mem[reader.d].gen = gen
          /\ mem[reader.d].phase = "AwaitingAck"
          /\ reader.d \in attached
       THEN /\ Begin("ack", reader.d, "delete")
            /\ reader' = [reader EXCEPT !.pc = "tx"]
       ELSE /\ reader' = IdleTask
            /\ UNCHANGED tx
    /\ UNCHANGED <<dbVars, bookVars, sessVars, writer, watcher, supVars,
                   netVars, envVars, histVars>>

(* Mutation: a completed delivery keeps its slot. *)
SlotKept == UNCHANGED slots

SlotReturned == slots' = IF slots > 0 THEN slots - 1 ELSE 0

(* The row is deleted: release the slot and the identifier, complete the   *)
(* handle.                                                                 *)
ReaderAcknowledged ==
    /\ Done("ack", {"delete"})
    /\ attached' = attached \ {tx.d}
    /\ SlotReturned
    /\ mem' = IF Terminal(mem, tx.d) THEN mem
              ELSE IF reader.flag
              THEN [mem EXCEPT ![tx.d].phase = "Acknowledged"]
              ELSE [mem EXCEPT ![tx.d] =
                       [@ EXCEPT !.phase = "Rejected", !.gen = 0]]
    /\ order' = Without(order, tx.d)
    /\ reader' = IdleTask
    /\ Release
    /\ UNCHANGED <<dbVars, nextPid, gen, alive, cause, outq, callers, writer,
                   watcher, supVars, netVars, envVars, histVars>>

ReaderFailed ==
    /\ Failed("ack")
    /\ Abort("storage", mem)
    /\ reader' = IdleTask
    /\ Release
    /\ UNCHANGED <<dbVars, order, nextPid, writer, watcher, supVars, netVars,
                   envVars, histVars>>
-----------------------------------------------------------------------------
(* Session::delivery_watchdog.                                             *)

(* Mutation: only an unanswered write has a deadline. *)
DeliveryTimesOutOnceWritten(d) ==
    /\ alive /\ d \in attached
    /\ mem[d].phase = "AwaitingAck" /\ ~(writer.pc # "idle" /\ writer.d = d)
    /\ Abort(IF mem[d].attempts > ReconnectAttempts THEN "exhausted"
                                                    ELSE "lost", mem)
    /\ UNCHANGED <<dbVars, tx, order, nextPid, taskVars, supVars, netVars,
                   envVars, histVars>>

(* A start or PUBACK deadline has passed: the generation ends, for good    *)
(* once the delivery has used its last attempt.                            *)
DeliveryTimesOut(d) ==
    /\ alive /\ d \in attached
    /\ \/ mem[d].phase = "Queued"
       \/ mem[d].phase = "AwaitingAck" /\ ~(writer.pc # "idle" /\ writer.d = d)
    /\ Abort(IF mem[d].attempts > ReconnectAttempts THEN "exhausted"
                                                    ELSE "lost", mem)
    /\ UNCHANGED <<dbVars, tx, order, nextPid, taskVars, supVars, netVars,
                   envVars, histVars>>

WatcherSees(d) ==
    /\ watcher.pc = "idle" /\ alive /\ d \in attached \cap late
    /\ watcher' = [pc |-> "enter", d |-> d, flag |-> FALSE]
    /\ UNCHANGED <<dbVars, tx, bookVars, sessVars, writer, reader, supVars,
                   netVars, envVars, histVars>>

WatcherEnters ==
    /\ watcher.pc = "enter" /\ tx = NoTx
    /\ IF /\ alive
          /\ mem[watcher.d].gen = gen
          /\ ~Terminal(mem, watcher.d)
          /\ watcher.d \in attached
       THEN /\ Begin("watch", watcher.d, "expire")
            /\ watcher' = [watcher EXCEPT !.pc = "tx"]
       ELSE /\ watcher' = IdleTask
            /\ UNCHANGED tx
    /\ UNCHANGED <<dbVars, bookVars, sessVars, writer, reader, supVars,
                   netVars, envVars, histVars>>

WatcherExpired ==
    /\ Done("watch", {"expire"})
    /\ Abort("rejected", FinishTerminal(mem, tx.d))
    /\ watcher' = IdleTask
    /\ Release
    /\ UNCHANGED <<dbVars, order, nextPid, writer, reader, supVars, netVars,
                   envVars, histVars>>

WatcherFailed ==
    /\ Failed("watch")
    /\ Abort("storage", mem)
    /\ watcher' = IdleTask
    /\ Release
    /\ UNCHANGED <<dbVars, order, nextPid, writer, reader, supVars, netVars,
                   envVars, histVars>>
-----------------------------------------------------------------------------
(* Client::supervise.                                                      *)

SessionLost(sp) ==
    \/ Mqtt5 /\ ~everReady /\ sp /\ ~known
    \/ ~sp /\ (everReady \/ needPresent \/ known)

DialSucceeds ==
    /\ sup = "dial" /\ gen < MaxGen
    /\ gen' = gen + 1
    /\ present' = TRUE
    /\ attached' = {} /\ slots' = 0 /\ outq' = <<>> /\ callers' = {}
    /\ toBroker' = <<>> /\ toClient' = <<>>
    /\ IF SessionLost(present)
       THEN /\ alive' = FALSE /\ cause' = "sessionLost"
            /\ sup' = "ending" /\ todo' = <<>>
       ELSE /\ alive' = TRUE /\ cause' = "none"
            /\ IF Mqtt5 /\ ~known
               THEN sup' = "marking" /\ todo' = <<>>
               ELSE sup' = "replay"  /\ todo' = order
    /\ UNCHANGED <<dbVars, tx, bookVars, taskVars, everReady, tries, stopped,
                   needPresent, envVars, histVars>>

DialFails ==
    /\ sup = "dial"
    /\ sup' = "ending" /\ cause' = "lost"
    /\ UNCHANGED <<dbVars, tx, bookVars, gen, alive, attached, slots, outq,
                   callers, taskVars, todo, everReady, tries, stopped,
                   needPresent, netVars, envVars, histVars>>

(* mark_session_known, under the gate.  No task of the generation runs     *)
(* yet, so commit and resumption are one step; so are failure and the      *)
(* abort of the session it unwinds through.                                *)
SessionMarkedKnown ==
    /\ sup = "marking" /\ tx = NoTx
    /\ known' = TRUE
    /\ sup' = "replay" /\ todo' = order
    /\ UNCHANGED <<rows, nextSeq, tx, bookVars, sessVars, taskVars, everReady,
                   tries, stopped, needPresent, netVars, envVars, histVars>>

SessionMarkFailed ==
    /\ sup = "marking" /\ tx = NoTx
    /\ faults < MaxFaults
    /\ faults' = faults + 1
    /\ Abort("storage", mem)
    /\ sup' = "ending"
    /\ UNCHANGED <<dbVars, tx, order, nextPid, taskVars, todo, everReady, tries,
                   stopped, needPresent, netVars, late, stale, lives, histVars>>

(* replay_deliveries: one record of the copied order at a time.            *)
ReplaySkips ==
    /\ sup = "replay" /\ todo # <<>> /\ tx.op # "replay"
    /\ Terminal(mem, Head(todo))
    /\ todo' = Tail(todo)
    /\ UNCHANGED <<dbVars, tx, bookVars, sessVars, taskVars, sup, everReady,
                   tries, stopped, needPresent, netVars, envVars, histVars>>

ReplayExhausted ==
    /\ sup = "replay" /\ todo # <<>> /\ tx.op # "replay"
    /\ ~Terminal(mem, Head(todo))
    /\ mem[Head(todo)].attempts > ReconnectAttempts
    /\ Abort("exhausted", mem)
    /\ sup' = "ending"
    /\ UNCHANGED <<dbVars, tx, order, nextPid, taskVars, todo, everReady,
                   tries, stopped, needPresent, netVars, envVars, histVars>>

ReplayStatement(d) ==
    IF d \in stale THEN "quarantine"
    ELSE IF d \in late THEN "expire" ELSE "attach"

ReplayEnters ==
    /\ sup = "replay" /\ todo # <<>>
    /\ ~Terminal(mem, Head(todo))
    /\ mem[Head(todo)].attempts <= ReconnectAttempts
    /\ Begin("replay", Head(todo), ReplayStatement(Head(todo)))
    /\ UNCHANGED <<dbVars, bookVars, sessVars, taskVars, supVars, netVars,
                   envVars, histVars>>

(* Attach to the generation, alive or not, encode the packet for its       *)
(* limits, then enqueue_delivery, which raises when the session is dead.   *)
ReplayAttached ==
    /\ Done("replay", {"attach"})
    /\ todo # <<>> /\ todo' = Tail(todo)
    /\ LET d == tx.d IN
       \/ /\ alive /\ d \notin stale
          /\ mem' = Attach(mem, d, gen)
          /\ attached' = attached \cup {d}
          /\ slots' = slots + 1
          /\ outq' = Append(outq, d)
          /\ UNCHANGED <<sup, gen, alive, cause, callers>>
       \/ /\ ~alive \/ Mqtt5
          /\ AbortWith(IF d \in stale THEN "rejected" ELSE "protocol",
                       Attach(mem, d, gen), attached \cup {d})
          /\ sup' = "ending"
    /\ Release
    /\ UNCHANGED <<dbVars, order, nextPid, taskVars, everReady, tries, stopped,
                   needPresent, netVars, envVars, histVars>>

ReplayExpired ==
    /\ Done("replay", {"expire", "quarantine"})
    /\ Abort("rejected", FinishTerminal(mem, tx.d))
    /\ sup' = "ending"
    /\ Release
    /\ UNCHANGED <<dbVars, order, nextPid, taskVars, todo, everReady, tries,
                   stopped, needPresent, netVars, envVars, histVars>>

ReplayFailed ==
    /\ Failed("replay")
    /\ Abort("storage", mem)
    /\ sup' = "ending"
    /\ Release
    /\ UNCHANGED <<dbVars, order, nextPid, taskVars, todo, everReady, tries,
                   stopped, needPresent, netVars, envVars, histVars>>

ReplayDone ==
    /\ sup = "replay" /\ todo = <<>> /\ alive
    /\ sup' = "ready" /\ everReady' = TRUE /\ tries' = 0
    /\ UNCHANGED <<dbVars, tx, bookVars, sessVars, taskVars, todo, stopped,
                   needPresent, netVars, envVars, histVars>>

(* The task group has joined.  What ended the generation decides whether   *)
(* the supervisor dials again, quarantines every open row before it        *)
(* settles the handles, or settles them and leaves the rows pending.  A    *)
(* concrete cause is kept.  Of those named here only "closed" is           *)
(* synthetic, and a stopped client does not look at its cause.             *)
AfterGeneration ==
    IF stopped THEN "settle"
    ELSE IF cause \in {"sessionLost", "exhausted", "protocol", "refused"}
         THEN "block"
    ELSE IF cause \in {"rejected", "storage"} \/ ~everReady THEN "settle"
    ELSE IF tries + 1 > ReconnectAttempts THEN "block" ELSE "dial"

GenerationEnds ==
    /\ sup \in {"replay", "ready", "ending"} /\ ~alive
    /\ tx.op \in {"none", "admit"}
    /\ sup' = AfterGeneration
    /\ tries' = IF AfterGeneration = "dial" THEN tries + 1 ELSE tries
    /\ todo' = <<>>
    /\ writer' = IdleTask /\ reader' = IdleTask /\ watcher' = IdleTask
    /\ UNCHANGED <<dbVars, tx, bookVars, sessVars, everReady, stopped,
                   needPresent, netVars, envVars, histVars>>

(* The connection cannot carry what was recovered (Maximum QoS, Retain     *)
(* Available): quarantine all of it first, then end the generation.        *)
ReplayRefused ==
    /\ Mqtt5
    /\ sup = "replay" /\ todo = order /\ order # <<>>
    /\ alive /\ attached = {}
    /\ tx.op # "replay"
    /\ sup' = "refuse"
    /\ UNCHANGED <<dbVars, tx, bookVars, sessVars, taskVars, todo, everReady,
                   tries, stopped, needPresent, netVars, envVars, histVars>>

(* block_durable_deliveries: one statement per open record, in one hold of *)
(* the gate, when the client ends or its replay is refused.                *)
BlockEnds(c) ==
    /\ todo' = <<>>
    /\ IF sup = "block"
       THEN /\ sup' = "settle" /\ cause' = c
            /\ UNCHANGED <<mem, gen, alive, attached, slots, outq, callers>>
       ELSE /\ sup' = "ending"
            /\ Abort(IF c = "storage" THEN c ELSE "rejected", mem)

(* Mutation: completed records are quarantined too. *)
AnyRecord(d) == TRUE

OpenRecord(d) == ~Terminal(mem, d)

(* Quarantine the next open record of s, or end.                           *)
BlockNext(s) ==
    \/ \E i \in DOMAIN s :
           /\ OpenRecord(s[i])
           /\ \A j \in 1..i - 1 : ~OpenRecord(s[j])
           /\ tx' = [op |-> "block", d |-> s[i], gen |-> gen,
                     stmt |-> "quarantine", res |-> "wait"]
           /\ todo' = SubSeq(s, i + 1, Len(s))
           /\ UNCHANGED <<sup, mem, sessVars>>
    \/ /\ \A i \in DOMAIN s : ~OpenRecord(s[i])
       /\ BlockEnds(cause)
       /\ Release

BlockBegins ==
    /\ sup \in {"block", "refuse"} /\ tx = NoTx
    /\ BlockNext(order)
    /\ UNCHANGED <<dbVars, order, nextPid, taskVars, everReady, tries, stopped,
                   needPresent, netVars, envVars, histVars>>

BlockContinues ==
    /\ Done("block", {"quarantine"})
    /\ BlockNext(todo)
    /\ UNCHANGED <<dbVars, order, nextPid, taskVars, everReady, tries, stopped,
                   needPresent, netVars, envVars, histVars>>

BlockFailed ==
    /\ Failed("block")
    /\ BlockEnds("storage")
    /\ Release
    /\ UNCHANGED <<dbVars, order, nextPid, taskVars, everReady, tries, stopped,
                   needPresent, netVars, envVars, histVars>>

(* settle_deliveries: every open handle ends, under the gate.              *)
Settle ==
    /\ sup = "settle" /\ tx = NoTx
    /\ mem' = [d \in Deliveries |-> IF d \in Members(order)
                                    THEN FinishTerminal(mem, d)[d]
                                    ELSE mem[d]]
    /\ order' = <<>>
    /\ sup' = "stopped" /\ stopped' = TRUE
    /\ UNCHANGED <<dbVars, tx, nextPid, sessVars, taskVars, todo, everReady,
                   tries, needPresent, netVars, envVars, histVars>>

(* Client::disconnect over a live session: refuse new work, then wait for  *)
(* the DISCONNECT packet, while everything else goes on.                   *)
ApplicationStops ==
    /\ ~stopped /\ alive
    /\ stopped' = TRUE
    /\ UNCHANGED <<dbVars, tx, bookVars, sessVars, taskVars, sup, todo,
                   everReady, tries, needPresent, netVars, envVars, histVars>>

(* worker.cancel(): whatever the supervisor waits for raises, be it a      *)
(* dial, a backoff or the gate, and it unwinds; a transition of its own    *)
(* that holds the gate is protected and finishes first.                    *)
WorkerCancelled ==
    sup' = IF tx.op \in {"replay", "block"} \/ sup = "settle" THEN sup
                                                            ELSE "ending"

(* Mutation: the session is closed, but the supervisor not cancelled. *)
StopClosesSessionOnly ==
    /\ sup \notin {"down", "stopped"}
    /\ stopped' = TRUE
    /\ Abort("closed", mem)
    /\ UNCHANGED <<dbVars, tx, order, nextPid, taskVars, sup, todo, everReady,
                   tries, needPresent, netVars, envVars, histVars>>

(* The end of disconnect, or of the scope of with_durable_client, which    *)
(* the application may leave at any moment: no suspension between its      *)
(* three effects.                                                          *)
StopCloses ==
    /\ sup \notin {"down", "stopped"}
    /\ stopped' = TRUE
    /\ Abort("closed", mem)
    /\ WorkerCancelled
    /\ UNCHANGED <<dbVars, tx, order, nextPid, taskVars, todo, everReady, tries,
                   needPresent, netVars, envVars, histVars>>
-----------------------------------------------------------------------------
(* The process.                                                            *)

(* All memory is lost; a statement that has not committed never happened.  *)
Volatile ==
    /\ tx' = NoTx
    /\ nextPid' = 1
    /\ gen' = 0 /\ alive' = FALSE /\ cause' = "none" /\ attached' = {}
    /\ slots' = 0 /\ outq' = <<>> /\ callers' = {}
    /\ writer' = IdleTask /\ reader' = IdleTask /\ watcher' = IdleTask
    /\ todo' = <<>> /\ everReady' = FALSE /\ tries' = 0 /\ stopped' = FALSE

(* A crash, or the end of a scope that has settled.                        *)
ProcessEnds ==
    /\ sup # "down" /\ lives < MaxLives
    /\ sup' = "down" /\ needPresent' = FALSE
    /\ Volatile
    /\ mem' = [d \in Deliveries |-> NoRecord] /\ order' = <<>>
    /\ UNCHANGED <<dbVars, netVars, envVars, histVars>>

(* Mutation: the rows come back in any order. *)
IsSomeOrder(s, table) == Members(s) = Pending(table)

(* Insertion order of the pending rows.                                    *)
IsInsertionOrder(s, table) ==
    /\ Members(s) = Pending(table)
    /\ \A i, j \in DOMAIN s : i < j => table[s[i]].seq < table[s[j]].seq

(* Mutation: a recovered delivery counts as never written. *)
RecoveredUnwritten(row) ==
    IF row.state = "pending"
    THEN [phase |-> "AwaitingReconnect", pid |-> row.pid, gen |-> 0,
          attempts |-> row.attempts, started |-> FALSE]
    ELSE NoRecord

RecoveredRecord(row) ==
    IF row.state = "pending"
    THEN [phase |-> "AwaitingReconnect", pid |-> row.pid, gen |-> 0,
          attempts |-> row.attempts, started |-> row.started]
    ELSE NoRecord

(* with_durable_client: sweep the expired rows, refuse to start over a     *)
(* blocked one, else recover every row in insertion order.                 *)
ProcessOpens ==
    /\ sup = "down" /\ lives < MaxLives
    /\ lives' = lives + 1
    /\ rows' = Swept(rows, late)
    /\ IF Blocked(rows') # {}
       THEN UNCHANGED <<sup, needPresent, mem, order>>
       ELSE /\ sup' = "dial"
            /\ needPresent' = \E d \in Pending(rows') : rows'[d].started
            /\ mem' = [d \in Deliveries |-> RecoveredRecord(rows'[d])]
            /\ \E s \in [1..Cardinality(Pending(rows')) -> Pending(rows')] :
                   IsInsertionOrder(s, rows') /\ order' = s
    /\ UNCHANGED <<nextSeq, known, tx, nextPid, sessVars, taskVars, todo,
                   everReady, tries, stopped, netVars, late, stale, faults,
                   histVars>>
-----------------------------------------------------------------------------
(* The network, the broker and the clock.                                  *)

(* The connection is lost, or the broker sends a DISCONNECT that ends the  *)
(* client (the default server_disconnect_policy).                          *)
ConnectionLost ==
    /\ alive /\ sup \in {"replay", "refuse", "ready"}
    /\ \E c \in {"lost", "refused"} : Abort(c, mem)
    /\ UNCHANGED <<dbVars, tx, order, nextPid, taskVars, supVars, netVars,
                   envVars, histVars>>

(* The broker takes a PUBLISH, accepts or refuses it, and sends PUBACK.    *)
BrokerAnswers ==
    /\ toBroker # <<>>
    /\ toBroker' = Tail(toBroker)
    /\ \E ok \in IF Mqtt5 THEN BOOLEAN ELSE {TRUE} :
           /\ answered' = answered \cup {<<Head(toBroker).d, ok>>}
           /\ toClient' = IF alive
                          THEN Append(toClient,
                                      [pid |-> Head(toBroker).pid, ok |-> ok])
                          ELSE toClient
    /\ UNCHANGED <<dbVars, tx, bookVars, sessVars, taskVars, supVars, present,
                   envVars, admitted, sent>>

BrokerForgets ==
    /\ present /\ ~alive
    /\ present' = FALSE
    /\ UNCHANGED <<dbVars, tx, bookVars, sessVars, taskVars, supVars, toBroker,
                   toClient, envVars, histVars>>

DeadlinePasses(d) ==
    /\ d \in Expirable \ late
    /\ late' = late \cup {d}
    /\ UNCHANGED <<dbVars, tx, bookVars, sessVars, taskVars, supVars, netVars,
                   stale, lives, faults, histVars>>

MessageDeadlinePasses(d) ==
    /\ d \in MessageExpirable \ stale
    /\ stale' = stale \cup {d}
    /\ UNCHANGED <<dbVars, tx, bookVars, sessVars, taskVars, supVars, netVars,
                   late, lives, faults, histVars>>
-----------------------------------------------------------------------------
(* A new outbox, before the first process opens it.                        *)
Init ==
    /\ rows = EmptyTable /\ nextSeq = 1 /\ known = FALSE
    /\ tx = NoTx
    /\ mem = [d \in Deliveries |-> NoRecord] /\ order = <<>> /\ nextPid = 1
    /\ gen = 0 /\ alive = FALSE /\ cause = "none" /\ attached = {}
    /\ slots = 0 /\ outq = <<>> /\ callers = {}
    /\ writer = IdleTask /\ reader = IdleTask /\ watcher = IdleTask
    /\ sup = "down" /\ todo = <<>> /\ everReady = FALSE /\ tries = 0
    /\ stopped = FALSE /\ needPresent = FALSE
    /\ toBroker = <<>> /\ toClient = <<>> /\ present = FALSE
    /\ late = {} /\ stale = {} /\ lives = 0 /\ faults = 0
    /\ admitted = {} /\ sent = {} /\ answered = {}

Submitter ==
    \/ \E d \in Deliveries :
           SubmitBegins(d) \/ CallerEnqueues(d) \/ CallerCancelled(d)
    \/ AdmissionCommitted \/ AdmissionAttached \/ AdmissionFailed

Writer ==
    \/ WriterTakes \/ WriterEnters \/ WriterMayWrite \/ WriterEntersLate
    \/ WriterExpired \/ WriterFailed \/ WriteReturns

Reader ==
    ReaderSeesAck \/ ReaderEnters \/ ReaderAcknowledged \/ ReaderFailed

Watchdog ==
    \/ \E d \in Deliveries : DeliveryTimesOut(d) \/ WatcherSees(d)
    \/ WatcherEnters \/ WatcherExpired \/ WatcherFailed

Replay ==
    \/ ReplaySkips \/ ReplayExhausted \/ ReplayEnters \/ ReplayAttached
    \/ ReplayExpired \/ ReplayFailed \/ ReplayDone \/ ReplayRefused

Supervisor ==
    \/ DialSucceeds \/ DialFails \/ SessionMarkedKnown \/ SessionMarkFailed
    \/ Replay \/ GenerationEnds
    \/ BlockBegins \/ BlockContinues \/ BlockFailed \/ Settle

Environment ==
    \/ ConnectionLost \/ BrokerAnswers \/ BrokerForgets
    \/ \E d \in Deliveries : DeadlinePasses(d) \/ MessageDeadlinePasses(d)
    \/ ApplicationStops \/ StopCloses \/ StoreFaults
    \/ ProcessEnds \/ ProcessOpens

Next == StoreCommits \/ Submitter \/ Writer \/ Reader \/ Watchdog \/ Supervisor
            \/ Environment

Spec == Init /\ [][Next]_vars
-----------------------------------------------------------------------------
(* Types.                                                                  *)

Result == {"wait", "ok", "error"}

(* A holder of the gate and a busy task always have a delivery; only an    *)
(* admission inserts.                                                      *)
Transition ==
    {NoTx}
    \cup [op : {"admit"}, d : Deliveries, gen : Nat,
          stmt : {"insert", "attach"}, res : Result]
    \cup [op : {"write", "ack", "watch", "replay", "block"}, d : Deliveries,
          gen : Nat, stmt : Statement \ {"insert"}, res : Result]
Task ==
    {IdleTask}
    \cup [pc : {"enter", "tx", "late", "writing", "exit"}, d : Deliveries,
          flag : BOOLEAN]
Cause  == {"none", "lost", "refused", "sessionLost", "exhausted", "protocol",
           "rejected", "storage", "closed"}

Record == [phase : Phase, pid : 0..MaxPacketId, gen : Nat, attempts : Nat,
           started : BOOLEAN]
SupPc  == {"down", "dial", "marking", "replay", "refuse", "ready", "ending",
           "block", "settle", "stopped"}
Publish == [d : Deliveries, pid : 0..MaxPacketId, dup : BOOLEAN]
Puback  == [pid : 0..MaxPacketId, ok : BOOLEAN]

DbTypeOK ==
    rows \in [Deliveries -> Row] /\ nextSeq \in Nat /\ known \in BOOLEAN
BookTypeOK ==
    /\ mem \in [Deliveries -> Record]
    /\ order \in Seq(Deliveries) /\ nextPid \in PacketIds
SessTypeOK ==
    /\ gen \in Nat /\ alive \in BOOLEAN /\ cause \in Cause
    /\ attached \subseteq Deliveries /\ slots \in Int
    /\ outq \in Seq(Deliveries) /\ callers \subseteq Deliveries
TaskTypeOK == writer \in Task /\ reader \in Task /\ watcher \in Task
SupTypeOK ==
    /\ sup \in SupPc /\ todo \in Seq(Deliveries) /\ everReady \in BOOLEAN
    /\ tries \in Nat /\ stopped \in BOOLEAN /\ needPresent \in BOOLEAN
NetTypeOK ==
    /\ toBroker \in Seq(Publish) /\ toClient \in Seq(Puback)
    /\ present \in BOOLEAN
EnvTypeOK ==
    /\ late \subseteq Deliveries /\ stale \subseteq Deliveries
    /\ lives \in Nat /\ faults \in Nat
HistTypeOK ==
    /\ admitted \subseteq Deliveries /\ sent \subseteq Deliveries
    /\ answered \subseteq Deliveries \X BOOLEAN

(* Every variable stays in its domain.                                     *)
TypeOK ==
    /\ DbTypeOK /\ tx \in Transition /\ BookTypeOK /\ SessTypeOK
    /\ TaskTypeOK /\ SupTypeOK /\ NetTypeOK /\ EnvTypeOK /\ HistTypeOK

(* The task that holds the gate waits for its own transition.              *)
HolderOK ==
    /\ tx.op = "write" => writer.pc = "tx" /\ writer.d = tx.d
    /\ tx.op = "ack"   => reader.pc = "tx" /\ reader.d = tx.d
    /\ tx.op = "watch" => watcher.pc = "tx" /\ watcher.d = tx.d

(* What the tasks, the queues and the holder of the gate may still act     *)
(* upon.                                                                   *)
Known ==
    Members(order) \cup Members(outq) \cup Members(todo) \cup attached
        \cup callers
        \cup {t.d : t \in {u \in {writer, reader, watcher} : u.pc # "idle"}}
        \cup (IF tx.op \in {"none", "admit"} THEN {} ELSE {tx.d})
        \cup (IF tx.op = "admit" /\ tx.stmt = "attach" THEN {tx.d} ELSE {})

KnownHasRecord == \A d \in Known : mem[d].phase # "none"

DownHasNoRecord ==
    sup = "down" => tx = NoTx /\ \A d \in Deliveries : mem[d].phase = "none"

(* A row, a record or a byte on the wire exists only after the admission.  *)
AdmittedFirst ==
    \A d \in Deliveries :
        (\/ rows[d].state # "absent" \/ d \in sent
         \/ mem[d].phase # "none" \/ mem[d].started) => d \in admitted

AdmissionHeld ==
    tx.op = "admit" =>
        /\ tx.d \notin sent /\ ~mem[tx.d].started
        /\ tx.stmt = "insert" => /\ mem[tx.d].phase = "none"
                                 /\ tx.res = "ok" <=> tx.d \in admitted

(* The possible write is in the row no later than in memory or on the      *)
(* wire, and in memory no later than on the wire.                          *)
RowMarkedFirst ==
    \A d \in Deliveries : rows[d].state # "absent" =>
        /\ d \in sent \/ mem[d].started => rows[d].started
        /\ sup # "down" => mem[d].pid = rows[d].pid

RecordMarkedFirst ==
    \A d \in sent : /\ mem[d].phase # "none" => mem[d].started
                    /\ mem[d].phase # "NotSent"

WriteHeld ==
    tx.op = "write" =>
        /\ tx.stmt = "check" => mem[tx.d].started
        /\ tx.stmt \in {"mark", "check"} /\ tx.res = "ok" =>
               rows[tx.d].state = "pending" /\ rows[tx.d].started

(* What the writer saw before it asked for the gate still holds.           *)
FirstCopyFlagged ==
    (/\ ~writer.flag
     /\ \/ writer.pc = "enter"
        \/ /\ writer.pc = "tx" /\ tx.op = "write"
           /\ tx.stmt \in {"mark", "check"}) => ~mem[writer.d].started

(* Why bytes follow the commit in every interleaving: inductive, together  *)
(* with the types.                                                         *)
CommitInv ==
    /\ KnownHasRecord /\ DownHasNoRecord /\ AdmittedFirst /\ AdmissionHeld
    /\ RowMarkedFirst /\ RecordMarkedFirst /\ WriteHeld /\ FirstCopyFlagged
-----------------------------------------------------------------------------
(* Safety.                                                                 *)

Answered(d) == \E ok \in BOOLEAN : <<d, ok>> \in answered

(* A delivery whose bytes ever reached a socket keeps a row that says so,  *)
(* through crashes, expiry, failing statements and restarts, until the     *)
(* broker has answered it: commit before write, and DELETE only on PUBACK. *)
EvidenceKept ==
    \A d \in sent :
        /\ rows[d].state # "absent" => rows[d].started
        /\ rows[d].state = "absent" => Answered(d)

(* A handle that ends as not sent is telling the truth: no process life    *)
(* ever handed the delivery to a socket.                                   *)
NotSentIsTrue == \A d \in Deliveries : mem[d].phase = "NotSent" => d \notin sent

(* A handle completes by PUBACK only if the broker answered this very      *)
(* delivery, with that verdict, and only after its row was deleted;        *)
(* packet identifiers may have been reused meanwhile.                      *)
CompletionIsTrue ==
    \A d \in Deliveries :
        /\ mem[d].phase = "Acknowledged" => <<d, TRUE>> \in answered
        /\ mem[d].phase = "Rejected" => <<d, FALSE>> \in answered
        /\ mem[d].phase \in {"Acknowledged", "Rejected"} =>
               rows[d].state = "absent"

(* No sequence of legal steps makes the outbox refuse a statement that a   *)
(* live client depends on: without a failing statement a generation ends   *)
(* in a storage error only over rows that were quarantined while it was    *)
(* still entitled to reconnect.                                            *)
StorageErrorNeedsFault ==
    cause = "storage" => faults > 0 \/ Blocked(rows) # {}

(* Between transitions of a running client no row is pending without an    *)
(* open handle and no handle is open without a row (pending, or kept in    *)
(* quarantine), and the two agree on identifier, attempts and the          *)
(* possible-write bit.                                                     *)
BookMatchesTable ==
    tx = NoTx /\ sup \notin {"down", "stopped"} =>
        LET open == {d \in Members(order) : ~Terminal(mem, d)} IN
        /\ Pending(rows) \subseteq open
        /\ open \subseteq Present(rows)
        /\ \A d \in open : /\ mem[d].pid = rows[d].pid
                            /\ mem[d].attempts = rows[d].attempts
                            /\ mem[d].started = rows[d].started

(* The inflight capacity of a live generation is neither leaked nor given  *)
(* away twice: one slot per attached delivery and one for an admission.    *)
SlotsExact ==
    alive => slots = Cardinality(attached)
                       + (IF tx.op = "admit" /\ tx.gen = gen /\ tx.res # "none"
                          THEN 1 ELSE 0)

(* The write loop never returns from under a live session, which would     *)
(* leave a connected client that sends nothing.                            *)
WriterOutlivesSession == writer.pc = "exit" => ~alive

Writes(d, dup) ==
    /\ Len(toBroker') = Len(toBroker) + 1
    /\ toBroker'[Len(toBroker')].d = d
    /\ toBroker'[Len(toBroker')].dup = dup

(* Bytes leave only for a row that is pending, not quarantined, and        *)
(* already marked as possibly written, under the identifier it persists.   *)
WriteFollowsCommit ==
    [][\A d \in Deliveries, dup \in BOOLEAN :
           Writes(d, dup) => /\ rows[d].state = "pending"
                             /\ rows[d].started
                             /\ toBroker'[Len(toBroker')].pid = rows[d].pid]_vars

(* A PUBLISH without DUP is the first copy of its delivery ever written,   *)
(* across generations and process lives.                                   *)
FirstCopyHasNoPredecessor ==
    [][\A d \in Deliveries : Writes(d, FALSE) => d \notin sent]_vars

(* When a retransmission is written, every earlier admitted delivery that  *)
(* may have been written before has been rewritten on this connection or   *)
(* is complete: the broker sees retransmissions in the original order.     *)
ReplayKeepsOrder ==
    [][\A d \in Deliveries : Writes(d, TRUE) =>
           \A e \in Members(order) :
               rows[e].seq < rows[d].seq /\ mem[e].started =>
                   Terminal(mem, e) \/ mem[e].phase = "AwaitingAck"]_vars

(* Stated by the comment at client.mbt:998, refuted by the code: an        *)
(* admission whose connection changed is attached by a later replay.  The  *)
(* replay of the new generation may have copied the book before.           *)
AdmittedIsReplayed ==
    Ready /\ alive /\ tx = NoTx =>
        \A d \in Members(order) : Terminal(mem, d) \/ d \in attached

(* Stated by RECOVERABLE-QOS1.md, refuted by the code: the engine releases *)
(* the active-table ownership of a completed delivery.  An expiry whose    *)
(* generation died meanwhile leaves its record in the book of the next.    *)
CompletedIsReleased ==
    Ready /\ alive /\ tx = NoTx =>
        \A d \in Members(order) : ~Terminal(mem, d)

(* Stated by DURABLE-OUTBOX.md:19, refuted by the code: after a store      *)
(* failure prevented a blocked marker there is no network retry in the     *)
(* same scope.  A connection lost while the rows were being quarantined    *)
(* has recorded its own cause first, and the supervisor dials again.       *)
NoRetryAfterStoreFailure ==
    [][Failed("block") /\ tx' = NoTx /\ sup' # "down" =>
           (sup' = "ending" => AfterGeneration' # "dial")]_vars
-----------------------------------------------------------------------------
(* The contract.                                                           *)
Entry ==
    [d \in Deliveries |->
        CASE rows[d].state = "blocked" -> "quarantined"
          [] rows[d].state = "pending" ->
                 IF rows[d].started THEN "possible" ELSE "unsent"
          [] OTHER -> IF d \in admitted THEN "erased" ELSE "none"]

Contract == INSTANCE DeliveryContract
    WITH entry <- Entry, wire <- sent, answers <- {d \in Deliveries : Answered(d)}

(* The whole client, with every crash, lost connection, deadline and       *)
(* failing statement, is an implementation of DeliveryContract: each of    *)
(* its steps is one step of the contract for the file, or none.            *)
ImplementsContract == Contract!Spec
-----------------------------------------------------------------------------
(* Liveness.  Fairness is that of the scheduler: a coroutine that can run  *)
(* runs, SQLite answers, deadlines are kept.  The FIFO semaphore gives the *)
(* gate to every waiter, also when it is taken in between: strong fairness *)
(* for the steps that acquire it.  Nothing is assumed of the network, the  *)
(* broker or the clock, and of the application only StopCompletes.         *)
HolderProceeds ==
    \/ StoreCommits
    \/ AdmissionCommitted \/ AdmissionAttached \/ AdmissionFailed
    \/ WriterMayWrite \/ WriterExpired \/ WriterFailed
    \/ ReaderAcknowledged \/ ReaderFailed \/ WatcherExpired \/ WatcherFailed
    \/ ReplayAttached \/ ReplayExpired \/ ReplayFailed
    \/ BlockContinues \/ BlockFailed

WriterProceeds == WriterEnters \/ WriterEntersLate \/ WriteReturns

SupervisorProceeds ==
    \/ SessionMarkedKnown \/ SessionMarkFailed
    \/ ReplaySkips \/ ReplayExhausted \/ ReplayEnters \/ ReplayDone
    \/ GenerationEnds \/ BlockBegins \/ Settle

(* A client that is stopped is closed: disconnect waits no longer than its *)
(* budgets, and an application told of a storage error leaves the scope.   *)
StopCompletes == stopped /\ StopCloses

Fairness ==
    /\ WF_vars(HolderProceeds)
    /\ SF_vars(WriterProceeds)
    /\ SF_vars(ReaderEnters) /\ SF_vars(WatcherEnters)
    /\ SF_vars(SupervisorProceeds)
    /\ WF_vars(\E d \in Deliveries : DeliveryTimesOut(d))
    /\ WF_vars(StopCompletes)

FairSpec == Spec /\ Fairness

(* Stopping always completes: whatever the client was doing when it was    *)
(* stopped (dialling, waiting to dial again, replaying, quarantining),     *)
(* every handle it holds settles, or the process dies first.               *)
StopSettles == stopped ~> (order = <<>> \/ sup = "down")

(* No delivery stays in flight for ever: it is answered, or its deadline   *)
(* ends the generation.                                                    *)
AttachmentEnds ==
    \A d \in Deliveries : (d \in attached) ~> (d \notin attached)
=============================================================================
