# moon-mqtt-client: models, checks and proofs

This directory describes six parts of the repository in TLA+.  The first is the
delivery machinery: what a durable QoS 1 delivery goes through between
`submit_durable_delivery` and its PUBACK, over crashes, lost connections,
passing deadlines and a failing SQLite file.  The second is one generation of a
client without durable deliveries: ordinary requests, the outgoing queues, QoS 1
credit, the heartbeat and DISCONNECT.  The third is a client that keeps its
deliveries in memory over reconnects, beside requests that compete with them
for identifiers, places and the queue.  The fourth is the way of a message from
the broker to the application: before and after readiness, through a bounded
event queue, over reconnects.  The fifth is the operator's tool that retires
an outbox file and hands its broker over to a new one.  The sixth is the
state-sync demonstration, a controller and a device that use the client, with
the four scripts that exercise it.  TLC checks small instances; TLAPS proves the
central facts for every value of the constants.

## 1. The system

One `Client` owns at most one connection at a time.  Its supervisor dials, runs
one *generation* per connection (a `Session` with a writer, a reader, a
heartbeat and a delivery watchdog as coroutines of one task group), and decides
after each generation whether to dial again.  All coroutines run on one thread:
code between two suspension points is atomic, and every suspension point is a
place where the connection, the deadline or the owner of a delivery may have
changed.

| Component | State it keeps | Operations | Hard behaviour | What makes it correct |
|---|---|---|---|---|
| SQLite outbox (`durable_store.mbt`) | rows (state, packet id, sequence, attempts, possible-write bit, deadlines), `next_sequence`, `known_session` | `admit`, `record_attach`, `record_may_write`, `acknowledge`, `block`, `expire_one`, `expire`, `inspect`, `mark_session_known` | a statement suspends its caller; it can fail; the process can die around the commit | each operation commits whole or not at all; a possible write is never forgotten |
| Durable runtime (`delivery.mbt`) | `DeliveryBook` (active, reserved, order, next packet id), `DeliveryRecord` (phase, attempts, generation, `ever_started`), the FIFO gate | `transition`, `attach`, `detach`, `mark_started`, `finish_*`, `allocate_packet_id` | memory is published after the commit, both under the gate | book and table agree between transitions; handles end truthfully |
| Client (`client.mbt`) | `ready`, `stopped`, `session`, `generation` | `with_durable_client`, `submit_durable_delivery`, `disconnect`, settlement | an admission suspends twice while generations come and go | no capacity leaked, no admission lost, stopping settles every handle |
| Supervisor (`runtime.mbt`) | attempts, delays, `ever_ready` | `dial`, `supervise`, `replay_deliveries`, `block_durable_deliveries` | replay runs beside the writer, reader and watchdog it started | order of retransmission, bounded attempts, quarantine before release |
| Session (`session.mbt`) | `alive`, `failure_reason`, `deliveries`, `delivery_slots`, outgoing queues, `pending`, heartbeat | `write_one`, `abort_with`, `delivery_watchdog`, `expire_durable_delivery`, `enqueue_delivery` | the first abort wins; everybody else finds a dead generation | no byte without a commit, no dead writer under a live session |
| Reader (`runtime.mbt`) | - | `read_loop` | a PUBACK waits for the gate behind an expiry | completion only by the owner's answer |
| Heartbeat (`session.mbt`) | `heartbeat_state` | `queue_ping`, `receive_pingresp`, `heartbeat` | PINGRESP before the write returns | a silent peer is found; a talking one is not dropped |
| Requests and credit (`session.mbt`, `client.mbt`) | `pending`, `next_id`, `outgoing`, `deferred_business`, `business_depth`, `qos1_outstanding` | `request`, `allocate`, `enqueue_business`, `next_outgoing`, `write_one`, `disconnect` | cancellation and budgets at any stage, credit shortage, identifiers that wrap around, PUBACK before the write returns | one true outcome each; publishes in order; answers find their request; limits hold |
| Deliveries in memory (`delivery.mbt`, `client.mbt`) | `DeliveryBook`, `Session.deliveries`, `delivery_slots` | `submit_delivery`, `replay_deliveries`, `delivery_watchdog`, `detach`, `finish_*` | the record outlives its connection; two allocators, two limits, one queue shared with requests | a handle's end is true; order, DUP and attempts hold over reconnects; every handle is settled |
| Incoming messages (`runtime.mbt`, `client.mbt`) | event queue, `early_messages`, `control_queue` | `read_loop`, `emit`, `next_event`, `supervise` | messages before readiness, a slow application, reconnects with redelivery | each generation told in order; backpressure ends the client rather than drop; what is acknowledged is told |
| Recovery tool (`scripts/durable_recovery.py`) | archive and journal files, the target outbox | `prepare_resolution`, `advance_resolution` | a crash between any two phases | evidence never lost, phases only forward |
| State-sync demonstration (`examples/mqtt_demo`) | desired, reported and awaited state, query and command counters; the relay; the observer's output | `handle_temperature`, `apply_feedback`, `send_target`, `query_device`; the device's loop; `run_scenario` | lost PUBACKs, retained and late reports, restarts of broker, device and controller | nothing believed that was not true since the connection; desired and actual relay agree in the end |
| WebSocket (`internal/websocket`) | frame assembly, close state | `recv`, `send_binary`, `close` | control frames inside fragments, close handshake | one Close each way |

The components call each other as follows.  `submit_durable_delivery` (a caller's
coroutine) takes the gate, writes the outbox, publishes the record in the book
and enqueues it on the session.  The session's writer takes it off the queue,
takes the gate, records the possible write and writes to the socket.  The reader
matches a PUBACK, takes the gate, deletes the row and completes the handle.  The
watchdog takes the gate to expire a delivery, or ends the generation when a
start or PUBACK deadline passed.  Whoever meets an error calls
`Session::abort_with`, which detaches every delivery; the supervisor joins the
task group and decides on the recorded first cause.  A new process rebuilds the
book from the table.

## 2. Modules

**`Outbox`** is the table as data: `Row` (a missing row is the state `absent`),
the statements the runtime issues, `Commits` (when a statement commits; else it
raises and rolls back) and `RowAfter` / `Swept` (what it leaves behind).  It has
no variables.

**`DurableDelivery`** extends `Outbox` with everything that happens to durable
deliveries in one client and its successors.

* *The gate and SQLite.*  `tx` is the transition that holds
  `DurableRuntime.gate`, together with the one statement it is suspended in.
  `StoreCommits` commits it (or lets it raise), `StoreFaults` makes it fail, and
  the holder's next action is its resumption.  Between the two, any other
  coroutine may move, the connection may be lost, and `ProcessEnds` may strike.
  A transition of two statements (`admit` then `record_attach`) keeps the gate;
  `expire_one` followed by `record_attach` or `record_may_write` is one
  statement of the model, because the first changes nothing when the second
  runs.
* *The book.*  `mem` maps each identifier to its `DeliveryRecord`; `order` is
  `DeliveryBook.order`.  `active` and `reserved` hold the same records, plus the
  identifier an admission reserves before it suspends (`Reserved`).
* *The generation.*  `gen`, `alive`, `cause` (`failure_reason`), `attached`
  (`Session.deliveries`), `slots`, `outq`.  `AbortWith` is
  `Session::abort_with`: it acts once, and the first cause stays.
* *The tasks.*  `writer`, `reader` and `watcher` say where each coroutine is
  suspended, with which delivery, and what it had read before suspending
  (`flag`: the writer's DUP snapshot, the reader's reason code).  `callers` are
  submitters between the gate and `enqueue_delivery`.
* *The supervisor.*  `sup` is the program counter of `supervise`; `todo` is the
  replay's copy of the book, or the rows a quarantine still has to visit.
  `SessionMarkFailed` is its one statement without a step in between
  (`mark_session_known`) when SQLite refuses it.
* *Stopping.*  `ApplicationStops` is `Client::disconnect` over a live session up
  to its wait for the DISCONNECT packet; `StopCloses` is what follows, and what
  the defer of `with_durable_client` does whenever the application leaves its
  scope: no more calls, the session aborted, the supervisor cancelled
  (`WorkerCancelled`).  It has no guard but that there is something to stop, so it
  finds the supervisor dialling, in a backoff, marking the session, replaying,
  refusing or quarantining.  Cancelling ends whatever the supervisor waits for,
  the gate included; a transition of its own that holds the gate is
  `protect_from_cancel` and finishes first.
* *The environment.*  The broker answers any PUBLISH it has received, or never;
  it accepts or (MQTT 5) refuses it; it may forget its session while no
  connection is up.  Connections end at any moment.  `late` and `stale` are the
  deliveries whose `expires_at_ms` and `message_expiry_at_ms` have passed.
* *History.*  `admitted`, `sent` and `answered` record what happened outside
  the program's memory; no action's guard reads `sent` or `answered`, and
  `admitted` only keeps the application from using an identifier twice.

`lost` stands for every end of a connection that the supervisor answers by
dialling again, `DeliveryAttemptTimeout` included.  The outgoing queue is not
bounded in the model: waiting for room is a delay of `CallerEnqueues`, and of
the replay a delay before its next step.

**`DeliveryContract`** is what the outbox promises about each delivery to whoever
reads the file (and a handle in memory to whoever holds it): admitted once, marked
before any byte, forgotten only when answered or certainly unsent, quarantined for
good.  `DurableDelivery` maps its table to the contract's entries (`Entry`) and
claims `ImplementsContract`.

**`Resolution`** is `durable_recovery.py resolve` (and `resume`, which is the
same command).  Its state is what outlives the tool: the source's identity and
rows (a version number), the archive, the journal's phase, the staging file, the
target path and the broker's two sessions.  `tool` says where a running tool is
between two effects; `ToolDies` can strike at each.  The source's exclusive lock
is held exactly while `tool # "off"`.  The old application opens the source as
`SqliteOutbox::open_with_prelock` does, validating before and after it takes the
lock; the new one may open the target at any time, also before there is one
(`EarlyTarget`), which creates a database there.  A failing write of the tool's
own files ends it like a death.

**`Requests`** is one `Session` of a client that resumes nothing: it ends when
its generation does, and a request lost with it is not repeated.

* *Requests.*  A caller that returned is `result`, a caller that waits is an
  entry of `pending` under its packet identifier (DISCONNECT has 0).  `started`
  and `localWrite` are the two marks of `Pending` that `Outcome` reads when the
  generation ends.  Subscribe stands for unsubscribe too; the two go through the
  same code.
* *Queues.*  `outgoing`, `deferred` and `control` are the three queues;
  `NextOutgoing` is `next_outgoing`, which prefers control packets, then a
  deferred publish that has credit, then the first item of `outgoing` that may
  go, deferring the publishes before it.  The code also consults in-memory
  deliveries there; a model value is never one.
* *The write loop.*  `writer` is where `write_loop` is: choosing, started (the
  coroutine of the write exists), writing (the bytes went to the socket), wrote
  (the write returned, `write_one` has not gone on).  Everything else may move
  in between, the reader with the answer to the very packet being written
  included.
* *Control packets.*  PINGREQ, PUBACK of an incoming QoS 1 message, DISCONNECT.
  Only DISCONNECT waits for room; the others end the generation when there is
  none.  `heartbeat` is `heartbeat_state`.
* *The end.*  `Abort` is `abort_with`; `cause` is `failure_reason`, and a
  generation is alive while it is `"none"`.
* *The environment.*  A broker that conforms to the protocol: one answer, or
  none, to each packet it was handed, in any order.  It may refuse a publish.
  `turn` numbers admissions, `handed` and `answered` remember what crossed the
  wire, and no code reads them.

**`MemoryDeliveries`** is a client that resumes its session and has no outbox,
from its first dial to its end.

* *The book.*  `order` is `DeliveryBook.order`, and `active` and `reserved` hold
  the same records (`Active`, `Reserved`).  `phase`, `packetId`, `attempts` and
  `deadline` are the fields of a `DeliveryRecord`; at most one of its two
  deadlines is set, and `deadline` says which.  `started` has `ever_started`, and
  of requests `started`.
* *The connection.*  `attached` is `Session.deliveries`, `slots` its counter,
  `pending` and `requestId` the requests, `outgoing`, `deferred` and
  `businessDepth` the business queue.  `cause` is `failure_reason`.
  `CloseSession` is `abort_with` but for the records, `Abort` the whole of it;
  everything of a connection is empty once it has ended.
* *Identifiers.*  `FirstFree` is the search of either allocator.  Both pass over
  pending requests and the whole book; the connection's cursor starts at 1, the
  book's goes on.
* *The supervisor.*  `stage` is where it is.  `replay` is the copy of the book
  `replay_deliveries` still has to put into the queue; a record at its head that
  is already attached waits for room.
* *The write loop.*  `writer` is as in `Requests`, with what DUP says.  The code
  marks a delivery as started when it builds the packet, before it suspends
  (`WriterStarts`), the bytes follow (`WriterHandsOver`), and then the write
  returns (`WriteReturns`).
* *The end.*  `Ends` is `finish_deliveries_now`: `TerminalNotSent` or
  `TerminalOutcomeUnknown`, by `ever_started` (`Outcome`).
* *The environment.*  A broker that conforms: at most one answer to each packet
  of a connection, any time.  Connections break, dials fail, a resumed session
  may be gone.  Requests are subscribes and unsubscribes, since a resuming
  client may not publish QoS 1 otherwise; QoS 0 publishes and control packets
  are in `Requests` only.

Its handles keep the same contract as the file: `Said` maps the record of each
delivery to an entry of `DeliveryContract`, and `ImplementsContract` is checked
for it as well.  There is no crash: memory is lost with the process, and the
repository promises nothing beyond it.

**`Incoming`** is one client, without requests or deliveries, and a broker that
publishes to it.

* *The way of a message.*  `net` is what the broker has sent and `read_loop` has
  not read.  A ready client puts a message into `events` (`Emit`), one that is
  not puts it into `early` (`PutAside`), and a QoS 1 message is then
  acknowledged: its PUBACK goes into `control`, `WritePuback` hands it over, and
  the broker forgets the message (`kept`).
* *The supervisor.*  `sup` is where `supervise` is: dialing, restoring
  subscriptions or replaying (one state, which ends when it may), ready, ended.
  `BecomesReady` is the stretch without a suspension point from `ready = true`
  to `early_messages.clear()`: it reports the connection and the early messages,
  and may run out of room on the way.  `Handle` is the error handler; the report
  of the broken connection may raise in it, and then nothing is recorded.
* *The end.*  `Disconnect` and `DisconnectEnds` are the two halves of
  `disconnect`, between which the reader still runs.  A server DISCONNECT ends
  the client, as it does unless the retry policy is opted into.
* *The environment.*  The broker numbers messages as it publishes them, sends
  them in order, and after a reconnect sends what it keeps again, in order, if
  the session was resumed; a clean session it forgets.  A client is subscribed
  once it was ready, a resumed session may be so from the start.
* *History.*  `told` is what `next_event` has returned, `acked` the messages
  whose PUBACK was written, `discarded` the early messages lost with their
  generation.  No guard reads them.

**`StateSync`** is the controller, the device and the broker of
`examples/mqtt_demo`, the client library at its contract: a QoS 1 publish ends as
sent, not sent or unknown, and subscribing precedes the report of a connection.

* *The controller.*  `pc` is where its only loop is: in `next_event`, or in the
  publish of a command or a query.  `desired`, `reported` and `awaiting` are
  what the code calls them, `commands` and `queries` its counters, which start
  again with every process.  `ApplyFeedback` is `apply_feedback`, with the
  correction it sends when the relay is not as desired.
* *The device.*  `relay`, its inbox, and one retained report per command, query
  or reconnect.  A reboot switches the relay off.
* *What breaks.*  Either connection, the broker (which loses what it retained
  and every message on its way), the controller's and the device's process, and
  the one PUBACK that `DropPubackProxy` holds back.
* *History.*  `seen` is what the relay was since the controller last connected;
  `past` remembers that a request or an answer was lost behind the broker
  (`"missed"`) or that an answer to an earlier process was believed
  (`"misled"`).

**`DemoScenarios`** extends it with `demo.py`: each script is the sequence of its
`wait_for`, `require` and effects on the processes, and `log` the lines the
observer has collected.  A `sleep` is a wait until nothing is on its way, since
the scripts sleep so that everything comes to rest; a `wait_for` has no timeout
in the model, and `Concludes` shows that none is needed.  The script `free` is no
script of `demo.py`: it is an environment that breaks whatever it likes.

**`MCDurableDelivery`** gives the constants values and nothing else;
**`MCResolution`**, **`MCIncoming`** and **`MCRequests`** take them from their
configurations (the last adds the symmetry of publishes).  `MemoryDeliveries` and
`DemoScenarios` are run directly.

**`DurableDelivery_proofs`**, **`DurableDelivery_exchange`**,
**`DeliveryContract_proofs`**, **`Requests_proofs`**, **`Incoming_proofs`**,
**`MemoryDeliveries_proofs`**, **`StateSync_proofs`** and
**`Resolution_proofs`** hold the theorems.

## 3. Runs

| Run | Instance | What it shows |
|---|---|---|
| `crash` | two MQTT 5 deliveries, one with Message Expiry, two connections in each of two process lives | evidence of a possible write is kept until the broker answered; handles complete truthfully; a copy without DUP is the first; retransmissions keep the order |
| `faults` | one MQTT 5 delivery with a deadline, one failing statement, two connections in each of two lives, a client that may be stopped at any moment, fair scheduler | book and table agree between transitions; inflight slots are exact; NotSent is the truth; no storage error without a failing statement or a quarantine; the writer never leaves a live session; the model implements `DeliveryContract`; whatever the client is doing when it is stopped, every handle settles; nothing stays in flight for ever |
| `requests` | a QoS 0 publish that may expire, two QoS 1 publishes and a subscribe beside a PINGREQ, an incoming message and DISCONNECT; credit for one, a queue of two, three identifiers | callers are told the truth; publishes keep their order; answers find their request; the PING clock runs only while an answer is due; nothing follows DISCONNECT; a written DISCONNECT succeeds |
| `requests_live` | four requests, credit for one; a broker that answers, or else writes and answers that may never come | every request settles: credit comes back and no queue starves another, or the budgets alone end the generation |
| `memory` | two deliveries in memory, one that may expire, and a request; two inflight places, one queue place, credit for one, three identifiers, two attempts | every answer finds its owner; places, queue, book and Receive Maximum keep their limits; a copy goes out in the order of admission, with DUP unless it is the first, at most twice, never after the handle is settled; the handles implement `DeliveryContract`; every delivery is settled |
| `incoming` | three messages of either QoS, a queue of two events, room for one PUBACK, two reconnects, three broken connections, clean and resumed sessions | each generation is told in order; what was acknowledged is told, or was lost before readiness; a client ends for a recorded cause unless its queue was full; the broker gets rid of its messages or the client has ended |
| `resolution` | a tool that dies up to four times, applications that start at will, two changes of the source's rows | one owner at a time; the archive holds what was retired; nothing somebody wrote is replaced; a death alone never makes a later run refuse; a resolution ends |
| `sync` | the four scripts of `demo.py` in every timing, and a free environment | the controller believes only what was true since it connected; a command is confirmed only by its target; no requirement of a script fails; no `wait_for` waits for ever; desired, reported and actual relay come to agree |
| `replay_owns`, `released`, `retry`, `parks` | smallest that show it | the four statements of section 6 are violated |

*Bounds.*  `MaxGen` connections per process life, `MaxLives` lives, `MaxFaults`
failing statements.  Two deliveries are what reuse of a packet identifier,
ordering and a stale owner need, and `MaxPacketId = 2` makes identifiers be
reused at once.  Two connections are what a delivery attached, detached, replayed and
detached again needs, and with `ReconnectAttempts = 1` they use up its attempts;
two lives are what recovery needs, and a second recovery starts from the same
kind of table as the first.  MQTT 5 adds refusals and Message Expiry to what
MQTT 3.1.1 does; `replay_owns` and `released` need neither and use the latter,
`retry` is about a refusal and uses the former.  Running out
of `MaxGen` or `MaxLives` is the only way the system stops that the program
does not have; deadlock checking is off because a settled client, and a process
that found a blocked row, stop for good.

In `Requests` one place of credit makes `next_outgoing` defer a QoS 1 publish
and the QoS 0 publish behind it, let a subscribe pass and take the deferred ones
back in order; four requests for three identifiers make `next_id` wrap around
while one is pending; a queue of two for four requests makes it full while part
of it is deferred.  Publishes of QoS 1 are interchangeable, and the run without
liveness uses that symmetry.  `MaxPings` and `MaxIncoming` bound what may be
repeated for ever; one of each, with DISCONNECT, overfills a control queue of
two while the write loop is stuck.  A generation that ended, or closed, stops:
deadlock checking is off.

In `Resolution` a second change of the rows is the first one after an archive
was published; four deaths let the tool be interrupted in several phases of one
operation, and nothing depends on how many there were.

In `MemoryDeliveries` two deliveries and a request for two inflight places and
three identifiers make both allocators wrap around over each other's; one queue
place makes the second replay wait and the request meet a full queue; credit for
one makes the write loop defer a delivery while a request passes it;
`ReconnectAttempts = 1` gives each delivery two connections, so that a replayed
one is lost again and runs out of attempts, and any number of connections may
come between while deliveries are new.  A client that ended stops: deadlock
checking is off.

In `Incoming` the queue of two is overfilled by the report of a connection and
two early messages, or by three messages of a ready client; a second QoS 1
message finds the control queue full while the writer waits; three messages are
two in one generation and one in the next; two reconnects after a generation
that was ready, and one fault more, exhaust the attempts.  A message lost before
readiness needs one fault.

In `StateSync` the free environment makes up to three events, two samples and
two broken connections or restarts among them; a stop of the broker breaks both
connections and counts as two.  Two samples are what a superseded command needs,
two faults what a loss behind a loss needs; the scripts themselves have up to
three effects and are not bounded.

*Fairness* (in `faults`; `resolution` assumes that the operator runs the tool
until it is done, stops the old application, and that the broker accepts one of
ever repeated cleanups).  A coroutine that can run does run; SQLite answers
(with success or an error); a deadline ends its generation.  The gate is a FIFO
semaphore, so a waiter gets it although others take it in between: strong
fairness on the steps that acquire it.  Nothing is assumed of the network, the
broker or the clock: `ConnectionLost`, `BrokerAnswers`, `DialSucceeds`,
`DialFails` and `DeadlinePasses` have no fairness, so a dial may hang for ever
and it is the cancellation that ends it.  Of the application it is assumed only
that a client it has stopped, or that a storage error has stopped, is closed
(`StopCompletes`): the waits inside `disconnect` have budgets, and an action told
of the error returns.

For `Requests` there are two assumptions, because the code promises two things;
`EitherSpec` (`requests_live`) is their disjunction.  `Responsive` assumes the
write loop runs, writes return and the broker answers everything it was handed;
then no budget is needed.  `OnTheClock` assumes nothing of the broker and
nothing of a write: the write loop picks items, `write_timeout_ms` ends a write
that does not return and `operation_timeout_ms` ends a request that has waited
long enough.  That last timer does not run while DISCONNECT waits for room in
the control queue; there the write's own timer has to end the wait.

For `MemoryDeliveries` (`memory`) the supervisor dials again and its dials
end, replay goes on when there is room, a write that was begun hands its bytes
over and returns or runs out of `write_timeout_ms`, the watchdog looks at every
delivery, and `disconnect` does not wait for ever (its own write has that
timer).  Nothing is assumed of the broker, and not even that the write loop
begins a write: the start deadline covers that.

For `Incoming` (`incoming`) the client's coroutines run and the network connects
again once the faults are over; nothing is assumed of the application, which may
never read an event.  That is why `Drains` allows a client that has ended: the
queue fills and backpressure ends it.

For `StateSync` (`sync`, `parks`) every process handles what it has, the network
delivers, a stopped broker is started again, and the script goes on when it
can; samples and faults have no fairness.  These are the assumptions of
`demo.py`, whose waits time out only when one of them fails.

Every checked property has a mutation in `DurableDelivery`, `Outbox`, `Requests`,
`MemoryDeliveries`, `Incoming`, `StateSync` or `Resolution` (the operators
commented *Mutation*): a plausible slip in the code that makes the property fail
in its own run.

## 4. Proofs

All theorems hold for any finite set of deliveries, any limits that satisfy
`OutboxAssumption` and `DeliveryAssumption`, and any bounds.  The one theorem
with a hypothesis of its own, `StorageErrorHolds`, names it.

`DurableDelivery_proofs` proves `TypeCorrect` (`Spec => []TypeOK`).  `TypeOK`
alone is not inductive: when the gate's holder resumes, the delivery it works
on must be the one its task remembers, which is `HolderOK`.  `TypeInv` is their
conjunction; its proof has one lemma per group of actions.

It proves `CommitInvariant` (`Spec => []CommitInv`).
"No byte before its commit" is not inductive by itself, since at the moment of
the write the program looks at memory and not at the row.  `CommitInv` says why
it may: the possible-write bit of the row is set no later than that of the
record, and that of the record no later than the bytes (`RowMarkedFirst`,
`RecordMarkedFirst`); whoever is about to write holds the gate over a committed
mark (`WriteHeld`); an admission under way has nothing on the wire
(`AdmissionHeld`); nothing exists before its admission (`AdmittedFirst`); and
every delivery a queue, a task or the gate may still act upon has a record
(`KnownHasRecord`), which is what keeps a recovered process from acting for a
dead one.  `FirstCopyFlagged` adds that what the writer read before it asked for
the gate is still so once it holds it.  Most actions only touch parts of the
state that no conjunct mentions, or shrink the queues: `TameStep` handles all of
them at once, and the others have a lemma each.  From the invariant follow

* `NotSentHolds`: `NotSentIsTrue`;
* `WriteFollowsCommitHolds`: bytes leave only for a pending, marked row under
  its own packet identifier;
* `FirstCopyHolds`: a PUBLISH without DUP has no predecessor.

`DurableDelivery_exchange` continues from there.  What remains is about *where* a
delivery is.  `PlaceInv` fixes the program counters: which task may hold the gate
for which statement, that a quarantine or an opening runs under no session, that
an ended session has no queue, writer or reader.  `ExchangeInv`
(`ExchangeInvariant`) then follows a delivery through a live generation: it is
with its caller, in the queue, with the writer, on the wire or with the reader,
in one of these places and in one copy (`AttachedOwned`, `WriterOwns`,
`ReaderOwns`, `WireOwned`, `WireDistinct`); an attached delivery has its row;
and no two rows and no two packets on the wire have the same identifier.  Each
of these needs the others.  That the reader finds the delivery a PUBACK is for,
for example, needs that its row is there, which needs that nobody else deletes
it meanwhile, which needs that an expiry cannot pick a delivery that was handed
over, which is again where it is.  From this invariant follow

* `EvidenceHolds`: `EvidenceKept`, since a row that says "possibly written" is
  deleted by an answer alone, is never swept, and the answer was the broker's;
* `CompletionHolds`: `CompletionIsTrue`, since the delivery that carries an
  answered identifier is the one the broker answered, although identifiers are
  reused at once;
* `OutlivesHolds`: `WriterOutlivesSession`;
* `SlotsHold`: `SlotsExact`, which is inductive once it is known when an
  admission still holds its slot (`AdmissionKept`);
* `ContractIsKept`: the refinement.  `NextMaps` maps every step to a step of
  `DeliveryContract` or to a stutter: a statement that commits is one step of the
  contract for one entry (`CommitMaps`), the opening of a file sweeps several
  (`OpensMaps`), a write is `Transmit` of a marked entry (`WriteMaps`), and a
  broker's answer is `Answer` (`AnswerMaps`); all other steps say nothing.

*Book and table.*  They differ whenever a statement has committed and its holder
has not resumed, so `BookMatchesTable` is no invariant of any single step.
`MatchInv` says how far they may differ: every row agrees with its record
(`RowMatches`), but that of the transition in progress, which is ahead by exactly
what its statement does (`AheadMatches`).  It needs `HolderSure`, what a holder
knows of its delivery while it is suspended: a replay under a live session, that
its record is open; an expiry by the watchdog, that its delivery is attached.
`TableInv` is the conjunction, `TableInvariant` the theorem, `BookMatches` its
consequence when the gate is free.

*The end of the client.*  `StopLeavesNothingOpen` is the safety half of
`StopSettles`: once the supervisor has stopped, wherever the stop found it, no
transition that could still publish a result holds the gate, no session is alive,
the book is empty, every handle has ended, and one whose row stays pending ended
as `NotSent` exactly when the row says that nothing was written, so the next
process starts from what the application was told.  `StopInv` is two facts: an open handle is in the book
(`Listed`; a handle opens when its admission enters the book, or from the rows when
the process starts, and no step opens one that had ended), and the row of a
delivery agrees with its handle when `settle_deliveries` runs, for it runs under
the gate (`MatchInv` with `tx = NoTx`).  The admission that commits while the
client is stopping is the dangerous one: it holds the gate, so it enters the book
before the settling or does not exist.

*Storage errors.*  `StorageErrorHolds` proves `StorageErrorNeedsFault`: a
generation ends in a storage error only after a statement failed or over
quarantined rows.  An admission checks `max_inflight` before it asks the table
for room, so the table refuses nothing as long as it holds every row of the book
(`MembersFit`, `InsertFits`); every other statement finds its row because book
and table agree.  The theorem assumes `MaxInflight <= MaxRecords`, and so does
the property: with fewer records than places an admission that the client accepts
is refused by the table and ends the client, which is the documented role of
`max_records` (`docs/API-CONTRACT.md:168`).  `with_durable_client` admits
`MaxRecords <= MaxInflight` only (`DeliveryAssumption`), so the theorem is about
clients whose two bounds are equal: the default (32 and 32), what
`docs/architecture/DURABLE-OUTBOX.md:23` asks for, and what the runs use.

*Order of retransmissions.*  `ReplayOrderHolds` proves `ReplayKeepsOrder`: a copy
is written again only after every earlier delivery of the book that may have
been written has ended or was written again on this connection.  The property
is about one step of the writer; what makes it inductive, `TurnInv`, follows a
copy back to the book.  The book is in insertion order, the row an admission has
just inserted being the newest (`BookSorted`); what is older than a copy the
replay has still to attach is before it in the rest of the replay, queued or
with the writer (`ReplayInTurn`); what is older than a queued copy is ahead of it
in the queue or with the writer (`QueueInTurn`); and nothing older is missing
once the writer has taken a copy (`WriterInTurn`).  A record that an admission
committed on an earlier connection is not attached by the replay that copied
the book before; it is no exception because it was never written, which
`CallersFresh` and `MissingStays` say: under a live session no delivery becomes
one that is still to be written again.

Two kinds of lemmas carry these proofs.  `...Changes` says for one part of the
state which actions can change it, by cases over `Next`; `...Step` then proves
that a part of the invariant is preserved by citing them, so that an action is
looked at only where it matters.  `QuietStep` covers the actions that leave the
exchange alone altogether.

`DeliveryContract_proofs` proves `ContractConclusive`: in the abstract
specification an entry that is unsent, or gone without an answer, names a
delivery that never was on the wire.  This carries over to the file, and to the
handles of deliveries in memory, by the two theorems called `ContractIsKept`.

`Requests_proofs` proves that callers are told the truth
(`CallersAreToldTheTruth`), that publishes are handed over in the order of
their admission (`OrderIsKept`), that every answer finds its request
(`AnswersReachTheirRequest`), that the business queues stay bounded
(`QueuesAreBounded`), and the types (`TypesHold`).  None of these is inductive.
The order of what was handed over follows from the order in which requests were
started, and that from the *backlog*, `deferred` followed by `outgoing`: it is
sorted by admission (`BacklogSorted`), it holds exactly the admitted requests
that were not started (`BacklogIsUnstarted`), and `next_outgoing` takes from it
an element with none of its kind before it, or only moves the boundary between
the two queues (lemma `Selection`).  That answers find their request, and that
"not sent" is true, needs that an admitted request is pending under its own
identifier until it has its result (`PendingConsistent`, `AdmittedIsPending`)
and how far a write can have come at each point of the write loop
(`WriteProgress`, `QoS0Completes`).  All ways to end the generation share the
lemma `AbortKeeps`.

It also proves what the control queue promises.  `PingInv` says where the one
PINGREQ is, in the queue, in the write loop or on the wire, for each state of the
heartbeat (`PingPlaces`), and when an answer is due (`PongDue`): `PingExchange`.
`LoopClosed` says where the write loop can be once DISCONNECT went out:
`DisconnectIsLast`; `DisconnectIsTold` is an action property that needs no more
than the types.  `CreditInv` says that `qos1_outstanding` counts exactly the
started publishes without a result, from which `ReceiveMaximumKept` follows:
the broker never has more unanswered publishes than it allowed.

`NobodyIsForgotten` is the safety half of `Settles`: when the write loop has
nothing to take and the broker has answered what it was handed (`AtRest`), or
when the generation has ended, every admitted request and `disconnect()` have
their results.  `WaitInv` says why while the generation lives: what was answered
or written has its result (`LiveWaits`), and a DISCONNECT whose caller waits is
pending, and in the control queue or started (`CloseWaits`), so that whatever ends
the generation settles it.  At rest nothing can be deferred: a deferred publish
waits only for credit, `CreditInv` then names a publish that took it, and that one
was handed over, answered, and so has a result and gave its credit back.

`Resolution_proofs` proves all safety properties of `Resolution`.  `SafetyInv` is
inductive: it says what the tool knows at
each of its points (`Verified`: the archive still equals the source, because the
lock excludes the old application, `Locked`), that a retired source is nobody's
(`Tombstone`), and from where on each session stays clean (`OldGone`,
`NewGone`, `Replacement`).  For `RefusalsHaveCauseHolds` each refusal needs a
cause that lasts, or a later run would make the earlier refusal unexplained
(`LastingCause`): the archive is never newer than the rows, so that rows which
differ from it keep differing (`ArchiveBehind`), and once an application has
used the replacement too early, no later run publishes it.

`Incoming_proofs` proves every safety property of `Incoming`, for any capacities
and any number of messages and faults.  `IncomingInv` follows a message from the
broker to the application.  For the order (`StoryIsInOrder`): while a connection
is up, what was told of its generation, its early messages and what is on its
way are ascending and follow each other (`InLine`, `NotTold`), nothing is told of
a generation before it is ready, and a ready generation has no early messages
(`Reports`).  Lemma `Joined` says when a stretch of reports may be added to a
story that is in order; the handler's one report, a single message and the whole
backlog, cut off or not, are its three uses.  For the losses
(`AcknowledgedIsTold`): whatever has a PUBACK, written or queued, is told, early
or discarded (`Accounted`), and early messages meet a report of their own
generation only in a client that was stopped or overflowed (`EarlyEnds`), so that
discarding them then is the end of the client (`Discards`).  `EndHasACause`
needs that a dead session has a cause (`Caused`).

`AnsweredOnce` is the safety half of `Drains`, with more than its liveness asks
for: on a live connection each message the broker keeps is on its way or has its
PUBACK in the queue, so that with both empty the broker keeps nothing, and no
PUBACK is queued for a message that is not kept, or twice.  `OwedInv` adds that
the PUBACKs are queued in the order of the messages and before all that is on its
way (`PubacksOwed`, `NetOwed`).

`MemoryDeliveries_proofs` proves every safety property of `MemoryDeliveries`,
for any deliveries, requests, identifiers, capacities and attempts, and that it
implements `DeliveryContract` (`ContractIsKept`).  The invariant `IInv` has two
halves.  One is about order.  What this connection has not started is the
*line*: `deferred`, then `outgoing`, then `replay`.  It holds each delivery of
the book whose answer is not awaited, once (`LineExact`, `LineOnce`), in the
order of the book (`LineSorted`), and what was started comes before all of it
(`StartedFirst`).  Replay, admission and deferral only move the boundaries
inside the line or extend it at its end; `next_outgoing` takes a delivery from
its front and a request from anywhere (lemma `Taken`).  From this
`CopiesLeaveInTurn` follows.  The other half is about exchanges.  An answer the
broker owes, or that is on its way, belongs to a record that awaits it or a
request that was written (`Exchanges`), identifiers of both kinds differ
(`IdsDiffer`), and `credit` counts the records that await an answer (`Counts`):
hence `AnswersAreFound` and `LimitsAreKept`.  `History` relates each delivery's
copies, attempts and mark to its phase across connections; it gives
`HandlesAreTrue` (no run checks that property: the run `memory` checks the
refinement, which says more) and, step by step, the refinement: a write that
starts is `Mark` or, from the second on, a stutter; a hand-over is `Transmit`, a
PUBACK `Complete`, the end of the client `Expire` of the whole book, and
whatever an aborted connection changes is `Quiet`.

`NobodyIsStranded` is the safety half of that model's `Settles`: `NobodyStranded`
says what will still move each open handle.  On a live connection it is the clock
of an attached record, the write in progress, or the replay, which has the record
still to attach; between connections the handle waits in `AwaitingReconnect` for
the next connection to replay the book; once the client has ended no handle is
open.  `Clocks` adds to `IInv` that a clock runs only for an attached record, and
that on a live connection an attached record without one is the writer's.  The
rest is the line: a record that is in the book and not attached is in it
(`LineExact`), and of the three queues only `replay` holds unattached ones
(`Queues`).

`StateSync_proofs` proves that what the controller reports was true
(`ReportsWereTrue`) and that a command is confirmed only by its target
(`ConfirmationsAreTrue`).  `SyncInv` is about every message on its way, in seven
queues: it carries an identifier its process has given out, and if that is the
last one of its kind, a command says what is desired now and a report what the
relay has been since the controller connected (`Sound`).  Identifiers only grow
within a process, so a step that gives out a new one has nothing to check
(`FineGrows`), and the other steps move messages between queues.

`RestHolds` is the safety half of `Converges`, for any number of samples, losses,
restarts and believed mistakes, where the run `sync` has two faults: when nothing
is on its way, relay, target and report agree (`RestIsAligned`).  Of a state at
rest alone nothing can be shown by induction, so `RestInv` says what holds on the
way there.  `Will(x)` says that the relay will be `x` once every command between
the controller and the device is executed, and `Coming` that the last request is
on its way with no command behind it, or that its answer is and says what will
be.  `Trust` is then the argument why the protocol converges: a controller that
is not right is about to connect, about to ask, or has its answer coming.  A
command keeps `Trust` because it is itself a request, an overheard report because
it is ignored, and the answer to an earlier process, which may be believed,
because it either agrees with the target or is followed by a command, and leaves
the real answer on its way.  `Flight` (one publish at a time) is needed so that no
second request is behind the one being acknowledged, `Notes` so that a report of
a loss, which ends the waiting for a confirmation, has the report of the next
connection, and so a query, behind it.  The exception `"missed"` is the finding of
the run `parks`: it cannot be dropped.

Some theorems say more than any run checks: `CommitInvariant` and
`WriteFollowsCommitHolds` (of any number of deliveries and crashes),
`QueuesAreBounded`, `ReceiveMaximumKept`, `NobodyIsForgotten`, `NobodyIsStranded`,
`AnsweredOnce`, `StopLeavesNothingOpen`, `HandlesAreTrue` and `RestHolds`.

Only model-checked: the requirements of the scripts (`RequirementsHold`), and
liveness (`Settles`, `Drains`, `Concludes`, `Converges`, `StopSettles`,
`AttachmentEnds`), which the proof system does not cover; of `Converges`,
`Settles`, `Drains` and `StopSettles` that rest is reached is checked, and that it
is agreement, or that nobody waits then, is proved.  A proof of `RequirementsHold`
would add nothing: no constant bounds what happens during a script (`MaxSamples`,
`MaxFaults` and `MaxEvents` restrain `Free` only), so the run `sync` visits every
state the four scripts have.

## 5. Not modelled

Byte formats (MQTT, WebSocket, SQLite schema and migration), TLS, logging and
counters.  Durable deliveries and ordinary requests are modelled apart: in
`DurableDelivery` a request's timeout looks like a connection lost to an error
(in the code its cause is a synthetic `SessionLost`, which gives way to a concrete
error that follows it in the same generation), and in
`Requests` no delivery competes for credit or queue places.  `MemoryDeliveries`
has that competition for the deliveries kept in memory, without QoS 0 publishes
and control packets.  The requests that restore subscriptions after a reconnect,
and the opt-in retry after a server DISCONNECT are left out.  `control_depth`,
which mirrors the length of the control queue, is that length.  A publish whose
Message Expiry elapses in the queue ends the generation (`WriterFindsLate`) and
with it the client; the model does what the code does.  Of the recovery tool: the
validation of the request (paths, aliases, authorizations), the comparison of the
operator's decisions with the rows (`validate_decisions`, one more cause to
refuse), and the read-only commands.  Of the
demonstration: invalid payloads, the availability topic, the timeouts of the
scripts and the controller's limit of 20 cycles.  The other examples and the
drivers under `tests/` and `scripts/` are straight sequences of calls whose checks
are on the text of what is printed; there is nothing in them for a model to
interleave.  The other components are in the plan below.

## 6. Where the code and its documentation differ

1. *A later replay owns attachment* (`client.mbt:998`).  `replay_deliveries`
   copies the book first; an admission that commits after the copy, and whose
   own connection is gone, is attached by no replay of the current connection.
   It waits, unsent, until that connection ends (`replay_owns`).
2. *The engine releases completed deliveries*
   (`docs/architecture/RECOVERABLE-QOS1.md:29`).  An expiry completes the record
   and leaves its removal to the end of the client; if the connection was lost
   while the expiry committed, the client dials again with the completed record
   still in the book (`released`).
3. *No same-scope network retry after a store failure*
   (`docs/architecture/DURABLE-OUTBOX.md:19`).  A quarantine that fails during a
   replay loses to the recorded cause of a connection lost meanwhile, and the
   supervisor dials again (`retry`).

4. *This cannot park forever* (`examples/mqtt_demo/controller/main.mbt:131-132`).  A
   command the device never gets, because its connection breaks, is never
   reported; the report it makes when it is back carries no identifier and is
   ignored.  The controller skips every sample until a connection event of its
   own (`parks`).

Some differences need no run, because the models contain them as behaviour.

* Identifiers start at 1 in every controller process, so the retained answer to
  an earlier process's first query is taken for the answer to this one's;
  `docs/SCENARIOS.md:37` says only an identifier "this controller just issued"
  counts.  `ReportedWasTrue` exempts it (`"misled"`).
* A fresh controller desires OFF, so it switches a relay that is ON off without
  any sample (`main.mbt:7`).
* The script `broker_restart` requires a `feedback_ignored` that the retained
  report of its first connection has already produced.
* The script `lost_puback` looks for `command_unknown` without waiting (its
  second requirement), right after the relay moved; the controller may not have
  seen the broken connection yet.  `RequirementsHold` exempts this step.
* `emit(Disconnected)` in the error handler raises when the event queue is full.
  The client then ends with `Closed`, not `Backpressure`
  (`docs/API-CONTRACT.md:266`), and durable rows are not blocked and handles not
  settled at that place (`docs/FAILURE-MATRIX.md:50`).  `EndsForACause` exempts
  exactly this case and shows that there is no other.  `DurableDelivery` has no
  event queue; its error handler always reaches the blocking and the settling.
* "client terminates instead of dropping messages" (`client.mbt:510`) holds of a
  ready client.  A QoS 1 message that comes before readiness is acknowledged at
  once and is lost when the generation ends first; `OnlyUnreadyIsLost` says that
  this is the only loss.
* `receive_capacity` early messages are accepted, but with the report of the
  connection they need one place more than the event queue has.

## 7. Plan

1. Done: `Outbox`, `DurableDelivery`, their runs, `TypeCorrect`, the commit
   invariant and its consequences.
2. Done: `DeliveryContract`, checked and proved to be implemented by
   `DurableDelivery`; who owns a delivery, and book and table
   (`DurableDelivery_exchange`).
3. Done: `Requests`, its runs and proofs, the heartbeat included.
4. Done: `MemoryDeliveries`, its run and proofs, that of the refinement included.
5. Done: `Incoming`, its run and proofs.
6. Done: `Resolution`, its runs and proofs; `StateSync`, `DemoScenarios`, their
   runs and proofs.
7. `WebSocketConn`: fragments, control frames and the Close handshake.
8. Proofs: done for every invariant and action property that a run checks and a
   constant bounds.
