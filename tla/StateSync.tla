----------------------------- MODULE StateSync -----------------------------
(***************************************************************************)
(* examples/mqtt_demo: a thermostat controller and a relay device that use *)
(* the client on either side of a broker.  The controller sends absolute   *)
(* targets and believes only reports that answer one of its own requests.  *)
(* Connections, the broker, the device and the controller may fail.        *)
(*                                                                         *)
(* The client library is taken at its contract: a publish of QoS 1 ends as *)
(* sent, not sent or unknown, events reach the application in order, and a *)
(* new connection subscribes before it is reported.  What a message says   *)
(* is its kind and correlation; `run' is history, the controller process   *)
(* that asked, which is not in the message.                                *)
(***************************************************************************)
EXTENDS Integers, Sequences

VARIABLES
    run,         \* controller processes so far (main, or with_client again)
    pc,          \* what the controller is at: "off", "idle" in next_event,
                 \* or publishing a "command" or a "query"
    outcome,     \* of that publish: "none", "pending" or how it ended
    desired, reported, awaiting,   \* ControllerState, and run's awaiting
    commands, queries,             \* the two counters
    inbox,       \* events of the controller's client
    link, up, down,                \* its connection and what is on the way
    broker, retained,              \* the broker and the retained report
    devLink, devBox, devOut,       \* the device's connection and messages
    relay,       \* the relay as the device holds it
    proxy,       \* DropPubackProxy: "open", "armed" or "dropped"
    watched, log,     \* the controller's output, if somebody collects it
    seen, past   \* history: what the relay has been since the controller
                 \* last (re)connected; whether a request or an answer was
                 \* "missed", whether another process' answer "misled"

controllerVars == <<pc, outcome, desired, reported, awaiting, commands,
                    queries>>
linkVars   == <<link, up, down, proxy>>
brokerVars == <<broker, retained>>
deviceVars == <<devLink, devBox, devOut, relay>>
outputVars == <<watched, log>>
vars == <<run, controllerVars, inbox, linkVars, brokerVars, deviceVars,
          outputVars, seen, past>>

States == {"ON", "OFF"}
Temperatures == {"cold", "band", "hot"}     \* <= 26, between, >= 28

Message == [kind: {"command", "query", "feedback", "sample", "puback",
                   "connected", "disconnected"},
            of: {"command", "query", "nothing"},
            id: Nat, run: Nat,
            says: States \cup Temperatures \cup {"nothing"}]

Plain(kind, says) == [kind |-> kind, of |-> "nothing", id |-> 0, run |-> 0,
                      says |-> says]

Note(kind) == Plain(kind, "nothing")

Sample(t) == Plain("sample", t)

Unsolicited(on) == Plain("feedback", on)

TypeOK ==
    /\ run \in Nat
    /\ pc \in {"off", "idle", "command", "query"}
    /\ outcome \in {"none", "pending", "sent", "unknown", "not_sent"}
    /\ desired \in States /\ reported \in States \cup {"unknown"}
    /\ awaiting \in Nat /\ commands \in Nat /\ queries \in Nat
    /\ inbox \in Seq(Message)
    /\ link \in BOOLEAN /\ up \in Seq(Message) /\ down \in Seq(Message)
    /\ broker \in {"up", "down"} /\ retained \in Seq(Message)
    /\ devLink \in BOOLEAN
    /\ devBox \in Seq(Message) /\ devOut \in Seq(Message)
    /\ relay \in States
    /\ proxy \in {"open", "armed", "dropped"}
    /\ watched \in BOOLEAN
    /\ seen \subseteq States /\ past \subseteq {"missed", "misled"}

(* The device runs and has reported once; the controller is to start.      *)
Init ==
    /\ run = 1 /\ pc = "off" /\ outcome = "none"
    /\ desired = "OFF" /\ reported = "unknown" /\ awaiting = 0
    /\ commands = 0 /\ queries = 0
    /\ inbox = <<>> /\ link = FALSE /\ up = <<>> /\ down = <<>>
    /\ broker = "up" /\ retained = <<Unsolicited("OFF")>>
    /\ devLink = TRUE /\ devBox = <<>> /\ devOut = <<>> /\ relay = "OFF"
    /\ proxy = "open"
    /\ watched \in BOOLEAN /\ log = <<>>
    /\ seen = {"OFF"} /\ past = {}
-----------------------------------------------------------------------------
(* The controller.                                                         *)

Line(event, id, state) == [event |-> event, id |-> id, state |-> state,
                           desired |-> desired]

Prints(lines) == /\ log' = IF watched THEN log \o lines ELSE log
                 /\ UNCHANGED watched

(* with_client connects and subscribes, or a new generation restores the   *)
(* subscriptions: the retained report follows.                             *)
ControllerConnects ==
    /\ ~link /\ broker = "up"
    /\ link' = TRUE /\ down' = retained
    /\ inbox' = Append(inbox, Note("connected"))
    /\ pc' = IF pc = "off" THEN "idle" ELSE pc
    /\ UNCHANGED <<run, outcome, desired, reported, awaiting, commands,
                   queries, up, proxy, brokerVars, deviceVars, outputVars,
                   seen, past>>

(* client.next_event() returns an event of this kind.                      *)
NextEvent(kind) ==
    /\ pc = "idle" /\ inbox # <<>> /\ Head(inbox).kind = kind
    /\ inbox' = Tail(inbox)

QueryDevice == pc' = "query" /\ queries' = queries + 1 /\ UNCHANGED commands

SendTarget == pc' = "command" /\ commands' = commands + 1 /\ UNCHANGED queries

NoRequest == UNCHANGED <<pc, commands, queries>>

(* Mutation: only the first connection is followed by a query. *)
AskOnce == IF queries = 0 THEN QueryDevice ELSE NoRequest

Ask == QueryDevice

(* Startup and reconnect: nothing local is trusted, so ask.                *)
HandleConnected ==
    /\ NextEvent("connected")
    /\ reported' = "unknown" /\ awaiting' = 0
    /\ Ask
    /\ Prints(<<Line("connected", 0, "unknown")>>)
    /\ seen' = {relay}
    /\ UNCHANGED <<run, outcome, desired, linkVars, brokerVars, deviceVars,
                   past>>

HandleDisconnected ==
    /\ NextEvent("disconnected")
    /\ awaiting' = 0
    /\ Prints(<<Line("disconnected", 0, reported)>>)
    /\ UNCHANGED <<run, pc, outcome, desired, reported, commands, queries,
                   linkVars, brokerVars, deviceVars, seen, past>>

(* Mutation: no deadband. *)
RelayStepWithoutBand(on, t) ==
    CASE t \in {"band", "hot"} /\ on # "ON" -> "ON"
      [] t = "cold" /\ on # "OFF"           -> "OFF"
      [] OTHER                              -> "hold"

(* relay_step: the thermostat contract; an unknown state inside the        *)
(* deadband asks the device.                                               *)
RelayStep(on, t) ==
    CASE t = "hot" /\ on # "ON"       -> "ON"
      [] t = "cold" /\ on # "OFF"     -> "OFF"
      [] t = "band" /\ on = "unknown" -> "query"
      [] OTHER                        -> "hold"

(* A sample is skipped while a command is unconfirmed.                     *)
HandleTemperature ==
    /\ NextEvent("sample")
    /\ LET decision == RelayStep(reported, Head(inbox).says) IN
       \/ /\ awaiting # 0
          /\ NoRequest /\ Prints(<<>>) /\ UNCHANGED desired
       \/ /\ awaiting = 0 /\ decision \in States
          /\ desired' = decision
          /\ SendTarget /\ Prints(<<>>)
       \/ /\ awaiting = 0 /\ decision = "query"
          /\ QueryDevice /\ Prints(<<>>) /\ UNCHANGED desired
       \/ /\ awaiting = 0 /\ decision = "hold"
          /\ NoRequest /\ Prints(<<Line("hold", 0, reported)>>)
          /\ UNCHANGED desired
    /\ UNCHANGED <<run, outcome, reported, awaiting, linkVars, brokerVars,
                   deviceVars, seen, past>>

(* Mutation: an answer to any query of this controller counts. *)
MatchesAnyQuery(fb) == fb.of = "query" /\ fb.id <= queries

MatchesQuery(fb) == fb.of = "query" /\ fb.id = queries

(* Mutation: a report that answers any command confirms this one. *)
MatchesAnyCommand(fb) == fb.of = "command" /\ awaiting # 0

MatchesAwaiting(fb) == fb.of = "command" /\ awaiting # 0 /\ fb.id = awaiting

(* Mutation: a device that is not as desired is left alone. *)
NoRepair(fb) == NoRequest

Repair(fb) == IF fb.says # desired THEN SendTarget ELSE NoRequest

(* A report that answers none of the two last requests proves nothing; one *)
(* that does is believed, and a relay that is not as desired is set.       *)
ApplyFeedback ==
    /\ NextEvent("feedback")
    /\ LET fb == Head(inbox) IN
       IF MatchesQuery(fb) \/ MatchesAwaiting(fb)
       THEN /\ reported' = fb.says /\ awaiting' = 0
            /\ Repair(fb)
            /\ Prints(<<Line("feedback", IF fb.of = "query" THEN fb.id ELSE 0,
                             fb.says)>>
                      \o IF MatchesAwaiting(fb)
                         THEN <<Line("command_confirmed", fb.id, fb.says)>>
                         ELSE <<>>)
            /\ past' = IF fb.run = run THEN past ELSE past \cup {"misled"}
       ELSE /\ Prints(<<Line("feedback_ignored", fb.id, fb.says)>>)
            /\ NoRequest /\ UNCHANGED <<reported, awaiting, past>>
    /\ UNCHANGED <<run, outcome, desired, linkVars, brokerVars, deviceVars,
                   seen>>

Request ==
    [kind |-> pc, of |-> pc, run |-> run,
     id   |-> IF pc = "command" THEN commands ELSE queries,
     says |-> IF pc = "command" THEN desired ELSE "nothing"]

(* client.publish of send_target and query_device.                         *)
PublishStarts ==
    /\ pc \in {"command", "query"} /\ outcome = "none"
    /\ IF link
       THEN up' = Append(up, Request) /\ outcome' = "pending"
       ELSE outcome' = "not_sent" /\ UNCHANGED up
    /\ UNCHANGED <<run, pc, desired, reported, awaiting, commands, queries,
                   inbox, link, down, proxy, brokerVars, deviceVars,
                   outputVars, seen, past>>

Ended == {"sent", "unknown", "not_sent"}

CommandEvent == [sent |-> "command_sent", unknown |-> "command_unknown",
                 not_sent |-> "command_not_sent"]

(* The rest of send_target: only feedback proves execution, and an outcome *)
(* that is not "sent" is resolved by asking.                               *)
CommandEnds ==
    /\ pc = "command" /\ outcome \in Ended
    /\ IF outcome = "sent"
       THEN /\ awaiting' = commands
            /\ pc' = "idle" /\ UNCHANGED <<commands, queries>>
       ELSE QueryDevice /\ UNCHANGED awaiting
    /\ Prints(<<Line(CommandEvent[outcome], commands, reported)>>)

(* The rest of query_device: whatever the outcome, back to next_event.     *)
QueryEnds ==
    /\ pc = "query" /\ outcome \in Ended
    /\ pc' = "idle"
    /\ Prints(<<Line("query_sent", queries, reported)>>)
    /\ UNCHANGED <<awaiting, commands, queries>>

PublishEnds ==
    /\ CommandEnds \/ QueryEnds
    /\ outcome' = "none"
    /\ UNCHANGED <<run, desired, reported, inbox, linkVars, brokerVars,
                   deviceVars, seen, past>>

(* The client's reader: a PUBACK completes the publish, the rest is queued *)
(* for next_event.  A proxy that is armed holds the PUBACK back.           *)
ReaderTakes ==
    /\ down # <<>>
    /\ down' = Tail(down)
    /\ IF Head(down).kind = "puback"
       THEN proxy # "armed" /\ outcome' = "sent" /\ UNCHANGED inbox
       ELSE inbox' = Append(inbox, Head(down)) /\ UNCHANGED outcome
    /\ UNCHANGED <<run, pc, desired, reported, awaiting, commands, queries,
                   link, up, proxy, brokerVars, deviceVars, outputVars,
                   seen, past>>

(* The connection is gone: what was on the way is lost, and a publish that *)
(* waits for its PUBACK is unknown, or not sent if it was not yet written. *)
LoseLink ==
    /\ link' = FALSE /\ up' = <<>> /\ down' = <<>>
    /\ inbox' = IF link THEN Append(inbox, Note("disconnected")) ELSE inbox
    /\ outcome' \in IF outcome # "pending" THEN {outcome}
                    ELSE {"unknown"} \cup IF up = <<>> THEN {} ELSE {"not_sent"}

ControllerLinkLost ==
    /\ link
    /\ LoseLink
    /\ UNCHANGED <<run, pc, desired, reported, awaiting, commands, queries,
                   proxy, brokerVars, deviceVars, outputVars, seen, past>>

(* DropPubackProxy.arm: the next PUBACK from the broker will be discarded. *)
ProxyArmed ==
    /\ proxy = "open"
    /\ proxy' = "armed"
    /\ UNCHANGED <<run, controllerVars, inbox, link, up, down, brokerVars,
                   deviceVars, outputVars, seen, past>>

(* DropPubackProxy._copy: that PUBACK is discarded, both sockets shut.     *)
ProxyDrops ==
    /\ proxy = "armed" /\ down # <<>> /\ Head(down).kind = "puback"
    /\ proxy' = "dropped"
    /\ LoseLink
    /\ UNCHANGED <<run, pc, desired, reported, awaiting, commands, queries,
                   brokerVars, deviceVars, outputVars, seen, past>>

(* A new process, or main's next with_client cycle: nothing is remembered. *)
ControllerRestarts ==
    /\ run' = run + 1 /\ pc' = "off" /\ outcome' = "none"
    /\ desired' = "OFF" /\ reported' = "unknown" /\ awaiting' = 0
    /\ commands' = 0 /\ queries' = 0
    /\ inbox' = <<>> /\ link' = FALSE /\ up' = <<>> /\ down' = <<>>
    /\ log' = <<>>
    /\ UNCHANGED <<proxy, brokerVars, deviceVars, watched, seen, past>>
-----------------------------------------------------------------------------
(* The broker, external: a QoS 1 publish is acknowledged and forwarded to  *)
(* a subscriber that is connected; retained messages are not persisted.    *)

BrokerTakes ==
    /\ up # <<>>
    /\ up' = Tail(up)
    /\ down' = Append(down, Note("puback"))
    /\ IF devLink
       THEN devBox' = Append(devBox, Head(up)) /\ UNCHANGED past
       ELSE past' = past \cup {"missed"} /\ UNCHANGED devBox
    /\ UNCHANGED <<run, controllerVars, inbox, link, proxy, brokerVars,
                   devLink, devOut, relay, outputVars, seen>>

BrokerTakesFeedback ==
    /\ devOut # <<>>
    /\ retained' = devOut /\ devOut' = <<>>
    /\ down' = IF link THEN down \o devOut ELSE down
    /\ UNCHANGED <<run, controllerVars, inbox, link, up, proxy, broker,
                   devLink, devBox, relay, outputVars, seen, past>>

(* Observer.publish_temperature, or a sensor.                              *)
SampleArrives(t) ==
    /\ link
    /\ down' = Append(down, Sample(t))
    /\ UNCHANGED <<run, controllerVars, inbox, link, up, proxy, brokerVars,
                   deviceVars, outputVars, seen, past>>

(* What the device's client had received stays queued for the device, the  *)
(* rest of what was sent to it is lost, and so is an answer on its way.    *)
LoseDevice ==
    /\ devLink' = FALSE /\ devOut' = <<>>
    /\ \E n \in 0..Len(devBox) :
          /\ \A i \in (n + 1)..Len(devBox) : devBox[i].kind # "connected"
          /\ devBox' = SubSeq(devBox, 1, n)
          /\ past' = IF n = Len(devBox) /\ devOut = <<>> THEN past
                     ELSE past \cup {"missed"}
    /\ UNCHANGED relay

DeviceLinkLost ==
    /\ devLink
    /\ LoseDevice
    /\ UNCHANGED <<run, controllerVars, inbox, linkVars, brokerVars,
                   outputVars, seen>>

(* Mosquitto stops; every connection ends.                                 *)
BrokerStops ==
    /\ broker = "up"
    /\ broker' = "down" /\ retained' = <<>>
    /\ LoseLink
    /\ IF devLink THEN LoseDevice ELSE UNCHANGED <<deviceVars, past>>
    /\ UNCHANGED <<run, pc, desired, reported, awaiting, commands, queries,
                   proxy, outputVars, seen>>

BrokerStarts ==
    /\ broker = "down" /\ broker' = "up"
    /\ UNCHANGED <<run, controllerVars, inbox, linkVars, retained, deviceVars,
                   outputVars, seen, past>>
-----------------------------------------------------------------------------
(* The device.                                                             *)

Answer(m, on) == [m EXCEPT !.kind = "feedback", !.says = on]

(* One event: a command sets the relay, and every command, query and       *)
(* reconnect is answered by a retained report.  publish_feedback waits for *)
(* its PUBACK, and gives up when there is no connection.                   *)
DeviceHandles ==
    /\ devBox # <<>> /\ devOut = <<>>
    /\ LET m  == Head(devBox)
           on == IF m.kind = "command" THEN m.says ELSE relay
       IN /\ relay' = on /\ seen' = seen \cup {on}
          /\ devBox' = Tail(devBox)
          /\ IF devLink
             THEN /\ devOut' = <<Answer(m, on)>>
                  /\ UNCHANGED past
             ELSE past' = past \cup {"missed"} /\ UNCHANGED devOut
    /\ UNCHANGED <<run, controllerVars, inbox, linkVars, brokerVars, devLink,
                   outputVars>>

(* The subscriptions are restored, then Connected is reported.             *)
DeviceReconnects ==
    /\ ~devLink /\ broker = "up"
    /\ devLink' = TRUE
    /\ devBox' = Append(devBox, Note("connected"))
    /\ UNCHANGED <<run, controllerVars, inbox, linkVars, brokerVars, devOut,
                   relay, outputVars, seen, past>>

(* Another device process: OFF, and its first report still to come.        *)
DeviceReboots ==
    /\ relay' = "OFF" /\ seen' = seen \cup {"OFF"}
    /\ devLink' = FALSE /\ devBox' = <<>> /\ devOut' = <<>>
    /\ past' = past \cup {"missed"}
    /\ UNCHANGED <<run, controllerVars, inbox, linkVars, brokerVars,
                   outputVars>>
-----------------------------------------------------------------------------
Controller == \/ ControllerConnects \/ HandleConnected \/ HandleDisconnected
              \/ HandleTemperature \/ ApplyFeedback
              \/ PublishStarts \/ PublishEnds

Network == ReaderTakes \/ BrokerTakes \/ BrokerTakesFeedback \/ ProxyDrops

Device == DeviceHandles \/ DeviceReconnects

ControllerFault == ControllerLinkLost \/ ControllerRestarts

DeviceFault == DeviceLinkLost \/ DeviceReboots

Next == \/ Controller \/ Network \/ Device
        \/ ControllerFault \/ DeviceFault \/ BrokerStops \/ BrokerStarts
        \/ ProxyArmed
        \/ \E t \in Temperatures : SampleArrives(t)

Spec == Init /\ [][Next]_vars
-----------------------------------------------------------------------------
(* What the controller believes of the relay was true at some time since   *)
(* it last connected, unless it took the answer to another process for an  *)
(* answer to itself.                                                       *)
ReportedWasTrue ==
    reported # "unknown" => reported \in seen \/ "misled" \in past

(* A command is confirmed only by a report of the state it asked for.      *)
ConfirmedMeansTarget ==
    pc = "idle" /\ inbox # <<>> /\ Head(inbox).kind = "feedback" =>
        LET fb == Head(inbox) IN
        MatchesAwaiting(fb) /\ fb.run = run => fb.says = desired

(* Nothing is on its way, and everybody waits: what a sleep of demo.py is  *)
(* long enough for.                                                        *)
AtRest ==
    /\ pc = "idle" /\ inbox = <<>> /\ up = <<>> /\ down = <<>>
    /\ devBox = <<>> /\ devOut = <<>> /\ link /\ devLink

(* The relay is as the controller wants it, and the controller knows and   *)
(* waits for nothing.                                                      *)
Aligned == relay = desired /\ reported = relay /\ awaiting = 0

(* Once everything has come to rest the two agree, whatever was broken,    *)
(* restarted or believed by mistake; unless a request or an answer to it   *)
(* was lost behind the broker.                                             *)
RestIsAligned == AtRest => Aligned \/ "missed" \in past
=============================================================================
