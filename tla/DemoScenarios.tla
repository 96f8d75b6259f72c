--------------------------- MODULE DemoScenarios ---------------------------
(***************************************************************************)
(* examples/mqtt_demo/demo.py: the four scripts it plays with a broker, a  *)
(* device, a controller and an observer, as sequences of wait_for, require *)
(* and effects; and a free environment, which no script restrains.  A      *)
(* sleep is taken to be long enough for everything to come to rest, and a  *)
(* wait_for never to give up: what is checked is that it need not.         *)
(***************************************************************************)
EXTENDS StateSync

CONSTANTS Scripts,        \* which scripts are played
          MaxSamples, MaxFaults, MaxEvents   \* bounds of the free environment

VARIABLES script, step,  \* the script and how far it is
          refuted,       \* the requirements that failed
          samples, faults

scriptVars == <<script, step, refuted>>
boundVars  == <<samples, faults>>
allVars    == <<vars, scriptVars, boundVars>>

InitScript ==
    /\ Init
    /\ script \in Scripts
    /\ watched = (script # "free")
    /\ step = 0 /\ refuted = {} /\ samples = 0 /\ faults = 0

(* Proc.events: the lines of one event that a process has printed.         *)
Events(event) == SelectSeq(log, LAMBDA line : line.event = event)

Printed(event, n) == Len(Events(event)) >= n

Goes(n) == /\ step = n /\ refuted = {} /\ step' = n + 1
           /\ UNCHANGED <<script, boundVars>>

WaitFor(n, holds) ==
    Goes(n) /\ holds /\ UNCHANGED <<vars, refuted>>

(* A requirement that fails ends the script.                               *)
Require(n, condition) ==
    /\ step = n /\ refuted = {}
    /\ IF condition THEN step' = n + 1 /\ UNCHANGED refuted
       ELSE refuted' = {n} /\ UNCHANGED step
    /\ UNCHANGED <<vars, script, boundVars>>

Effect(n, action) == Goes(n) /\ action /\ UNCHANGED refuted

ObserveRetainedFeedback == retained # <<>>

(* hot, cold, deadband                                                     *)
Normal ==
    \/ WaitFor(0, Printed("feedback", 1))
    \/ Require(1, ~Printed("command_confirmed", 1))
    \/ Effect(2, SampleArrives("hot"))
    \/ WaitFor(3, Printed("command_confirmed", 1))
    \/ Effect(4, SampleArrives("cold"))
    \/ WaitFor(5, Printed("command_confirmed", 2))
    \/ Effect(6, SampleArrives("band"))
    \/ WaitFor(7, AtRest)
    \/ Require(8, LET confirmed == Events("command_confirmed") IN
                  /\ Len(confirmed) = 2
                  /\ confirmed[1].id = 1 /\ confirmed[1].state = "ON"
                  /\ confirmed[2].id = 2 /\ confirmed[2].state = "OFF")
    \/ Require(9, Printed("hold", 1))
    \/ Require(10, relay = "OFF")
    \/ Require(11, ObserveRetainedFeedback)

Confirmed(n) == WaitFor(n, Printed("command_confirmed", 1))

(* controller.stop() and the start of another Proc.                        *)
RestartController == ControllerRestarts

AnsweredOn(line) == line.id # 0 /\ line.state = "ON"

(* The controller starts over behind a proxy, which loses one PUBACK.      *)
LostPuback ==
    \/ Effect(0, RestartController)
    \/ WaitFor(1, Printed("feedback", 1))
    \/ Require(2, Events("feedback")[1].state = "OFF")
    \/ Effect(3, ProxyArmed)
    \/ Effect(4, SampleArrives("hot"))
    \/ WaitFor(5, proxy = "dropped")
    \/ WaitFor(6, relay = "ON")
    \/ Require(7, Printed("command_unknown", 1))
    \/ WaitFor(8, \E n \in DOMAIN Events("feedback") :
                     LET line == Events("feedback")[n] IN
                     AnsweredOn(line) /\ line.desired = "ON")
    \/ Require(9, Printed("command_unknown", 1))
    \/ Require(10, LET resolved == SelectSeq(Events("feedback"), AnsweredOn)
                   IN  resolved[Len(resolved)].id # 2)

(* Both connections break and what the broker retained is gone.            *)
BrokerRestart ==
    \/ WaitFor(0, Printed("feedback", 1))
    \/ Effect(1, SampleArrives("hot"))
    \/ Confirmed(2)
    \/ Effect(3, BrokerStops)
    \/ Effect(4, BrokerStarts)
    \/ WaitFor(5, Printed("disconnected", 1))
    \/ WaitFor(6, Printed("connected", 2))
    \/ WaitFor(7, Printed("query_sent", 2))
    \/ WaitFor(8, AtRest)
    \/ Require(9, Printed("feedback_ignored", 1))

FirstLine(event) ==
    LET at == {n \in DOMAIN log : log[n].event = event} IN
    IF at = {} THEN Len(log) + 1 ELSE CHOOSE n \in at : \A m \in at : n <= m

(* The relay is still ON when the controller starts over.                  *)
ControllerRestart ==
    \/ WaitFor(0, Printed("feedback", 1))
    \/ Effect(1, SampleArrives("hot"))
    \/ Confirmed(2)
    \/ Require(3, relay = "ON")
    \/ Effect(4, RestartController)
    \/ WaitFor(5, Printed("feedback", 1))
    \/ Require(6, Printed("connected", 1))
    \/ Require(7, Printed("feedback_ignored", 1))
    \/ Require(8, LET correlated == SelectSeq(Events("feedback"),
                                       LAMBDA line : line.id # 0)
                  IN  correlated # <<>> /\ correlated[1].state = "ON")
    \/ Require(9, FirstLine("query_sent") < FirstLine("command_sent"))

Last == [normal |-> 12, lost_puback |-> 11, broker_restart |-> 10,
         controller_restart |-> 10]

Play == \/ script = "normal" /\ Normal
        \/ script = "lost_puback" /\ LostPuback
        \/ script = "broker_restart" /\ BrokerRestart
        \/ script = "controller_restart" /\ ControllerRestart

FreeSample == /\ samples < MaxSamples /\ samples + faults < MaxEvents
              /\ samples' = samples + 1
              /\ \E t \in Temperatures : SampleArrives(t)
              /\ UNCHANGED faults

(* Faults counts broken connections; a stop of the broker breaks two.      *)
FreeFault ==
    /\ \/ faults' = faults + 1 /\ (ControllerFault \/ DeviceFault)
       \/ faults' = faults + 2 /\ BrokerStops
    /\ faults' <= MaxFaults /\ samples + faults' <= MaxEvents
    /\ UNCHANGED samples

Free == /\ script = "free"
        /\ FreeSample \/ FreeFault \/ (BrokerStarts /\ UNCHANGED boundVars)

(* What the processes and the network do by themselves.                    *)
Works(part) == part /\ UNCHANGED <<scriptVars, boundVars>>

NextScript == \/ Works(Controller) \/ Works(Network) \/ Works(Device)
              \/ Free /\ UNCHANGED scriptVars
              \/ Play

SpecScript == InitScript /\ [][NextScript]_allVars

(* The processes run, the network delivers, a stopped broker is started    *)
(* again and the script goes on when it can.                               *)
FairScript ==
    /\ SpecScript
    /\ WF_allVars(Works(Controller))
    /\ WF_allVars(Works(ReaderTakes)) /\ WF_allVars(Works(ProxyDrops))
    /\ WF_allVars(Works(BrokerTakes)) /\ WF_allVars(Works(BrokerTakesFeedback))
    /\ WF_allVars(Works(Device))
    /\ WF_allVars(Free /\ BrokerStarts /\ UNCHANGED <<boundVars, scriptVars>>)
    /\ WF_allVars(Play)
-----------------------------------------------------------------------------
(* No requirement of a script fails, whatever the timing; except that      *)
(* lost_puback looks for "command_unknown" without waiting for it.         *)
RequirementsHold ==
    refuted \subseteq IF script = "lost_puback" THEN {7} ELSE {}

(* Every script comes to its end: no wait_for waits for ever.              *)
Concludes == <>(script = "free" \/ step = Last[script] \/ refuted # {})

(* When samples and faults end, the two come to agree for good; unless a   *)
(* request or an answer to it was lost behind the broker.                  *)
Converges == <>[](Aligned \/ "missed" \in past)

(* controller/main.mbt:131-132: "the device reports for every command and  *)
(* every query, so this cannot park forever".                              *)
CannotPark == awaiting # 0 ~> awaiting = 0
=============================================================================
