-------------------------- MODULE StateSync_proofs --------------------------
(***************************************************************************)
(* Theorems about StateSync, for executions of any length and with any     *)
(* number of samples, losses and restarts: the types, that a command is    *)
(* confirmed only by the state it asked for, that what the controller      *)
(* reports was true since it connected, and that the two agree whenever    *)
(* everything has come to rest.                                            *)
(*                                                                         *)
(* The argument is about every message on its way: it carries an           *)
(* identifier its process has given out, and if that is the last one given *)
(* out then it says what is desired now, and a report of it says what the  *)
(* relay has been since.  Identifiers only grow within a process, so an    *)
(* action that gives out a new one has no message to check.  For the rest  *)
(* it is about the last request: while the controller is not right, it is  *)
(* about to ask, or that request or its answer is on its way and says what *)
(* the relay will be once the commands behind it are executed.             *)
(***************************************************************************)
EXTENDS StateSync, SequenceTheorems, TLAPS

Expecting == pc = "command" \/ awaiting # 0

Sound(m) ==
    /\ m.kind \in {"command", "feedback"} => m.says \in States
    /\ m.run <= run
    /\ m.run = run =>
         /\ m.of = "command" => m.id <= commands
         /\ m.of = "command" /\ m.id = commands => m.says = desired
         /\ m.of = "query" => m.id <= queries
         /\ m.kind = "feedback" /\ m.of = "query" /\ m.id = queries
            => m.says \in seen
         /\ m.kind = "feedback" /\ m.of = "command" /\ m.id = commands
              /\ Expecting
            => m.says \in seen

Fine == {m \in Message : Sound(m)}

ForDevice == {m \in Fine : m.of = m.kind \/ m.of = "nothing"}

OnTheWay ==
    /\ up \in Seq(ForDevice) /\ devBox \in Seq(ForDevice)
    /\ down \in Seq(Fine) /\ inbox \in Seq(Fine)
    /\ devOut \in Seq(Fine) /\ retained \in Seq(Fine)

SyncInv == /\ TypeOK
           /\ OnTheWay
           /\ awaiting \in {0, commands}
           /\ ReportedWasTrue
-----------------------------------------------------------------------------
(* Sequences over a set.                                                   *)

LEMMA Larger ==
  ASSUME NEW S, NEW T, S \subseteq T
  PROVE  Seq(S) \subseteq Seq(T)
  OBVIOUS

LEMMA Longer ==
  ASSUME NEW S, NEW s \in Seq(S), NEW e \in S
  PROVE  Append(s, e) \in Seq(S)
  OBVIOUS

LEMMA Shorter ==
  ASSUME NEW S, NEW s \in Seq(S), s # <<>>
  PROVE  Head(s) \in S /\ Tail(s) \in Seq(S)
  OBVIOUS

LEMMA Joined ==
  ASSUME NEW S, NEW s \in Seq(S), NEW t \in Seq(S)
  PROVE  s \o t \in Seq(S)
  OBVIOUS

LEMMA Cut ==
  ASSUME NEW S, NEW s \in Seq(S), NEW n \in 0..Len(s)
  PROVE  SubSeq(s, 1, n) \in Seq(S)
  OBVIOUS

LEMMA None ==
  ASSUME NEW S
  PROVE  <<>> \in Seq(S)
  OBVIOUS
-----------------------------------------------------------------------------
(* What the controller's own steps may do to the counters: every message   *)
(* stays fine when an identifier is new or nothing about it changes.       *)
LEMMA FineGrows ==
  ASSUME TypeOK, run' = run,
         commands' \in {commands, commands + 1},
         queries' \in {queries, queries + 1},
         commands' = commands => desired' = desired,
         queries' = queries => seen \subseteq seen',
         commands' = commands /\ Expecting' => Expecting /\ seen \subseteq seen'
  PROVE  Fine \subseteq Fine' /\ ForDevice \subseteq ForDevice'
<1>1. ASSUME NEW m \in Message, Sound(m) PROVE Sound(m)'
  <2>1. /\ m.id \in Nat /\ m.run \in Nat
        /\ commands \in Nat /\ queries \in Nat /\ run \in Nat
    BY DEF TypeOK, Message
  <2>2. m.run = run' /\ m.of = "command" => m.id <= commands'
    BY <1>1, <2>1 DEF Sound
  <2>3. m.run = run' /\ m.of = "command" /\ m.id = commands' => m.says = desired'
    BY <1>1, <2>1 DEF Sound
  <2>4. m.run = run' /\ m.of = "query" => m.id <= queries'
    BY <1>1, <2>1 DEF Sound
  <2>5. m.run = run' /\ m.kind = "feedback" /\ m.of = "query" /\ m.id = queries'
        => m.says \in seen'
    BY <1>1, <2>1 DEF Sound
  <2>6. m.run = run' /\ m.kind = "feedback" /\ m.of = "command"
          /\ m.id = commands' /\ Expecting'
        => m.says \in seen'
    BY <1>1, <2>1 DEF Sound
  <2> QED
    BY <1>1, <2>2, <2>3, <2>4, <2>5, <2>6 DEF Sound
<1> QED
  BY <1>1 DEF Fine, ForDevice

(* A new process has asked for nothing yet.                                *)
LEMMA FineRestarts ==
  ASSUME TypeOK, run' = run + 1
  PROVE  Fine \subseteq Fine' /\ ForDevice \subseteq ForDevice'
<1>1. ASSUME NEW m \in Message, Sound(m) PROVE Sound(m)'
  BY <1>1 DEF Sound, TypeOK, Message
<1> QED
  BY <1>1 DEF Fine, ForDevice

LEMMA NotesAreFine ==
  ASSUME TypeOK, NEW k \in {"puback", "connected", "disconnected"}
  PROVE  Note(k) \in ForDevice /\ Note(k) \in Fine
  BY DEF Note, Plain, Fine, ForDevice, Sound, Message, TypeOK

LEMMA SamplesAreFine ==
  ASSUME TypeOK, NEW t \in Temperatures
  PROVE  Sample(t) \in Fine
  BY DEF Plain, Sample, Fine, Sound, Message, TypeOK

(* What is believed may change only with what has been seen.               *)
LEMMA AnswersAreFine ==
  ASSUME TypeOK, NEW m \in ForDevice, NEW on \in States,
         m.kind = "command" => on = m.says,
         run' = run, commands' = commands, queries' = queries,
         desired' = desired, pc' = pc, awaiting' = awaiting,
         seen' = seen \cup {on}
  PROVE  Answer(m, on) \in Fine'
<1>1. m \in Message /\ Sound(m) /\ (m.of = m.kind \/ m.of = "nothing")
  BY DEF Fine, ForDevice
<1> DEFINE a == Answer(m, on)
<1>2. /\ a.kind = "feedback" /\ a.says = on
      /\ a.of = m.of /\ a.id = m.id /\ a.run = m.run
      /\ a \in Message
  BY <1>1 DEF Message, Answer
<1>3. Sound(a)'
  BY <1>1, <1>2 DEF Sound
<1> QED
  BY <1>2, <1>3 DEF Fine
-----------------------------------------------------------------------------
(* What is on its way stays fine when no action adds to it.                *)
LEMMA Carried ==
  ASSUME OnTheWay, Fine \subseteq Fine', ForDevice \subseteq ForDevice'
  PROVE  /\ up \in Seq(ForDevice') /\ devBox \in Seq(ForDevice')
         /\ down \in Seq(Fine') /\ inbox \in Seq(Fine')
         /\ devOut \in Seq(Fine') /\ retained \in Seq(Fine')
  BY Larger DEF OnTheWay

LEMMA Typed ==
  ASSUME OnTheWay'
  PROVE  /\ up' \in Seq(Message) /\ devBox' \in Seq(Message)
         /\ down' \in Seq(Message) /\ inbox' \in Seq(Message)
         /\ devOut' \in Seq(Message) /\ retained' \in Seq(Message)
<1>1. ForDevice' \subseteq Message /\ Fine' \subseteq Message
  BY DEF ForDevice, Fine
<1> QED
  BY <1>1, Larger DEF OnTheWay

(* Steps that leave the counters, the target and the expectation alone.    *)
LEMMA FineStays ==
  ASSUME TypeOK, UNCHANGED <<run, commands, queries, desired, pc, awaiting>>,
         seen \subseteq seen'
  PROVE  Fine \subseteq Fine' /\ ForDevice \subseteq ForDevice'
<1>1. Expecting' = Expecting
  BY DEF Expecting
<1> QED
  BY <1>1, FineGrows

LEMMA ConnectionEvents ==
  ASSUME SyncInv, ControllerConnects
  PROVE  SyncInv'
<1> USE DEF ControllerConnects, brokerVars, deviceVars, outputVars
<1>1. TypeOK /\ OnTheWay
  BY DEF SyncInv
<1>2. Expecting' = Expecting
  BY <1>1 DEF Expecting, TypeOK
<1>3. Fine \subseteq Fine' /\ ForDevice \subseteq ForDevice'
  BY <1>1, <1>2, FineGrows
<1>4. OnTheWay'
  <2>1. Note("connected") \in Fine'
    BY <1>1, <1>3, NotesAreFine
  <2> QED
    BY <1>1, <1>3, <2>1, Carried, Longer DEF OnTheWay
<1>5. TypeOK'
  BY <1>1, <1>4, Typed DEF TypeOK
<1> QED
  BY <1>4, <1>5 DEF SyncInv, ReportedWasTrue

LEMMA ConnectedHandled ==
  ASSUME SyncInv, HandleConnected
  PROVE  SyncInv'
<1> USE DEF HandleConnected, NextEvent, Ask, QueryDevice, Prints, linkVars,
            brokerVars, deviceVars
<1>1. TypeOK /\ OnTheWay
  BY DEF SyncInv
<1>2. Fine \subseteq Fine' /\ ForDevice \subseteq ForDevice'
  <2>1. ~Expecting' /\ queries' # queries
    BY <1>1 DEF Expecting, TypeOK
  <2> QED
    BY <1>1, <2>1, FineGrows
<1>3. OnTheWay'
  BY <1>1, <1>2, Carried, Shorter DEF OnTheWay
<1>4. TypeOK'
  BY <1>1, <1>3, Typed DEF TypeOK
<1> QED
  BY <1>1, <1>3, <1>4 DEF SyncInv, ReportedWasTrue

LEMMA DisconnectedHandled ==
  ASSUME SyncInv, HandleDisconnected
  PROVE  SyncInv'
<1> USE DEF HandleDisconnected, NextEvent, Prints, linkVars, brokerVars,
            deviceVars
<1>1. TypeOK /\ OnTheWay
  BY DEF SyncInv
<1>2. Fine \subseteq Fine' /\ ForDevice \subseteq ForDevice'
  BY <1>1, FineGrows DEF Expecting
<1>3. OnTheWay'
  BY <1>1, <1>2, Carried, Shorter DEF OnTheWay
<1>4. TypeOK'
  BY <1>1, <1>3, Typed DEF TypeOK
<1> QED
  BY <1>1, <1>3, <1>4 DEF SyncInv, ReportedWasTrue

LEMMA SampleHandled ==
  ASSUME SyncInv, HandleTemperature
  PROVE  SyncInv'
<1> USE DEF HandleTemperature, NextEvent, QueryDevice, SendTarget, NoRequest,
            Prints, linkVars, brokerVars, deviceVars
<1>1. TypeOK /\ OnTheWay /\ awaiting \in {0, commands}
  BY DEF SyncInv
<1>2. /\ desired' \in States /\ pc' \in {"idle", "command", "query"}
      /\ commands' \in {commands, commands + 1}
      /\ queries' \in {queries, queries + 1}
      /\ commands' = commands => desired' = desired /\ pc' # "command"
      /\ awaiting \in {0, commands'}
  BY <1>1 DEF TypeOK
<1>3. Fine \subseteq Fine' /\ ForDevice \subseteq ForDevice'
  <2>1. commands' = commands /\ Expecting' => Expecting
    BY <1>1, <1>2 DEF Expecting
  <2> QED
    BY <1>1, <1>2, <2>1, FineGrows
<1>4. OnTheWay'
  BY <1>1, <1>3, Carried, Shorter DEF OnTheWay
<1>5. TypeOK'
  BY <1>1, <1>2, <1>4, Typed DEF TypeOK
<1> QED
  BY <1>1, <1>2, <1>4, <1>5 DEF SyncInv, ReportedWasTrue

(* A report is believed only if it is the answer to what was asked last,   *)
(* and such a report says what the relay has been.                         *)
LEMMA FeedbackApplied ==
  ASSUME SyncInv, ApplyFeedback
  PROVE  SyncInv'
<1> DEFINE fb == Head(inbox)
           believed == MatchesQuery(fb) \/ MatchesAwaiting(fb)
<1> USE DEF ApplyFeedback, NextEvent, SendTarget, NoRequest, Repair, Prints,
            linkVars, brokerVars, deviceVars
<1>1. TypeOK /\ OnTheWay /\ awaiting \in {0, commands} /\ ReportedWasTrue
  BY DEF SyncInv
<1>2. fb \in Fine /\ fb.kind = "feedback" /\ Tail(inbox) \in Seq(Fine)
  BY <1>1, Shorter DEF OnTheWay
<1>3. fb \in Message /\ Sound(fb)
  BY <1>2 DEF Fine
<1>4. /\ pc' \in {"idle", "command"} /\ pc = "idle"
      /\ commands' \in {commands, commands + 1}
      /\ commands' = commands => pc' # "command"
      /\ awaiting' \in {0, awaiting}
      /\ commands' # commands => awaiting' = 0
      /\ UNCHANGED <<run, queries, desired, seen>>
  BY <1>1 DEF TypeOK
<1>5. Fine \subseteq Fine' /\ ForDevice \subseteq ForDevice'
  <2>1. commands' = commands /\ Expecting' => Expecting
    BY <1>4 DEF Expecting
  <2> QED
    BY <1>1, <1>4, <2>1, FineGrows
<1>6. OnTheWay'
  BY <1>1, <1>2, <1>5, Carried, Shorter DEF OnTheWay
<1>7. CASE believed
  <2>1. reported' = fb.says /\ fb.says \in States
    BY <1>2, <1>3, <1>7 DEF Sound
  <2>2. past' = IF fb.run = run THEN past ELSE past \cup {"misled"}
    BY <1>7
  <2>3. fb.run = run => fb.says \in seen
    BY <1>1, <1>2, <1>3, <1>7
       DEF Sound, MatchesQuery, MatchesAwaiting, Expecting
  <2>4. ReportedWasTrue'
    BY <1>4, <2>1, <2>2, <2>3 DEF ReportedWasTrue
  <2>5. TypeOK'
    BY <1>1, <1>4, <1>6, <2>1, <2>2, Typed DEF TypeOK
  <2> QED
    BY <1>1, <1>4, <1>6, <2>4, <2>5 DEF SyncInv
<1>8. CASE ~believed
  <2>1. UNCHANGED <<pc, commands, queries, reported, awaiting, past>>
    BY <1>8
  <2>2. TypeOK'
    BY <1>1, <1>4, <1>6, <2>1, Typed DEF TypeOK
  <2> QED
    BY <1>1, <1>4, <1>6, <2>1, <2>2 DEF SyncInv, ReportedWasTrue
<1> QED
  BY <1>7, <1>8

LEMMA PublishBegins ==
  ASSUME SyncInv, PublishStarts
  PROVE  SyncInv'
<1> USE DEF PublishStarts, brokerVars, deviceVars, outputVars
<1>1. TypeOK /\ OnTheWay
  BY DEF SyncInv
<1>2. Fine \subseteq Fine' /\ ForDevice \subseteq ForDevice'
  BY <1>1, FineStays
<1>3. Request \in ForDevice
  BY <1>1 DEF Request, ForDevice, Fine, Sound, Message, TypeOK
<1>4. OnTheWay'
  <2>1. CASE link
    BY <1>1, <1>2, <1>3, <2>1, Carried, Longer DEF OnTheWay
  <2>2. CASE ~link
    BY <1>1, <1>2, <2>2, Carried DEF OnTheWay
  <2> QED
    BY <2>1, <2>2
<1>5. TypeOK'
  BY <1>1, <1>4, Typed DEF TypeOK
<1> QED
  BY <1>4, <1>5 DEF SyncInv, ReportedWasTrue

LEMMA PublishReturns ==
  ASSUME SyncInv, PublishEnds
  PROVE  SyncInv'
<1> USE DEF PublishEnds, CommandEnds, QueryEnds, QueryDevice, Prints,
            linkVars, brokerVars, deviceVars
<1>1. TypeOK /\ OnTheWay /\ awaiting \in {0, commands}
  BY DEF SyncInv
<1>2. /\ commands' = commands /\ queries' \in {queries, queries + 1}
      /\ pc' \in {"idle", "query"} /\ pc \in {"command", "query"}
      /\ awaiting' \in {0, commands}
      /\ pc = "query" => awaiting' = awaiting
      /\ UNCHANGED <<run, desired, reported, seen, past>>
  BY <1>1 DEF TypeOK
<1>3. Fine \subseteq Fine' /\ ForDevice \subseteq ForDevice'
  <2>1. Expecting' => Expecting
    BY <1>1, <1>2 DEF Expecting
  <2> QED
    BY <1>1, <1>2, <2>1, FineGrows
<1>4. OnTheWay'
  BY <1>1, <1>3, Carried DEF OnTheWay
<1>5. TypeOK'
  BY <1>1, <1>2, <1>4, Typed DEF TypeOK
<1> QED
  BY <1>1, <1>2, <1>4, <1>5 DEF SyncInv, ReportedWasTrue

LEMMA PacketRead ==
  ASSUME SyncInv, ReaderTakes
  PROVE  SyncInv'
<1> USE DEF ReaderTakes, brokerVars, deviceVars, outputVars
<1>1. TypeOK /\ OnTheWay
  BY DEF SyncInv
<1>2. Fine \subseteq Fine' /\ ForDevice \subseteq ForDevice'
  BY <1>1, FineStays
<1>3. Head(down) \in Fine' /\ Tail(down) \in Seq(Fine')
  BY <1>1, <1>2, Carried, Shorter
<1>4. OnTheWay'
  <2>1. inbox' \in Seq(Fine')
    BY <1>1, <1>2, <1>3, Carried, Longer
  <2> QED
    BY <1>1, <1>2, <1>3, <2>1, Carried DEF OnTheWay
<1>5. TypeOK'
  BY <1>1, <1>4, Typed DEF TypeOK
<1> QED
  BY <1>1, <1>4, <1>5 DEF SyncInv, ReportedWasTrue

(* LoseLink in any of its three causes.                                    *)
LEMMA LinkLost ==
  ASSUME TypeOK, OnTheWay, LoseLink, Fine \subseteq Fine',
         ForDevice \subseteq ForDevice'
  PROVE  /\ up' \in Seq(ForDevice') /\ down' \in Seq(Fine')
         /\ inbox' \in Seq(Fine')
         /\ outcome' \in {"none", "pending", "sent", "unknown", "not_sent"}
         /\ link' \in BOOLEAN
<1>1. Note("disconnected") \in Fine'
  BY NotesAreFine
<1>2. inbox' \in Seq(Fine')
  BY <1>1, Carried, Longer DEF LoseLink
<1>3. up' \in Seq(ForDevice') /\ down' \in Seq(Fine')
  BY None DEF LoseLink
<1>4. outcome' \in {"none", "pending", "sent", "unknown", "not_sent"}
  BY DEF LoseLink, TypeOK
<1> QED
  BY <1>2, <1>3, <1>4 DEF LoseLink

LEMMA ControllerLoses ==
  ASSUME SyncInv, ControllerLinkLost \/ ProxyDrops
  PROVE  SyncInv'
<1> USE DEF ControllerLinkLost, ProxyDrops, brokerVars, deviceVars, outputVars
<1>1. TypeOK /\ OnTheWay
  BY DEF SyncInv
<1>2. Fine \subseteq Fine' /\ ForDevice \subseteq ForDevice'
  BY <1>1, FineStays
<1>3. OnTheWay'
  BY <1>1, <1>2, LinkLost, Carried DEF OnTheWay
<1>4. TypeOK'
  BY <1>1, <1>2, <1>3, LinkLost, Typed DEF TypeOK
<1> QED
  BY <1>1, <1>3, <1>4 DEF SyncInv, ReportedWasTrue

LEMMA QuietSteps ==
  ASSUME SyncInv, ProxyArmed \/ BrokerStarts
  PROVE  SyncInv'
<1> USE DEF ProxyArmed, BrokerStarts, controllerVars, linkVars, brokerVars,
            deviceVars, outputVars
<1>1. TypeOK /\ OnTheWay
  BY DEF SyncInv
<1>2. Fine \subseteq Fine' /\ ForDevice \subseteq ForDevice'
  BY <1>1, FineStays
<1>3. OnTheWay'
  BY <1>1, <1>2, Carried DEF OnTheWay
<1>4. TypeOK'
  <2>1. /\ up' \in Seq(Message) /\ devBox' \in Seq(Message)
        /\ down' \in Seq(Message) /\ inbox' \in Seq(Message)
        /\ devOut' \in Seq(Message) /\ retained' \in Seq(Message)
    BY <1>3, Typed
  <2>2. /\ broker' \in {"up", "down"} /\ proxy' \in {"open", "armed", "dropped"}
        /\ past' \subseteq {"missed", "misled"} /\ watched' \in BOOLEAN
    BY <1>1 DEF TypeOK
  <2> QED BY <1>1, <2>1, <2>2 DEF TypeOK
<1> QED
  BY <1>1, <1>3, <1>4 DEF SyncInv, ReportedWasTrue

LEMMA Restarted ==
  ASSUME SyncInv, ControllerRestarts
  PROVE  SyncInv'
<1> USE DEF ControllerRestarts, brokerVars, deviceVars
<1>1. TypeOK /\ OnTheWay
  BY DEF SyncInv
<1>2. Fine \subseteq Fine' /\ ForDevice \subseteq ForDevice'
  BY <1>1, FineRestarts
<1>3. OnTheWay'
  BY <1>1, <1>2, Carried, None DEF OnTheWay
<1>4. TypeOK'
  <2>1. UNCHANGED <<proxy, broker, devLink, relay, watched, seen, past>>
    OBVIOUS
  <2>2. run' \in Nat
    <3>1. run \in Nat
      BY <1>1 DEF TypeOK
    <3>2. run' = run + 1
      OBVIOUS
    <3> QED
      BY <3>1, <3>2
  <2>3. /\ pc' = "off" /\ outcome' = "none" /\ reported' = "unknown"
        /\ awaiting' = 0 /\ commands' = 0 /\ queries' = 0
    OBVIOUS
  <2>4. desired' \in States
    <3>1. desired' = "OFF"
      OBVIOUS
    <3> QED
      BY <3>1 DEF States
  <2>5. link' \in BOOLEAN
    OBVIOUS
  <2> HIDE DEF ControllerRestarts
  <2> QED
    BY <1>1, <1>3, <2>1, <2>2, <2>3, <2>4, <2>5, Typed DEF TypeOK
<1> QED
  BY <1>1, <1>3, <1>4 DEF SyncInv, ReportedWasTrue
-----------------------------------------------------------------------------
LEMMA BrokerSteps ==
  ASSUME SyncInv, BrokerTakes \/ BrokerTakesFeedback
  PROVE  SyncInv'
<1> USE DEF BrokerTakes, BrokerTakesFeedback, controllerVars, linkVars,
            brokerVars, deviceVars, outputVars
<1>1. TypeOK /\ OnTheWay /\ awaiting \in {0, commands} /\ ReportedWasTrue
  BY DEF SyncInv
<1>2. UNCHANGED <<run, controllerVars, seen>>
  OBVIOUS
<1>3. Fine \subseteq Fine' /\ ForDevice \subseteq ForDevice'
  BY <1>1, <1>2, FineStays
<1>4. OnTheWay'
  <2>1. CASE BrokerTakes
    <3>1. Head(up) \in ForDevice' /\ Tail(up) \in Seq(ForDevice')
      BY <1>1, <1>3, <2>1, Carried, Shorter
    <3>2. devBox' \in Seq(ForDevice')
      BY <1>1, <1>3, <2>1, <3>1, Carried, Longer
    <3>3. down' \in Seq(Fine')
      BY <1>1, <1>3, <2>1, NotesAreFine, Carried, Longer
    <3> QED
      BY <1>1, <1>3, <2>1, <3>1, <3>2, <3>3, Carried DEF OnTheWay
  <2>2. CASE BrokerTakesFeedback
    BY <1>1, <1>3, <2>2, Carried, Joined, None DEF OnTheWay
  <2> QED
    BY <2>1, <2>2
<1>5. past \subseteq past' /\ past' \subseteq {"missed", "misled"}
  BY <1>1 DEF TypeOK
<1>6. TypeOK'
  BY <1>1, <1>2, <1>4, <1>5, Typed DEF TypeOK
<1> QED
  BY <1>1, <1>2, <1>4, <1>5, <1>6 DEF SyncInv, ReportedWasTrue

LEMMA SampleSent ==
  ASSUME SyncInv, NEW t \in Temperatures, SampleArrives(t)
  PROVE  SyncInv'
<1> USE DEF SampleArrives, controllerVars, brokerVars, deviceVars, outputVars
<1>1. TypeOK /\ OnTheWay
  BY DEF SyncInv
<1>2. Fine \subseteq Fine' /\ ForDevice \subseteq ForDevice'
  BY <1>1, FineStays
<1>3. OnTheWay'
  BY <1>1, <1>2, SamplesAreFine, Carried, Longer DEF OnTheWay
<1>4. TypeOK'
  BY <1>1, <1>3, Typed DEF TypeOK
<1> QED
  BY <1>1, <1>3, <1>4 DEF SyncInv, ReportedWasTrue

LEMMA DeviceLost ==
  ASSUME TypeOK, OnTheWay, LoseDevice, Fine \subseteq Fine',
         ForDevice \subseteq ForDevice'
  PROVE  /\ devBox' \in Seq(ForDevice') /\ devOut' \in Seq(Fine')
         /\ devLink' \in BOOLEAN /\ relay' = relay
         /\ past \subseteq past' /\ past' \subseteq {"missed", "misled"}
<1>1. devBox' \in Seq(ForDevice')
  BY Carried, Cut DEF LoseDevice
<1>2. past \subseteq past' /\ past' \subseteq {"missed", "misled"}
  BY DEF LoseDevice, TypeOK
<1> QED
  BY <1>1, <1>2, None DEF LoseDevice

LEMMA DeviceLoses ==
  ASSUME SyncInv, DeviceLinkLost
  PROVE  SyncInv'
<1> USE DEF DeviceLinkLost, controllerVars, linkVars, brokerVars, outputVars
<1>1. TypeOK /\ OnTheWay /\ ReportedWasTrue
  BY DEF SyncInv
<1>2. Fine \subseteq Fine' /\ ForDevice \subseteq ForDevice'
  BY <1>1, FineStays
<1>3. OnTheWay'
  BY <1>1, <1>2, DeviceLost, Carried DEF OnTheWay
<1>4. TypeOK'
  BY <1>1, <1>2, <1>3, DeviceLost, Typed DEF TypeOK
<1>5. past \subseteq past'
  BY <1>1, <1>2, DeviceLost
<1> QED
  BY <1>1, <1>3, <1>4, <1>5 DEF SyncInv, ReportedWasTrue

LEMMA BrokerLost ==
  ASSUME SyncInv, BrokerStops
  PROVE  SyncInv'
<1> USE DEF BrokerStops, outputVars
<1>1. TypeOK /\ OnTheWay /\ awaiting \in {0, commands} /\ ReportedWasTrue
  BY DEF SyncInv
<1>2. Fine \subseteq Fine' /\ ForDevice \subseteq ForDevice'
  BY <1>1, FineStays
<1>3. /\ devBox' \in Seq(ForDevice') /\ devOut' \in Seq(Fine')
      /\ devLink' \in BOOLEAN /\ relay' = relay
      /\ past \subseteq past' /\ past' \subseteq {"missed", "misled"}
  <2>1. CASE devLink
    BY <1>1, <1>2, <2>1, DeviceLost
  <2>2. CASE ~devLink
    BY <1>1, <1>2, <2>2, Carried DEF deviceVars, TypeOK
  <2> QED
    BY <2>1, <2>2
<1>4. OnTheWay'
  BY <1>1, <1>2, <1>3, LinkLost, None DEF OnTheWay
<1>5. TypeOK'
  BY <1>1, <1>2, <1>3, <1>4, LinkLost, Typed DEF TypeOK
<1> QED
  BY <1>1, <1>3, <1>4, <1>5 DEF SyncInv, ReportedWasTrue
-----------------------------------------------------------------------------
LEMMA DeviceAnswers ==
  ASSUME SyncInv, DeviceHandles
  PROVE  SyncInv'
<1> DEFINE m == Head(devBox)
           on == IF m.kind = "command" THEN m.says ELSE relay
<1> USE DEF DeviceHandles, controllerVars, linkVars, brokerVars, outputVars
<1>1. TypeOK /\ OnTheWay /\ awaiting \in {0, commands} /\ ReportedWasTrue
  BY DEF SyncInv
<1>2. m \in ForDevice /\ Tail(devBox) \in Seq(ForDevice)
  BY <1>1, Shorter DEF OnTheWay
<1>3. on \in States
  BY <1>1, <1>2 DEF ForDevice, Fine, Sound, TypeOK
<1>4. /\ relay' = on /\ seen' = seen \cup {on} /\ devBox' = Tail(devBox)
      /\ UNCHANGED <<run, controllerVars, inbox, linkVars, brokerVars,
                     devLink, outputVars>>
      /\ devOut' \in {devOut, <<Answer(m, on)>>}
      /\ past' \in {past, past \cup {"missed"}}
  OBVIOUS
<1> HIDE DEF m, on, DeviceHandles
<1>5. Fine \subseteq Fine' /\ ForDevice \subseteq ForDevice'
  BY <1>1, <1>4, FineStays
<1>6. Answer(m, on) \in Fine'
  BY <1>1, <1>2, <1>3, <1>4, AnswersAreFine DEF on
<1>7. devOut' \in Seq(Fine')
  <2>1. <<Answer(m, on)>> \in Seq(Fine')
    BY <1>6
  <2>2. devOut \in Seq(Fine')
    BY <1>1, <1>5, Carried
  <2> QED
    BY <1>4, <2>1, <2>2
<1>8. OnTheWay'
  <2>1. devBox' \in Seq(ForDevice')
    BY <1>2, <1>4, <1>5, Larger
  <2> QED
    BY <1>1, <1>4, <1>5, <1>7, <2>1, Carried DEF OnTheWay
<1>9. TypeOK'
  BY <1>1, <1>3, <1>4, <1>8, Typed DEF TypeOK
<1> QED
  BY <1>1, <1>4, <1>8, <1>9 DEF SyncInv, ReportedWasTrue

LEMMA DeviceReturns ==
  ASSUME SyncInv, DeviceReconnects \/ DeviceReboots
  PROVE  SyncInv'
<1> USE DEF DeviceReconnects, DeviceReboots, controllerVars, linkVars,
            brokerVars, outputVars
<1>1. TypeOK /\ OnTheWay /\ awaiting \in {0, commands} /\ ReportedWasTrue
  BY DEF SyncInv
<1>2. /\ UNCHANGED <<run, controllerVars, inbox, linkVars, brokerVars,
                     outputVars>>
      /\ seen \subseteq seen' /\ past \subseteq past'
      /\ seen' \subseteq States /\ past' \subseteq {"missed", "misled"}
      /\ relay' \in States /\ devLink' \in BOOLEAN
  BY <1>1 DEF TypeOK, States
<1>3. Fine \subseteq Fine' /\ ForDevice \subseteq ForDevice'
  BY <1>1, <1>2, FineStays
<1>4. devBox' \in Seq(ForDevice')
  <2>1. CASE DeviceReconnects
    BY <1>1, <1>3, <2>1, NotesAreFine, Carried, Longer
  <2>2. CASE DeviceReboots
    BY <2>2, None
  <2> QED
    BY <2>1, <2>2
<1>5. devOut' \in Seq(Fine')
  BY <1>1, <1>3, Carried, None
<1>6. OnTheWay'
  BY <1>1, <1>2, <1>3, <1>4, <1>5, Carried DEF OnTheWay
<1>7. TypeOK'
  BY <1>1, <1>2, <1>6, Typed DEF TypeOK
<1> QED
  BY <1>1, <1>2, <1>6, <1>7 DEF SyncInv, ReportedWasTrue
-----------------------------------------------------------------------------
LEMMA SyncInit == Init => SyncInv
<1> SUFFICES ASSUME Init PROVE SyncInv
  OBVIOUS
<1>1. Unsolicited("OFF") \in Message /\ Sound(Unsolicited("OFF"))
  BY DEF Init, Unsolicited, Plain, Message, Sound, States
<1>2. retained \in Seq(Fine) /\ retained \in Seq(Message)
  <2>1. Unsolicited("OFF") \in Fine
    BY <1>1 DEF Fine
  <2> QED
    BY <1>1, <2>1 DEF Init
<1>3. OnTheWay
  BY <1>2, None DEF Init, OnTheWay
<1>4. TypeOK
  BY <1>2, None DEF Init, TypeOK, States
<1> QED
  BY <1>3, <1>4 DEF SyncInv, ReportedWasTrue, Init

LEMMA SyncStep == SyncInv /\ [Next]_vars => SyncInv'
<1> SUFFICES ASSUME SyncInv, [Next]_vars PROVE SyncInv'
  OBVIOUS
<1>1. CASE Controller
  BY <1>1, ConnectionEvents, ConnectedHandled, DisconnectedHandled,
     SampleHandled, FeedbackApplied, PublishBegins, PublishReturns
     DEF Controller
<1>2. CASE Network
  BY <1>2, PacketRead, BrokerSteps, ControllerLoses DEF Network
<1>3. CASE Device
  BY <1>3, DeviceAnswers, DeviceReturns DEF Device
<1>4. CASE ControllerFault \/ DeviceFault
  BY <1>4, ControllerLoses, Restarted, DeviceLoses, DeviceReturns
     DEF ControllerFault, DeviceFault
<1>5. CASE BrokerStops \/ BrokerStarts \/ ProxyArmed
  BY <1>5, BrokerLost, QuietSteps
<1>6. CASE \E t \in Temperatures : SampleArrives(t)
  BY <1>6, SampleSent
<1>7. CASE UNCHANGED vars
  <2>1. /\ UNCHANGED <<run, inbox, seen, past, pc, outcome, desired, reported>>
        /\ UNCHANGED <<awaiting, commands, queries, link, up, down, proxy>>
        /\ UNCHANGED <<broker, retained, devLink, devBox, devOut, relay>>
        /\ UNCHANGED watched
    BY <1>7 DEF vars, controllerVars, linkVars, brokerVars, deviceVars,
                outputVars
  <2>2. TypeOK /\ OnTheWay
    BY DEF SyncInv
  <2>3. Fine \subseteq Fine' /\ ForDevice \subseteq ForDevice'
    BY <2>1, <2>2, FineStays
  <2>4. OnTheWay'
    BY <2>1, <2>2, <2>3, Carried DEF OnTheWay
  <2>5. TypeOK'
    BY <2>1, <2>2 DEF TypeOK
  <2> QED
    BY <2>1, <2>2, <2>4, <2>5 DEF SyncInv, ReportedWasTrue
<1> QED
  BY <1>1, <1>2, <1>3, <1>4, <1>5, <1>6, <1>7 DEF Next

(* Nothing on its way to the controller or the device carries an           *)
(* identifier that was not given out, or an outdated last word.            *)
THEOREM SyncInvariant == Spec => []SyncInv
<1> QED
  BY SyncInit, SyncStep, PTL DEF Spec

(* Every variable stays in its domain.                                     *)
THEOREM SyncTypes == Spec => []TypeOK
<1>1. SyncInv => TypeOK
  BY DEF SyncInv
<1> QED
  BY <1>1, SyncInvariant, PTL

(* What ControllerState.reported says was true at some time since the      *)
(* controller last connected, unless it believed the answer to another     *)
(* process.                                                                *)
THEOREM ReportsWereTrue == Spec => []ReportedWasTrue
<1>1. SyncInv => ReportedWasTrue
  BY DEF SyncInv
<1> QED
  BY <1>1, SyncInvariant, PTL

(* apply_feedback confirms a command only with the state it asked for,     *)
(* whatever was lost, superseded or asked again in between.                *)
THEOREM ConfirmationsAreTrue == Spec => []ConfirmedMeansTarget
<1>1. SyncInv => ConfirmedMeansTarget
  <2> SUFFICES ASSUME SyncInv, inbox # <<>>, MatchesAwaiting(Head(inbox)),
                      Head(inbox).run = run
               PROVE  Head(inbox).says = desired
    BY DEF ConfirmedMeansTarget
  <2>1. Head(inbox) \in Fine
    BY Shorter DEF SyncInv, OnTheWay
  <2> QED
    BY <2>1 DEF SyncInv, Fine, Sound, MatchesAwaiting
<1> QED
  BY <1>1, SyncInvariant, PTL
-----------------------------------------------------------------------------
(* What will be when everything has come to rest.                          *)

(* No command in s.                                                        *)
Idle(s) == \A i \in DOMAIN s : s[i].kind # "command"

(* Nothing is commanded behind position i of s.                            *)
LastSaid(s, i) == \A j \in DOMAIN s : i < j => s[j].kind # "command"

(* The last command of s is to be x.                                       *)
Commanded(s, x) ==
    \E i \in DOMAIN s : s[i].kind = "command" /\ s[i].says = x /\ LastSaid(s, i)

(* The relay will be x once every command on its way is executed.          *)
Will(x) ==
    \/ Commanded(up, x)
    \/ Idle(up) /\ Commanded(devBox, x)
    \/ Idle(up) /\ Idle(devBox) /\ relay = x

Correlates(m, of, id, r) == m.of = of /\ m.id = id /\ m.run = r

(* This request is in s, and nothing is commanded after it.                *)
Asked(s, of, id, r) ==
    \E i \in DOMAIN s : /\ s[i].kind = of /\ Correlates(s[i], of, id, r)
                        /\ LastSaid(s, i)

(* An answer to it is in s, and says x.                                    *)
Said(s, of, id, r, x) ==
    \E i \in DOMAIN s : /\ s[i].kind = "feedback" /\ s[i].says = x
                        /\ Correlates(s[i], of, id, r)

(* The request of this process will reach the device and be answered with  *)
(* what will be, or that answer is on its way.                             *)
Coming(of, id) ==
    \/ Asked(up, of, id, run)
    \/ Idle(up) /\ Asked(devBox, of, id, run)
    \/ \E x \in States :
          /\ Will(x)
          /\ \/ Said(devOut, of, id, run, x) \/ Said(down, of, id, run, x)
             \/ Said(inbox, of, id, run, x)

Told(s, kind) == \E i \in DOMAIN s : s[i].kind = kind

(* The controller is to connect, or to be told that it did.                *)
Reconnecting == ~link \/ Told(inbox, "connected")

Single(s, k) == \A i, j \in DOMAIN s : s[i].kind = k /\ s[j].kind = k => i = j

Reports(s) == \A i \in DOMAIN s : s[i].kind = "feedback"

(* One publish at a time: it or its PUBACK is on the way while the         *)
(* controller waits.                                                       *)
Flight ==
    /\ up # <<>> \/ Told(down, "puback") => outcome = "pending"
    /\ up # <<>> => Len(up) = 1 /\ ~Told(down, "puback")
    /\ Single(down, "puback")
    /\ outcome # "none" => pc \in {"command", "query"}
    /\ pc = "command" => commands # 0
    /\ Reports(retained) /\ Reports(devOut)

(* Every report of a loss is followed by the report of a connection.       *)
Followed(s) ==
    \A i \in DOMAIN s : s[i].kind = "disconnected" =>
        \E j \in DOMAIN s : i < j /\ s[j].kind = "connected"

Notes == (link => Followed(inbox)) /\ ~Told(down, "disconnected")

(* Whatever the controller believes, it is about to ask, or the answer to  *)
(* its last request is coming and says what will be, or what it believes   *)
(* is what will be.                                                        *)
Trust ==
    \/ "missed" \in past
    \/ Reconnecting
    \/ pc \in {"command", "query"} /\ outcome = "none"
    \/ pc \in {"idle", "query"} /\ Coming("query", queries)
    \/ /\ pc = "command" /\ outcome \in {"pending", "sent"}
       /\ Coming("command", commands)
    \/ /\ pc = "idle" /\ awaiting = commands /\ awaiting # 0
       /\ Coming("command", commands)
    \/ pc = "idle" /\ awaiting = 0 /\ reported = desired /\ Will(desired)

RestInv == SyncInv /\ Flight /\ Notes /\ Trust
-----------------------------------------------------------------------------
(* Positions of a sequence that is appended to, or whose head is taken.    *)
LEMMA Appended ==
  ASSUME NEW S, NEW s \in Seq(S), NEW e \in S
  PROVE  /\ DOMAIN s = 1..Len(s) /\ Len(s) \in Nat
         /\ DOMAIN Append(s, e) = 1..Len(s) + 1
         /\ \A i \in DOMAIN s : Append(s, e)[i] = s[i]
         /\ Append(s, e)[Len(s) + 1] = e
<1>1. Len(s) \in Nat /\ DOMAIN s = 1..Len(s)
  BY LenProperties
<1>2. DOMAIN Append(s, e) = 1..Len(s) + 1
  BY AppendProperties, LenProperties
<1> QED BY <1>1, <1>2, AppendProperties

LEMMA Taken ==
  ASSUME NEW S, NEW s \in Seq(S), s # <<>>
  PROVE  /\ DOMAIN s = 1..Len(s) /\ Len(s) \in Nat /\ Len(s) >= 1
         /\ DOMAIN Tail(s) = 1..Len(s) - 1
         /\ \A i \in DOMAIN Tail(s) : Tail(s)[i] = s[i + 1]
         /\ Head(s) = s[1]
         /\ \A i \in DOMAIN s : i # 1 => i - 1 \in DOMAIN Tail(s)
                                         /\ Tail(s)[i - 1] = s[i]
<1>1. Len(s) \in Nat /\ DOMAIN s = 1..Len(s)
  BY LenProperties
<1>2. /\ Tail(s) \in Seq(S) /\ Len(Tail(s)) = Len(s) - 1 /\ Len(s) >= 1
      /\ \A i \in 1..Len(s) - 1 : Tail(s)[i] = s[i + 1]
      /\ Head(s) = s[1]
  BY HeadTailProperties, EmptySeq, LenProperties
<1>3. DOMAIN Tail(s) = 1..Len(s) - 1
  BY <1>2, LenProperties
<1>4. ASSUME NEW i \in DOMAIN s, i # 1
      PROVE  i - 1 \in DOMAIN Tail(s) /\ Tail(s)[i - 1] = s[i]
  <2>1. i - 1 \in 1..Len(s) - 1 /\ (i - 1) + 1 = i
    BY <1>1, <1>2, <1>4
  <2> QED BY <1>2, <1>3, <2>1
<1> QED BY <1>1, <1>2, <1>3, <1>4

(* The last command of a sequence that is appended to, or whose head is     *)
(* taken.                                                                  *)
LEMMA CommandAdded ==
  ASSUME NEW s \in Seq(Message), NEW e \in Message, NEW x
  PROVE  /\ e.kind = "command" => Commanded(Append(s, e), e.says)
         /\ e.kind # "command" /\ Commanded(s, x) => Commanded(Append(s, e), x)
<1>1. /\ DOMAIN s = 1..Len(s) /\ Len(s) \in Nat
      /\ DOMAIN Append(s, e) = 1..Len(s) + 1
      /\ \A i \in DOMAIN s : Append(s, e)[i] = s[i]
      /\ Append(s, e)[Len(s) + 1] = e
  BY Appended
<1>2. Len(s) + 1 \in DOMAIN Append(s, e) /\ LastSaid(Append(s, e), Len(s) + 1)
  BY <1>1 DEF LastSaid
<1>3. e.kind = "command" => Commanded(Append(s, e), e.says)
  BY <1>1, <1>2 DEF Commanded
<1>4. ASSUME e.kind # "command", NEW i \in DOMAIN s, s[i].kind = "command",
             s[i].says = x, LastSaid(s, i)
      PROVE  Commanded(Append(s, e), x)
  <2>1. \A j \in DOMAIN Append(s, e) : j \in DOMAIN s \/ j = Len(s) + 1
    BY <1>1
  <2>2. LastSaid(Append(s, e), i)
    BY <1>1, <1>4, <2>1 DEF LastSaid
  <2>3. i \in DOMAIN Append(s, e)
    BY <1>1
  <2> QED BY <1>1, <1>4, <2>2, <2>3 DEF Commanded
<1> QED BY <1>3, <1>4 DEF Commanded

LEMMA CommandTaken ==
  ASSUME NEW s \in Seq(Message), s # <<>>, NEW x, Commanded(s, x)
  PROVE  \/ Commanded(Tail(s), x)
         \/ Head(s).kind = "command" /\ Head(s).says = x /\ Idle(Tail(s))
<1>1. /\ DOMAIN s = 1..Len(s) /\ Len(s) \in Nat /\ Len(s) >= 1
      /\ DOMAIN Tail(s) = 1..Len(s) - 1
      /\ \A i \in DOMAIN Tail(s) : Tail(s)[i] = s[i + 1]
      /\ Head(s) = s[1]
      /\ \A i \in DOMAIN s : i # 1 => i - 1 \in DOMAIN Tail(s)
                                      /\ Tail(s)[i - 1] = s[i]
  BY Taken
<1>2. \A i \in DOMAIN Tail(s) : i + 1 \in DOMAIN s /\ i + 1 > 1
  BY <1>1
<1>3. PICK i \in DOMAIN s : s[i].kind = "command" /\ s[i].says = x /\ LastSaid(s, i)
  BY DEF Commanded
<1>4. CASE i = 1
  <2>1. Idle(Tail(s))
    BY <1>1, <1>2, <1>3, <1>4 DEF Idle, LastSaid
  <2> QED BY <1>1, <1>3, <1>4, <2>1
<1>5. CASE i # 1
  <2>1. i - 1 \in DOMAIN Tail(s) /\ Tail(s)[i - 1] = s[i]
    BY <1>1, <1>5
  <2>2. LastSaid(Tail(s), i - 1)
    <3>1. \A j \in DOMAIN Tail(s) : i - 1 < j => i < j + 1
      BY <1>1
    <3> QED BY <1>1, <1>2, <1>3, <3>1 DEF LastSaid
  <2> QED BY <1>3, <2>1, <2>2 DEF Commanded
<1> QED BY <1>4, <1>5

(* A request is asked of whoever it is sent to.                            *)
LEMMA AskedAppend ==
  ASSUME NEW s \in Seq(Message), NEW e \in Message, NEW of, NEW id, NEW r
  PROVE  /\ e.kind # "command" /\ Asked(s, of, id, r) => Asked(Append(s, e), of, id, r)
         /\ e.kind = of /\ Correlates(e, of, id, r) => Asked(Append(s, e), of, id, r)
<1>1. /\ DOMAIN s = 1..Len(s) /\ Len(s) \in Nat
      /\ DOMAIN Append(s, e) = 1..Len(s) + 1
      /\ \A i \in DOMAIN s : Append(s, e)[i] = s[i]
      /\ Append(s, e)[Len(s) + 1] = e
  BY Appended
<1>2. \A i \in DOMAIN Append(s, e) : i \in DOMAIN s \/ i = Len(s) + 1
  BY <1>1
<1>3. /\ DOMAIN s \subseteq DOMAIN Append(s, e)
      /\ Len(s) + 1 \in DOMAIN Append(s, e)
      /\ LastSaid(Append(s, e), Len(s) + 1)
  BY <1>1 DEF LastSaid
<1>4. CASE e.kind # "command" /\ Asked(s, of, id, r)
  BY <1>1, <1>2, <1>3, <1>4 DEF Asked, LastSaid
<1>5. CASE e.kind = of /\ Correlates(e, of, id, r)
  BY <1>1, <1>3, <1>5 DEF Asked
<1> QED BY <1>4, <1>5

(* The request is at the head, with no command behind it, or stays.        *)
LEMMA AskedTail ==
  ASSUME NEW s \in Seq(Message), s # <<>>, NEW of, NEW id, NEW r, Asked(s, of, id, r)
  PROVE  \/ Asked(Tail(s), of, id, r)
         \/ /\ Head(s).kind = of /\ Correlates(Head(s), of, id, r)
            /\ Idle(Tail(s))
<1>1. /\ DOMAIN s = 1..Len(s) /\ Len(s) \in Nat /\ Len(s) >= 1
      /\ DOMAIN Tail(s) = 1..Len(s) - 1
      /\ \A i \in DOMAIN Tail(s) : Tail(s)[i] = s[i + 1]
      /\ Head(s) = s[1]
      /\ \A i \in DOMAIN s : i # 1 => i - 1 \in DOMAIN Tail(s)
                                      /\ Tail(s)[i - 1] = s[i]
  BY Taken
<1>2. \A i \in DOMAIN Tail(s) : i + 1 \in DOMAIN s /\ i + 1 > 1
  BY <1>1
<1>3. PICK i \in DOMAIN s : /\ s[i].kind = of /\ Correlates(s[i], of, id, r)
                            /\ LastSaid(s, i)
  BY DEF Asked
<1>4. CASE i = 1
  <2>1. Idle(Tail(s))
    BY <1>1, <1>2, <1>3, <1>4 DEF Idle, LastSaid
  <2> QED BY <1>1, <1>3, <1>4, <2>1
<1>5. CASE i # 1
  <2>1. i - 1 \in DOMAIN Tail(s) /\ Tail(s)[i - 1] = s[i]
    BY <1>1, <1>5
  <2>2. LastSaid(Tail(s), i - 1)
    <3>1. \A j \in DOMAIN Tail(s) : i - 1 < j => i < j + 1
      BY <1>1
    <3> QED BY <1>1, <1>2, <1>3, <3>1 DEF LastSaid
  <2> QED BY <1>3, <2>1, <2>2 DEF Asked
<1> QED BY <1>4, <1>5

(* No command is in a sequence because one that is none is added.          *)
LEMMA IdleMoves ==
  ASSUME NEW s \in Seq(Message)
  PROVE  /\ \A e \in Message : Idle(s) /\ e.kind # "command" => Idle(Append(s, e))
         /\ s # <<>> /\ Idle(s) => Idle(Tail(s)) /\ Head(s).kind # "command"
<1>1. ASSUME NEW e \in Message, Idle(s), e.kind # "command"
      PROVE  Idle(Append(s, e))
  <2>1. /\ DOMAIN s = 1..Len(s) /\ Len(s) \in Nat
        /\ DOMAIN Append(s, e) = 1..Len(s) + 1
        /\ \A i \in DOMAIN s : Append(s, e)[i] = s[i]
        /\ Append(s, e)[Len(s) + 1] = e
    BY Appended
  <2>2. \A i \in DOMAIN Append(s, e) : i \in DOMAIN s \/ i = Len(s) + 1
    BY <2>1
  <2> QED BY <1>1, <2>1, <2>2 DEF Idle
<1>2. ASSUME s # <<>>, Idle(s)
      PROVE  Idle(Tail(s)) /\ Head(s).kind # "command"
  <2>1. /\ DOMAIN s = 1..Len(s) /\ Len(s) \in Nat /\ Len(s) >= 1
        /\ DOMAIN Tail(s) = 1..Len(s) - 1
        /\ \A i \in DOMAIN Tail(s) : Tail(s)[i] = s[i + 1]
        /\ Head(s) = s[1]
    BY <1>2, Taken
  <2>2. /\ \A i \in DOMAIN Tail(s) : i + 1 \in DOMAIN s
        /\ 1 \in DOMAIN s
    BY <2>1
  <2> QED BY <1>2, <2>1, <2>2 DEF Idle
<1> QED BY <1>1, <1>2

(* Positions of two sequences that are joined.                             *)
LEMMA Concatenated ==
  ASSUME NEW S, NEW s \in Seq(S), NEW t \in Seq(S)
  PROVE  /\ s \o t \in Seq(S)
         /\ \A i \in DOMAIN s : i \in DOMAIN (s \o t) /\ (s \o t)[i] = s[i]
         /\ \A j \in DOMAIN t : Len(s) + j \in DOMAIN (s \o t)
                                /\ (s \o t)[Len(s) + j] = t[j]
         /\ \A k \in DOMAIN (s \o t) :
                k \in DOMAIN s \/ (k - Len(s) \in DOMAIN t
                                   /\ (s \o t)[k] = t[k - Len(s)])
<1>1. /\ Len(s) \in Nat /\ Len(t) \in Nat
      /\ DOMAIN s = 1..Len(s) /\ DOMAIN t = 1..Len(t)
  BY LenProperties
<1>2. /\ s \o t \in Seq(S) /\ Len(s \o t) = Len(s) + Len(t)
      /\ \A i \in 1..Len(s) + Len(t) :
             (s \o t)[i] = IF i <= Len(s) THEN s[i] ELSE t[i - Len(s)]
  BY ConcatProperties
<1>3. DOMAIN (s \o t) = 1..Len(s) + Len(t)
  BY <1>2, LenProperties
<1>4. ASSUME NEW i \in DOMAIN s
      PROVE  i \in DOMAIN (s \o t) /\ (s \o t)[i] = s[i]
  <2>1. i \in 1..Len(s) + Len(t) /\ i <= Len(s)
    BY <1>1, <1>4
  <2> QED BY <1>2, <1>3, <2>1
<1>5. ASSUME NEW j \in DOMAIN t
      PROVE  Len(s) + j \in DOMAIN (s \o t) /\ (s \o t)[Len(s) + j] = t[j]
  <2>1. /\ Len(s) + j \in 1..Len(s) + Len(t) /\ ~(Len(s) + j <= Len(s))
        /\ Len(s) + j - Len(s) = j
    BY <1>1, <1>5
  <2> QED BY <1>2, <1>3, <2>1
<1>6. ASSUME NEW k \in DOMAIN (s \o t)
      PROVE  k \in DOMAIN s \/ (k - Len(s) \in DOMAIN t
                                /\ (s \o t)[k] = t[k - Len(s)])
  <2>1. k \in 1..Len(s) + Len(t)
    BY <1>3, <1>6
  <2>2. k \in 1..Len(s) \/ (k - Len(s) \in 1..Len(t) /\ ~(k <= Len(s)))
    BY <1>1, <2>1
  <2> QED BY <1>1, <1>2, <2>1, <2>2
<1> QED BY <1>2, <1>4, <1>5, <1>6

(* What is told after a message was added or taken.                        *)
LEMMA ToldMoves ==
  ASSUME NEW s \in Seq(Message), NEW e \in Message, NEW k
  PROVE  /\ Told(Append(s, e), k) <=> Told(s, k) \/ e.kind = k
         /\ s # <<>> => (Told(s, k) <=> Told(Tail(s), k) \/ Head(s).kind = k)
<1>1. /\ DOMAIN s = 1..Len(s) /\ Len(s) \in Nat
      /\ DOMAIN Append(s, e) = 1..Len(s) + 1
      /\ \A i \in DOMAIN s : Append(s, e)[i] = s[i]
      /\ Append(s, e)[Len(s) + 1] = e
  BY Appended
<1>2. \A i \in DOMAIN Append(s, e) : i \in DOMAIN s \/ i = Len(s) + 1
  BY <1>1
<1>3. DOMAIN s \subseteq DOMAIN Append(s, e) /\ Len(s) + 1 \in DOMAIN Append(s, e)
  BY <1>1
<1>4. Told(Append(s, e), k) <=> Told(s, k) \/ e.kind = k
  BY <1>1, <1>2, <1>3 DEF Told
<1>5. ASSUME s # <<>>
      PROVE  Told(s, k) <=> Told(Tail(s), k) \/ Head(s).kind = k
  <2>1. /\ DOMAIN s = 1..Len(s) /\ Len(s) \in Nat /\ Len(s) >= 1
        /\ DOMAIN Tail(s) = 1..Len(s) - 1
        /\ \A i \in DOMAIN Tail(s) : Tail(s)[i] = s[i + 1]
        /\ Head(s) = s[1]
        /\ \A i \in DOMAIN s : i # 1 => i - 1 \in DOMAIN Tail(s)
                                        /\ Tail(s)[i - 1] = s[i]
    BY <1>5, Taken
  <2>2. /\ \A i \in DOMAIN Tail(s) : i + 1 \in DOMAIN s
        /\ 1 \in DOMAIN s
    BY <2>1
  <2>3. Told(s, k) => Told(Tail(s), k) \/ Head(s).kind = k
    BY <2>1 DEF Told
  <2>4. Told(Tail(s), k) \/ Head(s).kind = k => Told(s, k)
    BY <2>1, <2>2 DEF Told
  <2> QED BY <2>3, <2>4
<1> QED BY <1>4, <1>5

(* What two sequences tell together.                                       *)
LEMMA ToldJoined ==
  ASSUME NEW s \in Seq(Message), NEW t \in Seq(Message), NEW k
  PROVE  Told(s \o t, k) <=> Told(s, k) \/ Told(t, k)
<1>1. Told(s \o t, k) => Told(s, k) \/ Told(t, k)
  <2>1. \A i \in DOMAIN (s \o t) :
            \/ i \in DOMAIN s /\ (s \o t)[i] = s[i]
            \/ i - Len(s) \in DOMAIN t /\ (s \o t)[i] = t[i - Len(s)]
    BY Concatenated
  <2> QED BY <2>1 DEF Told
<1>2. Told(s, k) => Told(s \o t, k)
  <2>1. \A i \in DOMAIN s : i \in DOMAIN (s \o t) /\ (s \o t)[i] = s[i]
    BY Concatenated
  <2> QED BY <2>1 DEF Told
<1>3. Told(t, k) => Told(s \o t, k)
  <2>1. \A j \in DOMAIN t : /\ Len(s) + j \in DOMAIN (s \o t)
                            /\ (s \o t)[Len(s) + j] = t[j]
    BY Concatenated
  <2> QED BY <2>1 DEF Told
<1> QED BY <1>1, <1>2, <1>3

(* There is one of a kind if only one was added.                           *)
LEMMA SingleMoves ==
  ASSUME NEW s \in Seq(Message), NEW k, Single(s, k)
  PROVE  /\ \A e \in Message : e.kind # k \/ ~Told(s, k) => Single(Append(s, e), k)
         /\ s # <<>> => Single(Tail(s), k) /\ (Head(s).kind = k => ~Told(Tail(s), k))
<1>1. ASSUME NEW e \in Message, e.kind # k \/ ~Told(s, k)
      PROVE  Single(Append(s, e), k)
  <2>1. /\ DOMAIN s = 1..Len(s) /\ Len(s) \in Nat
        /\ DOMAIN Append(s, e) = 1..Len(s) + 1
        /\ \A i \in DOMAIN s : Append(s, e)[i] = s[i]
        /\ Append(s, e)[Len(s) + 1] = e
    BY Appended
  <2>2. \A i \in DOMAIN Append(s, e) : i \in DOMAIN s \/ i = Len(s) + 1
    BY <2>1
  <2> QED BY <1>1, <2>1, <2>2 DEF Single, Told
<1>2. ASSUME s # <<>>
      PROVE  Single(Tail(s), k) /\ (Head(s).kind = k => ~Told(Tail(s), k))
  <2>1. /\ DOMAIN s = 1..Len(s) /\ Len(s) \in Nat /\ Len(s) >= 1
        /\ DOMAIN Tail(s) = 1..Len(s) - 1
        /\ \A i \in DOMAIN Tail(s) : Tail(s)[i] = s[i + 1]
        /\ Head(s) = s[1]
    BY <1>2, Taken
  <2>2. /\ \A i \in DOMAIN Tail(s) : i + 1 \in DOMAIN s /\ i + 1 # 1 /\ i \in Nat
        /\ 1 \in DOMAIN s
    BY <2>1
  <2>3. ~(Head(s).kind = k /\ Told(Tail(s), k))
    BY <2>1, <2>2 DEF Single, Told
  <2>4. ASSUME NEW i \in DOMAIN Tail(s), NEW j \in DOMAIN Tail(s),
               Tail(s)[i].kind = k, Tail(s)[j].kind = k
        PROVE  i = j
    <3>1. i + 1 = j + 1
      BY <2>1, <2>2, <2>4 DEF Single
    <3> QED BY <2>2, <3>1
  <2> QED BY <2>3, <2>4 DEF Single
<1> QED BY <1>1, <1>2

(* The same for sequences that are joined.                                 *)
LEMMA SingleJoined ==
  ASSUME NEW s \in Seq(Message), NEW t \in Seq(Message), NEW k, Single(s, k),
         ~Told(t, k)
  PROVE  Single(s \o t, k)
<1>1. \A i \in DOMAIN (s \o t) : (s \o t)[i].kind = k => i \in DOMAIN s /\ (s \o t)[i] = s[i]
  BY Concatenated DEF Told
<1> QED BY <1>1 DEF Single

(* Answers that stay when a message is added or taken.                     *)
LEMMA SaidMoves ==
  ASSUME NEW s \in Seq(Message), NEW of, NEW id, NEW r, NEW x
  PROVE  /\ \A e \in Message :
               /\ Said(s, of, id, r, x) => Said(Append(s, e), of, id, r, x)
               /\ e.kind = "feedback" /\ e.says = x /\ Correlates(e, of, id, r)
                  => Said(Append(s, e), of, id, r, x)
         /\ s # <<>> /\ Said(s, of, id, r, x) =>
               \/ Said(Tail(s), of, id, r, x)
               \/ /\ Head(s).kind = "feedback" /\ Head(s).says = x
                  /\ Correlates(Head(s), of, id, r)
<1>1. ASSUME NEW e \in Message
      PROVE  /\ Said(s, of, id, r, x) => Said(Append(s, e), of, id, r, x)
             /\ e.kind = "feedback" /\ e.says = x /\ Correlates(e, of, id, r)
                => Said(Append(s, e), of, id, r, x)
  <2>1. /\ DOMAIN s = 1..Len(s) /\ Len(s) \in Nat
        /\ DOMAIN Append(s, e) = 1..Len(s) + 1
        /\ \A i \in DOMAIN s : Append(s, e)[i] = s[i]
        /\ Append(s, e)[Len(s) + 1] = e
    BY Appended
  <2>2. /\ DOMAIN s \subseteq DOMAIN Append(s, e)
        /\ Len(s) + 1 \in DOMAIN Append(s, e)
    BY <2>1
  <2> QED BY <2>1, <2>2 DEF Said
<1>2. ASSUME s # <<>>, Said(s, of, id, r, x)
      PROVE  \/ Said(Tail(s), of, id, r, x)
             \/ /\ Head(s).kind = "feedback" /\ Head(s).says = x
                /\ Correlates(Head(s), of, id, r)
  <2>1. /\ Head(s) = s[1]
        /\ \A i \in DOMAIN s : i # 1 => i - 1 \in DOMAIN Tail(s)
                                        /\ Tail(s)[i - 1] = s[i]
    BY <1>2, Taken
  <2> QED BY <1>2, <2>1 DEF Said
<1> QED BY <1>1, <1>2

(* Answers in two sequences that are joined.                               *)
LEMMA SaidJoined ==
  ASSUME NEW s \in Seq(Message), NEW t \in Seq(Message), NEW of, NEW id, NEW r,
         NEW x
  PROVE  Said(s, of, id, r, x) \/ Said(t, of, id, r, x)
         => Said(s \o t, of, id, r, x)
<1>1. \A i \in DOMAIN s : i \in DOMAIN (s \o t) /\ (s \o t)[i] = s[i]
  BY Concatenated
<1>2. \A j \in DOMAIN t : /\ Len(s) + j \in DOMAIN (s \o t)
                          /\ (s \o t)[Len(s) + j] = t[j]
  BY Concatenated
<1> QED BY <1>1, <1>2 DEF Said
-----------------------------------------------------------------------------
(* A loss that was reported last is followed when the connection is.       *)
LEMMA FollowedMoves ==
  ASSUME NEW s \in Seq(Message)
  PROVE  /\ \A e \in Message :
               e.kind = "connected" \/ (e.kind # "disconnected" /\ Followed(s))
               => Followed(Append(s, e))
         /\ s # <<>> /\ Followed(s) =>
               /\ Followed(Tail(s))
               /\ Head(s).kind = "disconnected" => Told(Tail(s), "connected")
<1>1. ASSUME NEW e \in Message,
             e.kind = "connected" \/ (e.kind # "disconnected" /\ Followed(s))
      PROVE  Followed(Append(s, e))
  <2>1. /\ DOMAIN s = 1..Len(s) /\ Len(s) \in Nat
        /\ DOMAIN Append(s, e) = 1..Len(s) + 1
        /\ \A i \in DOMAIN s : Append(s, e)[i] = s[i]
        /\ Append(s, e)[Len(s) + 1] = e
    BY Appended
  <2>2. /\ \A i \in DOMAIN Append(s, e) : i \in DOMAIN s \/ i = Len(s) + 1
        /\ \A i \in DOMAIN s : i \in DOMAIN Append(s, e) /\ i < Len(s) + 1
        /\ Len(s) + 1 \in DOMAIN Append(s, e)
    BY <2>1
  <2>3. CASE e.kind = "connected"
    BY <2>1, <2>2, <2>3 DEF Followed
  <2>4. CASE e.kind # "disconnected" /\ Followed(s)
    BY <2>1, <2>2, <2>4 DEF Followed
  <2> QED BY <1>1, <2>3, <2>4
<1>2. ASSUME s # <<>>, Followed(s)
      PROVE  /\ Followed(Tail(s))
             /\ Head(s).kind = "disconnected" => Told(Tail(s), "connected")
  <2>1. /\ DOMAIN s = 1..Len(s) /\ Len(s) \in Nat /\ Len(s) >= 1
        /\ DOMAIN Tail(s) = 1..Len(s) - 1
        /\ \A i \in DOMAIN Tail(s) : Tail(s)[i] = s[i + 1]
        /\ Head(s) = s[1]
        /\ \A i \in DOMAIN s : i # 1 => i - 1 \in DOMAIN Tail(s)
                                        /\ Tail(s)[i - 1] = s[i]
    BY <1>2, Taken
  <2>2. ASSUME NEW i \in DOMAIN s, s[i].kind = "disconnected"
        PROVE  \E j \in DOMAIN Tail(s) : i - 1 < j /\ Tail(s)[j].kind = "connected"
    <3>1. PICK j \in DOMAIN s : i < j /\ s[j].kind = "connected"
      BY <1>2, <2>2 DEF Followed
    <3>2. j # 1 /\ i - 1 < j - 1
      BY <2>1, <3>1
    <3> QED BY <2>1, <3>1, <3>2
  <2>3. Followed(Tail(s))
    <3>1. ASSUME NEW i \in DOMAIN Tail(s), Tail(s)[i].kind = "disconnected"
          PROVE  \E j \in DOMAIN Tail(s) : i < j /\ Tail(s)[j].kind = "connected"
      <4>1. i + 1 \in DOMAIN s /\ (i + 1) - 1 = i /\ s[i + 1].kind = "disconnected"
        BY <2>1, <3>1
      <4> QED BY <2>2, <4>1
    <3> QED BY <3>1 DEF Followed
  <2>4. Head(s).kind = "disconnected" => Told(Tail(s), "connected")
    <3>1. 1 \in DOMAIN s
      BY <2>1
    <3> QED BY <2>1, <2>2, <3>1 DEF Told
  <2> QED BY <2>3, <2>4
<1> QED BY <1>1, <1>2
-----------------------------------------------------------------------------
(* Steps that keep the conditions of Trust one by one.                     *)
LEMMA WillStays ==
  ASSUME UNCHANGED <<up, devBox, relay>>
  PROVE  \A x : Will(x) <=> Will(x)'
  BY DEF Will

(* An answer stays on its way when it is handed on, and no request moves.  *)
LEMMA ComingStays ==
  ASSUME NEW of, NEW id, Coming(of, id), UNCHANGED <<run, up, devBox, devOut, relay>>,
         \A x \in States :
             Said(down, of, id, run, x) \/ Said(inbox, of, id, run, x)
             => Said(down', of, id, run, x) \/ Said(inbox', of, id, run, x)
  PROVE  Coming(of, id)'
  BY WillStays DEF Coming

(* A step of the network or the device, which leaves the controller alone. *)
LEMMA TrustStays ==
  ASSUME Trust,
         UNCHANGED <<pc, outcome, awaiting, reported, desired, queries, commands>>,
         past \subseteq past',
         Reconnecting => Reconnecting',
         \A x \in States : Will(x) => Will(x)', desired \in States,
         \A of, id : Coming(of, id) => Coming(of, id)'
  PROVE  Trust'
<1>1. Coming("query", queries) => Coming("query", queries)'
  <2>1. PICK q : q = queries
    OBVIOUS
  <2>2. Coming("query", q) => Coming("query", q)'
    OBVIOUS
  <2> QED BY <2>1, <2>2
<1>2. Coming("command", commands) => Coming("command", commands)'
  <2>1. PICK q : q = commands
    OBVIOUS
  <2>2. Coming("command", q) => Coming("command", q)'
    OBVIOUS
  <2> QED BY <2>1, <2>2
<1>3. Will(desired) => Will(desired)'
  <2>1. PICK x \in States : x = desired
    OBVIOUS
  <2>2. Will(x) => Will(x)'
    OBVIOUS
  <2> QED BY <2>1, <2>2
<1> QED BY <1>1, <1>2, <1>3 DEF Trust
-----------------------------------------------------------------------------
(* No publish and no PUBACK is touched.                                    *)
LEMMA FlightStays ==
  ASSUME Flight, UNCHANGED <<up, down, outcome, pc, commands, retained, devOut>>
  PROVE  Flight'
  BY DEF Flight

(* No report of a connection is touched.                                   *)
LEMMA NotesStay ==
  ASSUME Notes, UNCHANGED <<link, inbox, down>>
  PROVE  Notes'
  BY DEF Notes

(* Nothing of what Trust is about.                                         *)
LEMMA AsideRests ==
  ASSUME RestInv, BrokerStarts \/ ProxyArmed \/ UNCHANGED vars
  PROVE  Flight' /\ Notes' /\ Trust'
<1> USE DEF BrokerStarts, ProxyArmed, vars, controllerVars, linkVars,
            brokerVars, deviceVars, outputVars
<1>1. /\ UNCHANGED <<run, pc, outcome, desired, reported, awaiting, commands, queries>>
      /\ UNCHANGED <<inbox, link, up, down, retained, devBox, devOut, relay, past>>
  OBVIOUS
<1>2. Flight /\ Notes /\ Trust /\ TypeOK
  BY DEF RestInv, SyncInv
<1>3. Flight' /\ Notes'
  BY <1>1, <1>2, FlightStays, NotesStay
<1>4. \A of, id : Coming(of, id) => Coming(of, id)'
  BY <1>1, ComingStays
<1>5. \A x \in States : Will(x) => Will(x)'
  BY <1>1, WillStays
<1>6. Reconnecting => Reconnecting'
  BY <1>1 DEF Reconnecting
<1>7. desired \in States /\ past \subseteq past'
  BY <1>1, <1>2 DEF TypeOK
<1>8. Trust'
  BY <1>1, <1>2, <1>4, <1>5, <1>6, <1>7, TrustStays
<1> QED BY <1>3, <1>8

(* A sample says nothing of the relay.                                     *)
LEMMA SampleRests ==
  ASSUME RestInv, NEW t \in Temperatures, SampleArrives(t)
  PROVE  Flight' /\ Notes' /\ Trust'
<1> USE DEF SampleArrives, controllerVars, brokerVars, deviceVars, outputVars
<1>1. /\ UNCHANGED <<run, pc, outcome, desired, reported, awaiting, commands, queries>>
      /\ UNCHANGED <<inbox, link, up, retained, devBox, devOut, relay, past>>
      /\ down' = Append(down, Sample(t))
  OBVIOUS
<1> HIDE DEF SampleArrives
<1>2. Flight /\ Notes /\ Trust /\ TypeOK
  BY DEF RestInv, SyncInv
<1>3. Sample(t) \in Message /\ Sample(t).kind = "sample"
  BY DEF Sample, Plain, Message
<1>4. /\ Told(down', "puback") <=> Told(down, "puback")
      /\ Told(down', "disconnected") <=> Told(down, "disconnected")
  BY <1>1, <1>2, <1>3, ToldMoves DEF TypeOK
<1>5. Single(down', "puback")
  BY <1>1, <1>2, <1>3, SingleMoves DEF TypeOK, Flight
<1>6. Flight' /\ Notes'
  BY <1>1, <1>2, <1>4, <1>5 DEF Flight, Notes
<1>7. \A of, id : Coming(of, id) => Coming(of, id)'
  <2>1. \A of, id, x : Said(down, of, id, run, x) => Said(down', of, id, run, x)
    BY <1>1, <1>2, <1>3, SaidMoves DEF TypeOK
  <2> QED BY <1>1, <2>1, ComingStays
<1>8. \A x \in States : Will(x) => Will(x)'
  BY <1>1, WillStays
<1>9. Reconnecting => Reconnecting'
  BY <1>1 DEF Reconnecting
<1>10. desired \in States /\ past \subseteq past'
  BY <1>1, <1>2 DEF TypeOK
<1>11. Trust'
  BY <1>1, <1>2, <1>7, <1>8, <1>9, <1>10, TrustStays
<1> QED BY <1>6, <1>11

(* What was on its way to the controller is in its queue.                  *)
LEMMA ReaderRests ==
  ASSUME RestInv, ReaderTakes
  PROVE  Flight' /\ Notes' /\ Trust'
<1> DEFINE m == Head(down)
<1> USE DEF ReaderTakes, brokerVars, deviceVars, outputVars
<1>1. /\ UNCHANGED <<run, pc, desired, reported, awaiting, commands, queries>>
      /\ UNCHANGED <<link, up, retained, devBox, devOut, relay, past>>
      /\ down # <<>> /\ down' = Tail(down)
      /\ \/ m.kind = "puback" /\ outcome' = "sent" /\ inbox' = inbox
         \/ m.kind # "puback" /\ inbox' = Append(inbox, m) /\ outcome' = outcome
  OBVIOUS
<1> HIDE DEF ReaderTakes
<1>2. Flight /\ Notes /\ Trust /\ TypeOK
  BY DEF RestInv, SyncInv
<1>3. m \in Message /\ down \in Seq(Message) /\ inbox \in Seq(Message)
  BY <1>1, <1>2, Shorter DEF TypeOK
<1> HIDE DEF m
<1>4. \A k : Told(down, k) <=> Told(down', k) \/ m.kind = k
  BY <1>1, <1>3, ToldMoves DEF m
<1>5. /\ Single(down', "puback")
      /\ m.kind = "puback" => ~Told(down', "puback")
  BY <1>1, <1>2, <1>3, SingleMoves DEF Flight, m
<1>6. m.kind = "puback" => outcome = "pending" /\ up = <<>>
  BY <1>2, <1>4 DEF Flight
<1>7. Flight'
  BY <1>1, <1>2, <1>4, <1>5, <1>6 DEF Flight
<1>8. Notes'
  <2>1. ~Told(down', "disconnected") /\ m.kind # "disconnected"
    BY <1>2, <1>4 DEF Notes
  <2>2. Followed(inbox) => Followed(inbox')
    BY <1>1, <1>3, <2>1, FollowedMoves
  <2> QED BY <1>1, <1>2, <2>1, <2>2 DEF Notes
<1>9. \A of, id : Coming(of, id) => Coming(of, id)'
  <2>1. \A of, id, x : Said(inbox, of, id, run, x) => Said(inbox', of, id, run, x)
    BY <1>1, <1>3, SaidMoves
  <2>2. ASSUME NEW of, NEW id, NEW x, Said(down, of, id, run, x)
        PROVE  Said(down', of, id, run, x) \/ Said(inbox', of, id, run, x)
    <3>1. \/ Said(down', of, id, run, x)
          \/ m.kind = "feedback" /\ m.says = x /\ Correlates(m, of, id, run)
      BY <1>1, <1>3, <2>2, SaidMoves DEF m
    <3> QED BY <1>1, <1>3, <3>1, SaidMoves
  <2> QED BY <1>1, <2>1, <2>2, ComingStays
<1>10. \A x \in States : Will(x) => Will(x)'
  BY <1>1, WillStays
<1>11. Reconnecting => Reconnecting'
  <2>1. Told(inbox, "connected") => Told(inbox', "connected")
    <3>1. Told(inbox, "connected") => Told(Append(inbox, m), "connected")
      BY <1>3, ToldMoves
    <3> QED BY <1>1, <3>1
  <2> QED BY <1>1, <2>1 DEF Reconnecting
<1>12. desired \in States /\ past \subseteq past'
  BY <1>1, <1>2 DEF TypeOK
<1>13. CASE m.kind # "puback"
  <2>1. outcome' = outcome
    BY <1>1, <1>13
  <2>2. Trust'
    BY <1>1, <1>2, <1>9, <1>10, <1>11, <1>12, <2>1, TrustStays
  <2> QED BY <1>7, <1>8, <2>2
<1>14. CASE m.kind = "puback"
  <2>1. outcome = "pending" /\ outcome' = "sent"
    BY <1>1, <1>6, <1>14
  <2>2. Coming("query", queries) => Coming("query", queries)'
    <3>1. PICK q : q = queries
      OBVIOUS
    <3>2. Coming("query", q) => Coming("query", q)'
      BY <1>9
    <3> QED BY <1>1, <3>1, <3>2
  <2>3. Coming("command", commands) => Coming("command", commands)'
    <3>1. PICK q : q = commands
      OBVIOUS
    <3>2. Coming("command", q) => Coming("command", q)'
      BY <1>9
    <3> QED BY <1>1, <3>1, <3>2
  <2>4. pc # "idle"
    BY <1>2, <2>1 DEF Flight
  <2>5. Trust'
    BY <1>1, <1>2, <1>11, <2>1, <2>2, <2>3, <2>4 DEF Trust
  <2> QED BY <1>7, <1>8, <2>5
<1> QED BY <1>13, <1>14
-----------------------------------------------------------------------------
(* Any loss of the controller's connection.                                *)
LEMMA LossRests ==
  ASSUME RestInv, LoseLink, UNCHANGED <<pc, commands>>,
         retained' \in {retained, <<>>}, devOut' \in {devOut, <<>>}
  PROVE  Flight' /\ Notes' /\ Trust'
<1> USE DEF LoseLink
<1>1. /\ up' = <<>> /\ down' = <<>> /\ link' = FALSE
      /\ outcome' # "none" => outcome # "none"
  OBVIOUS
<1>2. Flight
  BY DEF RestInv
<1>3. ~Told(down', "puback") /\ ~Told(down', "disconnected") /\ Single(down', "puback")
  BY <1>1 DEF Told, Single
<1>4. Reports(retained') /\ Reports(devOut')
  BY <1>2 DEF Flight, Reports
<1>5. Flight'
  BY <1>1, <1>2, <1>3, <1>4 DEF Flight
<1>6. Notes' /\ Trust'
  BY <1>1, <1>3 DEF Notes, Trust, Reconnecting
<1> QED BY <1>5, <1>6

(* The three causes of it.                                                 *)
LEMMA LossesRest ==
  ASSUME RestInv, ControllerLinkLost \/ ProxyDrops \/ BrokerStops
  PROVE  Flight' /\ Notes' /\ Trust'
<1> USE DEF ControllerLinkLost, ProxyDrops, BrokerStops, LoseDevice,
            brokerVars, deviceVars
<1>1. /\ LoseLink /\ UNCHANGED <<pc, commands>>
      /\ retained' \in {retained, <<>>} /\ devOut' \in {devOut, <<>>}
  OBVIOUS
<1> QED BY <1>1, LossRests

(* A new process has to connect first.                                     *)
LEMMA RestartRests ==
  ASSUME RestInv, ControllerRestarts
  PROVE  Flight' /\ Notes' /\ Trust'
<1> USE DEF ControllerRestarts, brokerVars, deviceVars
<1>1. /\ up' = <<>> /\ down' = <<>> /\ link' = FALSE /\ outcome' = "none"
      /\ pc' = "off" /\ UNCHANGED <<retained, devOut>>
  OBVIOUS
<1>2. ~Told(down', "puback") /\ ~Told(down', "disconnected") /\ Single(down', "puback")
  BY <1>1 DEF Told, Single
<1>3. Flight'
  BY <1>1, <1>2 DEF Flight, RestInv
<1>4. Notes' /\ Trust'
  BY <1>1, <1>2 DEF Notes, Trust, Reconnecting
<1> QED BY <1>3, <1>4

(* What the broker forwards is asked of the device instead.                *)
LEMMA BrokerRests ==
  ASSUME RestInv, BrokerTakes
  PROVE  Flight' /\ Notes' /\ Trust'
<1> DEFINE m == Head(up)
<1> USE DEF BrokerTakes, controllerVars, brokerVars, outputVars
<1>1. /\ UNCHANGED <<run, pc, outcome, desired, reported, awaiting, commands, queries>>
      /\ UNCHANGED <<inbox, link, retained, devOut, relay>>
      /\ up # <<>> /\ up' = Tail(up) /\ down' = Append(down, Note("puback"))
      /\ \/ devBox' = Append(devBox, m) /\ past' = past
         \/ "missed" \in past' /\ devBox' = devBox
  OBVIOUS
<1> HIDE DEF BrokerTakes
<1>2. Flight /\ Notes /\ Trust /\ TypeOK
  BY DEF RestInv, SyncInv
<1>3. /\ m \in Message /\ up \in Seq(Message) /\ down \in Seq(Message)
      /\ devBox \in Seq(Message)
  BY <1>1, <1>2, Shorter DEF TypeOK
<1>4. up' = <<>>
  BY <1>1, <1>2, <1>3 DEF Flight
<1> HIDE DEF m
<1>5. Note("puback") \in Message /\ Note("puback").kind = "puback"
  BY DEF Note, Plain, Message
<1>6. outcome = "pending" /\ ~Told(down, "puback")
  BY <1>1, <1>2 DEF Flight
<1>7. Single(down', "puback")
  BY <1>1, <1>2, <1>3, <1>5, <1>6, SingleMoves DEF Flight
<1>8. Told(down', "disconnected") <=> Told(down, "disconnected")
  BY <1>1, <1>3, <1>5, ToldMoves
<1>9. Flight' /\ Notes'
  BY <1>1, <1>2, <1>4, <1>6, <1>7, <1>8 DEF Flight, Notes
<1>10. CASE "missed" \in past'
  BY <1>9, <1>10 DEF Trust
<1>11. CASE devBox' = Append(devBox, m) /\ past' = past
  <2>1. Idle(up') /\ \A x : ~Commanded(up', x)
    BY <1>4 DEF Idle, Commanded
  <2>2. /\ Idle(up) => m.kind # "command"
        /\ \A x : Commanded(up, x) => m.kind = "command" /\ m.says = x
    <3>1. Idle(up) => m.kind # "command"
      BY <1>1, <1>3, IdleMoves DEF m
    <3>2. ASSUME NEW x, Commanded(up, x) PROVE m.kind = "command" /\ m.says = x
      <4>1. \/ Commanded(up', x)
            \/ m.kind = "command" /\ m.says = x
        BY <1>1, <1>3, <3>2, CommandTaken DEF m
      <4> QED BY <2>1, <4>1
    <3> QED BY <3>1, <3>2
  <2>3. ASSUME NEW x \in States, Will(x) PROVE Will(x)'
    <3>1. CASE Commanded(up, x)
      <4>1. Commanded(devBox', x)
        BY <1>3, <1>11, <2>2, <3>1, CommandAdded
      <4> QED BY <2>1, <4>1 DEF Will
    <3>2. CASE Idle(up) /\ Commanded(devBox, x)
      <4>1. Commanded(devBox', x)
        BY <1>3, <1>11, <2>2, <3>2, CommandAdded
      <4> QED BY <2>1, <4>1 DEF Will
    <3>3. CASE Idle(up) /\ Idle(devBox) /\ relay = x
      <4>1. Idle(devBox')
        BY <1>3, <1>11, <2>2, <3>3, IdleMoves
      <4> QED BY <1>1, <2>1, <3>3, <4>1 DEF Will
    <3> QED BY <2>3, <3>1, <3>2, <3>3 DEF Will
  <2>4. ASSUME NEW of, NEW id, Coming(of, id) PROVE Coming(of, id)'
    <3>1. CASE Asked(up, of, id, run)
      <4>1. ~Asked(up', of, id, run)
        BY <1>4 DEF Asked
      <4>2. m.kind = of /\ Correlates(m, of, id, run)
        BY <1>1, <1>3, <3>1, <4>1, AskedTail DEF m
      <4>3. Asked(devBox', of, id, run)
        BY <1>3, <1>11, <4>2, AskedAppend
      <4> QED BY <1>1, <2>1, <4>3 DEF Coming
    <3>2. CASE Idle(up) /\ Asked(devBox, of, id, run)
      <4>1. Asked(devBox', of, id, run)
        BY <1>3, <1>11, <2>2, <3>2, AskedAppend
      <4> QED BY <1>1, <2>1, <4>1 DEF Coming
    <3>3. ASSUME NEW x \in States, Will(x),
                 \/ Said(devOut, of, id, run, x) \/ Said(down, of, id, run, x)
                 \/ Said(inbox, of, id, run, x)
          PROVE  Coming(of, id)'
      <4>1. Said(down, of, id, run, x) => Said(down', of, id, run, x)
        BY <1>1, <1>3, <1>5, SaidMoves
      <4>2. Will(x)'
        BY <2>3, <3>3
      <4> QED BY <1>1, <3>3, <4>1, <4>2 DEF Coming
    <3> QED BY <2>4, <3>1, <3>2, <3>3 DEF Coming
  <2>5. Reconnecting => Reconnecting'
    BY <1>1 DEF Reconnecting
  <2>6. desired \in States /\ past \subseteq past'
    BY <1>2, <1>11 DEF TypeOK
  <2>7. Trust'
    BY <1>1, <1>2, <2>3, <2>4, <2>5, <2>6, TrustStays
  <2> QED BY <1>9, <2>7
<1> QED BY <1>1, <1>10, <1>11

(* A report reaches the controller if it is connected.                     *)
LEMMA ReportRests ==
  ASSUME RestInv, BrokerTakesFeedback
  PROVE  Flight' /\ Notes' /\ Trust'
<1> USE DEF BrokerTakesFeedback, controllerVars, outputVars
<1>1. /\ UNCHANGED <<run, pc, outcome, desired, reported, awaiting, commands, queries>>
      /\ UNCHANGED <<inbox, link, up, devBox, relay, past>>
      /\ retained' = devOut /\ devOut' = <<>>
      /\ down' = IF link THEN down \o devOut ELSE down
  OBVIOUS
<1> HIDE DEF BrokerTakesFeedback
<1>2. Flight /\ Notes /\ Trust /\ TypeOK
  BY DEF RestInv, SyncInv
<1>3. down \in Seq(Message) /\ devOut \in Seq(Message) /\ down' \in Seq(Message)
  BY <1>1, <1>2, Joined DEF TypeOK
<1>4. ~Told(devOut, "puback") /\ ~Told(devOut, "disconnected")
  BY <1>2 DEF Flight, Reports, Told
<1>5. /\ Told(down', "puback") <=> Told(down, "puback")
      /\ Told(down', "disconnected") <=> Told(down, "disconnected")
  <2>1. CASE link
    BY <1>1, <1>3, <1>4, <2>1, ToldJoined
  <2>2. CASE ~link
    BY <1>1, <2>2
  <2> QED BY <2>1, <2>2
<1>6. Single(down', "puback")
  <2>1. CASE link
    BY <1>1, <1>2, <1>3, <1>4, <2>1, SingleJoined DEF Flight
  <2>2. CASE ~link
    BY <1>1, <1>2, <2>2 DEF Flight
  <2> QED BY <2>1, <2>2
<1>7. Reports(retained') /\ Reports(devOut')
  BY <1>1, <1>2 DEF Flight, Reports
<1>8. Flight' /\ Notes'
  BY <1>1, <1>2, <1>5, <1>6, <1>7 DEF Flight, Notes
<1>9. CASE ~link
  BY <1>1, <1>8, <1>9 DEF Trust, Reconnecting
<1>10. CASE link
  <2>1. \A x : Will(x) <=> Will(x)'
    BY <1>1, WillStays
  <2>2. ASSUME NEW of, NEW id, Coming(of, id) PROVE Coming(of, id)'
    <3>1. CASE Asked(up, of, id, run) \/ (Idle(up) /\ Asked(devBox, of, id, run))
      BY <1>1, <3>1 DEF Coming
    <3>2. ASSUME NEW x \in States, Will(x),
                 \/ Said(devOut, of, id, run, x) \/ Said(down, of, id, run, x)
                 \/ Said(inbox, of, id, run, x)
          PROVE  Coming(of, id)'
      <4>1. Said(devOut, of, id, run, x) \/ Said(down, of, id, run, x)
            => Said(down', of, id, run, x)
        BY <1>1, <1>3, <1>10, SaidJoined
      <4>2. Will(x)'
        BY <2>1, <3>2
      <4> QED BY <1>1, <3>2, <4>1, <4>2 DEF Coming
    <3> QED BY <2>2, <3>1, <3>2 DEF Coming
  <2>3. Reconnecting => Reconnecting'
    BY <1>1 DEF Reconnecting
  <2>4. desired \in States /\ past \subseteq past'
    BY <1>1, <1>2 DEF TypeOK
  <2>5. Trust'
    BY <1>1, <1>2, <2>1, <2>2, <2>3, <2>4, TrustStays
  <2> QED BY <1>8, <2>5
<1> QED BY <1>9, <1>10
-----------------------------------------------------------------------------
(* A loss of the device's connection that costs nothing, or is "missed".   *)
LEMMA DeviceLossRests ==
  ASSUME RestInv, DeviceLinkLost
  PROVE  Flight' /\ Notes' /\ Trust'
<1> USE DEF DeviceLinkLost, LoseDevice, controllerVars, linkVars, brokerVars
<1>1. /\ UNCHANGED <<run, pc, outcome, desired, reported, awaiting, commands, queries>>
      /\ UNCHANGED <<inbox, link, up, down, retained, relay>>
      /\ devOut' = <<>>
  OBVIOUS
<1>2. Flight /\ Notes /\ Trust /\ TypeOK
  BY DEF RestInv, SyncInv
<1>3. PICK n \in 0..Len(devBox) :
          /\ devBox' = SubSeq(devBox, 1, n)
          /\ past' = IF n = Len(devBox) /\ devOut = <<>> THEN past
                     ELSE past \cup {"missed"}
  OBVIOUS
<1> HIDE DEF DeviceLinkLost, LoseDevice
<1>4. Flight' /\ Notes'
  BY <1>1, <1>2, NotesStay DEF Flight, Reports
<1>5. CASE "missed" \in past'
  BY <1>4, <1>5 DEF Trust
<1>6. CASE "missed" \notin past'
  <2>1. n = Len(devBox) /\ devOut' = devOut /\ past' = past
    BY <1>1, <1>3, <1>6
  <2>2. devBox' = devBox
    BY <1>2, <1>3, <2>1 DEF TypeOK
  <2>3. \A of, id : Coming(of, id) => Coming(of, id)'
    BY <1>1, <2>1, <2>2, ComingStays
  <2>4. \A x \in States : Will(x) => Will(x)'
    BY <1>1, <2>2, WillStays
  <2>5. Reconnecting => Reconnecting'
    BY <1>1 DEF Reconnecting
  <2>6. desired \in States /\ past \subseteq past'
    BY <1>2, <2>1 DEF TypeOK
  <2>7. Trust'
    BY <1>1, <1>2, <2>3, <2>4, <2>5, <2>6, TrustStays
  <2> QED BY <1>4, <2>7
<1> QED BY <1>5, <1>6

(* Another device process: what was asked is missed.                       *)
LEMMA RebootRests ==
  ASSUME RestInv, DeviceReboots
  PROVE  Flight' /\ Notes' /\ Trust'
<1> USE DEF DeviceReboots, controllerVars, linkVars, brokerVars
<1>1. /\ UNCHANGED <<pc, outcome, commands, inbox, link, up, down, retained>>
      /\ devOut' = <<>> /\ "missed" \in past'
  OBVIOUS
<1>2. Flight' /\ Notes'
  BY <1>1, NotesStay DEF Flight, Reports, RestInv
<1> QED BY <1>1, <1>2 DEF Trust

(* The device is told of its connection, which commands nothing.           *)
LEMMA ReturnRests ==
  ASSUME RestInv, DeviceReconnects
  PROVE  Flight' /\ Notes' /\ Trust'
<1> DEFINE e == Note("connected")
<1> USE DEF DeviceReconnects, controllerVars, linkVars, brokerVars
<1>1. /\ UNCHANGED <<run, pc, outcome, desired, reported, awaiting, commands, queries>>
      /\ UNCHANGED <<inbox, link, up, down, retained, devOut, relay, past>>
      /\ devBox' = Append(devBox, e)
  OBVIOUS
<1> HIDE DEF DeviceReconnects
<1>2. Flight /\ Notes /\ Trust /\ TypeOK
  BY DEF RestInv, SyncInv
<1>3. e \in Message /\ e.kind # "command" /\ devBox \in Seq(Message)
  BY <1>2 DEF Note, Plain, Message, TypeOK
<1> HIDE DEF e
<1>4. Flight' /\ Notes'
  BY <1>1, <1>2, NotesStay, FlightStays
<1>5. /\ Idle(devBox) => Idle(devBox')
      /\ \A x : Commanded(devBox, x) => Commanded(devBox', x)
      /\ \A of, id, r : Asked(devBox, of, id, r) => Asked(devBox', of, id, r)
  BY <1>1, <1>3, IdleMoves, CommandAdded, AskedAppend
<1>6. \A x \in States : Will(x) => Will(x)'
  BY <1>1, <1>5 DEF Will
<1>7. \A of, id : Coming(of, id) => Coming(of, id)'
  BY <1>1, <1>5, <1>6 DEF Coming
<1>8. Reconnecting => Reconnecting'
  BY <1>1 DEF Reconnecting
<1>9. desired \in States /\ past \subseteq past'
  BY <1>1, <1>2 DEF TypeOK
<1>10. Trust'
  BY <1>1, <1>2, <1>6, <1>7, <1>8, <1>9, TrustStays
<1> QED BY <1>4, <1>10

(* A request becomes its answer, and what the answer says is what will be  *)
(* if nothing was commanded behind it.                                     *)
LEMMA DeviceRests ==
  ASSUME RestInv, DeviceHandles
  PROVE  Flight' /\ Notes' /\ Trust'
<1> DEFINE m  == Head(devBox)
           on == IF m.kind = "command" THEN m.says ELSE relay
           a  == Answer(m, on)
<1> USE DEF DeviceHandles, controllerVars, linkVars, brokerVars
<1>1. /\ UNCHANGED <<run, pc, outcome, desired, reported, awaiting, commands, queries>>
      /\ UNCHANGED <<inbox, link, up, down, retained>>
      /\ devBox # <<>> /\ devOut = <<>>
      /\ relay' = on /\ devBox' = Tail(devBox)
      /\ \/ devOut' = <<a>> /\ past' = past
         \/ "missed" \in past' /\ devOut' = devOut
  OBVIOUS
<1> HIDE DEF DeviceHandles
<1>2. Flight /\ Notes /\ Trust /\ TypeOK /\ OnTheWay
  BY DEF RestInv, SyncInv
<1>3. m \in ForDevice /\ devBox \in Seq(Message)
  BY <1>1, <1>2, Shorter DEF TypeOK, OnTheWay
<1>4. m \in Message /\ on \in States
  BY <1>2, <1>3 DEF ForDevice, Fine, Sound, TypeOK
<1> HIDE DEF m
<1>5. /\ a.kind = "feedback" /\ a.says = on
      /\ \A of, id, r : Correlates(m, of, id, r) => Correlates(a, of, id, r)
  BY <1>4 DEF Message, Answer, Correlates
<1> HIDE DEF a, on
<1>6. Reports(devOut')
  <2>1. CASE devOut' = <<a>>
    BY <1>5, <2>1 DEF Reports
  <2>2. CASE devOut' = devOut
    BY <1>2, <2>2 DEF Flight
  <2> QED BY <1>1, <2>1, <2>2
<1>7. Flight' /\ Notes'
  BY <1>1, <1>2, <1>6, NotesStay DEF Flight
<1>8. CASE "missed" \in past'
  BY <1>7, <1>8 DEF Trust
<1>9. CASE devOut' = <<a>> /\ past' = past
  <2>1. /\ Idle(devBox) => Idle(devBox') /\ m.kind # "command"
        /\ \A x : Commanded(devBox, x) =>
               \/ Commanded(devBox', x)
               \/ m.kind = "command" /\ m.says = x /\ Idle(devBox')
    BY <1>1, <1>3, IdleMoves, CommandTaken DEF m
  <2>2. ASSUME NEW x \in States, Will(x) PROVE Will(x)'
    BY <1>1, <2>1, <2>2 DEF Will, on
  <2>3. ASSUME NEW of, NEW id, Coming(of, id) PROVE Coming(of, id)'
    <3>1. CASE Asked(up, of, id, run)
      BY <1>1, <3>1 DEF Coming
    <3>2. CASE Idle(up) /\ Asked(devBox, of, id, run)
      <4>1. CASE Asked(devBox', of, id, run)
        BY <1>1, <3>2, <4>1 DEF Coming
      <4>2. CASE m.kind = of /\ Correlates(m, of, id, run) /\ Idle(devBox')
        <5>1. PICK v \in States : v = on
          BY <1>4
        <5>2. Said(devOut', of, id, run, v)
          <6>1. 1 \in DOMAIN <<a>> /\ <<a>>[1] = a
            OBVIOUS
          <6> QED BY <1>5, <1>9, <4>2, <5>1, <6>1 DEF Said
        <5>3. Will(v)'
          BY <1>1, <3>2, <4>2, <5>1 DEF Will
        <5> QED BY <1>1, <5>2, <5>3 DEF Coming
      <4> QED BY <1>1, <1>3, <3>2, <4>1, <4>2, AskedTail DEF m
    <3>3. ASSUME NEW x \in States, Will(x),
                 \/ Said(devOut, of, id, run, x) \/ Said(down, of, id, run, x)
                 \/ Said(inbox, of, id, run, x)
          PROVE  Coming(of, id)'
      <4>1. ~Said(devOut, of, id, run, x)
        BY <1>1 DEF Said
      <4>2. Will(x)'
        BY <2>2, <3>3
      <4> QED BY <1>1, <3>3, <4>1, <4>2 DEF Coming
    <3> QED BY <2>3, <3>1, <3>2, <3>3 DEF Coming
  <2>4. Reconnecting => Reconnecting'
    BY <1>1 DEF Reconnecting
  <2>5. desired \in States /\ past \subseteq past'
    BY <1>2, <1>9 DEF TypeOK
  <2>6. Trust'
    BY <1>1, <1>2, <2>2, <2>3, <2>4, <2>5, TrustStays
  <2> QED BY <1>7, <2>6
<1> QED BY <1>1, <1>8, <1>9
-----------------------------------------------------------------------------
(* The controller takes an event that is no answer to its last request.    *)
LEMMA ConnectRests ==
  ASSUME RestInv, ControllerConnects
  PROVE  Flight' /\ Notes' /\ Trust'
<1> DEFINE e == Note("connected")
<1> USE DEF ControllerConnects, brokerVars, deviceVars
<1>1. /\ UNCHANGED <<outcome, commands, up, retained, devOut>>
      /\ inbox' = Append(inbox, e) /\ down' = retained
      /\ pc' = pc \/ (pc = "off" /\ pc' = "idle")
  OBVIOUS
<1> HIDE DEF ControllerConnects
<1>2. Flight /\ Notes /\ TypeOK
  BY DEF RestInv, SyncInv
<1>3. e \in Message /\ e.kind = "connected" /\ inbox \in Seq(Message)
  BY <1>2 DEF Note, Plain, Message, TypeOK
<1> HIDE DEF e
<1>4. Told(inbox', "connected") /\ Followed(inbox')
  BY <1>1, <1>3, ToldMoves, FollowedMoves
<1>5. ~Told(down', "puback") /\ ~Told(down', "disconnected")
  BY <1>1, <1>2 DEF Flight, Reports, Told
<1>6. Single(down', "puback")
  BY <1>5 DEF Single, Told
<1>7. Flight'
  BY <1>1, <1>2, <1>5, <1>6 DEF Flight
<1> QED BY <1>4, <1>5, <1>7 DEF Notes, Trust, Reconnecting

(* Between events no publish is under way.                                 *)
LEMMA AtEvents ==
  ASSUME RestInv, NEW k, NextEvent(k), UNCHANGED <<outcome, linkVars, brokerVars, deviceVars>>,
         commands' \in {commands, commands + 1},
         pc' = "command" => commands' = commands + 1
  PROVE  /\ outcome = "none" /\ outcome' = "none" /\ Flight' /\ Notes'
         /\ inbox \in Seq(Message) /\ Head(inbox) \in Message
         /\ Head(inbox).kind = k
         /\ k = "disconnected" => Reconnecting'
         /\ k # "connected" /\ Reconnecting => Reconnecting'
         /\ \A of, id, x :
               Said(inbox, of, id, run, x)
               => \/ Said(inbox', of, id, run, x)
                  \/ /\ k = "feedback" /\ Head(inbox).says = x
                     /\ Correlates(Head(inbox), of, id, run)
<1> USE DEF NextEvent, linkVars, brokerVars, deviceVars
<1>1. /\ pc = "idle" /\ inbox # <<>> /\ Head(inbox).kind = k /\ inbox' = Tail(inbox)
      /\ UNCHANGED <<outcome, link, up, down, retained, devOut>>
  OBVIOUS
<1> HIDE DEF NextEvent
<1>2. Flight /\ Notes /\ TypeOK
  BY DEF RestInv, SyncInv
<1>3. inbox \in Seq(Message) /\ Head(inbox) \in Message
  BY <1>1, <1>2, Shorter DEF TypeOK
<1>4. outcome = "none" /\ outcome' = "none"
  BY <1>1, <1>2 DEF Flight
<1>5. Flight'
  <2>1. commands' = commands + 1 => commands' # 0
    BY <1>2 DEF TypeOK
  <2> QED BY <1>1, <1>2, <1>4, <2>1 DEF Flight
<1>6. link => /\ Followed(inbox')
              /\ k = "disconnected" => Told(inbox', "connected")
  BY <1>1, <1>2, <1>3, FollowedMoves DEF Notes
<1>7. Notes'
  BY <1>1, <1>2, <1>6 DEF Notes
<1>8. k = "disconnected" => Reconnecting'
  BY <1>1, <1>6 DEF Reconnecting
<1>9. k # "connected" /\ Reconnecting => Reconnecting'
  <2>1. Told(inbox, "connected") => Told(inbox', "connected") \/ k = "connected"
    BY <1>1, <1>3, ToldMoves
  <2> QED BY <1>1, <2>1 DEF Reconnecting
<1>10. \A of, id, x :
          Said(inbox, of, id, run, x)
          => \/ Said(inbox', of, id, run, x)
             \/ /\ k = "feedback" /\ Head(inbox).says = x
                /\ Correlates(Head(inbox), of, id, run)
  BY <1>1, <1>3, SaidMoves
<1> QED BY <1>1, <1>3, <1>4, <1>5, <1>7, <1>8, <1>9, <1>10

(* It asks, whatever it believed.                                          *)
LEMMA ConnectedRests ==
  ASSUME RestInv, HandleConnected
  PROVE  Flight' /\ Notes' /\ Trust'
<1>1. /\ NextEvent("connected")
      /\ UNCHANGED <<outcome, linkVars, brokerVars, deviceVars, commands>>
      /\ pc' = "query"
  BY DEF HandleConnected, Ask, QueryDevice
<1>2. outcome' = "none" /\ Flight' /\ Notes'
  BY <1>1, AtEvents
<1> QED BY <1>1, <1>2 DEF Trust

(* The report of the next connection is behind it, or still to come.       *)
LEMMA DisconnectedRests ==
  ASSUME RestInv, HandleDisconnected
  PROVE  Flight' /\ Notes' /\ Trust'
<1>1. /\ NextEvent("disconnected")
      /\ UNCHANGED <<outcome, linkVars, brokerVars, deviceVars, commands, pc>>
      /\ pc = "idle"
  BY DEF HandleDisconnected, NextEvent
<1>2. Reconnecting' /\ Flight' /\ Notes'
  BY <1>1, AtEvents
<1> QED BY <1>2 DEF Trust

(* A sample is skipped, held or acted on.                                  *)
LEMMA TemperatureRests ==
  ASSUME RestInv, HandleTemperature
  PROVE  Flight' /\ Notes' /\ Trust'
<1>1. /\ NextEvent("sample") /\ pc = "idle"
      /\ UNCHANGED <<outcome, linkVars, brokerVars, deviceVars>>
      /\ UNCHANGED <<run, reported, awaiting, past>>
      /\ \/ UNCHANGED <<pc, commands, queries, desired>>
         \/ pc' = "command" /\ commands' = commands + 1
         \/ pc' = "query" /\ commands' = commands
  BY DEF HandleTemperature, NextEvent, NoRequest, SendTarget, QueryDevice
<1>2. /\ outcome' = outcome /\ outcome' = "none" /\ Flight' /\ Notes'
      /\ Reconnecting => Reconnecting'
      /\ \A of, id, x : Said(inbox, of, id, run, x) => Said(inbox', of, id, run, x)
  BY <1>1, AtEvents
<1>3. CASE UNCHANGED <<pc, commands, queries, desired>>
  <2>1. UNCHANGED <<up, down, devBox, devOut, relay>>
    BY <1>1 DEF linkVars, deviceVars
  <2>2. \A of, id : Coming(of, id) => Coming(of, id)'
    BY <1>1, <1>2, <2>1, ComingStays
  <2>3. \A x \in States : Will(x) => Will(x)'
    BY <2>1, WillStays
  <2>4. Trust /\ desired \in States /\ past \subseteq past'
    BY <1>1 DEF RestInv, SyncInv, TypeOK
  <2>5. Trust'
    BY <1>1, <1>2, <1>3, <2>2, <2>3, <2>4, TrustStays
  <2> QED BY <1>2, <2>5
<1>4. CASE pc' \in {"command", "query"}
  BY <1>2, <1>4 DEF Trust
<1> QED BY <1>1, <1>3, <1>4

(* The last command of this process asks for what is desired.              *)
LEMMA CommandWill ==
  ASSUME RestInv, Coming("command", commands)
  PROVE  Will(desired)
<1>1. OnTheWay /\ desired \in States
  BY DEF RestInv, SyncInv, TypeOK
<1>2. ASSUME NEW s \in Seq(Fine), Asked(s, "command", commands, run)
      PROVE  Commanded(s, desired)
  <2>1. PICK i \in DOMAIN s : /\ s[i].kind = "command" /\ LastSaid(s, i)
                              /\ Correlates(s[i], "command", commands, run)
    BY <1>2 DEF Asked
  <2>2. s[i] \in Fine
    BY <2>1
  <2>3. s[i].says = desired
    BY <2>1, <2>2 DEF Fine, Sound, Correlates
  <2> QED BY <2>1, <2>3 DEF Commanded
<1>3. ASSUME NEW s \in Seq(Fine), NEW x, Said(s, "command", commands, run, x)
      PROVE  x = desired
  <2>1. PICK i \in DOMAIN s : /\ s[i].kind = "feedback" /\ s[i].says = x
                              /\ Correlates(s[i], "command", commands, run)
    BY <1>3 DEF Said
  <2>2. s[i] \in Fine
    BY <2>1
  <2> QED BY <2>1, <2>2 DEF Fine, Sound, Correlates
<1>4. /\ up \in Seq(Fine) /\ devBox \in Seq(Fine) /\ devOut \in Seq(Fine)
      /\ down \in Seq(Fine) /\ inbox \in Seq(Fine)
  <2>1. ForDevice \subseteq Fine
    BY DEF ForDevice
  <2> QED BY <1>1, <2>1, Larger DEF OnTheWay
<1> QED BY <1>2, <1>3, <1>4 DEF Coming, Will
-----------------------------------------------------------------------------
(* A report that is believed is the answer that was coming, or leaves it   *)
(* coming; one that is ignored is not that answer.                         *)
LEMMA FeedbackRests ==
  ASSUME RestInv, ApplyFeedback
  PROVE  Flight' /\ Notes' /\ Trust'
<1> DEFINE fb == Head(inbox)
           believed == MatchesQuery(fb) \/ MatchesAwaiting(fb)
<1>1. /\ NextEvent("feedback") /\ pc = "idle"
      /\ UNCHANGED <<outcome, linkVars, brokerVars, deviceVars>>
      /\ UNCHANGED <<run, desired, queries>> /\ past \subseteq past'
      /\ \/ pc' = "command" /\ commands' = commands + 1
         \/ /\ UNCHANGED <<pc, commands>>
            /\ \/ /\ believed /\ fb.says = desired
                  /\ reported' = desired /\ awaiting' = 0
               \/ ~believed /\ UNCHANGED <<reported, awaiting>>
  BY DEF ApplyFeedback, NextEvent, NoRequest, SendTarget, Repair
<1>2. /\ outcome = "none" /\ outcome' = "none" /\ Flight' /\ Notes'
      /\ inbox \in Seq(Message) /\ fb \in Message
      /\ fb.kind = "feedback"
      /\ Reconnecting => Reconnecting'
      /\ \A of, id, x : Said(inbox, of, id, run, x)
             => \/ Said(inbox', of, id, run, x)
                \/ fb.says = x /\ Correlates(fb, of, id, run)
  BY <1>1, AtEvents
<1>3. Trust /\ desired \in States
  BY DEF RestInv, SyncInv, TypeOK
<1>4. UNCHANGED <<up, down, devBox, devOut, relay>>
  BY <1>1 DEF linkVars, deviceVars
<1> HIDE DEF fb, believed
<1>5. CASE pc' = "command"
  BY <1>2, <1>5 DEF Trust
<1>6. ASSUME UNCHANGED <<pc, commands>>
      PROVE  Trust'
  <2>1. ASSUME NEW of, NEW id, Coming(of, id), ~Correlates(fb, of, id, run)
        PROVE  Coming(of, id)'
    BY <1>1, <1>2, <1>4, <2>1, ComingStays
  <2>2. Will(desired) => Will(desired)'
    BY <1>1, <1>4 DEF Will
  <2>3. CASE "missed" \in past \/ Reconnecting
    BY <1>1, <1>2, <2>3 DEF Trust
  <2>4. CASE Coming("query", queries) /\ ~Correlates(fb, "query", queries, run)
    <3>1. PICK q : q = queries
      OBVIOUS
    <3>2. Coming("query", q)'
      BY <2>1, <2>4, <3>1
    <3>3. Coming("query", queries)'
      BY <1>1, <3>1, <3>2
    <3> QED BY <1>1, <1>6, <3>3 DEF Trust
  <2>5. CASE ~believed
    <3>1. ~Correlates(fb, "query", queries, run)
      BY <2>5 DEF believed, MatchesQuery, Correlates
    <3>2. CASE /\ awaiting = commands /\ awaiting # 0
               /\ Coming("command", commands)
      <4>1. ~Correlates(fb, "command", commands, run)
        BY <2>5, <3>2 DEF believed, MatchesAwaiting, Correlates
      <4>2. PICK q : q = commands
        OBVIOUS
      <4>3. Coming("command", q)'
        BY <2>1, <3>2, <4>1, <4>2
      <4>4. Coming("command", commands)'
        BY <1>6, <4>2, <4>3
      <4>5. awaiting' = awaiting
        BY <1>1, <1>6, <2>5, <1>3
      <4> QED BY <1>1, <1>6, <3>2, <4>4, <4>5 DEF Trust
    <3>3. CASE awaiting = 0 /\ reported = desired /\ Will(desired)
      <4>1. awaiting' = awaiting /\ reported' = reported
        BY <1>1, <1>6, <2>5
      <4> QED BY <1>1, <1>6, <2>2, <3>3, <4>1 DEF Trust
    <3> QED BY <1>1, <1>2, <1>3, <2>3, <2>4, <3>1, <3>2, <3>3 DEF Trust
  <2>6. CASE believed
    <3>1. reported' = desired /\ awaiting' = 0 /\ fb.says = desired
      BY <1>1, <1>6, <2>6
    <3>2. CASE Will(desired)
      BY <1>1, <1>6, <2>2, <3>1, <3>2 DEF Trust
    <3>3. CASE Coming("command", commands)
      BY <3>2, <3>3, CommandWill
    <3>4. CASE Coming("query", queries) /\ Correlates(fb, "query", queries, run)
      <4>1. ASSUME NEW x \in States, Will(x),
                   \/ Said(devOut, "query", queries, run, x)
                   \/ Said(down, "query", queries, run, x)
                   \/ Said(inbox, "query", queries, run, x)
            PROVE  Trust'
        <5>1. CASE fb.says = x
          <6>1. Will(desired)
            BY <3>1, <4>1, <5>1
          <6> QED BY <3>2, <6>1
        <5>2. CASE fb.says # x
          <6>1. \/ Said(devOut', "query", queries, run, x)
                \/ Said(down', "query", queries, run, x)
                \/ Said(inbox', "query", queries, run, x)
            BY <1>2, <1>4, <4>1, <5>2
          <6>2. Will(x)'
            BY <1>4, <4>1, WillStays
          <6>3. Coming("query", queries)'
            BY <1>1, <6>1, <6>2 DEF Coming
          <6> QED BY <1>1, <1>6, <6>3 DEF Trust
        <5> QED BY <5>1, <5>2
      <4>2. CASE Asked(up, "query", queries, run)
                 \/ (Idle(up) /\ Asked(devBox, "query", queries, run))
        <5>1. Coming("query", queries)'
          BY <1>1, <1>4, <4>2 DEF Coming
        <5> QED BY <1>1, <1>6, <5>1 DEF Trust
      <4> QED BY <3>4, <4>1, <4>2 DEF Coming
    <3> QED BY <1>1, <1>2, <1>3, <2>3, <2>4, <3>2, <3>3, <3>4 DEF Trust
  <2> QED BY <2>5, <2>6
<1> QED BY <1>1, <1>2, <1>5, <1>6

(* The request is on its way, or there is no connection to send it on.     *)
LEMMA StartRests ==
  ASSUME RestInv, PublishStarts
  PROVE  Flight' /\ Notes' /\ Trust'
<1> USE DEF PublishStarts, brokerVars, deviceVars
<1>1. /\ pc \in {"command", "query"} /\ outcome = "none"
      /\ UNCHANGED <<run, pc, commands, queries, inbox, link, down, retained, devOut, devBox>>
      /\ \/ link /\ up' = Append(up, Request) /\ outcome' = "pending"
         \/ ~link /\ outcome' = "not_sent" /\ up' = up
  OBVIOUS
<1> HIDE DEF PublishStarts
<1>2. Flight /\ Notes /\ TypeOK
  BY DEF RestInv, SyncInv
<1>3. up = <<>> /\ ~Told(down, "puback")
  BY <1>1, <1>2 DEF Flight
<1>4. Notes'
  BY <1>1, <1>2, NotesStay
<1>5. CASE ~link
  BY <1>1, <1>2, <1>3, <1>4, <1>5 DEF Flight, Trust, Reconnecting
<1>6. CASE link
  <2>1. up' = <<Request>> /\ outcome' = "pending"
    BY <1>1, <1>3, <1>6
  <2>2. Len(up') = 1 /\ 1 \in DOMAIN up' /\ up'[1] = Request
        /\ \A j \in DOMAIN up' : ~(1 < j)
    BY <2>1
  <2>3. Flight'
    BY <1>1, <1>2, <1>3, <2>1, <2>2 DEF Flight
  <2>4. pc = "command" => Asked(up', "command", commands, run)
    BY <2>2 DEF Request, Asked, Correlates, LastSaid
  <2>5. pc = "query" => Asked(up', "query", queries, run)
    BY <2>2 DEF Request, Asked, Correlates, LastSaid
  <2>6. /\ pc = "command" => Coming("command", commands)'
        /\ pc = "query" => Coming("query", queries)'
    BY <1>1, <2>4, <2>5 DEF Coming
  <2>7. Trust'
    BY <1>1, <2>1, <2>6 DEF Trust
  <2> QED BY <1>4, <2>3, <2>7
<1> QED BY <1>5, <1>6

(* The request is awaited, or the device is asked what became of it.       *)
LEMMA EndRests ==
  ASSUME RestInv, PublishEnds
  PROVE  Flight' /\ Notes' /\ Trust'
<1>1. /\ UNCHANGED <<run, commands, inbox, link, up, down, retained>>
      /\ UNCHANGED <<devOut, devBox, relay, past>>
      /\ outcome \in {"sent", "unknown", "not_sent"} /\ outcome' = "none"
      /\ \/ pc = "command" /\ pc' = "query"
         \/ /\ pc = "command" /\ pc' = "idle" /\ outcome = "sent"
            /\ awaiting' = commands
         \/ pc = "query" /\ pc' = "idle" /\ queries' = queries
  BY DEF PublishEnds, CommandEnds, QueryEnds, QueryDevice, Ended, linkVars,
         brokerVars, deviceVars
<1>2. Flight /\ Notes /\ Trust
  BY DEF RestInv
<1>3. up = <<>> /\ ~Told(down, "puback")
  BY <1>1, <1>2 DEF Flight
<1>4. Flight' /\ Notes'
  BY <1>1, <1>2, <1>3, NotesStay DEF Flight
<1>5. \A of, id : Coming(of, id) => Coming(of, id)'
  BY <1>1, ComingStays
<1>6. CASE pc' = "query"
  BY <1>1, <1>4, <1>6 DEF Trust
<1>7. CASE "missed" \in past \/ Reconnecting
  BY <1>1, <1>4, <1>7 DEF Trust, Reconnecting
<1>8. CASE pc = "query" /\ pc' = "idle" /\ queries' = queries /\ Coming("query", queries)
  <2>1. PICK q : q = queries
    OBVIOUS
  <2>2. Coming("query", q)'
    BY <1>5, <1>8, <2>1
  <2>3. Coming("query", queries)'
    BY <1>8, <2>1, <2>2
  <2> QED BY <1>4, <1>8, <2>3 DEF Trust
<1>9. CASE /\ pc = "command" /\ pc' = "idle" /\ awaiting' = commands
           /\ Coming("command", commands)
  <2>1. PICK q : q = commands
    OBVIOUS
  <2>2. Coming("command", q)'
    BY <1>5, <1>9, <2>1
  <2>3. Coming("command", commands)'
    BY <1>1, <2>1, <2>2
  <2>4. commands # 0
    BY <1>2, <1>9 DEF Flight
  <2> QED BY <1>1, <1>4, <1>9, <2>3, <2>4 DEF Trust
<1> QED BY <1>1, <1>2, <1>6, <1>7, <1>8, <1>9 DEF Trust
-----------------------------------------------------------------------------
(* At first there is no connection.                                        *)
LEMMA RestInit == Init => RestInv
<1> SUFFICES ASSUME Init PROVE RestInv
  OBVIOUS
<1>1. SyncInv
  BY SyncInit
<1>2. /\ ~Told(down, "puback") /\ ~Told(down, "disconnected")
      /\ Single(down, "puback") /\ Reports(devOut)
  BY DEF Init, Told, Single, Reports
<1>3. Reports(retained)
  <2>1. retained = <<Unsolicited("OFF")>> /\ Unsolicited("OFF").kind = "feedback"
    BY DEF Init, Unsolicited, Plain
  <2>2. \A i \in DOMAIN retained : retained[i] = Unsolicited("OFF")
    BY <2>1
  <2> QED BY <2>1, <2>2 DEF Reports
<1>4. Flight /\ Notes /\ Trust
  BY <1>2, <1>3 DEF Init, Flight, Notes, Trust, Reconnecting
<1> QED BY <1>1, <1>4 DEF RestInv

(* The steps, one by one.                                                  *)
LEMMA RestStep == RestInv /\ [Next]_vars => RestInv'
<1> SUFFICES ASSUME RestInv, [Next]_vars PROVE RestInv'
  OBVIOUS
<1>1. SyncInv'
  BY SyncStep DEF RestInv
<1>2. CASE Controller
  <2>1. Flight' /\ Notes' /\ Trust'
    BY <1>2, ConnectRests, ConnectedRests, DisconnectedRests, TemperatureRests,
       FeedbackRests, StartRests, EndRests DEF Controller
  <2> QED BY <1>1, <2>1 DEF RestInv
<1>3. CASE Network
  <2>1. Flight' /\ Notes' /\ Trust'
    BY <1>3, ReaderRests, BrokerRests, ReportRests, LossesRest DEF Network
  <2> QED BY <1>1, <2>1 DEF RestInv
<1>4. CASE Device \/ DeviceFault
  <2>1. Flight' /\ Notes' /\ Trust'
    BY <1>4, DeviceRests, ReturnRests, DeviceLossRests, RebootRests
       DEF Device, DeviceFault
  <2> QED BY <1>1, <2>1 DEF RestInv
<1>5. CASE ControllerFault \/ BrokerStops
  <2>1. Flight' /\ Notes' /\ Trust'
    BY <1>5, LossesRest, RestartRests DEF ControllerFault
  <2> QED BY <1>1, <2>1 DEF RestInv
<1>6. CASE BrokerStarts \/ ProxyArmed \/ UNCHANGED vars
  <2>1. Flight' /\ Notes' /\ Trust'
    BY <1>6, AsideRests
  <2> QED BY <1>1, <2>1 DEF RestInv
<1>7. CASE \E t \in Temperatures : SampleArrives(t)
  <2>1. PICK t \in Temperatures : SampleArrives(t)
    BY <1>7
  <2>2. Flight' /\ Notes' /\ Trust'
    BY <2>1, SampleRests
  <2> QED BY <1>1, <2>2 DEF RestInv
<1> QED BY <1>2, <1>3, <1>4, <1>5, <1>6, <1>7 DEF Next

(* The controller is never left with a belief nobody will correct: it is   *)
(* to ask, the answer that says what will be is coming, or it is right.    *)
THEOREM RestInvariant == Spec => []RestInv
<1> QED
  BY RestInit, RestStep, PTL DEF Spec

(* Once nothing is on its way, the relay is as the controller wants it and *)
(* as it reports it, and no command is unconfirmed: after any number of    *)
(* samples, losses and restarts, unless a request or an answer was lost    *)
(* behind the broker.                                                      *)
THEOREM RestHolds == Spec => []RestIsAligned
<1>1. RestInv => RestIsAligned
  <2> SUFFICES ASSUME RestInv, AtRest, "missed" \notin past PROVE Aligned
    BY DEF RestIsAligned
  <2>1. /\ pc = "idle" /\ link /\ up = <<>> /\ down = <<>> /\ inbox = <<>>
        /\ devBox = <<>> /\ devOut = <<>>
    BY DEF AtRest
  <2>2. /\ ~Told(inbox, "connected")
        /\ \A x : ~Commanded(up, x) /\ ~Commanded(devBox, x)
        /\ \A of, id, r, x : /\ ~Said(devOut, of, id, r, x)
                             /\ ~Said(down, of, id, r, x)
                             /\ ~Said(inbox, of, id, r, x)
        /\ \A of, id, r : ~Asked(up, of, id, r) /\ ~Asked(devBox, of, id, r)
    BY <2>1 DEF Told, Commanded, Said, Asked
  <2>3. ~Reconnecting
    BY <2>1, <2>2 DEF Reconnecting
  <2>4. \A of, id : ~Coming(of, id)
    BY <2>2 DEF Coming
  <2>5. awaiting = 0 /\ reported = desired /\ Will(desired)
    BY <2>1, <2>3, <2>4 DEF RestInv, Trust
  <2>6. relay = desired
    BY <2>2, <2>5 DEF Will
  <2> QED BY <2>5, <2>6 DEF Aligned
<1> QED
  BY <1>1, RestInvariant, PTL
=============================================================================
