------------------------ MODULE DurableDelivery_proofs ------------------------
(***************************************************************************)
(* Proofs about DurableDelivery, for every value of the constants: the     *)
(* types, and that bytes leave only after the possible write is on disk,   *)
(* with what follows from it.                                              *)
(*                                                                         *)
(* The second half proves CommitInv inductive together with the types.     *)
(* Almost every step is tame: it leaves the table and the history alone    *)
(* and changes records only in ways the invariant does not see.  A tame    *)
(* step is described by the Keep.. conditions below, one per group of      *)
(* variables, and TameStep proves the invariant from them once.  The       *)
(* commit of a statement, the publication of an admission, the write and   *)
(* the end and start of a process are the steps that are left.             *)
(***************************************************************************)
EXTENDS DurableDelivery, FiniteSetTheorems, SequenceTheorems, TLAPS

-----------------------------------------------------------------------------
(* Sequences of deliveries.                                                *)

LEMMA WithoutType ==
    ASSUME NEW s \in Seq(Deliveries), NEW d
    PROVE  /\ Without(s, d) \in Seq(Deliveries)
           /\ Members(Without(s, d)) \subseteq Members(s)
<1>1. CASE d \notin Members(s)
  BY <1>1 DEF Without
<1>2. CASE d \in Members(s)
  <2> DEFINE i == CHOOSE k \in DOMAIN s : s[k] = d
             l == SubSeq(s, 1, i - 1)
             r == SubSeq(s, i + 1, Len(s))
  <2>1. i \in 1..Len(s)
    BY <1>2, LenProperties DEF Members
  <2>8. Len(s) \in Nat /\ DOMAIN s = 1..Len(s) /\ i \in Int
    BY <2>1, LenProperties
  <2>9. \A j \in 1..Len(s) : s[j] \in Deliveries
    BY ElementOfSeq
  <2> HIDE DEF i
  <2>2a. l \in Seq(Deliveries)
    BY <2>1, <2>8, <2>9, SubSeqProperties
  <2>2b. r \in Seq(Deliveries)
    <3>1. i + 1 \in Int /\ Len(s) \in Int /\ \A j \in i + 1..Len(s) : s[j] \in Deliveries
      BY <2>1, <2>8, <2>9
    <3> QED BY <3>1, SubSeqProperties
  <2>2. l \in Seq(Deliveries) /\ r \in Seq(Deliveries)
    BY <2>2a, <2>2b
  <2>3. Without(s, d) = l \o r
    BY <1>2 DEF Without, i
  <2>4. \A j \in DOMAIN l : l[j] = s[j] /\ j \in DOMAIN s
    BY <2>1, <2>2, LenProperties, SubSeqProperties
  <2>5. \A j \in DOMAIN r : r[j] = s[i + j] /\ i + j \in DOMAIN s
    <3>1. i + 1 \in Int /\ Len(s) \in Int /\ \A j \in i + 1..Len(s) : s[j] \in Deliveries
      BY <2>1, <2>8, <2>9
    <3>2. Len(r) = IF i + 1 <= Len(s) THEN Len(s) - (i + 1) + 1 ELSE 0
      BY <3>1, SubSeqProperties
    <3>3. \A j \in 1..Len(s) - (i + 1) + 1 : r[j] = s[i + 1 + j - 1]
      BY <3>1, SubSeqProperties
    <3>4. DOMAIN r = 1..Len(r)
      BY <2>2, LenProperties
    <3> HIDE DEF r
    <3> QED BY <2>1, <2>8, <3>2, <3>3, <3>4
  <2>6. \A j \in DOMAIN (l \o r) : \/ j \in DOMAIN l /\ (l \o r)[j] = l[j]
                                  \/ /\ j - Len(l) \in DOMAIN r
                                     /\ (l \o r)[j] = r[j - Len(l)]
    BY <2>2, LenProperties, ConcatProperties
  <2>7. l \o r \in Seq(Deliveries)
    BY <2>2, ConcatProperties
  <2> HIDE DEF l, r
  <2> QED BY <2>3, <2>4, <2>5, <2>6, <2>7 DEF Members
<1> QED BY <1>1, <1>2

LEMMA ExpiredType == ASSUME NEW row \in Row PROVE ExpiredRow(row) \in Row
<1>1. NoRow \in Row
  BY OutboxAssumption DEF Row, NoRow
<1> QED BY <1>1 DEF Row, ExpiredRow

LEMMA RowType ==
    ASSUME NEW stmt \in Statement, NEW row \in Row,
           NEW pid \in 0..MaxPacketId, NEW seq \in Nat
    PROVE  RowAfter(stmt, row, pid, seq) \in Row
<1>1. NoRow \in Row
  BY OutboxAssumption DEF Row, NoRow
<1>2. CASE stmt = "insert"
  BY <1>2 DEF Row, RowAfter
<1>3. CASE stmt = "attach"
  BY <1>3 DEF Row, RowAfter
<1>4. CASE stmt \in {"mark", "check", "quarantine"}
  BY <1>4 DEF Row, RowAfter
<1>5. CASE stmt \in {"delete", "expire"}
  BY <1>1, <1>5, ExpiredType DEF RowAfter
<1> QED BY <1>2, <1>3, <1>4, <1>5 DEF Statement

LEMMA FreePidsType ==
    ASSUME nextPid \in PacketIds, NEW id \in FreePids
    PROVE  id \in PacketIds
BY OutboxAssumption DEF FreePids, PacketIds

LEMMA Constants ==
    /\ NoDelivery \notin Deliveries /\ MaxPacketId \in Nat \ {0}
    /\ ReconnectAttempts \in Nat
BY OutboxAssumption, DeliveryAssumption
-----------------------------------------------------------------------------
(* Types.                                                                  *)

TypeInv == TypeOK /\ HolderOK

LEMMA RecordForms ==
    ASSUME NEW r \in Record, NEW p \in Phase, NEW g \in Nat
    PROVE  /\ [r EXCEPT !.phase = p] \in Record
           /\ [r EXCEPT !.phase = p, !.started = TRUE] \in Record
           /\ [r EXCEPT !.phase = p, !.gen = g] \in Record
           /\ [r EXCEPT !.phase = p, !.gen = g, !.attempts = r.attempts + 1]
                  \in Record
<1>1. r.attempts + 1 \in Nat
  BY DEF Record
<1>2. [r EXCEPT !.phase = p] \in Record
  BY DEF Record
<1>3. [r EXCEPT !.phase = p, !.started = TRUE] \in Record
  BY DEF Record
<1>4. [r EXCEPT !.phase = p, !.gen = g] \in Record
  BY DEF Record
<1>5. [r EXCEPT !.phase = p, !.gen = g, !.attempts = r.attempts + 1] \in Record
  BY <1>1 DEF Record
<1> QED BY <1>2, <1>3, <1>4, <1>5

LEMMA RecordUpdates ==
    ASSUME NEW m \in [Deliveries -> Record], NEW d \in Deliveries
    PROVE  /\ \A p \in Phase :
                  [m EXCEPT ![d].phase = p] \in [Deliveries -> Record]
           /\ \A id \in 0..MaxPacketId :
                  [m EXCEPT ![d].pid = id] \in [Deliveries -> Record]
<1>1. m[d] \in Record
  OBVIOUS
<1>2. \A p \in Phase : [m EXCEPT ![d].phase = p] \in [Deliveries -> Record]
  <2> TAKE p \in Phase
  <2>1. [m[d] EXCEPT !.phase = p] \in Record
    BY <1>1 DEF Record
  <2> QED BY <2>1
<1>3. \A id \in 0..MaxPacketId :
          [m EXCEPT ![d].pid = id] \in [Deliveries -> Record]
  <2> TAKE id \in 0..MaxPacketId
  <2>1. [m[d] EXCEPT !.pid = id] \in Record
    BY <1>1 DEF Record
  <2> QED BY <2>1
<1> QED BY <1>2, <1>3

LEMMA MemType ==
    ASSUME NEW m \in [Deliveries -> Record], NEW d \in Deliveries
    PROVE  /\ \A g \in Nat : Attach(m, d, g) \in [Deliveries -> Record]
           /\ MarkStarted(m, d) \in [Deliveries -> Record]
           /\ FinishTerminal(m, d) \in [Deliveries -> Record]
<1>1. m[d] \in Record /\ 0 \in Nat
  OBVIOUS
<1>0. {"Queued", "AwaitingAck", "Unknown", "NotSent"} \subseteq Phase
  BY DEF Phase, TerminalPhase
<1>2. \A g \in Nat : Attach(m, d, g) \in [Deliveries -> Record]
  <2> TAKE g \in Nat
  <2>1. [m[d] EXCEPT !.phase = "Queued", !.gen = g,
                     !.attempts = m[d].attempts + 1] \in Record
    BY <1>0, <1>1, RecordForms
  <2> QED BY <2>1 DEF Attach
<1>3. MarkStarted(m, d) \in [Deliveries -> Record]
  <2>1. [m[d] EXCEPT !.phase = "AwaitingAck", !.started = TRUE] \in Record
    BY <1>0, <1>1, RecordForms
  <2> QED BY <2>1 DEF MarkStarted
<1>4. FinishTerminal(m, d) \in [Deliveries -> Record]
  <2> DEFINE p == IF m[d].started THEN "Unknown" ELSE "NotSent"
  <2>1. p \in Phase
    BY <1>0
  <2>2. [m[d] EXCEPT !.phase = p, !.gen = 0] \in Record
    BY <1>1, <2>1, RecordForms
  <2>3. FinishTerminal(m, d) = m
            \/ FinishTerminal(m, d) =
                   [m EXCEPT ![d] = [m[d] EXCEPT !.phase = p, !.gen = 0]]
    BY DEF FinishTerminal
  <2> HIDE DEF p
  <2> QED BY <2>2, <2>3
<1> QED BY <1>2, <1>3, <1>4

LEMMA DetachedType ==
    ASSUME NEW m \in [Deliveries -> Record], NEW S
    PROVE  Detached(m, S) \in [Deliveries -> Record]
<1>1. \A e \in Deliveries : m[e] \in Record
  OBVIOUS
<1>2. "AwaitingReconnect" \in Phase /\ 0 \in Nat
  BY DEF Phase
<1>3. \A e \in Deliveries :
          [m[e] EXCEPT !.phase = "AwaitingReconnect", !.gen = 0] \in Record
  BY <1>1, <1>2, RecordForms
<1> QED BY <1>1, <1>3 DEF Detached

(* What an abort leaves in the variables it changes.                       *)
AbortedType ==
    mem' \in [Deliveries -> Record] /\ SessTypeOK'

LEMMA AbortType ==
    ASSUME TypeInv, NEW c \in Cause, NEW m \in [Deliveries -> Record], NEW S,
           AbortWith(c, m, S)
    PROVE  AbortedType
<1>1. Detached(m, S) \in [Deliveries -> Record]
  BY DetachedType
<1>2. <<>> \in Seq(Deliveries)
  OBVIOUS
<1>3. 0 \in Int /\ FALSE \in BOOLEAN
  OBVIOUS
<1>4. CASE alive
  BY <1>1, <1>2, <1>3, <1>4 DEF AbortWith, AbortedType, TypeInv, TypeOK,
                              SessTypeOK
<1>5. CASE ~alive
  BY <1>2, <1>3, <1>5 DEF AbortWith, AbortedType, TypeInv, TypeOK,
                              SessTypeOK
<1> QED BY <1>4, <1>5

LEMMA InitType == Init => TypeInv
<1> SUFFICES ASSUME Init PROVE TypeInv
  OBVIOUS
<1>1. EmptyTable \in [Deliveries -> Row]
  BY Constants DEF EmptyTable, NoRow, Row
<1>2. [d \in Deliveries |-> NoRecord] \in [Deliveries -> Record]
  BY Constants DEF NoRecord, Record, Phase
<1>3. NoTx \in Transition /\ IdleTask \in Task
  BY DEF Transition, Task
<1>4. 1 \in PacketIds
  BY Constants DEF PacketIds
<1>5. TypeOK
  <2>1. \A S : <<>> \in Seq(S)
    OBVIOUS
  <2>2. DbTypeOK /\ tx \in Transition /\ BookTypeOK
    BY <1>1, <1>2, <1>3, <1>4, <2>1 DEF Init, DbTypeOK, BookTypeOK
  <2>6a. alive \in BOOLEAN 
    BY DEF Init, Cause
  <2>6b. cause \in Cause
    BY DEF Init, Cause
  <2>6c. slots \in Int
    BY DEF Init, Cause
  <2>6d. gen \in Nat
    BY DEF Init, Cause
  <2>6. alive \in BOOLEAN /\ cause \in Cause /\ slots \in Int /\ gen \in Nat
    BY <2>6a, <2>6b, <2>6c, <2>6d
  <2>7. outq \in Seq(Deliveries) /\ callers \subseteq Deliveries /\ attached \subseteq Deliveries
    BY <2>1 DEF Init
  <2>3. SessTypeOK
    BY <2>6, <2>7 DEF SessTypeOK
  <2>5. TaskTypeOK /\ SupTypeOK
    BY <1>3, <2>1 DEF Init, TaskTypeOK, SupTypeOK, SupPc
  <2>4. NetTypeOK /\ EnvTypeOK /\ HistTypeOK
    BY <2>1 DEF Init, NetTypeOK, EnvTypeOK, HistTypeOK
  <2> QED BY <2>2, <2>3, <2>4, <2>5 DEF TypeOK
<1>6. HolderOK
  BY DEF Init, HolderOK, NoTx
<1> QED BY <1>5, <1>6 DEF TypeInv

LEMMA BeginType ==
    ASSUME TypeInv, NEW d \in Deliveries, NEW op, NEW stmt, Begin(op, d, stmt),
           \/ /\ op \in {"write", "ack", "watch", "replay", "block"}
              /\ stmt \in Statement \ {"insert"}
           \/ op = "admit" /\ stmt = "insert"
    PROVE  tx' \in Transition
<1>1. gen \in Nat /\ "wait" \in Result
  BY DEF TypeInv, TypeOK, SessTypeOK, Result
<1>2. tx' = [op |-> op, d |-> d, gen |-> gen, stmt |-> stmt, res |-> "wait"]
  BY DEF Begin
<1> QED BY <1>1, <1>2 DEF Transition

LEMMA HolderType ==
    ASSUME TypeInv, tx # NoTx
    PROVE  /\ tx.d \in Deliveries /\ tx.stmt \in Statement /\ tx.gen \in Nat
           /\ \A r \in Result : [tx EXCEPT !.res = r] \in Transition
           /\ tx.op = "admit" => tx.stmt \in {"insert", "attach"}
           /\ tx.op \in {"admit", "write", "ack", "watch", "replay", "block"}
<1>1. CASE tx \in [op : {"admit"}, d : Deliveries, gen : Nat,
                  stmt : {"insert", "attach"}, res : Result]
  BY <1>1 DEF Transition, Statement
<1>2. CASE tx \in [op : {"write", "ack", "watch", "replay", "block"},
                  d : Deliveries, gen : Nat, stmt : Statement \ {"insert"},
                  res : Result]
  BY <1>2 DEF Transition
<1> QED BY <1>1, <1>2 DEF Transition, TypeInv, TypeOK

LEMMA TaskFacts ==
    /\ IdleTask \in Task /\ IdleTask.pc = "idle"
    /\ \A t \in Task : t.flag \in BOOLEAN
    /\ \A t \in Task : t.pc # "idle" =>
           /\ t.d \in Deliveries
           /\ \A pc \in {"enter", "tx", "late", "writing", "exit"} :
                  [t EXCEPT !.pc = pc] \in Task
    /\ \A pc \in {"enter", "tx", "late", "writing", "exit"},
          d \in Deliveries, f \in BOOLEAN : [pc |-> pc, d |-> d, flag |-> f] \in Task
<1>1. IdleTask \in Task /\ IdleTask.pc = "idle"
  BY DEF Task, IdleTask
<1>2. \A t \in Task : t.flag \in BOOLEAN
  <2> TAKE t \in Task
  <2>1. CASE t = IdleTask
    BY <2>1 DEF IdleTask
  <2>2. CASE t \in [pc : {"enter", "tx", "late", "writing", "exit"},
                    d : Deliveries, flag : BOOLEAN]
    BY <2>2
  <2> QED BY <2>1, <2>2 DEF Task
<1>3. \A t \in Task : t.pc # "idle" =>
           /\ t.d \in Deliveries
           /\ \A pc \in {"enter", "tx", "late", "writing", "exit"} :
                  [t EXCEPT !.pc = pc] \in Task
  BY DEF Task, IdleTask
<1>4. \A pc \in {"enter", "tx", "late", "writing", "exit"},
          d \in Deliveries, f \in BOOLEAN : [pc |-> pc, d |-> d, flag |-> f] \in Task
  BY DEF Task
<1> QED BY <1>1, <1>2, <1>3, <1>4

LEMMA NoTxFacts == NoTx \in Transition /\ NoTx.op = "none" /\ NoTx.res = "none"
BY DEF NoTx, Transition

LEMMA Statements ==
    ASSUME NEW d
    PROVE  /\ WriteStatement(d) \in Statement \ {"insert"}
           /\ ReplayStatement(d) \in Statement \ {"insert"}
BY DEF WriteStatement, ReplayStatement, Statement

LEMMA Kept ==
    ASSUME TypeInv
    PROVE  /\ UNCHANGED dbVars   => DbTypeOK'
           /\ UNCHANGED bookVars => BookTypeOK'
           /\ UNCHANGED sessVars => SessTypeOK'
           /\ UNCHANGED taskVars => TaskTypeOK'
           /\ UNCHANGED supVars  => SupTypeOK'
           /\ UNCHANGED netVars  => NetTypeOK'
           /\ UNCHANGED envVars  => EnvTypeOK'
           /\ UNCHANGED histVars => HistTypeOK'
           /\ UNCHANGED <<tx, taskVars>> => HolderOK'
<1>1. UNCHANGED dbVars => DbTypeOK'
  BY DEF TypeInv, TypeOK, dbVars, DbTypeOK
<1>2. UNCHANGED bookVars => BookTypeOK'
  BY DEF TypeInv, TypeOK, bookVars, BookTypeOK
<1>3. UNCHANGED sessVars => SessTypeOK'
  BY DEF TypeInv, TypeOK, sessVars, SessTypeOK
<1>4. UNCHANGED taskVars => TaskTypeOK'
  BY DEF TypeInv, TypeOK, taskVars, TaskTypeOK
<1>5. UNCHANGED supVars => SupTypeOK'
  BY DEF TypeInv, TypeOK, supVars, SupTypeOK
<1>6. UNCHANGED netVars => NetTypeOK'
  BY DEF TypeInv, TypeOK, netVars, NetTypeOK
<1>7. UNCHANGED envVars => EnvTypeOK'
  BY DEF TypeInv, TypeOK, envVars, EnvTypeOK
<1>8. UNCHANGED histVars => HistTypeOK'
  BY DEF TypeInv, TypeOK, histVars, HistTypeOK
<1>9. UNCHANGED <<tx, taskVars>> => HolderOK'
  BY DEF TypeInv, HolderOK, taskVars
<1> QED BY <1>1, <1>2, <1>3, <1>4, <1>5, <1>6, <1>7, <1>8, <1>9

LEMMA StoreType ==
    ASSUME TypeInv,
           \/ StoreCommits
           \/ StoreFaults
    PROVE  TypeInv'
<1>1. ASSUME StoreCommits PROVE TypeInv'
  <2>0. TypeInv /\ StoreCommits
    BY <1>1
  <2>1. tx' \in Transition
    <3>1. tx # NoTx
      BY <2>0, NoTxFacts DEF StoreCommits
    <3>2. tx' = [tx EXCEPT !.res = "ok"] \/ tx' = [tx EXCEPT !.res = "error"]
      BY <2>0 DEF StoreCommits
    <3> QED BY <3>1, <3>2, HolderType DEF TypeInv, Result
  <2>2. HolderOK'
    <3>1. tx \in Transition
      BY DEF TypeInv, TypeOK
    <3>2. tx'.op = tx.op /\ tx'.d = tx.d
      BY <2>0, <3>1, NoTxFacts DEF StoreCommits, Transition
    <3> QED BY <2>0, <3>2 DEF StoreCommits, TypeInv, HolderOK, taskVars
  <2>3. DbTypeOK'
    <3>1. tx # NoTx
      BY <2>0, NoTxFacts DEF StoreCommits
    <3>2. tx.d \in Deliveries /\ tx.stmt \in Statement
      BY <3>1, HolderType
    <3>3. /\ rows \in [Deliveries -> Row] /\ nextSeq \in Nat /\ known \in BOOLEAN
          /\ mem[tx.d] \in Record
      BY <3>2 DEF TypeInv, TypeOK, DbTypeOK, BookTypeOK
    <3>4. RowAfter(tx.stmt, rows[tx.d], mem[tx.d].pid, nextSeq) \in Row
      BY <3>2, <3>3, RowType DEF Record
    <3>5. /\ known' = known
          /\ nextSeq' = nextSeq + 1 \/ nextSeq' = nextSeq
          /\ \/ rows' = rows
             \/ rows' = [rows EXCEPT ![tx.d] =
                            RowAfter(tx.stmt, @, mem[tx.d].pid, nextSeq)]
      BY <2>0 DEF StoreCommits
    <3> QED BY <3>3, <3>4, <3>5 DEF DbTypeOK
  <2>4. HistTypeOK'
    <3>1. tx # NoTx
      BY <2>0, NoTxFacts DEF StoreCommits
    <3>2. tx.d \in Deliveries
      BY <3>1, HolderType
    <3>3. /\ admitted' = admitted \cup {tx.d} \/ admitted' = admitted
          /\ sent' = sent /\ answered' = answered
      BY <2>0 DEF StoreCommits
    <3> QED BY <3>2, <3>3 DEF HistTypeOK, TypeInv, TypeOK
  <2> QED BY <2>0, <2>1, <2>2, <2>3, <2>4, Kept DEF StoreCommits, TypeInv,
     TypeOK
<1>2. ASSUME StoreFaults PROVE TypeInv'
  <2>0. TypeInv /\ StoreFaults
    BY <1>2
  <2>1. tx' \in Transition
    <3>1. tx # NoTx /\ tx' = [tx EXCEPT !.res = "error"]
      BY <2>0, NoTxFacts DEF StoreFaults
    <3> QED BY <3>1, HolderType DEF Result
  <2>2. HolderOK'
    <3>1. tx \in Transition
      BY DEF TypeInv, TypeOK
    <3>2. tx'.op = tx.op /\ tx'.d = tx.d
      BY <2>0, <3>1, NoTxFacts DEF StoreFaults, Transition
    <3> QED BY <2>0, <3>2 DEF StoreFaults, TypeInv, HolderOK, taskVars
  <2>3. EnvTypeOK'
    BY <2>0 DEF StoreFaults, TypeInv, TypeOK, EnvTypeOK
  <2> QED BY <2>0, <2>1, <2>2, <2>3, Kept DEF StoreFaults, TypeInv, TypeOK
<1> QED BY <1>1, <1>2

LEMMA SubmitterType ==
    ASSUME TypeInv,
           \/ (\E d \in Deliveries : SubmitBegins(d))
           \/ (\E d \in Deliveries : CallerEnqueues(d))
           \/ (\E d \in Deliveries : CallerCancelled(d))
           \/ AdmissionCommitted
           \/ AdmissionAttached
           \/ AdmissionFailed
    PROVE  TypeInv'
<1>1. ASSUME NEW d \in Deliveries, SubmitBegins(d) PROVE TypeInv'
  <2>0. TypeInv /\ SubmitBegins(d)
    BY <1>1
  <2>1. tx' \in Transition
    BY <2>0, NoTxFacts, BeginType, TaskFacts DEF SubmitBegins, TypeInv,
       TypeOK, TaskTypeOK, Statement
  <2>2. HolderOK'
    BY <2>0, NoTxFacts, TaskFacts DEF SubmitBegins, Begin, TypeInv, HolderOK
  <2>3. BookTypeOK'
    <3>1. PICK id \in FreePids : /\ mem' = [mem EXCEPT ![d].pid = id]
                                /\ nextPid' = NextAfter(id)
      BY <2>0 DEF SubmitBegins
    <3>2. /\ mem \in [Deliveries -> Record] /\ order \in Seq(Deliveries)
          /\ nextPid \in PacketIds /\ order' = order
      BY <2>0 DEF SubmitBegins, TypeInv, TypeOK, BookTypeOK
    <3>3. id \in PacketIds
      BY <3>2, FreePidsType
    <3>4. NextAfter(id) \in PacketIds
      BY <3>3, Constants DEF NextAfter, PacketIds
    <3>5. mem' \in [Deliveries -> Record]
      BY <3>1, <3>2, <3>3, RecordUpdates DEF PacketIds
    <3> QED BY <3>1, <3>2, <3>4, <3>5 DEF BookTypeOK
  <2>4. SessTypeOK'
    BY <2>0 DEF SubmitBegins, Begin, TypeInv, TypeOK, SessTypeOK, BookTypeOK
  <2> QED BY <2>0, <2>1, <2>2, <2>3, <2>4, Kept DEF SubmitBegins, TypeInv,
     TypeOK
<1>2. ASSUME NEW d \in Deliveries, CallerEnqueues(d) PROVE TypeInv'
  <2>0. TypeInv /\ CallerEnqueues(d)
    BY <1>2
  <2>1. SessTypeOK'
    BY <2>0 DEF CallerEnqueues, TypeInv, TypeOK, SessTypeOK, BookTypeOK
  <2> QED BY <2>0, <2>1, Kept DEF CallerEnqueues, TypeInv, TypeOK
<1>3. ASSUME NEW d \in Deliveries, CallerCancelled(d) PROVE TypeInv'
  <2>0. TypeInv /\ CallerCancelled(d)
    BY <1>3
  <2>1. SessTypeOK'
    BY <2>0 DEF CallerCancelled, TypeInv, TypeOK, SessTypeOK, BookTypeOK
  <2> QED BY <2>0, <2>1, Kept DEF CallerCancelled, TypeInv, TypeOK
<1>4. ASSUME AdmissionCommitted PROVE TypeInv'
  <2>0. TypeInv /\ AdmissionCommitted
    BY <1>4
  <2>1. tx' \in Transition
    <3>1. tx # NoTx /\ tx.op = "admit"
      BY <2>0, NoTxFacts DEF AdmissionCommitted, Done
    <3>2. tx' = NoTx \/ tx' = [tx EXCEPT !.stmt = "attach", !.res = "wait"]
      BY <2>0 DEF AdmissionCommitted, Release
    <3>3. tx \in [op : {"admit"}, d : Deliveries, gen : Nat,
                 stmt : {"insert", "attach"}, res : Result]
      BY <3>1 DEF TypeInv, TypeOK, Transition
    <3> QED BY <3>2, <3>3, NoTxFacts DEF Transition, Result
  <2>2. HolderOK'
    <3>1. tx \in Transition /\ tx # NoTx /\ tx.op = "admit"
      BY <2>0, NoTxFacts DEF TypeInv, TypeOK, AdmissionCommitted, Done
    <3>2. tx' = NoTx \/ tx' = [tx EXCEPT !.stmt = "attach", !.res = "wait"]
      BY <2>0 DEF AdmissionCommitted, Release
    <3>3. tx'.op \in {"none", "admit"}
      BY <3>1, <3>2, NoTxFacts DEF Transition
    <3> QED BY <3>3 DEF HolderOK
  <2>3. BookTypeOK'
    <3>1. tx # NoTx
      BY <2>0, NoTxFacts DEF AdmissionCommitted, Done, Failed
    <3>2. tx.d \in Deliveries /\ tx.gen \in Nat
      BY <3>1, HolderType
    <3>3. /\ mem \in [Deliveries -> Record] /\ order \in Seq(Deliveries)
          /\ nextPid \in PacketIds
      BY DEF TypeInv, TypeOK, BookTypeOK
    <3>4. /\ order' = Append(order, tx.d) /\ nextPid' = nextPid
          /\ \/ mem' = [mem EXCEPT ![tx.d].phase = "Queued"]
             \/ mem' = [mem EXCEPT ![tx.d].phase = "AwaitingReconnect"]
      BY <2>0 DEF AdmissionCommitted
    <3>5. mem' \in [Deliveries -> Record]
      <4>1. "Queued" \in Phase /\ "AwaitingReconnect" \in Phase
        BY DEF Phase
      <4> QED BY <3>2, <3>3, <3>4, <4>1, RecordUpdates
    <3>6. order' \in Seq(Deliveries)
      BY <3>2, <3>3, <3>4, AppendProperties
    <3> QED BY <3>3, <3>4, <3>5, <3>6 DEF BookTypeOK
  <2>4. SessTypeOK'
    <3>1. slots \in Int
      BY DEF TypeInv, TypeOK, SessTypeOK
    <3>2. slots' \in Int
      BY <2>0, <3>1 DEF AdmissionCommitted
    <3> QED BY <2>0, <3>2 DEF AdmissionCommitted, TypeInv, TypeOK, SessTypeOK
  <2> QED BY <2>0, <2>1, <2>2, <2>3, <2>4, Kept DEF AdmissionCommitted,
     TypeInv, TypeOK
<1>5. ASSUME AdmissionAttached PROVE TypeInv'
  <2>0. TypeInv /\ AdmissionAttached
    BY <1>5
  <2>1. tx' \in Transition
    BY <2>0, NoTxFacts, HolderType DEF AdmissionAttached, Done, Release,
       TypeInv, TypeOK, TaskTypeOK, Statement
  <2>2. HolderOK'
    BY <2>0, NoTxFacts, TaskFacts DEF AdmissionAttached, Done, Release,
       TypeInv, HolderOK
  <2>3. BookTypeOK'
    <3>1. tx # NoTx
      BY <2>0, NoTxFacts DEF AdmissionAttached, Done, Failed
    <3>2. tx.d \in Deliveries /\ tx.gen \in Nat
      BY <3>1, HolderType
    <3>3. /\ mem \in [Deliveries -> Record] /\ order \in Seq(Deliveries)
          /\ nextPid \in PacketIds
      BY DEF TypeInv, TypeOK, BookTypeOK
    <3>4. mem' = Attach(mem, tx.d, tx.gen) /\ UNCHANGED <<order, nextPid>>
      BY <2>0 DEF AdmissionAttached
    <3> QED BY <3>2, <3>3, <3>4, MemType DEF BookTypeOK
  <2>4. SessTypeOK'
    <3>1. tx # NoTx
      BY <2>0, NoTxFacts DEF AdmissionAttached, Done, Failed
    <3>2. tx.d \in Deliveries /\ tx.gen \in Nat
      BY <3>1, HolderType
    <3>3. /\ attached' \subseteq attached \cup {tx.d}
          /\ callers' \subseteq callers \cup {tx.d}
          /\ UNCHANGED <<gen, alive, cause, slots, outq>>
      BY <2>0 DEF AdmissionAttached
    <3> QED BY <3>2, <3>3 DEF TypeInv, TypeOK, SessTypeOK
  <2> QED BY <2>0, <2>1, <2>2, <2>3, <2>4, Kept DEF AdmissionAttached,
     TypeInv, TypeOK
<1>6. ASSUME AdmissionFailed PROVE TypeInv'
  <2>0. TypeInv /\ AdmissionFailed
    BY <1>6
  <2>9. AbortedType
    <3>1. AbortWith("storage", (IF tx.stmt = "insert" THEN [mem EXCEPT ![tx.d].pid = 0] ELSE mem), attached)
      BY <2>0 DEF AdmissionFailed, Abort
    <3>2. (IF tx.stmt = "insert" THEN [mem EXCEPT ![tx.d].pid = 0] ELSE mem) \in [Deliveries -> Record]
      <4>1. tx # NoTx
        BY <2>0, NoTxFacts DEF AdmissionFailed, Done, Failed
      <4>2. tx.d \in Deliveries /\ mem \in [Deliveries -> Record]
        BY <4>1, HolderType DEF TypeInv, TypeOK, BookTypeOK
      <4>3. [mem EXCEPT ![tx.d].pid = 0] \in [Deliveries -> Record]
        BY <4>2, RecordUpdates, Constants
      <4> QED BY <4>2, <4>3
    <3>3. "storage" \in Cause
      BY DEF Cause
    <3> QED BY <3>1, <3>2, <3>3, AbortType
  <2>1. tx' \in Transition
    BY <2>0, NoTxFacts, HolderType DEF AdmissionFailed, Failed, Release,
       TypeInv, TypeOK, TaskTypeOK, Statement, SupTypeOK
  <2>2. HolderOK'
    BY <2>0, NoTxFacts, TaskFacts DEF AdmissionFailed, Failed, Release,
       TypeInv, HolderOK
  <2>3. BookTypeOK'
    BY <2>0, <2>9 DEF AbortedType, AdmissionFailed, TypeInv, TypeOK,
       BookTypeOK
  <2>4. SessTypeOK'
        BY <2>9 DEF AbortedType
  <2>5. SupTypeOK'
    BY <2>0 DEF AdmissionFailed, Failed, Release, Abort, TypeInv, TypeOK,
       SupTypeOK, SupPc, BookTypeOK
  <2> QED BY <2>0, <2>1, <2>2, <2>3, <2>4, <2>5, Kept DEF AdmissionFailed,
     TypeInv, TypeOK
<1> QED BY <1>1, <1>2, <1>3, <1>4, <1>5, <1>6

LEMMA WriterType ==
    ASSUME TypeInv,
           \/ WriterTakes
           \/ WriterEnters
           \/ WriterMayWrite
           \/ WriterEntersLate
           \/ WriterExpired
           \/ WriterFailed
           \/ WriteReturns
    PROVE  TypeInv'
<1>1. ASSUME WriterTakes PROVE TypeInv'
  <2>0. TypeInv /\ WriterTakes
    BY <1>1
  <2>1. HolderOK'
    BY <2>0, NoTxFacts, TaskFacts DEF WriterTakes, TypeInv, HolderOK
  <2>2. SessTypeOK'
    BY <2>0 DEF WriterTakes, TypeInv, TypeOK, SessTypeOK, BookTypeOK
  <2>3. TaskTypeOK'
    <3>1. outq \in Seq(Deliveries) /\ outq # <<>> /\ mem \in [Deliveries -> Record]
      BY <2>0 DEF WriterTakes, TypeInv, TypeOK, SessTypeOK, BookTypeOK
    <3>2. Head(outq) \in Deliveries
      BY <3>1, HeadTailProperties
    <3>3. mem[Head(outq)].started \in BOOLEAN
      BY <3>1, <3>2 DEF Record
    <3>4. \/ writer' = writer
          \/ writer' = [pc |-> "enter", d |-> Head(outq),
                        flag |-> mem[Head(outq)].started]
      BY <2>0 DEF WriterTakes
    <3>5. writer' \in Task
      BY <3>2, <3>3, <3>4, TaskFacts DEF TypeInv, TypeOK, TaskTypeOK
    <3> QED BY <2>0, <3>5 DEF WriterTakes, TypeInv, TypeOK, TaskTypeOK
  <2> QED BY <2>0, <2>1, <2>2, <2>3, Kept DEF WriterTakes, TypeInv, TypeOK
<1>2. ASSUME WriterEnters PROVE TypeInv'
  <2>0. TypeInv /\ WriterEnters
    BY <1>2
  <2>1. tx' \in Transition
    BY <2>0, NoTxFacts, BeginType, TaskFacts, Statements DEF WriterEnters,
       TypeInv, TypeOK, TaskTypeOK, Statement
  <2>2. HolderOK'
    BY <2>0, NoTxFacts, TaskFacts DEF WriterEnters, Begin, TypeInv, HolderOK
  <2>3. TaskTypeOK'
    BY <2>0, TaskFacts, NoTxFacts, HolderType DEF WriterEnters, Begin,
       TypeInv, TypeOK, TaskTypeOK, BookTypeOK, HolderOK
  <2> QED BY <2>0, <2>1, <2>2, <2>3, Kept DEF WriterEnters, TypeInv, TypeOK
<1>3. ASSUME WriterMayWrite PROVE TypeInv'
  <2>0. TypeInv /\ WriterMayWrite
    BY <1>3
  <2>8. tx.d \in Deliveries /\ mem \in [Deliveries -> Record]
    BY <2>0, NoTxFacts, HolderType
       DEF WriterMayWrite, Done, TypeInv, TypeOK, BookTypeOK
  <2>9. /\ mem' \in [Deliveries -> Record]
        /\ SessTypeOK'
    <3>1. \/ mem' = MarkStarted(mem, tx.d) /\ UNCHANGED sessVars
          \/ AbortWith("rejected", MarkStarted(mem, tx.d), attached)
      BY <2>0 DEF WriterMayWrite, Abort
    <3>2. MarkStarted(mem, tx.d) \in [Deliveries -> Record]
      BY <2>8, MemType
    <3>3. "rejected" \in Cause
      BY DEF Cause
    <3>4. CASE mem' = MarkStarted(mem, tx.d) /\ UNCHANGED sessVars
      BY <3>2, <3>4, Kept
    <3>5. CASE AbortWith("rejected", MarkStarted(mem, tx.d), attached)
      BY <3>2, <3>3, <3>5, AbortType DEF AbortedType
    <3> QED BY <3>1, <3>4, <3>5
  <2>1. tx' \in Transition
    BY <2>0, NoTxFacts, HolderType DEF WriterMayWrite, Done, Release,
       TypeInv, TypeOK, TaskTypeOK, Statement
  <2>2. HolderOK'
    BY <2>0, NoTxFacts, TaskFacts DEF WriterMayWrite, Done, Release, TypeInv,
       HolderOK
  <2>3. BookTypeOK'
    BY <2>0, <2>9 DEF WriterMayWrite, TypeInv, TypeOK, BookTypeOK
  <2>4. SessTypeOK'
    BY <2>9
  <2>5. TaskTypeOK'
    BY <2>0, TaskFacts, NoTxFacts, HolderType DEF WriterMayWrite, Done,
       Release, Abort, TypeInv, TypeOK, TaskTypeOK, BookTypeOK, HolderOK
  <2>6. NetTypeOK'
    <3> DEFINE p == [d |-> tx.d, pid |-> mem[tx.d].pid, dup |-> writer.flag]
    <3>1. toBroker \in Seq(Publish) /\ toClient \in Seq(Puback) /\ present \in BOOLEAN
      BY DEF TypeInv, TypeOK, NetTypeOK
    <3>2. writer.flag \in BOOLEAN
      BY TaskFacts DEF TypeInv, TypeOK, TaskTypeOK
    <3>3. mem[tx.d].pid \in 0..MaxPacketId
      BY <2>8 DEF Record
    <3>4. p \in Publish
      BY <2>8, <3>2, <3>3 DEF Publish
    <3>5. toBroker' = toBroker \/ toBroker' = Append(toBroker, p)
      BY <2>0 DEF WriterMayWrite
    <3>6. UNCHANGED <<toClient, present>>
      BY <2>0 DEF WriterMayWrite
    <3> HIDE DEF p
    <3>7. toBroker' \in Seq(Publish)
      BY <3>1, <3>4, <3>5, AppendProperties
    <3> QED BY <3>1, <3>6, <3>7 DEF NetTypeOK
  <2>7. HistTypeOK'
    <3>1. sent' = sent \/ sent' = sent \cup {tx.d}
      BY <2>0 DEF WriterMayWrite
    <3>2. UNCHANGED <<admitted, answered>>
      BY <2>0 DEF WriterMayWrite
    <3> QED BY <2>8, <3>1, <3>2 DEF HistTypeOK, TypeInv, TypeOK
  <2> QED BY <2>0, <2>1, <2>2, <2>3, <2>4, <2>5, <2>6, <2>7, Kept DEF
     WriterMayWrite, TypeInv, TypeOK
<1>4. ASSUME WriterEntersLate PROVE TypeInv'
  <2>0. TypeInv /\ WriterEntersLate
    BY <1>4
  <2>1. tx' \in Transition
    BY <2>0, NoTxFacts, BeginType, TaskFacts DEF WriterEntersLate, TypeInv,
       TypeOK, TaskTypeOK, Statement
  <2>2. HolderOK'
    BY <2>0, NoTxFacts, TaskFacts DEF WriterEntersLate, Begin, TypeInv,
       HolderOK
  <2>3. TaskTypeOK'
    BY <2>0, TaskFacts, NoTxFacts, HolderType DEF WriterEntersLate, Begin,
       TypeInv, TypeOK, TaskTypeOK, BookTypeOK, HolderOK
  <2> QED BY <2>0, <2>1, <2>2, <2>3, Kept DEF WriterEntersLate, TypeInv,
     TypeOK
<1>5. ASSUME WriterExpired PROVE TypeInv'
  <2>0. TypeInv /\ WriterExpired
    BY <1>5
  <2>9. AbortedType
    <3>1. AbortWith("rejected", FinishTerminal(mem, tx.d), attached)
      BY <2>0 DEF WriterExpired, Abort
    <3>2. FinishTerminal(mem, tx.d) \in [Deliveries -> Record]
      <4>1. tx # NoTx
        BY <2>0, NoTxFacts DEF WriterExpired, Done, Failed
      <4>2. tx.d \in Deliveries /\ mem \in [Deliveries -> Record]
        BY <4>1, HolderType DEF TypeInv, TypeOK, BookTypeOK
      <4> QED BY <4>2, HolderType, MemType, RecordUpdates, Constants
    <3>3. "rejected" \in Cause
      BY DEF Cause
    <3> QED BY <3>1, <3>2, <3>3, AbortType
  <2>1. tx' \in Transition
    BY <2>0, NoTxFacts, HolderType DEF WriterExpired, Done, Release, TypeInv,
       TypeOK, TaskTypeOK, Statement
  <2>2. HolderOK'
    BY <2>0, NoTxFacts, TaskFacts DEF WriterExpired, Done, Release, TypeInv,
       HolderOK
  <2>3. BookTypeOK'
    BY <2>0, <2>9 DEF AbortedType, WriterExpired, TypeInv, TypeOK,
       BookTypeOK
  <2>4. SessTypeOK'
        BY <2>9 DEF AbortedType
  <2>5. TaskTypeOK'
    BY <2>0, TaskFacts, NoTxFacts, HolderType DEF WriterExpired, Done,
       Release, Abort, TypeInv, TypeOK, TaskTypeOK, BookTypeOK, HolderOK
  <2> QED BY <2>0, <2>1, <2>2, <2>3, <2>4, <2>5, Kept DEF WriterExpired,
     TypeInv, TypeOK
<1>6. ASSUME WriterFailed PROVE TypeInv'
  <2>0. TypeInv /\ WriterFailed
    BY <1>6
  <2>9. AbortedType
    <3>1. AbortWith("storage", mem, attached)
      BY <2>0 DEF WriterFailed, Abort
    <3>2. mem \in [Deliveries -> Record]
      BY DEF TypeInv, TypeOK, BookTypeOK
    <3>3. "storage" \in Cause
      BY DEF Cause
    <3> QED BY <3>1, <3>2, <3>3, AbortType
  <2>1. tx' \in Transition
    BY <2>0, NoTxFacts, HolderType DEF WriterFailed, Failed, Release,
       TypeInv, TypeOK, TaskTypeOK, Statement
  <2>2. HolderOK'
    BY <2>0, NoTxFacts, TaskFacts DEF WriterFailed, Failed, Release, TypeInv,
       HolderOK
  <2>3. BookTypeOK'
    BY <2>0, <2>9 DEF AbortedType, WriterFailed, TypeInv, TypeOK,
       BookTypeOK
  <2>4. SessTypeOK'
        BY <2>9 DEF AbortedType
  <2>5. TaskTypeOK'
    BY <2>0, TaskFacts, NoTxFacts, HolderType DEF WriterFailed, Failed,
       Release, Abort, TypeInv, TypeOK, TaskTypeOK, BookTypeOK, HolderOK
  <2> QED BY <2>0, <2>1, <2>2, <2>3, <2>4, <2>5, Kept DEF WriterFailed,
     TypeInv, TypeOK
<1>7. ASSUME WriteReturns PROVE TypeInv'
  <2>0. TypeInv /\ WriteReturns
    BY <1>7
  <2>1. HolderOK'
    BY <2>0, NoTxFacts, TaskFacts DEF WriteReturns, TypeInv, HolderOK
  <2>2. TaskTypeOK'
    BY <2>0, TaskFacts, NoTxFacts, HolderType DEF WriteReturns, TypeInv,
       TypeOK, TaskTypeOK, BookTypeOK, HolderOK
  <2> QED BY <2>0, <2>1, <2>2, Kept DEF WriteReturns, TypeInv, TypeOK
<1> QED BY <1>1, <1>2, <1>3, <1>4, <1>5, <1>6, <1>7

LEMMA ReaderType ==
    ASSUME TypeInv,
           \/ ReaderSeesAck
           \/ ReaderEnters
           \/ ReaderAcknowledged
           \/ ReaderFailed
    PROVE  TypeInv'
<1>1. ASSUME ReaderSeesAck PROVE TypeInv'
  <2>0. TypeInv /\ ReaderSeesAck
    BY <1>1
  <2>8. toClient \in Seq(Puback) /\ toClient # <<>>
    BY <2>0 DEF ReaderSeesAck, TypeInv, TypeOK, NetTypeOK
  <2>9. \/ /\ UNCHANGED <<mem, sessVars>>
           /\ \E d \in AckOwner(Head(toClient).pid) :
                  reader' = [pc |-> "enter", d |-> d,
                             flag |-> Head(toClient).ok]
        \/ AbortWith("protocol", mem, attached) /\ UNCHANGED reader
    BY <2>0 DEF ReaderSeesAck, Abort
  <2>1. HolderOK'
    BY <2>0, NoTxFacts, TaskFacts DEF ReaderSeesAck, TypeInv, HolderOK
  <2>2. BookTypeOK'
    <3>1. CASE UNCHANGED <<mem, sessVars>>
      BY <2>0, <3>1, Kept DEF ReaderSeesAck, bookVars
    <3>2. CASE AbortWith("protocol", mem, attached)
      <4>1. mem \in [Deliveries -> Record] /\ "protocol" \in Cause
        BY DEF TypeInv, TypeOK, BookTypeOK, Cause
      <4>2. AbortedType
        BY <3>2, <4>1, AbortType
      <4> QED BY <2>0, <4>2 DEF ReaderSeesAck, AbortedType, TypeInv, TypeOK,
         BookTypeOK
    <3> QED BY <2>9, <3>1, <3>2
  <2>3. SessTypeOK'
    <3>1. CASE UNCHANGED <<mem, sessVars>>
      BY <2>0, <3>1, Kept DEF ReaderSeesAck, bookVars
    <3>2. CASE AbortWith("protocol", mem, attached)
      <4>1. mem \in [Deliveries -> Record] /\ "protocol" \in Cause
        BY DEF TypeInv, TypeOK, BookTypeOK, Cause
      <4>2. AbortedType
        BY <3>2, <4>1, AbortType
      <4> QED BY <2>0, <4>2 DEF ReaderSeesAck, AbortedType, TypeInv, TypeOK,
         BookTypeOK
    <3> QED BY <2>9, <3>1, <3>2
  <2>4. TaskTypeOK'
    <3>1. Head(toClient) \in Puback
      BY <2>8, HeadTailProperties
    <3>2. Head(toClient).ok \in BOOLEAN
      BY <3>1 DEF Puback
    <3>3. AckOwner(Head(toClient).pid) \subseteq Deliveries
      BY DEF AckOwner, TypeInv, TypeOK, SessTypeOK
    <3>4. reader' \in Task
      BY <2>9, <3>2, <3>3, TaskFacts DEF TypeInv, TypeOK, TaskTypeOK
    <3> QED BY <2>0, <3>4 DEF ReaderSeesAck, TypeInv, TypeOK, TaskTypeOK
  <2>5. NetTypeOK'
    BY <2>0 DEF ReaderSeesAck, Abort, TypeInv, TypeOK, NetTypeOK, Publish,
       Puback
  <2> QED BY <2>0, <2>1, <2>2, <2>3, <2>4, <2>5, Kept DEF ReaderSeesAck,
     TypeInv, TypeOK
<1>2. ASSUME ReaderEnters PROVE TypeInv'
  <2>0. TypeInv /\ ReaderEnters
    BY <1>2
  <2>1. tx' \in Transition
    BY <2>0, NoTxFacts, BeginType, TaskFacts DEF ReaderEnters, TypeInv,
       TypeOK, TaskTypeOK, Statement
  <2>2. HolderOK'
    <3>1. \/ /\ tx'.op = "ack" /\ tx'.d = reader.d
             /\ reader' = [reader EXCEPT !.pc = "tx"]
          \/ tx' = tx /\ tx.op = "none"
      BY <2>0, NoTxFacts DEF ReaderEnters, Begin
    <3>2. reader \in Task /\ reader.pc # "idle"
      BY <2>0 DEF ReaderEnters, TypeInv, TypeOK, TaskTypeOK
    <3>3. [reader EXCEPT !.pc = "tx"].pc = "tx" /\ [reader EXCEPT !.pc = "tx"].d = reader.d
      BY <3>2 DEF Task, IdleTask
    <3> QED BY <3>1, <3>3 DEF HolderOK
  <2>3. TaskTypeOK'
    BY <2>0, TaskFacts, NoTxFacts, HolderType DEF ReaderEnters, Begin,
       TypeInv, TypeOK, TaskTypeOK, BookTypeOK, HolderOK
  <2> QED BY <2>0, <2>1, <2>2, <2>3, Kept DEF ReaderEnters, TypeInv, TypeOK
<1>3. ASSUME ReaderAcknowledged PROVE TypeInv'
  <2>0. TypeInv /\ ReaderAcknowledged
    BY <1>3
  <2>1. tx' \in Transition
    BY <2>0, NoTxFacts, HolderType DEF ReaderAcknowledged, Done, Release,
       TypeInv, TypeOK, TaskTypeOK, Statement
  <2>2. HolderOK'
    BY <2>0, NoTxFacts, TaskFacts DEF ReaderAcknowledged, Done, Release,
       TypeInv, HolderOK
  <2>3. BookTypeOK'
    <3>1. tx # NoTx
      BY <2>0, NoTxFacts DEF ReaderAcknowledged, Done, Failed
    <3>2. tx.d \in Deliveries /\ tx.gen \in Nat
      BY <3>1, HolderType
    <3>3. /\ mem \in [Deliveries -> Record] /\ order \in Seq(Deliveries)
          /\ nextPid \in PacketIds
      BY DEF TypeInv, TypeOK, BookTypeOK
    <3>4. /\ order' = Without(order, tx.d) /\ nextPid' = nextPid
          /\ \/ mem' = mem
             \/ mem' = [mem EXCEPT ![tx.d].phase = "Acknowledged"]
             \/ mem' = [mem EXCEPT ![tx.d] =
                           [@ EXCEPT !.phase = "Rejected", !.gen = 0]]
      BY <2>0 DEF ReaderAcknowledged
    <3>5. {"Acknowledged", "Rejected"} \subseteq Phase
      BY DEF Phase, TerminalPhase
    <3>6. [mem[tx.d] EXCEPT !.phase = "Rejected", !.gen = 0] \in Record
      <4>1. mem[tx.d] \in Record /\ 0 \in Nat
        BY <3>2, <3>3
      <4> QED BY <3>5, <4>1, RecordForms
    <3>7. mem' \in [Deliveries -> Record]
      BY <3>2, <3>3, <3>4, <3>5, <3>6, RecordUpdates
    <3> QED BY <3>3, <3>4, <3>7, WithoutType DEF BookTypeOK
  <2>4. SessTypeOK'
    <3>1. slots \in Int
      BY DEF TypeInv, TypeOK, SessTypeOK
    <3>2. slots' = (IF slots > 0 THEN slots - 1 ELSE 0)
      BY <2>0 DEF ReaderAcknowledged, SlotReturned
    <3>3. slots' \in Int
      BY <3>1, <3>2
    <3>4. attached' \subseteq attached
      BY <2>0 DEF ReaderAcknowledged
    <3> QED BY <2>0, <3>3, <3>4
            DEF ReaderAcknowledged, TypeInv, TypeOK, SessTypeOK
  <2>5. TaskTypeOK'
    BY <2>0, TaskFacts, NoTxFacts, HolderType DEF ReaderAcknowledged, Done,
       Release, TypeInv, TypeOK, TaskTypeOK, BookTypeOK, HolderOK
  <2> QED BY <2>0, <2>1, <2>2, <2>3, <2>4, <2>5, Kept DEF ReaderAcknowledged,
     TypeInv, TypeOK
<1>4. ASSUME ReaderFailed PROVE TypeInv'
  <2>0. TypeInv /\ ReaderFailed
    BY <1>4
  <2>9. AbortedType
    <3>1. AbortWith("storage", mem, attached)
      BY <2>0 DEF ReaderFailed, Abort
    <3>2. mem \in [Deliveries -> Record]
      BY DEF TypeInv, TypeOK, BookTypeOK
    <3>3. "storage" \in Cause
      BY DEF Cause
    <3> QED BY <3>1, <3>2, <3>3, AbortType
  <2>1. tx' \in Transition
    BY <2>0, NoTxFacts, HolderType DEF ReaderFailed, Failed, Release,
       TypeInv, TypeOK, TaskTypeOK, Statement
  <2>2. HolderOK'
    BY <2>0, NoTxFacts, TaskFacts DEF ReaderFailed, Failed, Release, TypeInv,
       HolderOK
  <2>3. BookTypeOK'
    BY <2>0, <2>9 DEF AbortedType, ReaderFailed, TypeInv, TypeOK,
       BookTypeOK
  <2>4. SessTypeOK'
        BY <2>9 DEF AbortedType
  <2>5. TaskTypeOK'
    BY <2>0, TaskFacts, NoTxFacts, HolderType DEF ReaderFailed, Failed,
       Release, Abort, TypeInv, TypeOK, TaskTypeOK, BookTypeOK, HolderOK
  <2> QED BY <2>0, <2>1, <2>2, <2>3, <2>4, <2>5, Kept DEF ReaderFailed,
     TypeInv, TypeOK
<1> QED BY <1>1, <1>2, <1>3, <1>4

LEMMA WatchdogType ==
    ASSUME TypeInv,
           \/ (\E d \in Deliveries : DeliveryTimesOut(d))
           \/ (\E d \in Deliveries : WatcherSees(d))
           \/ WatcherEnters
           \/ WatcherExpired
           \/ WatcherFailed
    PROVE  TypeInv'
<1>1. ASSUME NEW d \in Deliveries, DeliveryTimesOut(d) PROVE TypeInv'
  <2>0. TypeInv /\ DeliveryTimesOut(d)
    BY <1>1
  <2>9. AbortedType
    <3>1. PICK c \in {"exhausted", "lost"} : AbortWith(c, mem, attached)
      BY <2>0 DEF DeliveryTimesOut, Abort
    <3>2. mem \in [Deliveries -> Record] /\ c \in Cause
      BY DEF TypeInv, TypeOK, BookTypeOK, Cause
    <3> QED BY <3>1, <3>2, AbortType
  <2>1. BookTypeOK'
    BY <2>0, <2>9 DEF AbortedType, DeliveryTimesOut, TypeInv, TypeOK,
       BookTypeOK
  <2>2. SessTypeOK'
        BY <2>9 DEF AbortedType
  <2> QED BY <2>0, <2>1, <2>2, Kept DEF DeliveryTimesOut, TypeInv, TypeOK
<1>2. ASSUME NEW d \in Deliveries, WatcherSees(d) PROVE TypeInv'
  <2>0. TypeInv /\ WatcherSees(d)
    BY <1>2
  <2>1. HolderOK'
    BY <2>0, NoTxFacts, TaskFacts DEF WatcherSees, TypeInv, HolderOK
  <2>2. TaskTypeOK'
    BY <2>0, TaskFacts, NoTxFacts, HolderType DEF WatcherSees, TypeInv,
       TypeOK, TaskTypeOK, BookTypeOK, HolderOK
  <2> QED BY <2>0, <2>1, <2>2, Kept DEF WatcherSees, TypeInv, TypeOK
<1>3. ASSUME WatcherEnters PROVE TypeInv'
  <2>0. TypeInv /\ WatcherEnters
    BY <1>3
  <2>1. tx' \in Transition
    BY <2>0, NoTxFacts, BeginType, TaskFacts DEF WatcherEnters, TypeInv,
       TypeOK, TaskTypeOK, Statement
  <2>2. HolderOK'
    <3>1. \/ /\ tx'.op = "watch" /\ tx'.d = watcher.d
             /\ watcher' = [watcher EXCEPT !.pc = "tx"]
          \/ tx' = tx /\ tx.op = "none"
      BY <2>0, NoTxFacts DEF WatcherEnters, Begin
    <3>2. watcher \in Task /\ watcher.pc # "idle"
      BY <2>0 DEF WatcherEnters, TypeInv, TypeOK, TaskTypeOK
    <3>3. [watcher EXCEPT !.pc = "tx"].pc = "tx" /\ [watcher EXCEPT !.pc = "tx"].d = watcher.d
      BY <3>2 DEF Task, IdleTask
    <3> QED BY <3>1, <3>3 DEF HolderOK
  <2>3. TaskTypeOK'
    BY <2>0, TaskFacts, NoTxFacts, HolderType DEF WatcherEnters, Begin,
       TypeInv, TypeOK, TaskTypeOK, BookTypeOK, HolderOK
  <2> QED BY <2>0, <2>1, <2>2, <2>3, Kept DEF WatcherEnters, TypeInv, TypeOK
<1>4. ASSUME WatcherExpired PROVE TypeInv'
  <2>0. TypeInv /\ WatcherExpired
    BY <1>4
  <2>9. AbortedType
    <3>1. AbortWith("rejected", FinishTerminal(mem, tx.d), attached)
      BY <2>0 DEF WatcherExpired, Abort
    <3>2. FinishTerminal(mem, tx.d) \in [Deliveries -> Record]
      <4>1. tx # NoTx
        BY <2>0, NoTxFacts DEF WatcherExpired, Done, Failed
      <4>2. tx.d \in Deliveries /\ mem \in [Deliveries -> Record]
        BY <4>1, HolderType DEF TypeInv, TypeOK, BookTypeOK
      <4> QED BY <4>2, HolderType, MemType, RecordUpdates, Constants
    <3>3. "rejected" \in Cause
      BY DEF Cause
    <3> QED BY <3>1, <3>2, <3>3, AbortType
  <2>1. tx' \in Transition
    BY <2>0, NoTxFacts, HolderType DEF WatcherExpired, Done, Release,
       TypeInv, TypeOK, TaskTypeOK, Statement
  <2>2. HolderOK'
    BY <2>0, NoTxFacts, TaskFacts DEF WatcherExpired, Done, Release, TypeInv,
       HolderOK
  <2>3. BookTypeOK'
    BY <2>0, <2>9 DEF AbortedType, WatcherExpired, TypeInv, TypeOK,
       BookTypeOK
  <2>4. SessTypeOK'
        BY <2>9 DEF AbortedType
  <2>5. TaskTypeOK'
    BY <2>0, TaskFacts, NoTxFacts, HolderType DEF WatcherExpired, Done,
       Release, Abort, TypeInv, TypeOK, TaskTypeOK, BookTypeOK, HolderOK
  <2> QED BY <2>0, <2>1, <2>2, <2>3, <2>4, <2>5, Kept DEF WatcherExpired,
     TypeInv, TypeOK
<1>5. ASSUME WatcherFailed PROVE TypeInv'
  <2>0. TypeInv /\ WatcherFailed
    BY <1>5
  <2>9. AbortedType
    <3>1. AbortWith("storage", mem, attached)
      BY <2>0 DEF WatcherFailed, Abort
    <3>2. mem \in [Deliveries -> Record]
      BY DEF TypeInv, TypeOK, BookTypeOK
    <3>3. "storage" \in Cause
      BY DEF Cause
    <3> QED BY <3>1, <3>2, <3>3, AbortType
  <2>1. tx' \in Transition
    BY <2>0, NoTxFacts, HolderType DEF WatcherFailed, Failed, Release,
       TypeInv, TypeOK, TaskTypeOK, Statement
  <2>2. HolderOK'
    BY <2>0, NoTxFacts, TaskFacts DEF WatcherFailed, Failed, Release,
       TypeInv, HolderOK
  <2>3. BookTypeOK'
    BY <2>0, <2>9 DEF AbortedType, WatcherFailed, TypeInv, TypeOK,
       BookTypeOK
  <2>4. SessTypeOK'
        BY <2>9 DEF AbortedType
  <2>5. TaskTypeOK'
    BY <2>0, TaskFacts, NoTxFacts, HolderType DEF WatcherFailed, Failed,
       Release, Abort, TypeInv, TypeOK, TaskTypeOK, BookTypeOK, HolderOK
  <2> QED BY <2>0, <2>1, <2>2, <2>3, <2>4, <2>5, Kept DEF WatcherFailed,
     TypeInv, TypeOK
<1> QED BY <1>1, <1>2, <1>3, <1>4, <1>5

(* Ending a quarantine, and its next statement.                            *)
LEMMA BlockEndsType ==
    ASSUME TypeInv, NEW c \in Cause, BlockEnds(c)
    PROVE  AbortedType /\ todo' \in Seq(Deliveries) /\ sup' \in SupPc
<1>1. todo' \in Seq(Deliveries) /\ sup' \in SupPc
  BY DEF BlockEnds, SupPc
<1>2. mem \in [Deliveries -> Record] /\ SessTypeOK
  BY DEF TypeInv, TypeOK, BookTypeOK
<1>3. CASE sup = "block"
  <2>1. /\ mem' = mem /\ cause' = c
        /\ UNCHANGED <<gen, alive, attached, slots, outq, callers>>
    BY <1>3 DEF BlockEnds
  <2>2. SessTypeOK'
    BY <1>2, <2>1 DEF SessTypeOK
  <2> QED BY <1>1, <1>2, <2>1, <2>2 DEF AbortedType
<1>4. CASE sup # "block"
  <2>1. "storage" \in Cause /\ "rejected" \in Cause
    BY DEF Cause
  <2>2. AbortWith(IF c = "storage" THEN c ELSE "rejected", mem, attached)
    BY <1>4 DEF BlockEnds, Abort
  <2>3. AbortedType
    BY <1>2, <2>1, <2>2, AbortType
  <2> QED BY <1>1, <2>3
<1> QED BY <1>1, <1>3, <1>4

LEMMA BlockNextType ==
    ASSUME TypeInv, NEW s \in Seq(Deliveries), BlockNext(s)
    PROVE  /\ AbortedType /\ todo' \in Seq(Deliveries) /\ sup' \in SupPc
           /\ tx' \in Transition /\ tx'.op \in {"none", "block"}
<1>1. CASE \E i \in DOMAIN s :
               /\ tx' = [op |-> "block", d |-> s[i], gen |-> gen,
                         stmt |-> "quarantine", res |-> "wait"]
               /\ todo' = SubSeq(s, i + 1, Len(s))
               /\ UNCHANGED <<sup, mem, sessVars>>
  <2>1. PICK i \in DOMAIN s :
               /\ tx' = [op |-> "block", d |-> s[i], gen |-> gen,
                         stmt |-> "quarantine", res |-> "wait"]
               /\ todo' = SubSeq(s, i + 1, Len(s))
               /\ UNCHANGED <<sup, mem, sessVars>>
    BY <1>1
  <2>2. /\ i \in 1..Len(s) /\ Len(s) \in Nat /\ s[i] \in Deliveries
        /\ \A j \in 1..Len(s) : s[j] \in Deliveries
    BY LenProperties, ElementOfSeq
  <2>3. todo' \in Seq(Deliveries)
    <3>1. /\ i + 1 \in Int /\ Len(s) \in Int
          /\ \A j \in i + 1..Len(s) : s[j] \in Deliveries
      BY <2>2
    <3> QED BY <2>1, <3>1, SubSeqProperties
  <2>4. tx' \in Transition /\ tx'.op = "block"
    <3>1. gen \in Nat /\ "wait" \in Result
             /\ "quarantine" \in Statement \ {"insert"}
      BY DEF TypeInv, TypeOK, SessTypeOK, Result, Statement
    <3> QED BY <2>1, <2>2, <3>1 DEF Transition
  <2>5. AbortedType /\ sup' \in SupPc
    BY <2>1, Kept DEF AbortedType, TypeInv, TypeOK, BookTypeOK, SupTypeOK
  <2> QED BY <2>3, <2>4, <2>5
<1>2. CASE BlockEnds(cause) /\ Release
  <2>1. cause \in Cause
    BY DEF TypeInv, TypeOK, SessTypeOK
  <2> QED BY <1>2, <2>1, BlockEndsType, NoTxFacts DEF Release
<1> QED BY <1>1, <1>2 DEF BlockNext

LEMMA SupervisorType ==
    ASSUME TypeInv,
           \/ DialSucceeds
           \/ DialFails
           \/ SessionMarkedKnown
           \/ ReplaySkips
           \/ ReplayExhausted
           \/ ReplayEnters
           \/ ReplayAttached
           \/ ReplayExpired
           \/ ReplayFailed
           \/ ReplayDone
           \/ ReplayRefused
           \/ GenerationEnds
           \/ BlockBegins
           \/ BlockContinues
           \/ BlockFailed
           \/ Settle
           \/ SessionMarkFailed
    PROVE  TypeInv'
<1>1. ASSUME DialSucceeds PROVE TypeInv'
  <2>0. TypeInv /\ DialSucceeds
    BY <1>1
  <2>1. SessTypeOK'
    <3>1. gen \in Nat /\ \A S : <<>> \in Seq(S)
      BY DEF TypeInv, TypeOK, SessTypeOK
    <3>2. gen' \in Nat
      BY <2>0, <3>1 DEF DialSucceeds
    <3>3. alive' \in BOOLEAN
      BY <2>0 DEF DialSucceeds
    <3>4. cause' \in Cause
      BY <2>0 DEF DialSucceeds, Cause
    <3>5. attached' = {} /\ slots' = 0 /\ outq' = <<>> /\ callers' = {}
      BY <2>0 DEF DialSucceeds
    <3> QED BY <3>1, <3>2, <3>3, <3>4, <3>5 DEF SessTypeOK
  <2>2. SupTypeOK'
    <3>1. order \in Seq(Deliveries) /\ \A S : <<>> \in Seq(S)
      BY DEF TypeInv, TypeOK, BookTypeOK
    <3>2. sup' \in SupPc
      BY <2>0 DEF DialSucceeds, SupPc
    <3>3. todo' \in Seq(Deliveries)
      BY <2>0, <3>1 DEF DialSucceeds
    <3>4. UNCHANGED <<everReady, tries, stopped, needPresent>>
      BY <2>0 DEF DialSucceeds
    <3> QED BY <3>2, <3>3, <3>4 DEF SupTypeOK, TypeInv, TypeOK
  <2>3. NetTypeOK'
    BY <2>0 DEF DialSucceeds, TypeInv, TypeOK, NetTypeOK, Publish, Puback
  <2> QED BY <2>0, <2>1, <2>2, <2>3, Kept DEF DialSucceeds, TypeInv, TypeOK
<1>2. ASSUME DialFails PROVE TypeInv'
  <2>0. TypeInv /\ DialFails
    BY <1>2
  <2>1. SessTypeOK'
    <3>1. cause' \in Cause
      BY <2>0 DEF DialFails, Cause
    <3>2. UNCHANGED <<gen, alive, attached, slots, outq, callers>>
      BY <2>0 DEF DialFails
    <3> QED BY <3>1, <3>2 DEF SessTypeOK, TypeInv, TypeOK
  <2>2. SupTypeOK'
    BY <2>0 DEF DialFails, TypeInv, TypeOK, SupTypeOK, SupPc, BookTypeOK
  <2> QED BY <2>0, <2>1, <2>2, Kept DEF DialFails, TypeInv, TypeOK
<1>3. ASSUME SessionMarkedKnown PROVE TypeInv'
  <2>0. TypeInv /\ SessionMarkedKnown
    BY <1>3
  <2>1. DbTypeOK'
    BY <2>0 DEF SessionMarkedKnown, TypeInv, TypeOK, DbTypeOK
  <2>2. SupTypeOK'
    BY <2>0 DEF SessionMarkedKnown, TypeInv, TypeOK, SupTypeOK, SupPc,
       BookTypeOK
  <2> QED BY <2>0, <2>1, <2>2, Kept DEF SessionMarkedKnown, TypeInv, TypeOK
<1>4. ASSUME ReplaySkips PROVE TypeInv'
  <2>0. TypeInv /\ ReplaySkips
    BY <1>4
  <2>1. SupTypeOK'
    BY <2>0 DEF ReplaySkips, TypeInv, TypeOK, SupTypeOK, SupPc, BookTypeOK
  <2> QED BY <2>0, <2>1, Kept DEF ReplaySkips, TypeInv, TypeOK
<1>5. ASSUME ReplayExhausted PROVE TypeInv'
  <2>0. TypeInv /\ ReplayExhausted
    BY <1>5
  <2>9. AbortedType
    <3>1. AbortWith("exhausted", mem, attached)
      BY <2>0 DEF ReplayExhausted, Abort
    <3>2. mem \in [Deliveries -> Record]
      BY DEF TypeInv, TypeOK, BookTypeOK
    <3>3. "exhausted" \in Cause
      BY DEF Cause
    <3> QED BY <3>1, <3>2, <3>3, AbortType
  <2>1. BookTypeOK'
    BY <2>0, <2>9 DEF AbortedType, ReplayExhausted, TypeInv, TypeOK,
       BookTypeOK
  <2>2. SessTypeOK'
        BY <2>9 DEF AbortedType
  <2>3. SupTypeOK'
    BY <2>0 DEF ReplayExhausted, Abort, TypeInv, TypeOK, SupTypeOK, SupPc,
       BookTypeOK
  <2> QED BY <2>0, <2>1, <2>2, <2>3, Kept DEF ReplayExhausted, TypeInv,
     TypeOK
<1>6. ASSUME ReplayEnters PROVE TypeInv'
  <2>0. TypeInv /\ ReplayEnters
    BY <1>6
  <2>1. tx' \in Transition
    BY <2>0, NoTxFacts, BeginType, TaskFacts, Statements DEF ReplayEnters,
       TypeInv, TypeOK, TaskTypeOK, Statement, SupTypeOK
  <2>2. HolderOK'
    BY <2>0, NoTxFacts, TaskFacts DEF ReplayEnters, Begin, TypeInv, HolderOK
  <2> QED BY <2>0, <2>1, <2>2, Kept DEF ReplayEnters, TypeInv, TypeOK
<1>7. ASSUME ReplayAttached PROVE TypeInv'
  <2>0. TypeInv /\ ReplayAttached
    BY <1>7
  <2>1. tx' \in Transition
    BY <2>0, NoTxFacts, HolderType DEF ReplayAttached, Done, Release,
       TypeInv, TypeOK, TaskTypeOK, Statement, SupTypeOK
  <2>2. HolderOK'
    BY <2>0, NoTxFacts, TaskFacts DEF ReplayAttached, Done, Release, TypeInv,
       HolderOK
  <2>3. BookTypeOK'
    <3>1. tx # NoTx /\ tx.stmt = "attach"
      BY <2>0, NoTxFacts DEF ReplayAttached, Done
    <3>2. tx.d \in Deliveries /\ mem \in [Deliveries -> Record] /\ gen \in Nat
      BY <3>1, HolderType DEF TypeInv, TypeOK, BookTypeOK, SessTypeOK
    <3>3. Attach(mem, tx.d, gen) \in [Deliveries -> Record]
      BY <3>2, MemType
    <3>4. mem' \in [Deliveries -> Record]
      <4>1. CASE mem' = Attach(mem, tx.d, gen)
        BY <3>3, <4>1
      <4>2. CASE AbortWith(IF tx.d \in stale THEN "rejected" ELSE "protocol",
                           Attach(mem, tx.d, gen), attached \cup {tx.d})
        BY <3>3, <4>2, AbortType DEF Cause, AbortedType
      <4> QED BY <2>0, <4>1, <4>2 DEF ReplayAttached
    <3>5. order' = order /\ nextPid' = nextPid
      BY <2>0 DEF ReplayAttached
    <3> QED BY <3>4, <3>5 DEF BookTypeOK, TypeInv, TypeOK
  <2>4. SessTypeOK'
    <3>1. tx # NoTx /\ tx.stmt = "attach"
      BY <2>0, NoTxFacts DEF ReplayAttached, Done
    <3>2. tx.d \in Deliveries /\ mem \in [Deliveries -> Record] /\ gen \in Nat
      BY <3>1, HolderType DEF TypeInv, TypeOK, BookTypeOK, SessTypeOK
    <3>3. Attach(mem, tx.d, gen) \in [Deliveries -> Record]
      BY <3>2, MemType
    <3>4. CASE AbortWith(IF tx.d \in stale THEN "rejected" ELSE "protocol",
                         Attach(mem, tx.d, gen), attached \cup {tx.d})
      BY <3>3, <3>4, AbortType DEF Cause, AbortedType
    <3>5. CASE /\ attached' = attached \cup {tx.d} /\ slots' = slots + 1
               /\ outq' = Append(outq, tx.d)
               /\ UNCHANGED <<gen, alive, cause, callers>>
      <4>1. outq \in Seq(Deliveries) /\ slots \in Int
        BY DEF TypeInv, TypeOK, SessTypeOK
      <4>2. Append(outq, tx.d) \in Seq(Deliveries) /\ slots + 1 \in Int
        BY <3>2, <4>1, AppendProperties
      <4> QED BY <3>2, <3>5, <4>2 DEF TypeInv, TypeOK, SessTypeOK
    <3> QED BY <2>0, <3>4, <3>5 DEF ReplayAttached
  <2>5. SupTypeOK'
    <3>1. todo' = Tail(todo) /\ todo # <<>> /\ (sup' = sup \/ sup' = "ending")
      BY <2>0 DEF ReplayAttached
    <3>2. UNCHANGED <<everReady, tries, stopped, needPresent>>
      BY <2>0 DEF ReplayAttached
    <3> QED BY <3>1, <3>2 DEF SupTypeOK, SupPc, TypeInv, TypeOK
  <2> QED BY <2>0, <2>1, <2>2, <2>3, <2>4, <2>5, Kept DEF ReplayAttached,
     TypeInv, TypeOK
<1>8. ASSUME ReplayExpired PROVE TypeInv'
  <2>0. TypeInv /\ ReplayExpired
    BY <1>8
  <2>9. AbortedType
    <3>1. AbortWith("rejected", FinishTerminal(mem, tx.d), attached)
      BY <2>0 DEF ReplayExpired, Abort
    <3>2. FinishTerminal(mem, tx.d) \in [Deliveries -> Record]
      <4>1. tx # NoTx
        BY <2>0, NoTxFacts DEF ReplayExpired, Done, Failed
      <4>2. tx.d \in Deliveries /\ mem \in [Deliveries -> Record]
        BY <4>1, HolderType DEF TypeInv, TypeOK, BookTypeOK
      <4> QED BY <4>2, HolderType, MemType, RecordUpdates, Constants
    <3>3. "rejected" \in Cause
      BY DEF Cause
    <3> QED BY <3>1, <3>2, <3>3, AbortType
  <2>1. tx' \in Transition
    BY <2>0, NoTxFacts, HolderType DEF ReplayExpired, Done, Release, TypeInv,
       TypeOK, TaskTypeOK, Statement, SupTypeOK
  <2>2. HolderOK'
    BY <2>0, NoTxFacts, TaskFacts DEF ReplayExpired, Done, Release, TypeInv,
       HolderOK
  <2>3. BookTypeOK'
    BY <2>0, <2>9 DEF AbortedType, ReplayExpired, TypeInv, TypeOK,
       BookTypeOK
  <2>4. SessTypeOK'
        BY <2>9 DEF AbortedType
  <2>5. SupTypeOK'
    BY <2>0 DEF ReplayExpired, Done, Release, Abort, TypeInv, TypeOK,
       SupTypeOK, SupPc, BookTypeOK
  <2> QED BY <2>0, <2>1, <2>2, <2>3, <2>4, <2>5, Kept DEF ReplayExpired,
     TypeInv, TypeOK
<1>9. ASSUME ReplayFailed PROVE TypeInv'
  <2>0. TypeInv /\ ReplayFailed
    BY <1>9
  <2>9. AbortedType
    <3>1. AbortWith("storage", mem, attached)
      BY <2>0 DEF ReplayFailed, Abort
    <3>2. mem \in [Deliveries -> Record]
      BY DEF TypeInv, TypeOK, BookTypeOK
    <3>3. "storage" \in Cause
      BY DEF Cause
    <3> QED BY <3>1, <3>2, <3>3, AbortType
  <2>1. tx' \in Transition
    BY <2>0, NoTxFacts, HolderType DEF ReplayFailed, Failed, Release,
       TypeInv, TypeOK, TaskTypeOK, Statement, SupTypeOK
  <2>2. HolderOK'
    BY <2>0, NoTxFacts, TaskFacts DEF ReplayFailed, Failed, Release, TypeInv,
       HolderOK
  <2>3. BookTypeOK'
    BY <2>0, <2>9 DEF AbortedType, ReplayFailed, TypeInv, TypeOK,
       BookTypeOK
  <2>4. SessTypeOK'
        BY <2>9 DEF AbortedType
  <2>5. SupTypeOK'
    BY <2>0 DEF ReplayFailed, Failed, Release, Abort, TypeInv, TypeOK,
       SupTypeOK, SupPc, BookTypeOK
  <2> QED BY <2>0, <2>1, <2>2, <2>3, <2>4, <2>5, Kept DEF ReplayFailed,
     TypeInv, TypeOK
<1>10. ASSUME ReplayDone PROVE TypeInv'
  <2>0. TypeInv /\ ReplayDone
    BY <1>10
  <2>1. SupTypeOK'
    BY <2>0 DEF ReplayDone, TypeInv, TypeOK, SupTypeOK, SupPc, BookTypeOK
  <2> QED BY <2>0, <2>1, Kept DEF ReplayDone, TypeInv, TypeOK
<1>11. ASSUME ReplayRefused PROVE TypeInv'
  <2>0. TypeInv /\ ReplayRefused
    BY <1>11
  <2>1. SupTypeOK'
    BY <2>0 DEF ReplayRefused, TypeInv, TypeOK, SupTypeOK, SupPc, BookTypeOK
  <2> QED BY <2>0, <2>1, Kept DEF ReplayRefused, TypeInv, TypeOK
<1>12. ASSUME GenerationEnds PROVE TypeInv'
  <2>0. TypeInv /\ GenerationEnds
    BY <1>12
  <2>1. HolderOK'
    BY <2>0, NoTxFacts, TaskFacts DEF GenerationEnds, TypeInv, HolderOK
  <2>2. TaskTypeOK'
    BY <2>0, TaskFacts, NoTxFacts, HolderType DEF GenerationEnds, TypeInv,
       TypeOK, TaskTypeOK, BookTypeOK, HolderOK
  <2>3. SupTypeOK'
    <3>1. AfterGeneration \in SupPc
      BY DEF AfterGeneration, SupPc
    <3>2. tries \in Nat /\ <<>> \in Seq(Deliveries)
      BY DEF TypeInv, TypeOK, SupTypeOK
    <3>3. sup' \in SupPc /\ tries' \in Nat /\ todo' \in Seq(Deliveries)
      BY <2>0, <3>1, <3>2 DEF GenerationEnds
    <3>4. UNCHANGED <<everReady, stopped, needPresent>>
      BY <2>0 DEF GenerationEnds
    <3> QED BY <3>3, <3>4 DEF SupTypeOK, TypeInv, TypeOK
  <2> QED BY <2>0, <2>1, <2>2, <2>3, Kept DEF GenerationEnds, TypeInv, TypeOK
<1>13. ASSUME BlockBegins PROVE TypeInv'
  <2>0. TypeInv /\ BlockBegins
    BY <1>13
  <2>1. tx' \in Transition
    <3>1. order \in Seq(Deliveries) /\ BlockNext(order)
      BY <2>0 DEF BlockBegins, TypeInv, TypeOK, BookTypeOK, SupTypeOK
    <3> QED BY <3>1, BlockNextType
  <2>2. HolderOK'
    <3>1. order \in Seq(Deliveries) /\ BlockNext(order)
      BY <2>0 DEF BlockBegins, TypeInv, TypeOK, BookTypeOK, SupTypeOK
    <3>2. tx'.op \in {"none", "block"}
      BY <3>1, BlockNextType
    <3> QED BY <3>2 DEF HolderOK
  <2>3. BookTypeOK'
    <3>1. order \in Seq(Deliveries) /\ BlockNext(order)
      BY <2>0 DEF BlockBegins, TypeInv, TypeOK, BookTypeOK, SupTypeOK
    <3>2. mem' \in [Deliveries -> Record]
      BY <3>1, BlockNextType DEF AbortedType
    <3>3. order' = order /\ nextPid' = nextPid
      BY <2>0 DEF BlockBegins
    <3> QED BY <3>2, <3>3 DEF BookTypeOK, TypeInv, TypeOK
  <2>4. SessTypeOK'
    <3>1. order \in Seq(Deliveries) /\ BlockNext(order)
      BY <2>0 DEF BlockBegins, TypeInv, TypeOK, BookTypeOK, SupTypeOK
    <3> QED BY <3>1, BlockNextType DEF AbortedType
  <2>5. SupTypeOK'
    <3>1. order \in Seq(Deliveries) /\ BlockNext(order)
      BY <2>0 DEF BlockBegins, TypeInv, TypeOK, BookTypeOK, SupTypeOK
    <3>2. todo' \in Seq(Deliveries) /\ sup' \in SupPc
      BY <3>1, BlockNextType
    <3>3. UNCHANGED <<everReady, tries, stopped, needPresent>>
      BY <2>0 DEF BlockBegins
    <3> QED BY <3>2, <3>3 DEF SupTypeOK, TypeInv, TypeOK
  <2> QED BY <2>0, <2>1, <2>2, <2>3, <2>4, <2>5, Kept DEF BlockBegins,
     TypeInv, TypeOK
<1>14. ASSUME BlockContinues PROVE TypeInv'
  <2>0. TypeInv /\ BlockContinues
    BY <1>14
  <2>1. tx' \in Transition
    <3>1. todo \in Seq(Deliveries) /\ BlockNext(todo)
      BY <2>0 DEF BlockContinues, TypeInv, TypeOK, BookTypeOK, SupTypeOK
    <3> QED BY <3>1, BlockNextType
  <2>2. HolderOK'
    <3>1. todo \in Seq(Deliveries) /\ BlockNext(todo)
      BY <2>0 DEF BlockContinues, TypeInv, TypeOK, BookTypeOK, SupTypeOK
    <3>2. tx'.op \in {"none", "block"}
      BY <3>1, BlockNextType
    <3> QED BY <3>2 DEF HolderOK
  <2>3. BookTypeOK'
    <3>1. todo \in Seq(Deliveries) /\ BlockNext(todo)
      BY <2>0 DEF BlockContinues, TypeInv, TypeOK, BookTypeOK, SupTypeOK
    <3>2. mem' \in [Deliveries -> Record]
      BY <3>1, BlockNextType DEF AbortedType
    <3>3. order' = order /\ nextPid' = nextPid
      BY <2>0 DEF BlockContinues
    <3> QED BY <3>2, <3>3 DEF BookTypeOK, TypeInv, TypeOK
  <2>4. SessTypeOK'
    <3>1. todo \in Seq(Deliveries) /\ BlockNext(todo)
      BY <2>0 DEF BlockContinues, TypeInv, TypeOK, BookTypeOK, SupTypeOK
    <3> QED BY <3>1, BlockNextType DEF AbortedType
  <2>5. SupTypeOK'
    <3>1. todo \in Seq(Deliveries) /\ BlockNext(todo)
      BY <2>0 DEF BlockContinues, TypeInv, TypeOK, BookTypeOK, SupTypeOK
    <3>2. todo' \in Seq(Deliveries) /\ sup' \in SupPc
      BY <3>1, BlockNextType
    <3>3. UNCHANGED <<everReady, tries, stopped, needPresent>>
      BY <2>0 DEF BlockContinues
    <3> QED BY <3>2, <3>3 DEF SupTypeOK, TypeInv, TypeOK
  <2> QED BY <2>0, <2>1, <2>2, <2>3, <2>4, <2>5, Kept DEF BlockContinues,
     TypeInv, TypeOK
<1>15. ASSUME BlockFailed PROVE TypeInv'
  <2>0. TypeInv /\ BlockFailed
    BY <1>15
  <2>1. tx' \in Transition
    BY <2>0, NoTxFacts, HolderType DEF BlockFailed, Failed, Release, TypeInv,
       TypeOK, TaskTypeOK, Statement
  <2>2. HolderOK'
    BY <2>0, NoTxFacts, TaskFacts DEF BlockFailed, Failed, Release, TypeInv,
       HolderOK
  <2>3. BookTypeOK'
    <3>1. BlockEnds("storage") /\ "storage" \in Cause
      BY <2>0 DEF BlockFailed, Cause
    <3>2. mem' \in [Deliveries -> Record]
      BY <3>1, BlockEndsType DEF AbortedType
    <3>3. order' = order /\ nextPid' = nextPid
      BY <2>0 DEF BlockFailed
    <3> QED BY <3>2, <3>3 DEF BookTypeOK, TypeInv, TypeOK
  <2>4. SessTypeOK'
    <3>1. BlockEnds("storage") /\ "storage" \in Cause
      BY <2>0 DEF BlockFailed, Cause
    <3> QED BY <3>1, BlockEndsType DEF AbortedType
  <2>5. SupTypeOK'
    <3>1. BlockEnds("storage") /\ "storage" \in Cause
      BY <2>0 DEF BlockFailed, Cause
    <3>2. todo' \in Seq(Deliveries) /\ sup' \in SupPc
      BY <3>1, BlockEndsType
    <3>3. UNCHANGED <<everReady, tries, stopped, needPresent>>
      BY <2>0 DEF BlockFailed
    <3> QED BY <3>2, <3>3 DEF SupTypeOK, TypeInv, TypeOK
  <2> QED BY <2>0, <2>1, <2>2, <2>3, <2>4, <2>5, Kept DEF BlockFailed,
     TypeInv, TypeOK
<1>16. ASSUME Settle PROVE TypeInv'
  <2>0. TypeInv /\ Settle
    BY <1>16
  <2>1. BookTypeOK'
    <3>1. mem \in [Deliveries -> Record] /\ nextPid \in PacketIds
      BY DEF TypeInv, TypeOK, BookTypeOK
    <3>2. \A d \in Deliveries : FinishTerminal(mem, d)[d] \in Record
      BY <3>1, MemType
    <3>3. \A d \in Deliveries : mem[d] \in Record
      BY <3>1
    <3>4. mem' \in [Deliveries -> Record]
      BY <2>0, <3>2, <3>3 DEF Settle
    <3>5. order' \in Seq(Deliveries) /\ nextPid' = nextPid
      BY <2>0 DEF Settle
    <3> QED BY <3>1, <3>4, <3>5 DEF BookTypeOK
  <2>2. SupTypeOK'
    BY <2>0 DEF Settle, TypeInv, TypeOK, SupTypeOK, SupPc, BookTypeOK
  <2> QED BY <2>0, <2>1, <2>2, Kept DEF Settle, TypeInv, TypeOK
<1>17. ASSUME SessionMarkFailed PROVE TypeInv'
  <2>0. TypeInv /\ SessionMarkFailed
    BY <1>17
  <2>9. AbortedType
    <3>1. AbortWith("storage", mem, attached)
      BY <2>0 DEF SessionMarkFailed, Abort
    <3>2. mem \in [Deliveries -> Record]
      BY DEF TypeInv, TypeOK, BookTypeOK
    <3>3. "storage" \in Cause
      BY DEF Cause
    <3> QED BY <3>1, <3>2, <3>3, AbortType
  <2>1. BookTypeOK'
    BY <2>0, <2>9 DEF AbortedType, SessionMarkFailed, TypeInv, TypeOK,
       BookTypeOK
  <2>2. SessTypeOK'
        BY <2>9 DEF AbortedType
  <2>3. SupTypeOK'
    BY <2>0 DEF SessionMarkFailed, TypeInv, TypeOK, SupTypeOK, SupPc
  <2>4. EnvTypeOK'
    BY <2>0 DEF SessionMarkFailed, TypeInv, TypeOK, EnvTypeOK
  <2> QED BY <2>0, <2>1, <2>2, <2>3, <2>4, Kept DEF SessionMarkFailed, TypeInv,
     TypeOK
<1> QED BY <1>1, <1>2, <1>3, <1>4, <1>5, <1>6, <1>7, <1>8, <1>9, <1>10,
   <1>11, <1>12, <1>13, <1>14, <1>15, <1>16, <1>17

LEMMA EnvironmentType ==
    ASSUME TypeInv,
           \/ ConnectionLost
           \/ BrokerAnswers
           \/ BrokerForgets
           \/ (\E d \in Deliveries : DeadlinePasses(d))
           \/ (\E d \in Deliveries : MessageDeadlinePasses(d))
           \/ ApplicationStops
           \/ StopCloses
           \/ ProcessEnds
           \/ ProcessOpens
    PROVE  TypeInv'
<1>1. ASSUME ConnectionLost PROVE TypeInv'
  <2>0. TypeInv /\ ConnectionLost
    BY <1>1
  <2>9. AbortedType
    <3>1. PICK c \in {"lost", "refused"} : AbortWith(c, mem, attached)
      BY <2>0 DEF ConnectionLost, Abort
    <3>2. mem \in [Deliveries -> Record] /\ c \in Cause
      BY DEF TypeInv, TypeOK, BookTypeOK, Cause
    <3> QED BY <3>1, <3>2, AbortType
  <2>1. BookTypeOK'
    BY <2>0, <2>9 DEF AbortedType, ConnectionLost, TypeInv, TypeOK,
       BookTypeOK
  <2>2. SessTypeOK'
        BY <2>9 DEF AbortedType
  <2> QED BY <2>0, <2>1, <2>2, Kept DEF ConnectionLost, TypeInv, TypeOK
<1>2. ASSUME BrokerAnswers PROVE TypeInv'
  <2>0. TypeInv /\ BrokerAnswers
    BY <1>2
  <2>1. NetTypeOK'
    <3>1. toBroker # <<>> /\ toBroker \in Seq(Publish)
      BY <2>0 DEF BrokerAnswers, TypeInv, TypeOK, NetTypeOK
    <3>2. Head(toBroker) \in Publish /\ Tail(toBroker) \in Seq(Publish)
      BY <3>1, HeadTailProperties
    <3>3. PICK ok \in BOOLEAN :
             /\ answered' = answered \cup {<<Head(toBroker).d, ok>>}
             /\ toClient' = IF alive
                            THEN Append(toClient,
                                        [pid |-> Head(toBroker).pid, ok |->
                                        ok])
                            ELSE toClient
      BY <2>0 DEF BrokerAnswers
    <3>4. [pid |-> Head(toBroker).pid, ok |-> ok] \in Puback
      BY <3>2 DEF Publish, Puback
    <3>5. toClient \in Seq(Puback)
      BY DEF TypeInv, TypeOK, NetTypeOK
    <3>6. toClient' \in Seq(Puback)
      BY <3>3, <3>4, <3>5, AppendProperties
    <3>7. toBroker' = Tail(toBroker) /\ present' = present
      BY <2>0 DEF BrokerAnswers
    <3> QED BY <3>2, <3>6, <3>7 DEF NetTypeOK, TypeInv, TypeOK
  <2>2. HistTypeOK'
    <3>1. toBroker # <<>> /\ toBroker \in Seq(Publish)
      BY <2>0 DEF BrokerAnswers, TypeInv, TypeOK, NetTypeOK
    <3>2. Head(toBroker) \in Publish /\ Tail(toBroker) \in Seq(Publish)
      BY <3>1, HeadTailProperties
    <3>3. PICK ok \in BOOLEAN :
             /\ answered' = answered \cup {<<Head(toBroker).d, ok>>}
             /\ toClient' = IF alive
                            THEN Append(toClient,
                                        [pid |-> Head(toBroker).pid, ok |->
                                        ok])
                            ELSE toClient
      BY <2>0 DEF BrokerAnswers
    <3>4. Head(toBroker).d \in Deliveries
      BY <3>2 DEF Publish
    <3>5. answered \subseteq Deliveries \X BOOLEAN
      BY DEF TypeInv, TypeOK, HistTypeOK
    <3>6. answered' \subseteq Deliveries \X BOOLEAN
      BY <3>3, <3>4, <3>5
    <3>7. admitted' = admitted /\ sent' = sent
      BY <2>0 DEF BrokerAnswers
    <3> QED BY <3>6, <3>7 DEF HistTypeOK, TypeInv, TypeOK
  <2> QED BY <2>0, <2>1, <2>2, Kept DEF BrokerAnswers, TypeInv, TypeOK
<1>3. ASSUME BrokerForgets PROVE TypeInv'
  <2>0. TypeInv /\ BrokerForgets
    BY <1>3
  <2>1. NetTypeOK'
    BY <2>0 DEF BrokerForgets, TypeInv, TypeOK, NetTypeOK, Publish, Puback
  <2> QED BY <2>0, <2>1, Kept DEF BrokerForgets, TypeInv, TypeOK
<1>4. ASSUME NEW d \in Deliveries, DeadlinePasses(d) PROVE TypeInv'
  <2>0. TypeInv /\ DeadlinePasses(d)
    BY <1>4
  <2>1. EnvTypeOK'
    BY <2>0 DEF DeadlinePasses, TypeInv, TypeOK, EnvTypeOK
  <2> QED BY <2>0, <2>1, Kept DEF DeadlinePasses, TypeInv, TypeOK
<1>5. ASSUME NEW d \in Deliveries, MessageDeadlinePasses(d) PROVE TypeInv'
  <2>0. TypeInv /\ MessageDeadlinePasses(d)
    BY <1>5
  <2>1. EnvTypeOK'
    BY <2>0 DEF MessageDeadlinePasses, TypeInv, TypeOK, EnvTypeOK
  <2> QED BY <2>0, <2>1, Kept DEF MessageDeadlinePasses, TypeInv, TypeOK
<1>6. ASSUME ApplicationStops PROVE TypeInv'
  <2>0. TypeInv /\ ApplicationStops
    BY <1>6
  <2>1. SupTypeOK'
    BY <2>0 DEF ApplicationStops, TypeInv, TypeOK, SupTypeOK, SupPc,
       BookTypeOK
  <2> QED BY <2>0, <2>1, Kept DEF ApplicationStops, TypeInv, TypeOK
<1>7. ASSUME StopCloses PROVE TypeInv'
  <2>0. TypeInv /\ StopCloses
    BY <1>7
  <2>9. AbortedType
    <3>1. AbortWith("closed", mem, attached)
      BY <2>0 DEF StopCloses, Abort
    <3>2. mem \in [Deliveries -> Record]
      BY DEF TypeInv, TypeOK, BookTypeOK
    <3>3. "closed" \in Cause
      BY DEF Cause
    <3> QED BY <3>1, <3>2, <3>3, AbortType
  <2>1. BookTypeOK'
    BY <2>0, <2>9 DEF AbortedType, StopCloses, TypeInv, TypeOK,
       BookTypeOK
  <2>2. SessTypeOK'
        BY <2>9 DEF AbortedType
  <2>3. SupTypeOK'
    BY <2>0 DEF StopCloses, WorkerCancelled, TypeInv, TypeOK, SupTypeOK, SupPc
  <2> QED BY <2>0, <2>1, <2>2, <2>3, Kept DEF StopCloses, TypeInv, TypeOK
<1>8. ASSUME ProcessEnds PROVE TypeInv'
  <2>0. TypeInv /\ ProcessEnds
    BY <1>8
  <2>1. tx' \in Transition
    BY <2>0, NoTxFacts DEF ProcessEnds, Volatile
  <2>2. HolderOK'
    BY <2>0, NoTxFacts DEF ProcessEnds, Volatile, HolderOK
  <2>3. BookTypeOK'
    <3>1. NoRecord \in Record
      BY Constants DEF NoRecord, Record, Phase
    <3>2. mem' \in [Deliveries -> Record] /\ order' \in Seq(Deliveries)
      BY <2>0, <3>1 DEF ProcessEnds
    <3>3. nextPid' = 1 /\ 1 \in PacketIds
      BY <2>0, Constants DEF ProcessEnds, Volatile, PacketIds
    <3> QED BY <3>2, <3>3 DEF BookTypeOK
  <2>4. SessTypeOK'
    <3>1. gen' = 0 /\ alive' = FALSE /\ cause' = "none" /\ attached' = {}
      BY <2>0 DEF ProcessEnds, Volatile
    <3>2. slots' = 0 /\ outq' = <<>> /\ callers' = {}
      BY <2>0 DEF ProcessEnds, Volatile
    <3>3. cause' \in Cause
      BY <3>1 DEF Cause
    <3>4. outq' \in Seq(Deliveries) /\ callers' \subseteq Deliveries
      BY <3>2
    <3>5. gen' \in Nat /\ slots' \in Int
      BY <3>1, <3>2
    <3>6. alive' \in BOOLEAN /\ attached' \subseteq Deliveries
      BY <3>1
    <3> QED BY <3>3, <3>4, <3>5, <3>6 DEF SessTypeOK
  <2>5. TaskTypeOK'
    BY <2>0, TaskFacts DEF ProcessEnds, Volatile, TaskTypeOK
  <2>6. SupTypeOK'
    <3>1. /\ sup' = "down" /\ needPresent' = FALSE /\ todo' = <<>>
          /\ everReady' = FALSE /\ tries' = 0 /\ stopped' = FALSE
      BY <2>0 DEF ProcessEnds, Volatile
    <3>2. sup' \in SupPc
      BY <3>1 DEF SupPc
    <3>3. todo' \in Seq(Deliveries)
      BY <3>1
    <3> QED BY <3>1, <3>2, <3>3 DEF SupTypeOK
  <2> QED BY <2>0, <2>1, <2>2, <2>3, <2>4, <2>5, <2>6, Kept DEF ProcessEnds,
     TypeInv, TypeOK
<1>9. ASSUME ProcessOpens PROVE TypeInv'
  <2>0. TypeInv /\ ProcessOpens
    BY <1>9
  <2>1. DbTypeOK'
    <3>1. rows \in [Deliveries -> Row]
      BY DEF TypeInv, TypeOK, DbTypeOK
    <3>2. \A d \in Deliveries : ExpiredRow(rows[d]) \in Row
      BY <3>1, ExpiredType
    <3>3. Swept(rows, late) \in [Deliveries -> Row]
      BY <3>1, <3>2 DEF Swept
    <3>4. rows' \in [Deliveries -> Row]
      BY <2>0, <3>3 DEF ProcessOpens
    <3>5. nextSeq' = nextSeq /\ known' = known
      BY <2>0 DEF ProcessOpens
    <3> QED BY <3>4, <3>5 DEF DbTypeOK, TypeInv, TypeOK
  <2>2. BookTypeOK'
    <3>1. rows \in [Deliveries -> Row]
      BY DEF TypeInv, TypeOK, DbTypeOK
    <3>2. \A d \in Deliveries : ExpiredRow(rows[d]) \in Row
      BY <3>1, ExpiredType
    <3>3. Swept(rows, late) \in [Deliveries -> Row]
      BY <3>1, <3>2 DEF Swept
    <3>4. rows' \in [Deliveries -> Row]
      BY <2>0, <3>3 DEF ProcessOpens
    <3>5. nextPid' = nextPid /\ BookTypeOK
      BY <2>0 DEF ProcessOpens, TypeInv, TypeOK
    <3>6. CASE UNCHANGED <<mem, order>>
      BY <3>5, <3>6 DEF BookTypeOK
    <3>7. CASE /\ mem' = [d \in Deliveries |-> RecoveredRecord(rows'[d])]
               /\ \E s \in [1..Cardinality(Pending(rows')) -> Pending(rows')] :
                      order' = s
      <4>1. mem' \in [Deliveries -> Record]
        <5>1. \A row \in Row : RecoveredRecord(row) \in Record
          BY Constants DEF RecoveredRecord, NoRecord, Row, Record, Phase
        <5> QED BY <3>4, <3>7, <5>1
      <4>2. Cardinality(Pending(rows')) \in Nat
        BY OutboxAssumption, FS_Subset, FS_CardinalityType DEF Pending
      <4>3. order' \in Seq(Deliveries)
        <5>1. PICK s \in [1..Cardinality(Pending(rows')) -> Pending(rows')] :
                     order' = s
          BY <3>7
        <5>2. Pending(rows') \subseteq Deliveries
          BY DEF Pending
        <5>3. s \in Seq(Pending(rows'))
          BY <4>2, <5>1, SeqDef
        <5> QED BY <5>1, <5>2, <5>3, SeqMonotonic
      <4> QED BY <3>5, <4>1, <4>3 DEF BookTypeOK
    <3> QED BY <2>0, <3>6, <3>7 DEF ProcessOpens
  <2>3. SupTypeOK'
    BY <2>0 DEF ProcessOpens, TypeInv, TypeOK, SupTypeOK, SupPc, BookTypeOK
  <2>4. EnvTypeOK'
    BY <2>0 DEF ProcessOpens, TypeInv, TypeOK, EnvTypeOK
  <2> QED BY <2>0, <2>1, <2>2, <2>3, <2>4, Kept DEF ProcessOpens, TypeInv,
     TypeOK
<1> QED BY <1>1, <1>2, <1>3, <1>4, <1>5, <1>6, <1>7, <1>8, <1>9
-----------------------------------------------------------------------------
LEMMA TypeStep == TypeInv /\ [Next]_vars => TypeInv'
<1> SUFFICES ASSUME TypeInv, [Next]_vars PROVE TypeInv'
  OBVIOUS
<1>1. CASE StoreCommits \/ StoreFaults
  BY <1>1, StoreType
<1>2. CASE Submitter
  BY <1>2, SubmitterType DEF Submitter
<1>3. CASE Writer
  BY <1>3, WriterType DEF Writer
<1>4. CASE Reader
  BY <1>4, ReaderType DEF Reader
<1>5. CASE Watchdog
  BY <1>5, WatchdogType DEF Watchdog
<1>6. CASE Supervisor
  BY <1>6, SupervisorType DEF Supervisor, Replay
<1>7. CASE Environment
  BY <1>7, StoreType, EnvironmentType DEF Environment
<1>8. CASE UNCHANGED vars
  <2>1. /\ UNCHANGED dbVars /\ UNCHANGED bookVars /\ UNCHANGED sessVars
        /\ UNCHANGED taskVars /\ UNCHANGED supVars /\ UNCHANGED netVars
        /\ UNCHANGED envVars /\ UNCHANGED histVars /\ UNCHANGED tx
    BY <1>8 DEF vars
  <2>2. HolderOK'
    BY <2>1, Kept
  <2> QED BY <2>1, <2>2, Kept DEF TypeInv, TypeOK
<1> QED BY <1>1, <1>2, <1>3, <1>4, <1>5, <1>6, <1>7, <1>8 DEF Next

(* Type correctness, with what a task knows about the transition it holds. *)
THEOREM TypeInvariant == Spec => []TypeInv
<1>1. Init => TypeInv
  BY InitType
<1>2. TypeInv /\ [Next]_vars => TypeInv'
  BY TypeStep
<1> QED BY <1>1, <1>2, PTL DEF Spec

(* Every variable stays in its domain: no step of any task, of the         *)
(* supervisor, of the store or of the environment leaves an ill-formed     *)
(* record, row, transition or queue behind.                                *)
THEOREM TypeCorrect == Spec => []TypeOK
<1>1. TypeInv => TypeOK
  BY DEF TypeInv
<1> QED BY <1>1, TypeInvariant, PTL
-----------------------------------------------------------------------------
(* Members of sequences of deliveries.                                     *)

LEMMA MembersEmpty == Members(<<>>) = {}
BY DEF Members

LEMMA MembersHead ==
    ASSUME NEW s \in Seq(Deliveries), s # <<>>
    PROVE  Head(s) \in Members(s) /\ Members(Tail(s)) \subseteq Members(s)
<1>1. /\ Len(s) \in Nat /\ Len(s) # 0 /\ DOMAIN s = 1..Len(s)
      /\ Head(s) = s[1]
  BY LenProperties, EmptySeq, HeadTailProperties
<1>2. /\ Tail(s) \in Seq(Deliveries) /\ Len(Tail(s)) = Len(s) - 1
      /\ \A i \in 1..Len(Tail(s)) : Tail(s)[i] = s[i + 1]
  BY HeadTailProperties
<1>3. DOMAIN Tail(s) = 1..Len(Tail(s))
  BY <1>2, LenProperties
<1>4. \A i \in DOMAIN Tail(s) : Tail(s)[i] = s[i + 1] /\ i + 1 \in DOMAIN s
  BY <1>1, <1>2, <1>3
<1> QED BY <1>1, <1>4 DEF Members

LEMMA MembersAppend ==
    ASSUME NEW s \in Seq(Deliveries), NEW d \in Deliveries
    PROVE  Members(Append(s, d)) = Members(s) \cup {d}
<1>1. /\ Append(s, d) \in Seq(Deliveries) /\ Len(Append(s, d)) = Len(s) + 1
      /\ \A i \in 1..Len(s) : Append(s, d)[i] = s[i]
      /\ Append(s, d)[Len(s) + 1] = d
  BY AppendProperties
<1>2. /\ Len(s) \in Nat /\ DOMAIN s = 1..Len(s)
      /\ DOMAIN Append(s, d) = 1..Len(s) + 1
  BY <1>1, LenProperties
<1> QED BY <1>1, <1>2 DEF Members

LEMMA MembersSubSeq ==
    ASSUME NEW s \in Seq(Deliveries), NEW i \in DOMAIN s
    PROVE  /\ s[i] \in Members(s)
           /\ Members(SubSeq(s, i + 1, Len(s))) \subseteq Members(s)
<1> DEFINE r == SubSeq(s, i + 1, Len(s))
<1>1. Len(s) \in Nat /\ DOMAIN s = 1..Len(s) /\ i \in Nat
  BY LenProperties
<1>2. \A j \in 1..Len(s) : s[j] \in Deliveries
  BY ElementOfSeq
<1>3. i + 1 \in Int /\ Len(s) \in Int /\ \A j \in i + 1..Len(s) : s[j] \in Deliveries
  BY <1>1, <1>2
<1>4. /\ r \in Seq(Deliveries)
      /\ Len(r) = IF i + 1 <= Len(s) THEN Len(s) - (i + 1) + 1 ELSE 0
      /\ \A j \in 1..Len(s) - (i + 1) + 1 : r[j] = s[i + 1 + j - 1]
  BY <1>3, SubSeqProperties
<1>5. DOMAIN r = 1..Len(r)
  BY <1>4, LenProperties
<1> HIDE DEF r
<1>6. \A j \in DOMAIN r : r[j] = s[i + j] /\ i + j \in DOMAIN s
  BY <1>1, <1>4, <1>5
<1> QED BY <1>6 DEF Members, r
-----------------------------------------------------------------------------
(* What may still be acted upon.                                           *)

LEMMA KnownFacts ==
    /\ Members(order) \subseteq Known /\ Members(outq) \subseteq Known
    /\ Members(todo) \subseteq Known /\ attached \subseteq Known
    /\ callers \subseteq Known
    /\ writer.pc # "idle" => writer.d \in Known
    /\ reader.pc # "idle" => reader.d \in Known
    /\ watcher.pc # "idle" => watcher.d \in Known
    /\ tx.op \notin {"none", "admit"} => tx.d \in Known
    /\ tx.op = "admit" /\ tx.stmt = "attach" => tx.d \in Known
BY DEF Known

LEMMA KnownBound ==
    ASSUME NEW K,
           Members(order') \subseteq K, Members(outq') \subseteq K,
           Members(todo') \subseteq K, attached' \subseteq K,
           callers' \subseteq K,
           writer'.pc # "idle" => writer'.d \in K,
           reader'.pc # "idle" => reader'.d \in K,
           watcher'.pc # "idle" => watcher'.d \in K,
           tx'.op \notin {"none", "admit"} => tx'.d \in K,
           tx'.op = "admit" /\ tx'.stmt = "attach" => tx'.d \in K
    PROVE  Known' \subseteq K
BY DEF Known

LEMMA KnownType ==
    ASSUME TypeInv
    PROVE  Known \subseteq Deliveries
<1>1. \A s \in Seq(Deliveries) : Members(s) \subseteq Deliveries
  BY ElementOfSeq, LenProperties DEF Members
<1>2. /\ Members(order) \subseteq Deliveries /\ Members(outq) \subseteq Deliveries
      /\ Members(todo) \subseteq Deliveries
  BY <1>1 DEF TypeInv, TypeOK, BookTypeOK, SessTypeOK, SupTypeOK
<1>3. attached \subseteq Deliveries /\ callers \subseteq Deliveries
  BY DEF TypeInv, TypeOK, SessTypeOK
<1>4. \A t \in {writer, reader, watcher} : t.pc # "idle" => t.d \in Deliveries
  BY TaskFacts DEF TypeInv, TypeOK, TaskTypeOK
<1>5. tx.op # "none" => tx.d \in Deliveries
  BY HolderType, NoTxFacts
<1> QED BY <1>2, <1>3, <1>4, <1>5 DEF Known
-----------------------------------------------------------------------------
(* Tame steps.                                                             *)

(* A change of the records that the invariant does not see: a delivery is  *)
(* reported as not sent only while its record says nothing was started.    *)
Tame(m, n) ==
    \A d \in Deliveries :
        /\ n[d].phase = "none" <=> m[d].phase = "none"
        /\ n[d].started <=> m[d].started
        /\ rows[d].state # "absent" => n[d].pid = m[d].pid
        /\ n[d].phase = "NotSent" => m[d].phase = "NotSent" \/ ~m[d].started

KeepData  == UNCHANGED <<rows, admitted, sent>>
KeepBook  == Tame(mem, mem') /\ Members(order') \subseteq Known
KeepSess  == /\ Members(outq') \subseteq Known
             /\ attached' \subseteq Known /\ callers' \subseteq Known
KeepTasks == /\ writer'.pc # "idle" => writer'.d \in Known
             /\ reader'.pc # "idle" => reader'.d \in Known
             /\ watcher'.pc # "idle" => watcher'.d \in Known
KeepSup   == Members(todo') \subseteq Known /\ (sup' = "down" <=> sup = "down")
KeepTx    ==
    \/ tx' = tx
    \/ tx' = NoTx
    \/ tx.res = "wait" /\ tx' = [tx EXCEPT !.res = "error"]
    \/ /\ sup # "down" /\ tx'.res = "wait"
       /\ \/ tx'.op = "admit" /\ tx'.stmt = "insert" /\ tx'.d \in Deliveries \ admitted
          \/ /\ tx'.op \notin {"none", "admit"} /\ tx'.d \in Known
             /\ tx'.op = "write" /\ tx'.stmt = "check" => mem[tx'.d].started
KeepFlag  ==
    \/ writer' = writer
       /\ (tx' = tx \/ tx' = [tx EXCEPT !.res = "error"] \/ tx'.op # "write")
    \/ writer'.pc \notin {"enter", "tx"}
    \/ writer'.pc = "enter" /\ (writer'.flag <=> mem[writer'.d].started)
    \/ writer'.pc = "tx" /\ writer.pc = "enter" /\ writer'.flag = writer.flag /\ writer'.d = writer.d
    \/ writer'.pc = "tx" /\ tx'.stmt = "expire"

LEMMA KeptTame ==
    ASSUME TypeInv
    PROVE  /\ UNCHANGED bookVars => KeepBook
           /\ UNCHANGED sessVars => KeepSess
           /\ UNCHANGED taskVars => KeepTasks
           /\ UNCHANGED supVars  => KeepSup
           /\ UNCHANGED tx       => KeepTx
           /\ UNCHANGED <<tx, taskVars>> => KeepFlag
<1>1. Tame(mem, mem)
  BY DEF Tame
<1>2. UNCHANGED bookVars => KeepBook
  BY <1>1, KnownFacts DEF KeepBook, bookVars
<1>3. UNCHANGED sessVars => KeepSess
  BY KnownFacts DEF KeepSess, sessVars
<1>4. UNCHANGED taskVars => KeepTasks
  BY KnownFacts DEF KeepTasks, taskVars
<1>5. UNCHANGED supVars => KeepSup
  BY KnownFacts DEF KeepSup, supVars
<1>6. UNCHANGED tx => KeepTx
  BY DEF KeepTx
<1>7. UNCHANGED <<tx, taskVars>> => KeepFlag
  BY DEF KeepFlag, taskVars
<1> QED BY <1>2, <1>3, <1>4, <1>5, <1>6, <1>7

LEMMA TameStep ==
    ASSUME TypeInv, TypeInv', CommitInv, KeepData, KeepBook, KeepSess,
           KeepTasks, KeepSup, KeepTx, KeepFlag
    PROVE  CommitInv'
<1>1. /\ KnownHasRecord /\ DownHasNoRecord /\ AdmittedFirst /\ AdmissionHeld
      /\ RowMarkedFirst /\ RecordMarkedFirst /\ WriteHeld /\ FirstCopyFlagged
  BY DEF CommitInv
<1>2. Tame(mem, mem') /\ UNCHANGED <<rows, admitted, sent>>
  BY DEF KeepBook, KeepData
<1>3. sup' = "down" <=> sup = "down"
  BY DEF KeepSup
<1>4. /\ tx \in Transition /\ tx' \in Transition
      /\ tx # NoTx => tx.d \in Deliveries
      /\ tx' # NoTx => tx'.d \in Deliveries
  <2>1. \A u \in Transition : u # NoTx => u.d \in Deliveries
    BY DEF Transition
  <2> QED BY <2>1 DEF TypeInv, TypeOK
<1>5. Known \subseteq Deliveries
  BY KnownType
<1>6. Known' \subseteq Known
  <2>1. /\ tx'.op \notin {"none", "admit"} => tx'.d \in Known
        /\ tx'.op = "admit" /\ tx'.stmt = "attach" => tx'.d \in Known
    <3>1. CASE tx' = tx
      BY <3>1, KnownFacts
    <3>2. CASE tx' = NoTx
      BY <3>2, NoTxFacts
    <3>3. CASE tx' = [tx EXCEPT !.res = "error"] /\ tx.res = "wait"
      <4>1. tx'.op = tx.op /\ tx'.d = tx.d /\ tx'.stmt = tx.stmt
        BY <1>4, <3>3, NoTxFacts DEF Transition
      <4> QED BY <4>1, KnownFacts
    <3>4. CASE \/ tx'.op = "admit" /\ tx'.stmt = "insert"
               \/ tx'.op \notin {"none", "admit"} /\ tx'.d \in Known
      BY <3>4
    <3> QED BY <3>1, <3>2, <3>3, <3>4 DEF KeepTx
  <2> QED BY <2>1, KnownBound DEF KeepBook, KeepSess, KeepTasks, KeepSup
<1>7. KnownHasRecord'
  BY <1>1, <1>2, <1>5, <1>6 DEF KnownHasRecord, Tame
<1>8. DownHasNoRecord'
  <2>1. sup # "down" \/ tx' = NoTx
    <3>1. tx = NoTx => tx.res # "wait"
      BY NoTxFacts
    <3> QED BY <1>1, <3>1 DEF KeepTx, DownHasNoRecord
  <2> QED BY <1>1, <1>2, <1>3, <2>1 DEF DownHasNoRecord, Tame
<1>9. AdmittedFirst'
  BY <1>1, <1>2 DEF AdmittedFirst, Tame
<1>10. AdmissionHeld'
  <2>1. CASE tx' = tx
    BY <1>1, <1>2, <1>4, <2>1, NoTxFacts DEF AdmissionHeld, Tame
  <2>2. CASE tx' = NoTx
    BY <2>2, NoTxFacts DEF AdmissionHeld
  <2>3. CASE tx' = [tx EXCEPT !.res = "error"] /\ tx.res = "wait"
    <3>1. /\ tx'.op = tx.op /\ tx'.d = tx.d /\ tx'.stmt = tx.stmt
          /\ tx'.res = "error" /\ tx # NoTx
      BY <1>4, <2>3, NoTxFacts DEF Transition
    <3> QED BY <1>1, <1>2, <1>4, <2>3, <3>1 DEF AdmissionHeld, Tame
  <2>4. CASE /\ tx'.op = "admit" /\ tx'.stmt = "insert"
             /\ tx'.d \in Deliveries \ admitted /\ tx'.res = "wait"
    <3>1. tx'.d \notin sent /\ mem[tx'.d].phase = "none" /\ ~mem[tx'.d].started
      BY <1>1, <2>4 DEF AdmittedFirst
    <3> QED BY <1>2, <2>4, <3>1 DEF AdmissionHeld, Tame
  <2>5. CASE tx'.op # "admit"
    BY <2>5 DEF AdmissionHeld
  <2> QED BY <2>1, <2>2, <2>3, <2>4, <2>5 DEF KeepTx
<1>11. RowMarkedFirst'
  BY <1>1, <1>2, <1>3 DEF RowMarkedFirst, Tame
<1>12. RecordMarkedFirst'
  <2> SUFFICES ASSUME NEW d \in sent
               PROVE  /\ mem'[d].phase # "none" => mem'[d].started
                      /\ mem'[d].phase # "NotSent"
    BY <1>2 DEF RecordMarkedFirst
  <2>1. d \in Deliveries
    BY DEF TypeInv, TypeOK, HistTypeOK
  <2>2. /\ mem[d].phase # "none" => mem[d].started
        /\ mem[d].phase # "NotSent"
    BY <1>1 DEF RecordMarkedFirst
  <2>3. /\ mem'[d].phase = "none" <=> mem[d].phase = "none"
        /\ mem'[d].started <=> mem[d].started
        /\ mem'[d].phase = "NotSent" => mem[d].phase = "NotSent" \/ ~mem[d].started
    BY <1>2, <2>1 DEF Tame
  <2> QED BY <2>2, <2>3
<1>13. WriteHeld'
  <2>1. CASE tx' = tx
    BY <1>1, <1>2, <1>4, <2>1, NoTxFacts DEF WriteHeld, Tame
  <2>2. CASE tx' = NoTx
    BY <2>2, NoTxFacts DEF WriteHeld
  <2>3. CASE tx' = [tx EXCEPT !.res = "error"] /\ tx.res = "wait"
    <3>1. /\ tx'.op = tx.op /\ tx'.d = tx.d /\ tx'.stmt = tx.stmt
          /\ tx'.res = "error" /\ tx # NoTx
      BY <1>4, <2>3, NoTxFacts DEF Transition
    <3> QED BY <1>1, <1>2, <1>4, <3>1 DEF WriteHeld, Tame
  <2>4. CASE /\ tx'.d \in Known /\ tx'.res = "wait"
             /\ tx'.op = "write" /\ tx'.stmt = "check" => mem[tx'.d].started
    BY <1>2, <1>5, <2>4 DEF WriteHeld, Tame
  <2>5. CASE tx'.op # "write"
    BY <2>5 DEF WriteHeld
  <2> QED BY <2>1, <2>2, <2>3, <2>4, <2>5 DEF KeepTx
<1>14. FirstCopyFlagged'
  <2>1. /\ writer.pc # "idle" => writer.d \in Deliveries
        /\ writer'.pc # "idle" => writer'.d \in Deliveries
    BY TaskFacts DEF TypeInv, TypeOK, TaskTypeOK
  <2>2. CASE writer' = writer
             /\ (tx' = tx \/ tx' = [tx EXCEPT !.res = "error"] \/ tx'.op # "write")
    <3>1. tx' = [tx EXCEPT !.res = "error"] => tx'.op = tx.op /\ tx'.stmt = tx.stmt
      BY <1>4, NoTxFacts DEF Transition
    <3> QED BY <1>1, <1>2, <2>1, <2>2, <3>1 DEF FirstCopyFlagged, Tame
  <2>3. CASE writer'.pc \notin {"enter", "tx"}
    BY <2>3 DEF FirstCopyFlagged
  <2>4. CASE writer'.pc = "enter" /\ (writer'.flag <=> mem[writer'.d].started)
    BY <1>2, <2>1, <2>4 DEF FirstCopyFlagged, Tame
  <2>5. CASE writer'.pc = "tx" /\ writer.pc = "enter"
             /\ writer'.flag = writer.flag /\ writer'.d = writer.d
    BY <1>1, <1>2, <2>1, <2>5 DEF FirstCopyFlagged, Tame
  <2>6. CASE writer'.pc = "tx" /\ tx'.stmt = "expire"
    BY <2>6 DEF FirstCopyFlagged
  <2> QED BY <2>2, <2>3, <2>4, <2>5, <2>6 DEF KeepFlag
<1> QED BY <1>7, <1>8, <1>9, <1>10, <1>11, <1>12, <1>13, <1>14 DEF CommitInv

(* What the runtime does to the records of known deliveries is tame.       *)
LEMMA AttachTame ==
    ASSUME TypeInv, CommitInv, NEW d \in Known, NEW g
    PROVE  Tame(mem, Attach(mem, d, g))
<1>1. mem \in [Deliveries -> Record] /\ d \in Deliveries /\ mem[d].phase # "none"
  BY KnownType DEF TypeInv, TypeOK, BookTypeOK, CommitInv, KnownHasRecord
<1>2. \A e \in Deliveries : e # d => Attach(mem, d, g)[e] = mem[e]
  BY <1>1 DEF Attach
<1>3. Attach(mem, d, g)[d] = [mem[d] EXCEPT !.phase = "Queued", !.gen = g,
                                            !.attempts = mem[d].attempts + 1]
  BY <1>1 DEF Attach
<1>4. /\ Attach(mem, d, g)[d].phase = "Queued"
      /\ Attach(mem, d, g)[d].started = mem[d].started
      /\ Attach(mem, d, g)[d].pid = mem[d].pid
  BY <1>1, <1>3 DEF Record
<1> QED BY <1>1, <1>2, <1>4 DEF Tame

LEMMA FinishTame ==
    ASSUME TypeInv, CommitInv, NEW d \in Known
    PROVE  Tame(mem, FinishTerminal(mem, d))
<1>1. mem \in [Deliveries -> Record] /\ d \in Deliveries /\ mem[d].phase # "none"
  BY KnownType DEF TypeInv, TypeOK, BookTypeOK, CommitInv, KnownHasRecord
<1>2. CASE Terminal(mem, d)
  BY <1>2 DEF FinishTerminal, Tame
<1>3. CASE ~Terminal(mem, d)
  <2> DEFINE n == FinishTerminal(mem, d)
             p == IF mem[d].started THEN "Unknown" ELSE "NotSent"
  <2>1. n = [mem EXCEPT ![d] = [mem[d] EXCEPT !.phase = p, !.gen = 0]]
    BY <1>3 DEF FinishTerminal
  <2>2. \A e \in Deliveries : e # d => n[e] = mem[e]
    BY <1>1, <2>1
  <2>3. n[d] = [mem[d] EXCEPT !.phase = p, !.gen = 0]
    BY <1>1, <2>1
  <2>4. n[d].phase = p /\ n[d].started = mem[d].started /\ n[d].pid = mem[d].pid
    BY <1>1, <2>3 DEF Record
  <2>5. p = "NotSent" => ~mem[d].started
    OBVIOUS
  <2>6. p # "none"
    OBVIOUS
  <2> HIDE DEF n, p
  <2>7. Tame(mem, n)
    BY <1>1, <2>2, <2>4, <2>5, <2>6 DEF Tame
  <2> QED BY <2>7 DEF n
<1> QED BY <1>2, <1>3

LEMMA DetachedFields ==
    ASSUME NEW m \in [Deliveries -> Record], NEW S
    PROVE  \A d \in Deliveries :
               \/ Detached(m, S)[d] = m[d]
               \/ /\ d \in S
                  /\ Detached(m, S)[d].phase = "AwaitingReconnect"
                  /\ Detached(m, S)[d].started = m[d].started
                  /\ Detached(m, S)[d].pid = m[d].pid
<1> SUFFICES ASSUME NEW d \in Deliveries
             PROVE  \/ Detached(m, S)[d] = m[d]
                    \/ /\ d \in S
                       /\ Detached(m, S)[d].phase = "AwaitingReconnect"
                       /\ Detached(m, S)[d].started = m[d].started
                       /\ Detached(m, S)[d].pid = m[d].pid
  OBVIOUS
<1> DEFINE away == [m[d] EXCEPT !.phase = "AwaitingReconnect", !.gen = 0]
<1>1. Detached(m, S)[d] = m[d] \/ (d \in S /\ Detached(m, S)[d] = away)
  BY DEF Detached
<1>2. m[d] \in Record
  OBVIOUS
<1>3. /\ away.phase = "AwaitingReconnect"
      /\ away.started = m[d].started /\ away.pid = m[d].pid
  BY <1>2 DEF Record
<1> HIDE DEF away
<1> QED BY <1>1, <1>3

LEMMA DetachedTame ==
    ASSUME TypeInv, CommitInv, NEW m \in [Deliveries -> Record], Tame(mem, m),
           NEW S \in SUBSET Known
    PROVE  Tame(mem, Detached(m, S))
<1>1. \A d \in S : mem[d].phase # "none"
  BY DEF CommitInv, KnownHasRecord
<1>2. \A d \in Deliveries :
          \/ Detached(m, S)[d] = m[d]
          \/ /\ mem[d].phase # "none"
             /\ Detached(m, S)[d].phase = "AwaitingReconnect"
             /\ Detached(m, S)[d].started = m[d].started
             /\ Detached(m, S)[d].pid = m[d].pid
  BY <1>1, DetachedFields
<1> QED BY <1>2 DEF Tame

LEMMA AbortTame ==
    ASSUME TypeInv, CommitInv, NEW c, NEW m \in [Deliveries -> Record],
           Tame(mem, m), NEW S \in SUBSET Known, AbortWith(c, m, S)
    PROVE  Tame(mem, mem') /\ KeepSess
<1>1. mem' = m \/ mem' = Detached(m, S)
  BY DEF AbortWith
<1>2. Tame(mem, mem')
  BY <1>1, DetachedTame
<1>3. outq' = <<>> /\ attached' = {} /\ callers' = {}
  BY DEF AbortWith
<1>4. KeepSess
  BY <1>3, MembersEmpty DEF KeepSess
<1> QED BY <1>2, <1>4

LEMMA AbortKept ==
    ASSUME TypeInv, CommitInv, \E c : AbortWith(c, mem, attached)
    PROVE  Tame(mem, mem') /\ KeepSess
<1>1. mem \in [Deliveries -> Record] /\ Tame(mem, mem)
  BY DEF TypeInv, TypeOK, BookTypeOK, Tame
<1>2. attached \subseteq Known
  BY KnownFacts
<1> QED BY <1>1, <1>2, AbortTame

LEMMA FinishKept ==
    ASSUME TypeInv, CommitInv, NEW d \in Known,
           \E c : AbortWith(c, FinishTerminal(mem, d), attached)
    PROVE  Tame(mem, mem') /\ KeepSess
<1>1. /\ FinishTerminal(mem, d) \in [Deliveries -> Record]
      /\ Tame(mem, FinishTerminal(mem, d))
  BY KnownType, MemType, FinishTame DEF TypeInv, TypeOK, BookTypeOK
<1>2. attached \subseteq Known
  BY KnownFacts
<1> QED BY <1>1, <1>2, AbortTame

LEMMA NotDown ==
    ASSUME TypeInv, CommitInv
    PROVE  /\ Known # {} => sup # "down"
           /\ tx # NoTx => sup # "down"
BY KnownType DEF CommitInv, DownHasNoRecord, KnownHasRecord

LEMMA TaskUpdates ==
    ASSUME NEW t \in Task, NEW pc
    PROVE  /\ [t EXCEPT !.pc = pc].d = t.d
           /\ [t EXCEPT !.pc = pc].flag = t.flag
           /\ [t EXCEPT !.pc = pc].pc = pc
           /\ IdleTask.pc = "idle"
<1>1. CASE t = IdleTask
  BY <1>1 DEF IdleTask
<1>2. CASE t \in [pc : {"enter", "tx", "late", "writing", "exit"},
                 d : Deliveries, flag : BOOLEAN]
  BY <1>2 DEF IdleTask
<1> QED BY <1>1, <1>2 DEF Task

LEMMA BlockEndsTame ==
    ASSUME TypeInv, CommitInv, sup # "down", order' = order, NEW c, BlockEnds(c)
    PROVE  KeepBook /\ KeepSess /\ KeepSup
<1>1. todo' = <<>> /\ (sup' = "settle" \/ sup' = "ending")
  BY DEF BlockEnds
<1>2. KeepSup
  BY <1>1, MembersEmpty DEF KeepSup
<1>3. Tame(mem, mem') /\ KeepSess
  <2>1. CASE UNCHANGED <<mem, attached, outq, callers>>
    BY <2>1, KnownFacts DEF Tame, KeepSess
  <2>2. CASE \E e : AbortWith(e, mem, attached)
    BY <2>2, AbortKept
  <2> QED BY <2>1, <2>2 DEF BlockEnds, Abort
<1> QED BY <1>2, <1>3, KnownFacts DEF KeepBook

LEMMA BlockNextTame ==
    ASSUME TypeInv, CommitInv, sup # "down", order' = order,
           NEW s \in Seq(Deliveries), Members(s) \subseteq Known, BlockNext(s)
    PROVE  /\ KeepBook /\ KeepSess /\ KeepSup /\ KeepTx
           /\ tx'.op # "write"
<1>1. CASE \E i \in DOMAIN s :
               /\ tx' = [op |-> "block", d |-> s[i], gen |-> gen,
                         stmt |-> "quarantine", res |-> "wait"]
               /\ todo' = SubSeq(s, i + 1, Len(s))
               /\ UNCHANGED <<sup, mem, sessVars>>
  <2>1. PICK i \in DOMAIN s :
               /\ tx' = [op |-> "block", d |-> s[i], gen |-> gen,
                         stmt |-> "quarantine", res |-> "wait"]
               /\ todo' = SubSeq(s, i + 1, Len(s))
               /\ UNCHANGED <<sup, mem, sessVars>>
    BY <1>1
  <2>2. s[i] \in Known /\ Members(todo') \subseteq Known
    BY <2>1, MembersSubSeq
  <2>3. KeepTx /\ tx'.op # "write"
    BY <2>1, <2>2 DEF KeepTx
  <2>4. KeepBook /\ KeepSess /\ KeepSup
    BY <2>1, <2>2, KnownFacts DEF KeepBook, KeepSess, KeepSup, Tame, sessVars
  <2> QED BY <2>3, <2>4
<1>2. CASE BlockEnds(cause) /\ Release
  BY <1>2, BlockEndsTame, NoTxFacts DEF Release, KeepTx
<1> QED BY <1>1, <1>2 DEF BlockNext
-----------------------------------------------------------------------------
(* Every action that is tame, by section of the specification.             *)

LEMMA SubmitterCommit ==
    ASSUME TypeInv, TypeInv', CommitInv,
           \/ (\E d \in Deliveries : SubmitBegins(d))
           \/ (\E d \in Deliveries : CallerEnqueues(d))
           \/ (\E d \in Deliveries : CallerCancelled(d))
           \/ AdmissionAttached
           \/ AdmissionFailed
    PROVE  CommitInv'
<1>1. ASSUME NEW d \in Deliveries, SubmitBegins(d) PROVE CommitInv'
  <2>0. SubmitBegins(d)
    BY <1>1
  <2>1. KeepBook
    <3>1. rows[d].state = "absent"
      BY <2>0 DEF SubmitBegins, CommitInv, AdmittedFirst
    <3>2. PICK id : mem' = [mem EXCEPT ![d].pid = id]
      BY <2>0 DEF SubmitBegins
    <3>3. \A e \in Deliveries : mem[e] \in Record
      BY DEF TypeInv, TypeOK, BookTypeOK
    <3>4. /\ \A e \in Deliveries : e # d => mem'[e] = mem[e]
          /\ mem'[d] = [mem[d] EXCEPT !.pid = id]
      BY <3>2 DEF TypeInv, TypeOK, BookTypeOK
    <3>5. mem'[d].phase = mem[d].phase /\ mem'[d].started = mem[d].started
      BY <3>3, <3>4 DEF Record
    <3>6. Tame(mem, mem')
      BY <3>1, <3>4, <3>5 DEF Tame
    <3> QED BY <2>0, <3>6, KnownFacts DEF SubmitBegins, KeepBook
  <2>2. KeepSess
    BY <2>0, KnownFacts, MembersEmpty DEF SubmitBegins, KeepSess
  <2>3. KeepTx
    BY <2>0 DEF SubmitBegins, Begin, Ready, KeepTx
  <2>4. KeepFlag
    BY <2>0 DEF SubmitBegins, Begin, KeepFlag, taskVars
  <2>5. KeepData /\ KeepTasks /\ KeepSup
    BY <2>0, KeptTame DEF SubmitBegins, KeepData, dbVars, histVars, supVars,
       taskVars
  <2> QED BY <2>1, <2>2, <2>3, <2>4, <2>5, TameStep
<1>2. ASSUME NEW d \in Deliveries, CallerEnqueues(d) PROVE CommitInv'
  <2>0. CallerEnqueues(d)
    BY <1>2
  <2>1. KeepSess
    <3>1. d \in Known
      BY <2>0, KnownFacts DEF CallerEnqueues
    <3>2. outq \in Seq(Deliveries)
      BY DEF TypeInv, TypeOK, SessTypeOK
    <3>3. outq' = Append(outq, d) \/ outq' = outq
      BY <2>0 DEF CallerEnqueues
    <3>4. attached' = attached /\ callers' \subseteq callers
      BY <2>0 DEF CallerEnqueues
    <3>5. Members(outq') \subseteq Members(outq) \cup {d}
      BY <3>2, <3>3, MembersAppend
    <3> QED BY <3>1, <3>4, <3>5, KnownFacts DEF KeepSess
  <2>2. KeepData /\ KeepBook /\ KeepTasks /\ KeepSup /\ KeepTx /\ KeepFlag
    BY <2>0, KeptTame DEF CallerEnqueues, KeepData, dbVars, histVars,
       bookVars, supVars, taskVars
  <2> QED BY <2>1, <2>2, TameStep
<1>3. ASSUME NEW d \in Deliveries, CallerCancelled(d) PROVE CommitInv'
  <2>0. CallerCancelled(d)
    BY <1>3
  <2>1. KeepSess
    BY <2>0, KnownFacts, MembersEmpty DEF CallerCancelled, KeepSess
  <2>2. KeepData /\ KeepBook /\ KeepTasks /\ KeepSup /\ KeepTx /\ KeepFlag
    BY <2>0, KeptTame DEF CallerCancelled, KeepData, dbVars, histVars,
       bookVars, supVars, taskVars
  <2> QED BY <2>1, <2>2, TameStep
<1>4. ASSUME AdmissionAttached PROVE CommitInv'
  <2>0. AdmissionAttached
    BY <1>4
  <2>9. tx.d \in Known
    BY <2>0, KnownFacts DEF AdmissionAttached, Done
  <2>1. KeepBook
    BY <2>0, <2>9, AttachTame, KnownFacts DEF AdmissionAttached, KeepBook
  <2>2. KeepSess
    BY <2>0, <2>9, KnownFacts DEF AdmissionAttached, KeepSess
  <2>3. KeepTx
    BY <2>0 DEF AdmissionAttached, Done, Release, KeepTx
  <2>4. KeepFlag
    BY <2>0, NoTxFacts DEF AdmissionAttached, Done, Release, KeepFlag,
       taskVars
  <2>5. KeepData /\ KeepTasks /\ KeepSup
    BY <2>0, KeptTame DEF AdmissionAttached, KeepData, dbVars, histVars,
       supVars, taskVars
  <2> QED BY <2>1, <2>2, <2>3, <2>4, <2>5, TameStep
<1>5. ASSUME AdmissionFailed PROVE CommitInv'
  <2>0. AdmissionFailed
    BY <1>5
  <2>6. tx # NoTx /\ tx.d \in Deliveries /\ tx.op = "admit" /\ tx.res = "error"
    BY <2>0, HolderType, NoTxFacts DEF AdmissionFailed, Failed
  <2>7. mem \in [Deliveries -> Record] /\ Tame(mem, mem)
    BY DEF TypeInv, TypeOK, BookTypeOK, Tame
  <2>8. attached \subseteq Known
    BY KnownFacts
  <2>9. Tame(mem, mem') /\ KeepSess
    <3>1. CASE tx.stmt = "insert"
      <4> DEFINE m == [mem EXCEPT ![tx.d].pid = 0]
      <4>1. rows[tx.d].state = "absent"
        BY <2>6, <3>1 DEF CommitInv, AdmissionHeld, AdmittedFirst
      <4>2. m \in [Deliveries -> Record]
        BY <2>6, <2>7, RecordUpdates, Constants
      <4>3. /\ \A e \in Deliveries : e # tx.d => m[e] = mem[e]
            /\ m[tx.d] = [mem[tx.d] EXCEPT !.pid = 0]
        BY <2>6, <2>7
      <4>4. m[tx.d].phase = mem[tx.d].phase /\ m[tx.d].started = mem[tx.d].started
        BY <2>6, <2>7, <4>3 DEF Record
      <4>5. AbortWith("storage", m, attached)
        BY <2>0, <3>1 DEF AdmissionFailed, Abort
      <4> HIDE DEF m
      <4>6. Tame(mem, m)
        BY <4>1, <4>3, <4>4 DEF Tame
      <4> QED BY <2>8, <4>2, <4>5, <4>6, AbortTame
    <3>2. CASE tx.stmt # "insert"
      <4>1. AbortWith("storage", mem, attached)
        BY <2>0, <3>2 DEF AdmissionFailed, Abort
      <4> QED BY <4>1, AbortKept
    <3> QED BY <3>1, <3>2
  <2>1. KeepBook
    BY <2>0, <2>9, KnownFacts DEF AdmissionFailed, KeepBook
  <2>2. KeepSess
    BY <2>9
  <2>3. KeepSup
    <3>1. sup # "down"
      BY <2>0, NotDown, NoTxFacts DEF AdmissionFailed, Failed
    <3> QED BY <2>0, <3>1, KnownFacts DEF AdmissionFailed, KeepSup
  <2>4. KeepTx
    BY <2>0 DEF AdmissionFailed, Failed, Release, KeepTx
  <2>5. KeepFlag
    BY <2>0, NoTxFacts DEF AdmissionFailed, Failed, Release, KeepFlag,
       taskVars
  <2>10. KeepData /\ KeepTasks
    BY <2>0, KeptTame DEF AdmissionFailed, KeepData, dbVars, histVars,
       taskVars
  <2> QED BY <2>1, <2>2, <2>3, <2>4, <2>5, <2>10, TameStep
<1> QED BY <1>1, <1>2, <1>3, <1>4, <1>5

LEMMA WriterCommit ==
    ASSUME TypeInv, TypeInv', CommitInv,
           \/ WriterTakes
           \/ WriterEnters
           \/ WriterEntersLate
           \/ WriterExpired
           \/ WriterFailed
           \/ WriteReturns
    PROVE  CommitInv'
<1>1. ASSUME WriterTakes PROVE CommitInv'
  <2>0. WriterTakes
    BY <1>1
  <2>9. Head(outq) \in Known /\ Members(Tail(outq)) \subseteq Known
    BY <2>0, MembersHead, KnownFacts DEF WriterTakes, TypeInv, TypeOK,
       SessTypeOK
  <2>1. KeepSess
    BY <2>0, <2>9, KnownFacts DEF WriterTakes, KeepSess
  <2>2. KeepTasks
    BY <2>0, <2>9, KnownFacts DEF WriterTakes, KeepTasks
  <2>3. KeepFlag
    BY <2>0, TaskUpdates, NoTxFacts DEF WriterTakes, KeepFlag, TypeInv,
       TypeOK, TaskTypeOK
  <2>4. KeepData /\ KeepBook /\ KeepSup /\ KeepTx
    BY <2>0, KeptTame DEF WriterTakes, KeepData, dbVars, histVars, bookVars,
       supVars
  <2> QED BY <2>1, <2>2, <2>3, <2>4, TameStep
<1>2. ASSUME WriterEnters PROVE CommitInv'
  <2>0. WriterEnters
    BY <1>2
  <2>1. KeepTasks
    BY <2>0, KnownFacts, TaskUpdates, NoTxFacts DEF WriterEnters, Begin,
       KeepTasks, HolderOK, TypeInv, TypeOK, TaskTypeOK
  <2>2. KeepTx
    <3>1. writer.d \in Known /\ sup # "down"
      BY <2>0, KnownFacts, NotDown DEF WriterEnters
    <3>2. tx' = [op |-> "write", d |-> writer.d, gen |-> gen,
                 stmt |-> WriteStatement(writer.d), res |-> "wait"]
      BY <2>0 DEF WriterEnters, Begin
    <3>3. WriteStatement(writer.d) = "check" => mem[writer.d].started
      BY DEF WriteStatement
    <3> QED BY <3>1, <3>2, <3>3 DEF KeepTx
  <2>3. KeepFlag
    BY <2>0, TaskUpdates, NoTxFacts DEF WriterEnters, Begin, KeepFlag,
       TypeInv, TypeOK, TaskTypeOK
  <2>4. KeepData /\ KeepBook /\ KeepSess /\ KeepSup
    BY <2>0, KeptTame DEF WriterEnters, KeepData, dbVars, histVars, bookVars,
       sessVars, supVars
  <2> QED BY <2>1, <2>2, <2>3, <2>4, TameStep
<1>3. ASSUME WriterEntersLate PROVE CommitInv'
  <2>0. WriterEntersLate
    BY <1>3
  <2>1. KeepTasks
    BY <2>0, KnownFacts, TaskUpdates, NoTxFacts DEF WriterEntersLate, Begin,
       KeepTasks, HolderOK, TypeInv, TypeOK, TaskTypeOK
  <2>2. KeepTx
    <3>1. writer.d \in Known /\ sup # "down"
      BY <2>0, KnownFacts, NotDown DEF WriterEntersLate
    <3>2. tx' = [op |-> "write", d |-> writer.d, gen |-> gen,
                 stmt |-> "expire", res |-> "wait"]
      BY <2>0 DEF WriterEntersLate, Begin
    <3> QED BY <3>1, <3>2 DEF KeepTx
  <2>3. KeepFlag
    BY <2>0, TaskUpdates, NoTxFacts DEF WriterEntersLate, Begin, KeepFlag,
       TypeInv, TypeOK, TaskTypeOK
  <2>4. KeepData /\ KeepBook /\ KeepSess /\ KeepSup
    BY <2>0, KeptTame DEF WriterEntersLate, KeepData, dbVars, histVars,
       bookVars, sessVars, supVars
  <2> QED BY <2>1, <2>2, <2>3, <2>4, TameStep
<1>4. ASSUME WriterExpired PROVE CommitInv'
  <2>0. WriterExpired
    BY <1>4
  <2>7. tx.d \in Known
    BY <2>0, KnownFacts DEF WriterExpired, Done
  <2>8. \E c : AbortWith(c, FinishTerminal(mem, tx.d), attached)
    BY <2>0 DEF WriterExpired, Abort
  <2>9. Tame(mem, mem') /\ KeepSess
    BY <2>7, <2>8, FinishKept
  <2>1. KeepBook
    BY <2>0, <2>9, KnownFacts DEF WriterExpired, KeepBook
  <2>2. KeepSess
    BY <2>9
  <2>3. KeepTasks
    BY <2>0, KnownFacts, TaskUpdates, NoTxFacts DEF WriterExpired, Done,
       Release, KeepTasks, HolderOK, TypeInv, TypeOK, TaskTypeOK
  <2>4. KeepTx
    BY <2>0 DEF WriterExpired, Done, Release, KeepTx
  <2>5. KeepFlag
    BY <2>0, TaskUpdates, NoTxFacts DEF WriterExpired, Done, Release,
       KeepFlag, TypeInv, TypeOK, TaskTypeOK
  <2>6. KeepData /\ KeepSup
    BY <2>0, KeptTame DEF WriterExpired, KeepData, dbVars, histVars, supVars
  <2> QED BY <2>1, <2>2, <2>3, <2>4, <2>5, <2>6, TameStep
<1>5. ASSUME WriterFailed PROVE CommitInv'
  <2>0. WriterFailed
    BY <1>5
  <2>8. \E c : AbortWith(c, mem, attached)
    BY <2>0 DEF WriterFailed, Abort
  <2>9. Tame(mem, mem') /\ KeepSess
    BY <2>8, AbortKept
  <2>1. KeepBook
    BY <2>0, <2>9, KnownFacts DEF WriterFailed, KeepBook
  <2>2. KeepSess
    BY <2>9
  <2>3. KeepTasks
    BY <2>0, KnownFacts, TaskUpdates, NoTxFacts DEF WriterFailed, Failed,
       Release, KeepTasks, HolderOK, TypeInv, TypeOK, TaskTypeOK
  <2>4. KeepTx
    BY <2>0 DEF WriterFailed, Failed, Release, KeepTx
  <2>5. KeepFlag
    BY <2>0, TaskUpdates, NoTxFacts DEF WriterFailed, Failed, Release,
       KeepFlag, TypeInv, TypeOK, TaskTypeOK
  <2>6. KeepData /\ KeepSup
    BY <2>0, KeptTame DEF WriterFailed, KeepData, dbVars, histVars, supVars
  <2> QED BY <2>1, <2>2, <2>3, <2>4, <2>5, <2>6, TameStep
<1>6. ASSUME WriteReturns PROVE CommitInv'
  <2>0. WriteReturns
    BY <1>6
  <2>1. KeepTasks
    BY <2>0, KnownFacts, TaskUpdates, NoTxFacts DEF WriteReturns, KeepTasks,
       HolderOK, TypeInv, TypeOK, TaskTypeOK
  <2>2. KeepFlag
    BY <2>0, TaskUpdates, NoTxFacts DEF WriteReturns, KeepFlag, TypeInv,
       TypeOK, TaskTypeOK
  <2>3. KeepData /\ KeepBook /\ KeepSess /\ KeepSup /\ KeepTx
    BY <2>0, KeptTame DEF WriteReturns, KeepData, dbVars, histVars, bookVars,
       sessVars, supVars
  <2> QED BY <2>1, <2>2, <2>3, TameStep
<1> QED BY <1>1, <1>2, <1>3, <1>4, <1>5, <1>6

LEMMA ReaderCommit ==
    ASSUME TypeInv, TypeInv', CommitInv,
           \/ ReaderSeesAck
           \/ ReaderEnters
           \/ ReaderAcknowledged
           \/ ReaderFailed
    PROVE  CommitInv'
<1>1. ASSUME ReaderSeesAck PROVE CommitInv'
  <2>0. ReaderSeesAck
    BY <1>1
  <2>8. \/ UNCHANGED <<mem, sessVars>>
           /\ \E d \in attached : \E f : reader' = [pc |-> "enter", d |-> d, flag |-> f]
        \/ (\E c : AbortWith(c, mem, attached)) /\ UNCHANGED reader
    BY <2>0 DEF ReaderSeesAck, Abort, AckOwner
  <2>9. Tame(mem, mem') /\ KeepSess
    <3>1. CASE UNCHANGED <<mem, sessVars>>
      BY <3>1, KnownFacts DEF Tame, KeepSess, sessVars
    <3>2. CASE \E c : AbortWith(c, mem, attached)
      BY <3>2, AbortKept
    <3> QED BY <2>8, <3>1, <3>2
  <2>1. KeepBook
    BY <2>0, <2>9, KnownFacts DEF ReaderSeesAck, KeepBook
  <2>2. KeepSess
    BY <2>9
  <2>3. KeepTasks
    <3>1. reader'.pc # "idle" => reader'.d \in Known
      BY <2>8, KnownFacts
    <3> QED BY <2>0, <3>1, KnownFacts DEF ReaderSeesAck, KeepTasks
  <2>4. KeepFlag
    BY <2>0, TaskUpdates, NoTxFacts DEF ReaderSeesAck, KeepFlag, TypeInv,
       TypeOK, TaskTypeOK
  <2>5. KeepData /\ KeepSup /\ KeepTx
    BY <2>0, KeptTame DEF ReaderSeesAck, KeepData, dbVars, histVars, supVars
  <2> QED BY <2>1, <2>2, <2>3, <2>4, <2>5, TameStep
<1>2. ASSUME ReaderEnters PROVE CommitInv'
  <2>0. ReaderEnters
    BY <1>2
  <2>1. KeepTasks
    BY <2>0, KnownFacts, TaskUpdates, NoTxFacts DEF ReaderEnters, Begin,
       KeepTasks, HolderOK, TypeInv, TypeOK, TaskTypeOK
  <2>2. KeepTx
    <3>1. reader.d \in Known /\ sup # "down"
      BY <2>0, KnownFacts, NotDown DEF ReaderEnters
    <3>2. \/ tx' = tx
          \/ tx' = [op |-> "ack", d |-> reader.d, gen |-> gen,
                    stmt |-> "delete", res |-> "wait"]
      BY <2>0 DEF ReaderEnters, Begin
    <3> QED BY <3>1, <3>2 DEF KeepTx
  <2>3. KeepFlag
    BY <2>0 DEF ReaderEnters, Begin, KeepFlag
  <2>4. KeepData /\ KeepBook /\ KeepSess /\ KeepSup
    BY <2>0, KeptTame DEF ReaderEnters, KeepData, dbVars, histVars, bookVars,
       sessVars, supVars
  <2> QED BY <2>1, <2>2, <2>3, <2>4, TameStep
<1>3. ASSUME ReaderAcknowledged PROVE CommitInv'
  <2>0. ReaderAcknowledged
    BY <1>3
  <2>9. tx.d \in Known /\ tx.d \in Deliveries /\ mem[tx.d].phase # "none"
    BY <2>0, KnownFacts, KnownType DEF ReaderAcknowledged, Done, CommitInv,
       KnownHasRecord
  <2>1. KeepBook
    <3>1. mem \in [Deliveries -> Record] /\ mem[tx.d] \in Record
      BY <2>9 DEF TypeInv, TypeOK, BookTypeOK
    <3>2. \/ mem' = mem
          \/ mem' = [mem EXCEPT ![tx.d].phase = "Acknowledged"]
          \/ mem' = [mem EXCEPT ![tx.d] =
                        [@ EXCEPT !.phase = "Rejected", !.gen = 0]]
      BY <2>0 DEF ReaderAcknowledged
    <3>3. Tame(mem, mem')
      <4>1. CASE mem' = mem
        BY <4>1 DEF Tame
      <4>2. CASE mem' = [mem EXCEPT ![tx.d].phase = "Acknowledged"]
        BY <2>9, <3>1, <4>2 DEF Tame, Record
      <4>3. CASE mem' = [mem EXCEPT ![tx.d] =
                           [@ EXCEPT !.phase = "Rejected", !.gen = 0]]
        BY <2>9, <3>1, <4>3 DEF Tame, Record
      <4> QED BY <3>2, <4>1, <4>2, <4>3
    <3>4. Members(order') \subseteq Members(order)
      BY <2>0, WithoutType DEF ReaderAcknowledged, TypeInv, TypeOK, BookTypeOK
    <3> QED BY <3>3, <3>4, KnownFacts DEF KeepBook
  <2>2. KeepSess
    BY <2>0, KnownFacts, MembersEmpty DEF ReaderAcknowledged, KeepSess
  <2>3. KeepTasks
    BY <2>0, KnownFacts, TaskUpdates, NoTxFacts DEF ReaderAcknowledged, Done,
       Release, KeepTasks, HolderOK, TypeInv, TypeOK, TaskTypeOK
  <2>4. KeepTx
    BY <2>0 DEF ReaderAcknowledged, Done, Release, KeepTx
  <2>5. KeepFlag
    BY <2>0, TaskUpdates, NoTxFacts DEF ReaderAcknowledged, Done, Release,
       KeepFlag, TypeInv, TypeOK, TaskTypeOK
  <2>6. KeepData /\ KeepSup
    BY <2>0, KeptTame DEF ReaderAcknowledged, KeepData, dbVars, histVars,
       supVars
  <2> QED BY <2>1, <2>2, <2>3, <2>4, <2>5, <2>6, TameStep
<1>4. ASSUME ReaderFailed PROVE CommitInv'
  <2>0. ReaderFailed
    BY <1>4
  <2>8. \E c : AbortWith(c, mem, attached)
    BY <2>0 DEF ReaderFailed, Abort
  <2>9. Tame(mem, mem') /\ KeepSess
    BY <2>8, AbortKept
  <2>1. KeepBook
    BY <2>0, <2>9, KnownFacts DEF ReaderFailed, KeepBook
  <2>2. KeepSess
    BY <2>9
  <2>3. KeepTasks
    BY <2>0, KnownFacts, TaskUpdates, NoTxFacts DEF ReaderFailed, Failed,
       Release, KeepTasks, HolderOK, TypeInv, TypeOK, TaskTypeOK
  <2>4. KeepTx
    BY <2>0 DEF ReaderFailed, Failed, Release, KeepTx
  <2>5. KeepFlag
    BY <2>0, TaskUpdates, NoTxFacts DEF ReaderFailed, Failed, Release,
       KeepFlag, TypeInv, TypeOK, TaskTypeOK
  <2>6. KeepData /\ KeepSup
    BY <2>0, KeptTame DEF ReaderFailed, KeepData, dbVars, histVars, supVars
  <2> QED BY <2>1, <2>2, <2>3, <2>4, <2>5, <2>6, TameStep
<1> QED BY <1>1, <1>2, <1>3, <1>4

LEMMA WatchdogCommit ==
    ASSUME TypeInv, TypeInv', CommitInv,
           \/ (\E d \in Deliveries : DeliveryTimesOut(d))
           \/ (\E d \in Deliveries : WatcherSees(d))
           \/ WatcherEnters
           \/ WatcherExpired
           \/ WatcherFailed
    PROVE  CommitInv'
<1>1. ASSUME NEW d \in Deliveries, DeliveryTimesOut(d) PROVE CommitInv'
  <2>0. DeliveryTimesOut(d)
    BY <1>1
  <2>8. \E c : AbortWith(c, mem, attached)
    BY <2>0 DEF DeliveryTimesOut, Abort
  <2>9. Tame(mem, mem') /\ KeepSess
    BY <2>8, AbortKept
  <2>1. KeepBook
    BY <2>0, <2>9, KnownFacts DEF DeliveryTimesOut, KeepBook
  <2>2. KeepSess
    BY <2>9
  <2>3. KeepData /\ KeepTasks /\ KeepSup /\ KeepTx /\ KeepFlag
    BY <2>0, KeptTame DEF DeliveryTimesOut, KeepData, dbVars, histVars,
       supVars, taskVars
  <2> QED BY <2>1, <2>2, <2>3, TameStep
<1>2. ASSUME NEW d \in Deliveries, WatcherSees(d) PROVE CommitInv'
  <2>0. WatcherSees(d)
    BY <1>2
  <2>1. KeepTasks
    BY <2>0, KnownFacts, TaskUpdates, NoTxFacts DEF WatcherSees, KeepTasks,
       HolderOK, TypeInv, TypeOK, TaskTypeOK
  <2>2. KeepFlag
    BY <2>0, TaskUpdates, NoTxFacts DEF WatcherSees, KeepFlag, TypeInv,
       TypeOK, TaskTypeOK
  <2>3. KeepData /\ KeepBook /\ KeepSess /\ KeepSup /\ KeepTx
    BY <2>0, KeptTame DEF WatcherSees, KeepData, dbVars, histVars, bookVars,
       sessVars, supVars
  <2> QED BY <2>1, <2>2, <2>3, TameStep
<1>3. ASSUME WatcherEnters PROVE CommitInv'
  <2>0. WatcherEnters
    BY <1>3
  <2>1. KeepTasks
    BY <2>0, KnownFacts, TaskUpdates, NoTxFacts DEF WatcherEnters, Begin,
       KeepTasks, HolderOK, TypeInv, TypeOK, TaskTypeOK
  <2>2. KeepTx
    <3>1. watcher.d \in Known /\ sup # "down"
      BY <2>0, KnownFacts, NotDown DEF WatcherEnters
    <3>2. \/ tx' = tx
          \/ tx' = [op |-> "watch", d |-> watcher.d, gen |-> gen,
                    stmt |-> "expire", res |-> "wait"]
      BY <2>0 DEF WatcherEnters, Begin
    <3> QED BY <3>1, <3>2 DEF KeepTx
  <2>3. KeepFlag
    BY <2>0 DEF WatcherEnters, Begin, KeepFlag
  <2>4. KeepData /\ KeepBook /\ KeepSess /\ KeepSup
    BY <2>0, KeptTame DEF WatcherEnters, KeepData, dbVars, histVars,
       bookVars, sessVars, supVars
  <2> QED BY <2>1, <2>2, <2>3, <2>4, TameStep
<1>4. ASSUME WatcherExpired PROVE CommitInv'
  <2>0. WatcherExpired
    BY <1>4
  <2>7. tx.d \in Known
    BY <2>0, KnownFacts DEF WatcherExpired, Done
  <2>8. \E c : AbortWith(c, FinishTerminal(mem, tx.d), attached)
    BY <2>0 DEF WatcherExpired, Abort
  <2>9. Tame(mem, mem') /\ KeepSess
    BY <2>7, <2>8, FinishKept
  <2>1. KeepBook
    BY <2>0, <2>9, KnownFacts DEF WatcherExpired, KeepBook
  <2>2. KeepSess
    BY <2>9
  <2>3. KeepTasks
    BY <2>0, KnownFacts, TaskUpdates, NoTxFacts DEF WatcherExpired, Done,
       Release, KeepTasks, HolderOK, TypeInv, TypeOK, TaskTypeOK
  <2>4. KeepTx
    BY <2>0 DEF WatcherExpired, Done, Release, KeepTx
  <2>5. KeepFlag
    BY <2>0, TaskUpdates, NoTxFacts DEF WatcherExpired, Done, Release,
       KeepFlag, TypeInv, TypeOK, TaskTypeOK
  <2>6. KeepData /\ KeepSup
    BY <2>0, KeptTame DEF WatcherExpired, KeepData, dbVars, histVars, supVars
  <2> QED BY <2>1, <2>2, <2>3, <2>4, <2>5, <2>6, TameStep
<1>5. ASSUME WatcherFailed PROVE CommitInv'
  <2>0. WatcherFailed
    BY <1>5
  <2>8. \E c : AbortWith(c, mem, attached)
    BY <2>0 DEF WatcherFailed, Abort
  <2>9. Tame(mem, mem') /\ KeepSess
    BY <2>8, AbortKept
  <2>1. KeepBook
    BY <2>0, <2>9, KnownFacts DEF WatcherFailed, KeepBook
  <2>2. KeepSess
    BY <2>9
  <2>3. KeepTasks
    BY <2>0, KnownFacts, TaskUpdates, NoTxFacts DEF WatcherFailed, Failed,
       Release, KeepTasks, HolderOK, TypeInv, TypeOK, TaskTypeOK
  <2>4. KeepTx
    BY <2>0 DEF WatcherFailed, Failed, Release, KeepTx
  <2>5. KeepFlag
    BY <2>0, TaskUpdates, NoTxFacts DEF WatcherFailed, Failed, Release,
       KeepFlag, TypeInv, TypeOK, TaskTypeOK
  <2>6. KeepData /\ KeepSup
    BY <2>0, KeptTame DEF WatcherFailed, KeepData, dbVars, histVars, supVars
  <2> QED BY <2>1, <2>2, <2>3, <2>4, <2>5, <2>6, TameStep
<1> QED BY <1>1, <1>2, <1>3, <1>4, <1>5

LEMMA SupervisorCommit ==
    ASSUME TypeInv, TypeInv', CommitInv,
           \/ DialSucceeds
           \/ DialFails
           \/ SessionMarkedKnown
           \/ ReplaySkips
           \/ ReplayExhausted
           \/ ReplayEnters
           \/ ReplayAttached
           \/ ReplayExpired
           \/ ReplayFailed
           \/ ReplayDone
           \/ ReplayRefused
           \/ GenerationEnds
           \/ BlockBegins
           \/ BlockContinues
           \/ BlockFailed
           \/ Settle
           \/ SessionMarkFailed
    PROVE  CommitInv'
<1>1. ASSUME DialSucceeds PROVE CommitInv'
  <2>0. DialSucceeds
    BY <1>1
  <2>1. KeepSess
    BY <2>0, KnownFacts, MembersEmpty DEF DialSucceeds, KeepSess
  <2>2. KeepSup
    BY <2>0, KnownFacts, MembersEmpty DEF DialSucceeds, KeepSup
  <2>3. KeepData /\ KeepBook /\ KeepTasks /\ KeepTx /\ KeepFlag
    BY <2>0, KeptTame DEF DialSucceeds, KeepData, dbVars, histVars, bookVars,
       taskVars
  <2> QED BY <2>1, <2>2, <2>3, TameStep
<1>2. ASSUME DialFails PROVE CommitInv'
  <2>0. DialFails
    BY <1>2
  <2>1. KeepSess
    BY <2>0, KnownFacts, MembersEmpty DEF DialFails, KeepSess
  <2>2. KeepSup
    BY <2>0, KnownFacts, MembersEmpty DEF DialFails, KeepSup
  <2>3. KeepData /\ KeepBook /\ KeepTasks /\ KeepTx /\ KeepFlag
    BY <2>0, KeptTame DEF DialFails, KeepData, dbVars, histVars, bookVars,
       taskVars
  <2> QED BY <2>1, <2>2, <2>3, TameStep
<1>3. ASSUME SessionMarkedKnown PROVE CommitInv'
  <2>0. SessionMarkedKnown
    BY <1>3
  <2>1. KeepSup
    BY <2>0, KnownFacts, MembersEmpty DEF SessionMarkedKnown, KeepSup
  <2>2. KeepData /\ KeepBook /\ KeepSess /\ KeepTasks /\ KeepTx /\ KeepFlag
    BY <2>0, KeptTame DEF SessionMarkedKnown, KeepData, dbVars, histVars,
       bookVars, sessVars, taskVars
  <2> QED BY <2>1, <2>2, TameStep
<1>4. ASSUME ReplaySkips PROVE CommitInv'
  <2>0. ReplaySkips
    BY <1>4
  <2>1. KeepSup
    <3>1. Members(Tail(todo)) \subseteq Known
      BY <2>0, MembersHead, KnownFacts DEF ReplaySkips, TypeInv, TypeOK,
         SupTypeOK
    <3> QED BY <2>0, <3>1 DEF ReplaySkips, KeepSup
  <2>2. KeepData /\ KeepBook /\ KeepSess /\ KeepTasks /\ KeepTx /\ KeepFlag
    BY <2>0, KeptTame DEF ReplaySkips, KeepData, dbVars, histVars, bookVars,
       sessVars, taskVars
  <2> QED BY <2>1, <2>2, TameStep
<1>5. ASSUME ReplayExhausted PROVE CommitInv'
  <2>0. ReplayExhausted
    BY <1>5
  <2>8. \E c : AbortWith(c, mem, attached)
    BY <2>0 DEF ReplayExhausted, Abort
  <2>9. Tame(mem, mem') /\ KeepSess
    BY <2>8, AbortKept
  <2>1. KeepBook
    BY <2>0, <2>9, KnownFacts DEF ReplayExhausted, KeepBook
  <2>2. KeepSess
    BY <2>9
  <2>3. KeepSup
    BY <2>0, KnownFacts, MembersEmpty DEF ReplayExhausted, KeepSup
  <2>4. KeepData /\ KeepTasks /\ KeepTx /\ KeepFlag
    BY <2>0, KeptTame DEF ReplayExhausted, KeepData, dbVars, histVars,
       taskVars
  <2> QED BY <2>1, <2>2, <2>3, <2>4, TameStep
<1>6. ASSUME ReplayEnters PROVE CommitInv'
  <2>0. ReplayEnters
    BY <1>6
  <2>1. KeepTx
    <3>1. Head(todo) \in Known
      BY <2>0, MembersHead, KnownFacts DEF ReplayEnters, TypeInv, TypeOK,
         SupTypeOK
    <3> QED BY <2>0, <3>1 DEF ReplayEnters, Begin, KeepTx
  <2>2. KeepFlag
    BY <2>0 DEF ReplayEnters, Begin, KeepFlag, taskVars
  <2>3. KeepData /\ KeepBook /\ KeepSess /\ KeepTasks /\ KeepSup
    BY <2>0, KeptTame DEF ReplayEnters, KeepData, dbVars, histVars, bookVars,
       sessVars, supVars, taskVars
  <2> QED BY <2>1, <2>2, <2>3, TameStep
<1>7. ASSUME ReplayAttached PROVE CommitInv'
  <2>0. ReplayAttached
    BY <1>7
  <2>7. tx.d \in Known /\ tx # NoTx /\ sup # "down"
    BY <2>0, KnownFacts, NotDown, NoTxFacts DEF ReplayAttached, Done
  <2>8. Attach(mem, tx.d, gen) \in [Deliveries -> Record]
        /\ Tame(mem, Attach(mem, tx.d, gen))
    BY <2>7, KnownType, MemType, AttachTame DEF TypeInv, TypeOK, BookTypeOK,
       SessTypeOK
  <2>9. Tame(mem, mem') /\ KeepSess
    <3>1. CASE /\ mem' = Attach(mem, tx.d, gen)
               /\ attached' = attached \cup {tx.d}
               /\ outq' = Append(outq, tx.d)
               /\ UNCHANGED callers
      <4>1. outq \in Seq(Deliveries) /\ tx.d \in Deliveries
        BY <2>7, KnownType DEF TypeInv, TypeOK, SessTypeOK
      <4>2. Members(outq') \subseteq Known
        BY <2>7, <3>1, <4>1, MembersAppend, KnownFacts
      <4> QED BY <2>7, <2>8, <3>1, <4>2, KnownFacts DEF KeepSess
    <3>2. CASE \E c : AbortWith(c, Attach(mem, tx.d, gen), attached \cup {tx.d})
      <4>1. attached \cup {tx.d} \subseteq Known
        BY <2>7, KnownFacts
      <4> QED BY <2>8, <3>2, <4>1, AbortTame
    <3> QED BY <2>0, <3>1, <3>2 DEF ReplayAttached
  <2>1. KeepBook
    BY <2>0, <2>9, KnownFacts DEF ReplayAttached, KeepBook
  <2>2. KeepSess
    BY <2>9
  <2>3. KeepSup
    <3>1. Members(Tail(todo)) \subseteq Known
      BY <2>0, MembersHead, KnownFacts DEF ReplayAttached, TypeInv, TypeOK,
         SupTypeOK
    <3>2. todo' = Tail(todo) /\ (sup' = sup \/ sup' = "ending")
      BY <2>0 DEF ReplayAttached
    <3> QED BY <2>7, <3>1, <3>2 DEF KeepSup
  <2>4. KeepTx
    BY <2>0 DEF ReplayAttached, Done, Release, KeepTx
  <2>5. KeepFlag
    BY <2>0, NoTxFacts DEF ReplayAttached, Done, Release, KeepFlag, taskVars
  <2>6. KeepData /\ KeepTasks
    BY <2>0, KeptTame DEF ReplayAttached, KeepData, dbVars, histVars,
       taskVars
  <2> QED BY <2>1, <2>2, <2>3, <2>4, <2>5, <2>6, TameStep
<1>8. ASSUME ReplayExpired PROVE CommitInv'
  <2>0. ReplayExpired
    BY <1>8
  <2>7. tx.d \in Known
    BY <2>0, KnownFacts DEF ReplayExpired, Done
  <2>8. \E c : AbortWith(c, FinishTerminal(mem, tx.d), attached)
    BY <2>0 DEF ReplayExpired, Abort
  <2>9. Tame(mem, mem') /\ KeepSess
    BY <2>7, <2>8, FinishKept
  <2>1. KeepBook
    BY <2>0, <2>9, KnownFacts DEF ReplayExpired, KeepBook
  <2>2. KeepSess
    BY <2>9
  <2>3. KeepSup
    <3>1. sup # "down"
      BY <2>0, NotDown, NoTxFacts DEF ReplayExpired, Done
    <3> QED BY <2>0, <3>1, KnownFacts DEF ReplayExpired, KeepSup
  <2>4. KeepTx
    BY <2>0 DEF ReplayExpired, Done, Release, KeepTx
  <2>5. KeepFlag
    BY <2>0, NoTxFacts DEF ReplayExpired, Done, Release, KeepFlag, taskVars
  <2>6. KeepData /\ KeepTasks
    BY <2>0, KeptTame DEF ReplayExpired, KeepData, dbVars, histVars, taskVars
  <2> QED BY <2>1, <2>2, <2>3, <2>4, <2>5, <2>6, TameStep
<1>9. ASSUME ReplayFailed PROVE CommitInv'
  <2>0. ReplayFailed
    BY <1>9
  <2>8. \E c : AbortWith(c, mem, attached)
    BY <2>0 DEF ReplayFailed, Abort
  <2>9. Tame(mem, mem') /\ KeepSess
    BY <2>8, AbortKept
  <2>1. KeepBook
    BY <2>0, <2>9, KnownFacts DEF ReplayFailed, KeepBook
  <2>2. KeepSess
    BY <2>9
  <2>3. KeepSup
    <3>1. sup # "down"
      BY <2>0, NotDown, NoTxFacts DEF ReplayFailed, Failed
    <3> QED BY <2>0, <3>1, KnownFacts DEF ReplayFailed, KeepSup
  <2>4. KeepTx
    BY <2>0 DEF ReplayFailed, Failed, Release, KeepTx
  <2>5. KeepFlag
    BY <2>0, NoTxFacts DEF ReplayFailed, Failed, Release, KeepFlag, taskVars
  <2>6. KeepData /\ KeepTasks
    BY <2>0, KeptTame DEF ReplayFailed, KeepData, dbVars, histVars, taskVars
  <2> QED BY <2>1, <2>2, <2>3, <2>4, <2>5, <2>6, TameStep
<1>10. ASSUME ReplayDone PROVE CommitInv'
  <2>0. ReplayDone
    BY <1>10
  <2>1. KeepSup
    BY <2>0, KnownFacts, MembersEmpty DEF ReplayDone, KeepSup
  <2>2. KeepData /\ KeepBook /\ KeepSess /\ KeepTasks /\ KeepTx /\ KeepFlag
    BY <2>0, KeptTame DEF ReplayDone, KeepData, dbVars, histVars, bookVars,
       sessVars, taskVars
  <2> QED BY <2>1, <2>2, TameStep
<1>11. ASSUME ReplayRefused PROVE CommitInv'
  <2>0. ReplayRefused
    BY <1>11
  <2>1. KeepSup
    BY <2>0, KnownFacts, MembersEmpty DEF ReplayRefused, KeepSup
  <2>2. KeepData /\ KeepBook /\ KeepSess /\ KeepTasks /\ KeepTx /\ KeepFlag
    BY <2>0, KeptTame DEF ReplayRefused, KeepData, dbVars, histVars,
       bookVars, sessVars, taskVars
  <2> QED BY <2>1, <2>2, TameStep
<1>12. ASSUME GenerationEnds PROVE CommitInv'
  <2>0. GenerationEnds
    BY <1>12
  <2>1. KeepTasks
    BY <2>0, KnownFacts, TaskUpdates, NoTxFacts DEF GenerationEnds,
       KeepTasks, HolderOK, TypeInv, TypeOK, TaskTypeOK
  <2>2. KeepSup
    <3>1. AfterGeneration # "down"
      BY DEF AfterGeneration
    <3> QED BY <2>0, <3>1, MembersEmpty DEF GenerationEnds, KeepSup
  <2>3. KeepFlag
    BY <2>0, TaskUpdates, NoTxFacts DEF GenerationEnds, KeepFlag, TypeInv,
       TypeOK, TaskTypeOK
  <2>4. KeepData /\ KeepBook /\ KeepSess /\ KeepTx
    BY <2>0, KeptTame DEF GenerationEnds, KeepData, dbVars, histVars,
       bookVars, sessVars
  <2> QED BY <2>1, <2>2, <2>3, <2>4, TameStep
<1>13. ASSUME BlockBegins PROVE CommitInv'
  <2>0. BlockBegins
    BY <1>13
  <2>9. KeepBook /\ KeepSess /\ KeepSup /\ KeepTx /\ tx'.op # "write"
    <3>1. order \in Seq(Deliveries) /\ Members(order) \subseteq Known
      BY KnownFacts DEF TypeInv, TypeOK, BookTypeOK, SupTypeOK
    <3>2. sup # "down"
      BY <2>0, NotDown, NoTxFacts DEF BlockBegins, Done
    <3>3. BlockNext(order) /\ order' = order
      BY <2>0 DEF BlockBegins
    <3> QED BY <3>1, <3>2, <3>3, BlockNextTame
  <2>1. KeepBook
    BY <2>9
  <2>2. KeepSess
    BY <2>9
  <2>3. KeepSup
    BY <2>9
  <2>4. KeepTx
    BY <2>9
  <2>5. KeepFlag
    BY <2>0, <2>9 DEF BlockBegins, KeepFlag, taskVars
  <2>6. KeepData /\ KeepTasks
    BY <2>0, KeptTame DEF BlockBegins, KeepData, dbVars, histVars, taskVars
  <2> QED BY <2>1, <2>2, <2>3, <2>4, <2>5, <2>6, TameStep
<1>14. ASSUME BlockContinues PROVE CommitInv'
  <2>0. BlockContinues
    BY <1>14
  <2>9. KeepBook /\ KeepSess /\ KeepSup /\ KeepTx /\ tx'.op # "write"
    <3>1. todo \in Seq(Deliveries) /\ Members(todo) \subseteq Known
      BY KnownFacts DEF TypeInv, TypeOK, BookTypeOK, SupTypeOK
    <3>2. sup # "down"
      BY <2>0, NotDown, NoTxFacts DEF BlockContinues, Done
    <3>3. BlockNext(todo) /\ order' = order
      BY <2>0 DEF BlockContinues
    <3> QED BY <3>1, <3>2, <3>3, BlockNextTame
  <2>1. KeepBook
    BY <2>9
  <2>2. KeepSess
    BY <2>9
  <2>3. KeepSup
    BY <2>9
  <2>4. KeepTx
    BY <2>9
  <2>5. KeepFlag
    BY <2>0, <2>9 DEF BlockContinues, KeepFlag, taskVars
  <2>6. KeepData /\ KeepTasks
    BY <2>0, KeptTame DEF BlockContinues, KeepData, dbVars, histVars,
       taskVars
  <2> QED BY <2>1, <2>2, <2>3, <2>4, <2>5, <2>6, TameStep
<1>15. ASSUME BlockFailed PROVE CommitInv'
  <2>0. BlockFailed
    BY <1>15
  <2>9. KeepBook /\ KeepSess /\ KeepSup
    <3>1. sup # "down"
      BY <2>0, NotDown, NoTxFacts DEF BlockFailed, Failed
    <3>2. BlockEnds("storage") /\ order' = order
      BY <2>0 DEF BlockFailed
    <3> QED BY <3>1, <3>2, BlockEndsTame
  <2>1. KeepBook
    BY <2>9
  <2>2. KeepSess
    BY <2>9
  <2>3. KeepSup
    BY <2>9
  <2>4. KeepTx
    BY <2>0 DEF BlockFailed, Failed, Release, KeepTx
  <2>5. KeepFlag
    BY <2>0, NoTxFacts DEF BlockFailed, Failed, Release, KeepFlag, taskVars
  <2>6. KeepData /\ KeepTasks
    BY <2>0, KeptTame DEF BlockFailed, KeepData, dbVars, histVars, taskVars
  <2> QED BY <2>1, <2>2, <2>3, <2>4, <2>5, <2>6, TameStep
<1>16. ASSUME Settle PROVE CommitInv'
  <2>0. Settle
    BY <1>16
  <2>1. KeepBook
    <3>1. Tame(mem, mem')
      <4>1. \A d \in Members(order) : Tame(mem, FinishTerminal(mem, d))
        BY FinishTame, KnownFacts
      <4>2. \A d \in Deliveries : mem'[d] = IF d \in Members(order)
                                          THEN FinishTerminal(mem, d)[d]
                                          ELSE mem[d]
        BY <2>0 DEF Settle
      <4> QED BY <4>1, <4>2 DEF Tame
    <3>2. Members(order') = {}
      BY <2>0, MembersEmpty DEF Settle
    <3> QED BY <3>1, <3>2 DEF KeepBook
  <2>2. KeepSup
    BY <2>0, KnownFacts, MembersEmpty DEF Settle, KeepSup
  <2>3. KeepData /\ KeepSess /\ KeepTasks /\ KeepTx /\ KeepFlag
    BY <2>0, KeptTame DEF Settle, KeepData, dbVars, histVars, sessVars,
       taskVars
  <2> QED BY <2>1, <2>2, <2>3, TameStep
<1>17. ASSUME SessionMarkFailed PROVE CommitInv'
  <2>0. SessionMarkFailed
    BY <1>17
  <2>8. \E c : AbortWith(c, mem, attached)
    BY <2>0 DEF SessionMarkFailed, Abort
  <2>9. Tame(mem, mem') /\ KeepSess
    BY <2>8, AbortKept
  <2>1. KeepBook
    BY <2>0, <2>9, KnownFacts DEF SessionMarkFailed, KeepBook
  <2>2. KeepSess
    BY <2>9
  <2>3. KeepSup
    BY <2>0, KnownFacts, MembersEmpty DEF SessionMarkFailed, KeepSup
  <2>4. KeepData /\ KeepTasks /\ KeepTx /\ KeepFlag
    BY <2>0, KeptTame DEF SessionMarkFailed, KeepData, dbVars, histVars,
       taskVars
  <2> QED BY <2>1, <2>2, <2>3, <2>4, TameStep
<1> QED BY <1>1, <1>2, <1>3, <1>4, <1>5, <1>6, <1>7, <1>8, <1>9, <1>10,
   <1>11, <1>12,
   <1>13, <1>14, <1>15, <1>16, <1>17

LEMMA EnvironmentCommit ==
    ASSUME TypeInv, TypeInv', CommitInv,
           \/ ConnectionLost
           \/ BrokerAnswers
           \/ BrokerForgets
           \/ (\E d \in Deliveries : DeadlinePasses(d))
           \/ (\E d \in Deliveries : MessageDeadlinePasses(d))
           \/ ApplicationStops
           \/ StopCloses
           \/ StoreFaults
    PROVE  CommitInv'
<1>1. ASSUME ConnectionLost PROVE CommitInv'
  <2>0. ConnectionLost
    BY <1>1
  <2>8. \E c : AbortWith(c, mem, attached)
    BY <2>0 DEF ConnectionLost, Abort
  <2>9. Tame(mem, mem') /\ KeepSess
    BY <2>8, AbortKept
  <2>1. KeepBook
    BY <2>0, <2>9, KnownFacts DEF ConnectionLost, KeepBook
  <2>2. KeepSess
    BY <2>9
  <2>3. KeepData /\ KeepTasks /\ KeepSup /\ KeepTx /\ KeepFlag
    BY <2>0, KeptTame DEF ConnectionLost, KeepData, dbVars, histVars,
       supVars, taskVars
  <2> QED BY <2>1, <2>2, <2>3, TameStep
<1>2. ASSUME BrokerAnswers PROVE CommitInv'
  <2>0. BrokerAnswers
    BY <1>2
  <2>1. KeepData /\ KeepBook /\ KeepSess /\ KeepTasks /\ KeepSup /\ KeepTx
        /\ KeepFlag
    BY <2>0, KeptTame DEF BrokerAnswers, KeepData, dbVars, histVars,
       bookVars, sessVars, supVars, taskVars
  <2> QED BY <2>1, TameStep
<1>3. ASSUME BrokerForgets PROVE CommitInv'
  <2>0. BrokerForgets
    BY <1>3
  <2>1. KeepData /\ KeepBook /\ KeepSess /\ KeepTasks /\ KeepSup /\ KeepTx
        /\ KeepFlag
    BY <2>0, KeptTame DEF BrokerForgets, KeepData, dbVars, histVars,
       bookVars, sessVars, supVars, taskVars
  <2> QED BY <2>1, TameStep
<1>4. ASSUME NEW d \in Deliveries, DeadlinePasses(d) PROVE CommitInv'
  <2>0. DeadlinePasses(d)
    BY <1>4
  <2>1. KeepData /\ KeepBook /\ KeepSess /\ KeepTasks /\ KeepSup /\ KeepTx
        /\ KeepFlag
    BY <2>0, KeptTame DEF DeadlinePasses, KeepData, dbVars, histVars,
       bookVars, sessVars, supVars, taskVars
  <2> QED BY <2>1, TameStep
<1>5. ASSUME NEW d \in Deliveries, MessageDeadlinePasses(d) PROVE CommitInv'
  <2>0. MessageDeadlinePasses(d)
    BY <1>5
  <2>1. KeepData /\ KeepBook /\ KeepSess /\ KeepTasks /\ KeepSup /\ KeepTx
        /\ KeepFlag
    BY <2>0, KeptTame DEF MessageDeadlinePasses, KeepData, dbVars, histVars,
       bookVars, sessVars, supVars, taskVars
  <2> QED BY <2>1, TameStep
<1>6. ASSUME ApplicationStops PROVE CommitInv'
  <2>0. ApplicationStops
    BY <1>6
  <2>1. KeepSup
    BY <2>0, KnownFacts, MembersEmpty DEF ApplicationStops, KeepSup
  <2>2. KeepData /\ KeepBook /\ KeepSess /\ KeepTasks /\ KeepTx /\ KeepFlag
    BY <2>0, KeptTame DEF ApplicationStops, KeepData, dbVars, histVars,
       bookVars, sessVars, taskVars
  <2> QED BY <2>1, <2>2, TameStep
<1>7. ASSUME StopCloses PROVE CommitInv'
  <2>0. StopCloses
    BY <1>7
  <2>8. \E c : AbortWith(c, mem, attached)
    BY <2>0 DEF StopCloses, Abort
  <2>9. Tame(mem, mem') /\ KeepSess
    BY <2>8, AbortKept
  <2>1. KeepBook
    BY <2>0, <2>9, KnownFacts DEF StopCloses, KeepBook
  <2>2. KeepSess
    BY <2>9
  <2>3. KeepSup
    BY <2>0, KnownFacts, MembersEmpty DEF StopCloses, WorkerCancelled, KeepSup
  <2>4. KeepData /\ KeepTasks /\ KeepTx /\ KeepFlag
    BY <2>0, KeptTame DEF StopCloses, KeepData, dbVars, histVars, taskVars
  <2> QED BY <2>1, <2>2, <2>3, <2>4, TameStep
<1>8. ASSUME StoreFaults PROVE CommitInv'
  <2>0. StoreFaults
    BY <1>8
  <2>1. KeepTx
    BY <2>0 DEF StoreFaults, KeepTx
  <2>2. KeepFlag
    BY <2>0 DEF StoreFaults, KeepFlag, taskVars
  <2>3. KeepData /\ KeepBook /\ KeepSess /\ KeepTasks /\ KeepSup
    BY <2>0, KeptTame DEF StoreFaults, KeepData, dbVars, histVars, bookVars,
       sessVars, supVars, taskVars
  <2> QED BY <2>1, <2>2, <2>3, TameStep
<1> QED BY <1>1, <1>2, <1>3, <1>4, <1>5, <1>6, <1>7, <1>8
-----------------------------------------------------------------------------
(* The steps that are not tame.                                            *)

(* A statement commits: the row it touches is the holder's.                *)
LEMMA StoreCommitsCommit ==
    ASSUME TypeInv, TypeInv', CommitInv, StoreCommits
    PROVE  CommitInv'
<1>1. /\ KnownHasRecord /\ DownHasNoRecord /\ AdmittedFirst /\ AdmissionHeld
      /\ RowMarkedFirst /\ RecordMarkedFirst /\ WriteHeld /\ FirstCopyFlagged
  BY DEF CommitInv
<1>2. tx # NoTx /\ tx.res = "wait" /\ tx \in Transition
  BY NoTxFacts DEF StoreCommits, TypeInv, TypeOK
<1>3. tx.d \in Deliveries /\ tx.stmt \in Statement
  BY <1>2, HolderType
<1>4. UNCHANGED <<mem, order, nextPid, sessVars, taskVars, supVars, sent>>
  BY DEF StoreCommits, bookVars
<1>5. \E r \in {"ok", "error"} : tx' = [tx EXCEPT !.res = r]
  BY DEF StoreCommits
<1>6. tx'.op = tx.op /\ tx'.d = tx.d /\ tx'.stmt = tx.stmt /\ tx' # NoTx
  BY <1>2, <1>5, NoTxFacts DEF Transition
<1>7. \/ /\ Commits(tx.stmt, rows, tx.d, mem[tx.d].pid)
         /\ rows' = [rows EXCEPT ![tx.d] =
                       RowAfter(tx.stmt, rows[tx.d], mem[tx.d].pid, nextSeq)]
         /\ admitted' = IF tx.stmt = "insert" THEN admitted \cup {tx.d}
                                              ELSE admitted
         /\ tx'.res = "ok"
      \/ UNCHANGED <<rows, admitted>> /\ tx'.res = "error"
  <2>1. \A r \in {"ok", "error"} : [tx EXCEPT !.res = r].res = r
    BY <1>2, NoTxFacts DEF Transition
  <2>2. CASE Commits(tx.stmt, rows, tx.d, mem[tx.d].pid)
    BY <2>1, <2>2 DEF StoreCommits
  <2>3. CASE ~Commits(tx.stmt, rows, tx.d, mem[tx.d].pid)
    BY <2>1, <2>3 DEF StoreCommits
  <2> QED BY <2>2, <2>3
<1>8. rows \in [Deliveries -> Row] /\ rows' \in [Deliveries -> Row]
  BY DEF TypeInv, TypeOK, DbTypeOK
<1>9. /\ \A d \in Deliveries : d # tx.d => rows'[d] = rows[d]
      /\ \/ rows'[tx.d] = rows[tx.d]
         \/ rows'[tx.d] = RowAfter(tx.stmt, rows[tx.d], mem[tx.d].pid, nextSeq)
  BY <1>7, <1>8
<1>10. tx.stmt = "insert" <=> tx.op = "admit" /\ tx.stmt # "attach"
  BY <1>2, NoTxFacts DEF Transition
<1>11. admitted \subseteq admitted'
  BY <1>7
<1>12. Known' \subseteq Known
  BY <1>4, <1>6, KnownFacts, KnownBound DEF sessVars, taskVars, supVars
<1>13. KnownHasRecord'
  BY <1>1, <1>4, <1>12 DEF KnownHasRecord
<1>14. DownHasNoRecord'
  BY <1>1, <1>2, <1>4 DEF DownHasNoRecord, supVars
<1>15. AdmittedFirst'
  <2> SUFFICES ASSUME NEW d \in Deliveries,
                      \/ rows'[d].state # "absent" \/ d \in sent
                      \/ mem[d].phase # "none" \/ mem[d].started
               PROVE  d \in admitted'
    BY <1>4 DEF AdmittedFirst
  <2>1. CASE d \in sent \/ mem[d].phase # "none" \/ mem[d].started
    BY <1>1, <1>11, <2>1 DEF AdmittedFirst
  <2>2. CASE rows'[d] = rows[d]
    BY <1>1, <1>11, <2>2 DEF AdmittedFirst
  <2>3. CASE d = tx.d /\ rows'[d] # rows[d]
    <3>1. CASE tx.stmt = "insert"
      BY <1>7, <2>3, <3>1
    <3>2. CASE tx.stmt # "insert"
      <4>1. rows[d].state # "absent"
        BY <1>3, <1>7, <2>3, <3>2 DEF Commits, Statement
      <4> QED BY <1>1, <1>11, <4>1 DEF AdmittedFirst
    <3> QED BY <3>1, <3>2
  <2> QED BY <1>9, <2>1, <2>2, <2>3
<1>16. AdmissionHeld'
  <2>1. CASE tx.stmt = "insert"
    BY <1>1, <1>2, <1>4, <1>6, <1>7, <1>10, <2>1 DEF AdmissionHeld
  <2>2. CASE tx.stmt # "insert"
    BY <1>1, <1>4, <1>6, <2>2 DEF AdmissionHeld
  <2> QED BY <2>1, <2>2
<1>17. RowMarkedFirst'
  <2> SUFFICES ASSUME NEW d \in Deliveries, rows'[d].state # "absent"
               PROVE  /\ d \in sent \/ mem[d].started => rows'[d].started
                      /\ sup # "down" => mem[d].pid = rows'[d].pid
    BY <1>4 DEF RowMarkedFirst, supVars
  <2>1. CASE rows'[d] = rows[d]
    BY <1>1, <2>1 DEF RowMarkedFirst
  <2>2. CASE d = tx.d /\ rows'[d] # rows[d]
    <3>1. CASE tx.stmt = "insert"
      <4>1. d \notin sent /\ ~mem[d].started
        BY <1>1, <1>10, <2>2, <3>1 DEF AdmissionHeld
      <4>2. rows'[d].pid = mem[d].pid
        BY <1>9, <2>2, <3>1 DEF RowAfter, ExpiredRow
      <4> QED BY <4>1, <4>2
    <3>2. CASE tx.stmt # "insert"
      <4>1. rows[d].state # "absent"
        BY <1>3, <1>7, <2>2, <3>2 DEF Commits, Statement
      <4>2. (rows[d].started => rows'[d].started) /\ rows'[d].pid = rows[d].pid
        <5>1. rows[d] \in Row /\ rows'[d] = RowAfter(tx.stmt, rows[d], mem[d].pid, nextSeq)
          BY <1>8, <1>9, <2>2
        <5>2. rows'[d] # NoRow
          BY DEF NoRow
        <5> QED BY <1>3, <3>2, <5>1, <5>2 DEF RowAfter, ExpiredRow,
           Statement, Row
      <4> QED BY <1>1, <4>1, <4>2 DEF RowMarkedFirst
    <3> QED BY <3>1, <3>2
  <2> QED BY <1>9, <2>1, <2>2
<1>18. RecordMarkedFirst'
  BY <1>1, <1>4 DEF RecordMarkedFirst
<1>19. WriteHeld'
  <2> SUFFICES ASSUME tx.op = "write"
               PROVE  /\ tx.stmt = "check" => mem[tx.d].started
                      /\ tx.stmt \in {"mark", "check"} /\ tx'.res = "ok" =>
                             rows'[tx.d].state = "pending" /\ rows'[tx.d].started
    BY <1>4, <1>6 DEF WriteHeld
  <2>1. tx.stmt = "check" => mem[tx.d].started
    BY <1>1 DEF WriteHeld
  <2>2. ASSUME tx.stmt \in {"mark", "check"}, tx'.res = "ok"
        PROVE  rows'[tx.d].state = "pending" /\ rows'[tx.d].started
    <3>1. /\ rows[tx.d].state = "pending" /\ rows[tx.d] \in Row
          /\ rows'[tx.d] = RowAfter(tx.stmt, rows[tx.d], mem[tx.d].pid, nextSeq)
      BY <1>3, <1>7, <1>8, <2>2 DEF Commits
    <3>2. CASE tx.stmt = "mark"
      BY <3>1, <3>2 DEF RowAfter, ExpiredRow, Row
    <3>3. CASE tx.stmt = "check"
      <4>1. rows[tx.d].started
        BY <1>1, <1>3, <2>1, <3>1, <3>3 DEF RowMarkedFirst
      <4>2. rows'[tx.d] = rows[tx.d]
        BY <3>1, <3>3 DEF RowAfter, ExpiredRow
      <4> QED BY <3>1, <4>1, <4>2
    <3> QED BY <2>2, <3>2, <3>3
  <2> QED BY <2>1, <2>2
<1>20. FirstCopyFlagged'
  BY <1>1, <1>4, <1>6 DEF FirstCopyFlagged, taskVars
<1> QED BY <1>13, <1>14, <1>15, <1>16, <1>17, <1>18, <1>19, <1>20 DEF CommitInv

(* An admission is published in memory.                                    *)
LEMMA AdmissionCommittedCommit ==
    ASSUME TypeInv, TypeInv', CommitInv, AdmissionCommitted
    PROVE  CommitInv'
<1>1. /\ KnownHasRecord /\ DownHasNoRecord /\ AdmittedFirst /\ AdmissionHeld
      /\ RowMarkedFirst /\ RecordMarkedFirst /\ WriteHeld /\ FirstCopyFlagged
  BY DEF CommitInv
<1>2. /\ tx # NoTx /\ tx \in Transition /\ tx.op = "admit"
      /\ tx.stmt = "insert" /\ tx.res = "ok"
  BY NoTxFacts DEF AdmissionCommitted, Done, TypeInv, TypeOK
<1>3. tx.d \in Deliveries /\ tx.d \in admitted /\ sup # "down"
  BY <1>1, <1>2, HolderType DEF AdmissionHeld, DownHasNoRecord
<1>4. /\ tx.d \notin sent /\ ~mem[tx.d].started
  BY <1>1, <1>2 DEF AdmissionHeld
<1>5. UNCHANGED <<rows, admitted, sent, outq, attached, callers, taskVars, supVars>>
  BY DEF AdmissionCommitted, dbVars, histVars
<1>6. \/ /\ mem' = [mem EXCEPT ![tx.d].phase = "Queued"]
         /\ tx' = [tx EXCEPT !.stmt = "attach", !.res = "wait"]
      \/ /\ mem' = [mem EXCEPT ![tx.d].phase = "AwaitingReconnect"]
         /\ tx' = NoTx
  BY DEF AdmissionCommitted, Release
<1>7. mem \in [Deliveries -> Record] /\ order \in Seq(Deliveries)
  BY DEF TypeInv, TypeOK, BookTypeOK
<1>8. \A d \in Deliveries : d # tx.d => mem'[d] = mem[d]
  BY <1>3, <1>6, <1>7
<1>9. /\ mem'[tx.d].phase \in {"Queued", "AwaitingReconnect"}
      /\ mem'[tx.d].started = mem[tx.d].started
      /\ mem'[tx.d].pid = mem[tx.d].pid
  <2>1. mem[tx.d] \in Record
    BY <1>3, <1>7
  <2>2. \/ mem'[tx.d] = [mem[tx.d] EXCEPT !.phase = "Queued"]
        \/ mem'[tx.d] = [mem[tx.d] EXCEPT !.phase = "AwaitingReconnect"]
    BY <1>3, <1>6, <1>7
  <2> QED BY <2>1, <2>2 DEF Record
<1>10. \/ tx' = NoTx
       \/ /\ tx'.op = "admit" /\ tx'.d = tx.d /\ tx'.stmt = "attach"
          /\ tx'.res = "wait"
  BY <1>2, <1>6, NoTxFacts DEF Transition
<1>11. Known' \subseteq Known \cup {tx.d}
  <2>1. Members(order') \subseteq Known \cup {tx.d}
    BY <1>3, <1>7, MembersAppend, KnownFacts DEF AdmissionCommitted
  <2>2. /\ tx'.op \notin {"none", "admit"} => tx'.d \in Known \cup {tx.d}
        /\ tx'.op = "admit" /\ tx'.stmt = "attach" => tx'.d \in Known \cup {tx.d}
    BY <1>10, NoTxFacts
  <2> QED BY <1>5, <2>1, <2>2, KnownFacts, KnownBound DEF taskVars, supVars
<1>12. KnownHasRecord'
  BY <1>1, <1>8, <1>9, <1>11, KnownType DEF KnownHasRecord
<1>13. DownHasNoRecord'
  BY <1>3, <1>5 DEF DownHasNoRecord, supVars
<1>14. AdmittedFirst'
  BY <1>1, <1>3, <1>5, <1>8 DEF AdmittedFirst
<1>15. AdmissionHeld'
  BY <1>4, <1>5, <1>9, <1>10, NoTxFacts DEF AdmissionHeld
<1>16. RowMarkedFirst'
  BY <1>1, <1>5, <1>8, <1>9 DEF RowMarkedFirst, supVars
<1>17. RecordMarkedFirst'
  <2>1. sent \subseteq Deliveries
    BY DEF TypeInv, TypeOK, HistTypeOK
  <2> QED BY <1>1, <1>4, <1>5, <1>8, <2>1 DEF RecordMarkedFirst
<1>18. WriteHeld'
  BY <1>10, NoTxFacts DEF WriteHeld
<1>19. FirstCopyFlagged'
  <2>1. writer.pc # "idle" => writer.d \in Deliveries
    BY TaskFacts DEF TypeInv, TypeOK, TaskTypeOK
  <2>2. tx'.op # "write"
    BY <1>10, NoTxFacts
  <2> QED BY <1>1, <1>5, <1>8, <1>9, <2>1, <2>2 DEF FirstCopyFlagged, taskVars
<1> QED BY <1>12, <1>13, <1>14, <1>15, <1>16, <1>17, <1>18, <1>19 DEF CommitInv

(* A possible write is published in memory and, if the generation still    *)
(* owns the delivery, the bytes leave.                                     *)
LEMMA WriterMayWriteCommit ==
    ASSUME TypeInv, TypeInv', CommitInv, WriterMayWrite
    PROVE  /\ CommitInv'
           /\ rows[tx.d].state = "pending" /\ rows[tx.d].started
           /\ mem[tx.d].pid = rows[tx.d].pid
           /\ ~writer.flag => tx.d \notin sent
<1>1. /\ KnownHasRecord /\ DownHasNoRecord /\ AdmittedFirst /\ AdmissionHeld
      /\ RowMarkedFirst /\ RecordMarkedFirst /\ WriteHeld /\ FirstCopyFlagged
  BY DEF CommitInv
<1>2. /\ tx # NoTx /\ tx.op = "write" /\ tx.res = "ok"
      /\ tx.stmt \in {"mark", "check"}
  BY NoTxFacts DEF WriterMayWrite, Done
<1>3. tx.d \in Deliveries /\ sup # "down"
  BY <1>1, <1>2, HolderType DEF DownHasNoRecord
<1>4. rows[tx.d].state = "pending" /\ rows[tx.d].started
  BY <1>1, <1>2 DEF WriteHeld
<1>5. tx.d \in admitted /\ mem[tx.d].pid = rows[tx.d].pid
  BY <1>1, <1>3, <1>4 DEF AdmittedFirst, RowMarkedFirst
<1>6. writer.pc = "tx" /\ writer.d = tx.d /\ tx.d \in Known
  BY <1>2, KnownFacts DEF TypeInv, HolderOK
<1>7. mem \in [Deliveries -> Record] /\ mem[tx.d].phase # "none"
  BY <1>1, <1>6 DEF TypeInv, TypeOK, BookTypeOK, KnownHasRecord
<1>8. ~writer.flag => tx.d \notin sent
  BY <1>1, <1>2, <1>6, <1>7 DEF FirstCopyFlagged, RecordMarkedFirst
<1> DEFINE m == MarkStarted(mem, tx.d)
<1>9. m \in [Deliveries -> Record]
  BY <1>3, <1>7, MemType
<1>10. \A d \in Deliveries : d # tx.d => m[d] = mem[d]
  BY <1>3, <1>7 DEF MarkStarted
<1>11. m[tx.d].phase = "AwaitingAck" /\ m[tx.d].started /\ m[tx.d].pid = mem[tx.d].pid
  <2>1. m[tx.d] = [mem[tx.d] EXCEPT !.phase = "AwaitingAck", !.started = TRUE]
    BY <1>3, <1>7 DEF MarkStarted
  <2>2. mem[tx.d] \in Record
    BY <1>3, <1>7
  <2> HIDE DEF m
  <2> QED BY <2>1, <2>2 DEF Record
<1>12. mem' = m \/ \E c : AbortWith(c, m, attached)
  BY DEF WriterMayWrite, Abort
<1> HIDE DEF m
<1>13. mem' = m \/ mem' = Detached(m, attached)
  BY <1>12 DEF AbortWith
<1>14. \A d \in Deliveries :
           \/ mem'[d] = m[d]
           \/ /\ d \in attached /\ mem'[d].phase = "AwaitingReconnect"
              /\ mem'[d].started = m[d].started /\ mem'[d].pid = m[d].pid
  BY <1>9, <1>13, DetachedFields
<1>15. \A d \in attached : mem[d].phase # "none"
  BY <1>1, KnownFacts DEF KnownHasRecord
(* What every other delivery, and the one written, look like afterwards.   *)
<1>16. /\ \A d \in Deliveries : d # tx.d =>
              /\ mem'[d].phase = "none" <=> mem[d].phase = "none"
              /\ mem'[d].phase = "NotSent" => mem[d].phase = "NotSent"
              /\ mem'[d].started = mem[d].started /\ mem'[d].pid = mem[d].pid
       /\ mem'[tx.d].phase \notin {"none", "NotSent"}
       /\ mem'[tx.d].started /\ mem'[tx.d].pid = mem[tx.d].pid
  BY <1>3, <1>10, <1>11, <1>14, <1>15
<1>17. /\ UNCHANGED <<rows, admitted, supVars, reader, watcher, order>>
       /\ tx' = NoTx /\ sent' \subseteq sent \cup {tx.d}
       /\ outq' = outq \/ outq' = <<>>
       /\ attached' \subseteq attached /\ callers' \subseteq callers
  BY DEF WriterMayWrite, Release, Abort, AbortWith, dbVars, sessVars
<1>18. /\ writer'.pc \notin {"idle", "enter", "tx"} /\ writer'.d = tx.d
  <2>1. \E p \in {"writing", "exit", "late"} : writer' = [writer EXCEPT !.pc = p]
    BY DEF WriterMayWrite
  <2>2. writer \in Task
    BY DEF TypeInv, TypeOK, TaskTypeOK
  <2> QED BY <1>6, <2>1, <2>2, TaskUpdates
<1>19. Known' \subseteq Known
  <2>1. Members(outq') \subseteq Known
    BY <1>17, KnownFacts, MembersEmpty
  <2> QED BY <1>6, <1>17, <1>18, <2>1, NoTxFacts, KnownFacts, KnownBound DEF
     supVars
<1>20. KnownHasRecord'
  BY <1>1, <1>3, <1>16, <1>19, KnownType DEF KnownHasRecord
<1>21. DownHasNoRecord'
  BY <1>3, <1>17 DEF DownHasNoRecord, supVars
<1>22. AdmittedFirst'
  BY <1>1, <1>5, <1>16, <1>17 DEF AdmittedFirst
<1>23. AdmissionHeld' /\ WriteHeld'
  BY <1>17, NoTxFacts DEF AdmissionHeld, WriteHeld
<1>24. RowMarkedFirst'
  BY <1>1, <1>4, <1>5, <1>16, <1>17 DEF RowMarkedFirst, supVars
<1>25. RecordMarkedFirst'
  <2>1. sent \subseteq Deliveries
    BY DEF TypeInv, TypeOK, HistTypeOK
  <2> QED BY <1>1, <1>3, <1>16, <1>17, <2>1 DEF RecordMarkedFirst
<1>26. FirstCopyFlagged'
  BY <1>18 DEF FirstCopyFlagged
<1> QED BY <1>4, <1>5, <1>8, <1>20, <1>21, <1>22, <1>23, <1>24, <1>25, <1>26
        DEF CommitInv

(* A process ends: nothing that the rows do not hold is left.              *)
LEMMA ProcessEndsCommit ==
    ASSUME TypeInv, TypeInv', CommitInv, ProcessEnds
    PROVE  CommitInv'
<1>1. /\ AdmittedFirst /\ RowMarkedFirst
  BY DEF CommitInv
<1>2. /\ UNCHANGED <<rows, admitted, sent>> /\ tx' = NoTx /\ sup' = "down"
      /\ \A d \in Deliveries : mem'[d] = NoRecord
  BY DEF ProcessEnds, Volatile, dbVars, histVars
<1>3. NoRecord.phase = "none" /\ ~NoRecord.started
  BY DEF NoRecord
<1>4. Known' \subseteq {}
  BY KnownBound, MembersEmpty, TaskFacts, NoTxFacts DEF ProcessEnds, Volatile
<1>5. KnownHasRecord' /\ DownHasNoRecord'
  BY <1>2, <1>3, <1>4 DEF KnownHasRecord, DownHasNoRecord
<1>6. AdmittedFirst'
  BY <1>1, <1>2, <1>3 DEF AdmittedFirst
<1>7. AdmissionHeld' /\ WriteHeld'
  BY <1>2, NoTxFacts DEF AdmissionHeld, WriteHeld
<1>8. RowMarkedFirst'
  BY <1>1, <1>2, <1>3 DEF RowMarkedFirst
<1>9. RecordMarkedFirst'
  <2>1. sent \subseteq Deliveries
    BY DEF TypeInv, TypeOK, HistTypeOK
  <2> QED BY <1>2, <1>3, <2>1 DEF RecordMarkedFirst
<1>10. FirstCopyFlagged'
  BY TaskFacts DEF ProcessEnds, Volatile, FirstCopyFlagged
<1> QED BY <1>5, <1>6, <1>7, <1>8, <1>9, <1>10 DEF CommitInv

(* A process starts: a recovered record knows what its row knows.          *)
LEMMA ProcessOpensCommit ==
    ASSUME TypeInv, TypeInv', CommitInv, ProcessOpens
    PROVE  CommitInv'
<1>1. /\ KnownHasRecord /\ DownHasNoRecord /\ AdmittedFirst /\ AdmissionHeld
      /\ RowMarkedFirst /\ RecordMarkedFirst /\ WriteHeld /\ FirstCopyFlagged
  BY DEF CommitInv
<1>2. /\ sup = "down" /\ tx = NoTx /\ tx' = NoTx
      /\ \A d \in Deliveries : mem[d].phase = "none"
  BY <1>1 DEF DownHasNoRecord, ProcessOpens
<1>3. UNCHANGED <<admitted, sent, outq, attached, callers, todo, taskVars>>
  BY DEF ProcessOpens, sessVars, histVars
<1>4. Known = {}
  BY <1>1, <1>2, KnownType DEF KnownHasRecord
<1>5. rows \in [Deliveries -> Row] /\ rows' \in [Deliveries -> Row]
  BY DEF TypeInv, TypeOK, DbTypeOK
<1>6. \A d \in Deliveries : rows'[d].state # "absent" =>
          /\ rows[d].state # "absent" /\ rows'[d].pid = rows[d].pid
          /\ rows[d].started => rows'[d].started
  <2> SUFFICES ASSUME NEW d \in Deliveries, rows'[d].state # "absent"
               PROVE  /\ rows[d].state # "absent" /\ rows'[d].pid = rows[d].pid
                      /\ rows[d].started => rows'[d].started
    OBVIOUS
  <2>1. CASE rows'[d] = rows[d]
    BY <2>1
  <2>2. CASE rows'[d] # rows[d]
    <3>1. rows[d].state = "pending" /\ rows'[d] = ExpiredRow(rows[d])
      BY <2>2 DEF ProcessOpens, Swept
    <3>2. rows'[d] = [rows[d] EXCEPT !.state = "blocked"]
      BY <3>1 DEF ExpiredRow, NoRow
    <3>3. rows[d] \in Row
      BY <1>5
    <3> QED BY <3>1, <3>2, <3>3 DEF Row
  <2> QED BY <2>1, <2>2
<1>7. \/ UNCHANGED <<sup, mem, order>>
      \/ /\ sup' = "dial" /\ Blocked(rows') = {}
         /\ mem' = [d \in Deliveries |-> RecoveredRecord(rows'[d])]
         /\ Members(order') = Pending(rows')
  BY DEF ProcessOpens, IsInsertionOrder
<1>8. Members(outq') = {} /\ Members(todo') = {} /\ attached' = {} /\ callers' = {}
  BY <1>3, <1>4, KnownFacts
<1>9. writer'.pc = "idle" /\ reader'.pc = "idle" /\ watcher'.pc = "idle"
  BY <1>3, <1>4, KnownFacts DEF taskVars
<1>10. FirstCopyFlagged'
  BY <1>9 DEF FirstCopyFlagged
<1>11. AdmissionHeld' /\ WriteHeld'
  BY <1>2, NoTxFacts DEF AdmissionHeld, WriteHeld
<1>12. Known' \subseteq Members(order')
  BY <1>2, <1>8, <1>9, NoTxFacts, KnownBound
<1>13. sent \subseteq Deliveries
  BY DEF TypeInv, TypeOK, HistTypeOK
<1>14. CASE UNCHANGED <<sup, mem, order>>
  <2>1. Known' \subseteq {}
    BY <1>4, <1>12, <1>14, KnownFacts
  <2>2. KnownHasRecord' /\ DownHasNoRecord'
    BY <1>2, <1>14, <2>1 DEF KnownHasRecord, DownHasNoRecord
  <2>3. AdmittedFirst'
    BY <1>1, <1>3, <1>6, <1>14 DEF AdmittedFirst
  <2>4. RowMarkedFirst'
    BY <1>1, <1>2, <1>3, <1>6, <1>14 DEF RowMarkedFirst
  <2>5. RecordMarkedFirst'
    BY <1>1, <1>3, <1>14 DEF RecordMarkedFirst
  <2> QED BY <1>10, <1>11, <2>2, <2>3, <2>4, <2>5 DEF CommitInv
<1>15. CASE /\ sup' = "dial" /\ Blocked(rows') = {}
            /\ mem' = [d \in Deliveries |-> RecoveredRecord(rows'[d])]
            /\ Members(order') = Pending(rows')
  <2>1. \A d \in Deliveries :
            \/ /\ rows'[d].state = "pending"
               /\ mem'[d].phase = "AwaitingReconnect"
               /\ mem'[d].pid = rows'[d].pid
               /\ mem'[d].started = rows'[d].started
            \/ /\ rows'[d].state = "absent"
               /\ mem'[d].phase = "none" /\ ~mem'[d].started
    <3>1. \A d \in Deliveries : rows'[d].state \in {"absent", "pending"}
      BY <1>5, <1>15 DEF Blocked, Row
    <3> QED BY <1>15, <3>1 DEF RecoveredRecord, NoRecord
  <2>2. KnownHasRecord' /\ DownHasNoRecord'
    BY <1>12, <1>15, <2>1 DEF KnownHasRecord, DownHasNoRecord, Pending
  <2>3. AdmittedFirst'
    BY <1>1, <1>3, <1>6, <2>1 DEF AdmittedFirst
  <2>4. RowMarkedFirst'
    BY <1>1, <1>3, <1>6, <2>1 DEF RowMarkedFirst
  <2>5. RecordMarkedFirst'
    BY <1>1, <1>3, <1>6, <1>13, <2>1 DEF RecordMarkedFirst, RowMarkedFirst
  <2> QED BY <1>10, <1>11, <2>2, <2>3, <2>4, <2>5 DEF CommitInv
<1> QED BY <1>7, <1>14, <1>15
-----------------------------------------------------------------------------
(* Theorems.                                                               *)

LEMMA InitCommit == Init => CommitInv
<1> SUFFICES ASSUME Init PROVE CommitInv
  OBVIOUS
<1>1. Known = {}
  BY MembersEmpty, TaskFacts, NoTxFacts DEF Init, Known
<1>2. KnownHasRecord /\ DownHasNoRecord
  BY <1>1 DEF Init, KnownHasRecord, DownHasNoRecord, NoRecord
<1>3. AdmittedFirst /\ RowMarkedFirst /\ RecordMarkedFirst
  BY DEF Init, AdmittedFirst, RowMarkedFirst, RecordMarkedFirst, EmptyTable,
     NoRow, NoRecord
<1>4. AdmissionHeld /\ WriteHeld /\ FirstCopyFlagged
  BY NoTxFacts, TaskFacts DEF Init, AdmissionHeld, WriteHeld, FirstCopyFlagged
<1> QED BY <1>2, <1>3, <1>4 DEF CommitInv

LEMMA CommitStep ==
    ASSUME TypeInv, CommitInv, [Next]_vars
    PROVE  CommitInv'
<1>1. TypeInv'
  BY TypeStep
<1>2. CASE StoreCommits
  BY <1>1, <1>2, StoreCommitsCommit
<1>3. CASE Submitter
  BY <1>1, <1>3, SubmitterCommit, AdmissionCommittedCommit DEF Submitter
<1>4. CASE Writer
  BY <1>1, <1>4, WriterCommit, WriterMayWriteCommit DEF Writer
<1>5. CASE Reader
  BY <1>1, <1>5, ReaderCommit DEF Reader
<1>6. CASE Watchdog
  BY <1>1, <1>6, WatchdogCommit DEF Watchdog
<1>7. CASE Supervisor
  BY <1>1, <1>7, SupervisorCommit DEF Supervisor, Replay
<1>8. CASE Environment
  BY <1>1, <1>8, EnvironmentCommit, ProcessEndsCommit, ProcessOpensCommit
     DEF Environment
<1>9. CASE UNCHANGED vars
  <2>1. KeepData /\ KeepBook /\ KeepSess /\ KeepTasks /\ KeepSup /\ KeepTx /\ KeepFlag
    BY <1>9, KeptTame DEF vars, KeepData, dbVars, histVars
  <2> QED BY <1>1, <2>1, TameStep
<1> QED BY <1>2, <1>3, <1>4, <1>5, <1>6, <1>7, <1>8, <1>9 DEF Next

(* The commit order, in every reachable state: rows are marked before      *)
(* records, and records before bytes.                                      *)
THEOREM CommitInvariant == Spec => []CommitInv
<1>1. Init => CommitInv
  BY InitCommit
<1>2. TypeInv /\ CommitInv /\ [Next]_vars => CommitInv'
  BY CommitStep
<1> QED BY <1>1, <1>2, TypeInvariant, PTL DEF Spec

(* A handle that ends as not sent tells the truth: no process life ever    *)
(* handed its delivery to a socket (DeliveryRecord::finish_terminal).      *)
THEOREM NotSentHolds == Spec => []NotSentIsTrue
<1>1. TypeInv /\ CommitInv => NotSentIsTrue
  BY DEF TypeInv, TypeOK, CommitInv, RecordMarkedFirst, NotSentIsTrue
<1> QED BY <1>1, TypeInvariant, CommitInvariant, PTL

(* Bytes are appended by the writer alone.                                 *)
LEMMA OnlyTheWriterWrites ==
    ASSUME TypeInv, [Next]_vars
    PROVE  \/ /\ WriterMayWrite
              /\ toBroker' = Append(toBroker, [d |-> tx.d, pid |-> mem[tx.d].pid,
                                              dup |-> writer.flag])
           \/ toBroker' \in {toBroker, <<>>}
           \/ toBroker # <<>> /\ toBroker' = Tail(toBroker)
<1>1. CASE StoreCommits \/ StoreFaults
  BY <1>1 DEF StoreCommits, StoreFaults, netVars
<1>2. CASE Submitter
  BY <1>2 DEF Submitter, SubmitBegins, AdmissionCommitted, AdmissionAttached,
     AdmissionFailed, CallerEnqueues, CallerCancelled, netVars
<1>3. CASE Writer
  BY <1>3 DEF Writer, WriterTakes, WriterEnters, WriterMayWrite, netVars,
     WriterEntersLate, WriterExpired, WriterFailed, WriteReturns
<1>4. CASE Reader
  BY <1>4 DEF Reader, ReaderSeesAck, ReaderEnters, ReaderAcknowledged,
     ReaderFailed, netVars
<1>5. CASE Watchdog
  BY <1>5 DEF Watchdog, DeliveryTimesOut, WatcherSees, WatcherEnters,
     WatcherExpired, WatcherFailed, netVars
<1>6. CASE Replay
  BY <1>6 DEF Replay, ReplaySkips, ReplayExhausted, ReplayEnters,
     ReplayAttached, ReplayExpired, ReplayFailed, ReplayDone, ReplayRefused,
     netVars
<1>7. CASE Supervisor /\ ~Replay
  BY <1>7 DEF Supervisor, DialSucceeds, DialFails, SessionMarkedKnown,
     GenerationEnds, BlockBegins, BlockContinues, BlockFailed, Settle,
     SessionMarkFailed, netVars
<1>8. CASE Environment /\ ~StoreFaults
  BY <1>8 DEF Environment, ConnectionLost, BrokerAnswers, BrokerForgets,
     DeadlinePasses, MessageDeadlinePasses, ApplicationStops, StopCloses,
     ProcessEnds, ProcessOpens, netVars
<1>9. CASE UNCHANGED vars
  BY <1>9 DEF vars, netVars
<1> QED BY <1>1, <1>2, <1>3, <1>4, <1>5, <1>6, <1>7, <1>8, <1>9 DEF Next

LEMMA WriteIsTheWriters ==
    ASSUME TypeInv, CommitInv, [Next]_vars,
           NEW d \in Deliveries, NEW dup \in BOOLEAN, Writes(d, dup)
    PROVE  /\ WriterMayWrite /\ d = tx.d /\ dup = writer.flag
           /\ toBroker'[Len(toBroker')].pid = mem[d].pid
<1>1. toBroker \in Seq(Publish)
  BY DEF TypeInv, TypeOK, NetTypeOK
<1>2. Len(toBroker) \in Nat /\ Len(<<>>) = 0
  BY <1>1, LenProperties
<1>3. toBroker # <<>> => Len(Tail(toBroker)) = Len(toBroker) - 1
  BY <1>1, HeadTailProperties
<1> DEFINE p == [d |-> tx.d, pid |-> mem[tx.d].pid, dup |-> writer.flag]
<1>4. WriterMayWrite /\ toBroker' = Append(toBroker, p)
  BY <1>2, <1>3, OnlyTheWriterWrites DEF Writes
<1>5. p \in Publish
  <2>1. tx # NoTx
    BY <1>4, NoTxFacts DEF WriterMayWrite, Done
  <2>2. tx.d \in Deliveries
    BY <2>1, HolderType
  <2>3. mem[tx.d] \in Record /\ writer.flag \in BOOLEAN
    BY <2>2, TaskFacts DEF TypeInv, TypeOK, BookTypeOK, TaskTypeOK
  <2> QED BY <2>2, <2>3 DEF Publish, Record
<1>6. toBroker'[Len(toBroker')] = p
  <2> HIDE DEF p
  <2> QED BY <1>1, <1>4, <1>5, AppendProperties
<1> QED BY <1>4, <1>6 DEF Writes

(* Bytes leave only for a row that is pending and already marked, under    *)
(* the identifier it persists (Session::write_one after record_may_write). *)
THEOREM WriteFollowsCommitHolds == Spec => WriteFollowsCommit
<1>1. TypeInv /\ CommitInv /\ [Next]_vars =>
          [\A d \in Deliveries, dup \in BOOLEAN :
              Writes(d, dup) => /\ rows[d].state = "pending"
                                /\ rows[d].started
                                /\ toBroker'[Len(toBroker')].pid = rows[d].pid]_vars
  <2> SUFFICES ASSUME TypeInv, CommitInv, [Next]_vars,
                      NEW d \in Deliveries, NEW dup \in BOOLEAN, Writes(d, dup)
               PROVE  /\ rows[d].state = "pending" /\ rows[d].started
                      /\ toBroker'[Len(toBroker')].pid = rows[d].pid
    OBVIOUS
  <2>1. /\ WriterMayWrite /\ d = tx.d
        /\ toBroker'[Len(toBroker')].pid = mem[d].pid
    BY WriteIsTheWriters
  <2> QED BY <2>1, TypeStep, WriterMayWriteCommit
<1> QED BY <1>1, TypeInvariant, CommitInvariant, PTL DEF Spec,
   WriteFollowsCommit

(* A PUBLISH without DUP is the first copy of its delivery ever written,   *)
(* across generations and process lives (Session::write_one's dup flag).   *)
THEOREM FirstCopyHolds == Spec => FirstCopyHasNoPredecessor
<1>1. TypeInv /\ CommitInv /\ [Next]_vars =>
          [\A d \in Deliveries : Writes(d, FALSE) => d \notin sent]_vars
  <2> SUFFICES ASSUME TypeInv, CommitInv, [Next]_vars,
                      NEW d \in Deliveries, Writes(d, FALSE)
               PROVE  d \notin sent
    OBVIOUS
  <2>1. WriterMayWrite /\ d = tx.d /\ writer.flag = FALSE
    BY WriteIsTheWriters
  <2> QED BY <2>1, TypeStep, WriterMayWriteCommit
<1> QED BY <1>1, TypeInvariant, CommitInvariant, PTL
        DEF Spec, FirstCopyHasNoPredecessor
=============================================================================
