-------------------------- MODULE Resolution_proofs --------------------------
(***************************************************************************)
(* Safety of the resolution for every bound.  Its properties speak of the  *)
(* phase, the target and the archive; they are kept because of what holds  *)
(* at every point of the tool in between.                                  *)
(***************************************************************************)
EXTENDS Resolution, TLAPS

(* The tool holds the lock that an application needs.                      *)
Locked == tool # "off" => oldApp # "on"

(* A retired source is archived, journaled and nobody's.                   *)
Tombstone ==
    /\ identity = "retired" =>
           archive = content /\ phase # "none" /\ oldApp # "on"
    /\ phase \in Retired => identity = "retired"

(* What the tool has verified in this run still holds.                     *)
Verified ==
    /\ tool = "archived" => archive = content /\ phase = "none"
    /\ tool \in {"journal", "cleaned", "published", "unlinked"} =>
           archive = content /\ phase # "none"
    /\ tool = "cleaned" =>
           phase \in {"OldCleanRequested", "NewCleanRequested"}
    /\ tool \in {"published", "unlinked"} => phase = "ReplacementReady"

(* Where the old session is gone, and stays so.                            *)
OldGone ==
    \/ phase \in OldCleaned
    \/ phase = "OldCleanRequested" /\ tool = "cleaned"
    => oldSession = "clean"

(* Where the new session is clean, unless the new application came first.  *)
NewGone ==
    /\ \/ phase \in NewCleaned
       \/ phase = "NewCleanRequested" /\ tool = "cleaned"
    /\ target # "foreign" /\ ~HandedOver
    => newSession = "clean"

Replacement ==
    /\ target \in {"fresh", "used"} => phase \in Ready
    /\ HandedOver => target \in {"fresh", "used"}
    /\ newApp = "on" => target # "absent"
    /\ newApp = "on" /\ target # "foreign" => HandedOver
    /\ target = "used" => HandedOver

SafetyInv == /\ TypeOK /\ Locked /\ Tombstone /\ Verified /\ OldGone
             /\ NewGone /\ Replacement

LEMMA InitSafety == Init => SafetyInv
  BY DEF Init, SafetyInv, TypeOK, Locked, Tombstone, Verified, OldGone,
         NewGone, Replacement, Retired, OldCleaned, NewCleaned, Ready,
         Published, HandedOver, NoArchive

(* A refusal ends the tool with everything else as it was.                 *)
LEMMA RefusalSafety ==
  ASSUME SafetyInv, Refuses,
         UNCHANGED <<sourceVars, fileVars, brokerVars, appVars, crashes>>
  PROVE  SafetyInv'
<1> USE DEF SafetyInv, sourceVars, fileVars, brokerVars, appVars, Refuses
<1>1. HandedOver' = HandedOver
  BY DEF HandedOver
<1>2. TypeOK'
  BY DEF TypeOK
<1>3. Locked' /\ Tombstone'
  BY DEF Locked, Tombstone
<1>4. Verified'
  BY DEF Verified
<1>5. OldGone'
  BY DEF OldGone
<1>6. NewGone'
  BY <1>1 DEF NewGone
<1>7. Replacement'
  BY <1>1 DEF Replacement
<1> QED BY <1>2, <1>3, <1>4, <1>5, <1>6, <1>7

(* The tool's steps that change no phase.                                  *)
LEMMA ToolStepSafety ==
  ASSUME SafetyInv,
         \/ ToolStarts \/ ToolArchives \/ ToolOpensJournal
         \/ ToolRetiresSource \/ ToolCleansSession \/ ToolCleanupFails
         \/ ToolPublishes \/ ToolUnlinksStage \/ ToolFindsTargetBusy
         \/ ToolDies
  PROVE  SafetyInv'
<1> USE DEF SafetyInv, TypeOK, Locked, Tombstone, Verified, OldGone, NewGone,
            Replacement, Retired, OldCleaned, NewCleaned, Ready, Published,
            Phases, HandedOver, NoArchive, sourceVars, fileVars, brokerVars, appVars,
            Steps, Refuses
<1>1. CASE ToolStarts
  <2>1. CASE phase = "none" /\ target # "absent"
    <3>1. /\ Refuses
          /\ UNCHANGED <<sourceVars, fileVars, brokerVars, appVars, crashes>>
      BY <1>1, <2>1 DEF ToolStarts
    <3> QED BY <3>1, RefusalSafety
  <2>2. CASE ~(phase = "none" /\ target # "absent")
    <3>1. /\ tool' = "owner" /\ oldApp # "on" /\ past' = past
          /\ UNCHANGED <<sourceVars, fileVars, brokerVars, appVars, crashes>>
      BY <1>1, <2>2 DEF ToolStarts, SourceIsFree
    <3> QED BY <3>1
  <2> QED BY <2>1, <2>2
<1>2. CASE ToolArchives
  <2>1. CASE identity = "old" /\ ArchiveFits
    BY <1>2, <2>1 DEF ToolArchives, ArchiveFits
  <2>2. CASE ~(identity = "old" /\ ArchiveFits)
    <3>1. /\ Refuses
          /\ UNCHANGED <<sourceVars, fileVars, brokerVars, appVars, crashes>>
      BY <1>2, <2>2 DEF ToolArchives
    <3> QED BY <3>1, RefusalSafety
  <2> QED BY <2>1, <2>2
<1>3. CASE ToolOpensJournal
  <2>1. CASE Reconciles
    <3>1. /\ tool' = "journal" /\ tool = "owner" /\ past' = past
          /\ phase # "none" /\ content = archive
          /\ UNCHANGED <<sourceVars, fileVars, brokerVars, appVars, crashes>>
      BY <1>3, <2>1 DEF ToolOpensJournal, Reconciles
    <3> QED BY <3>1
  <2>2. CASE ~Reconciles
    <3>1. /\ Refuses
          /\ UNCHANGED <<sourceVars, fileVars, brokerVars, appVars, crashes>>
      BY <1>3, <2>2 DEF ToolOpensJournal
    <3> QED BY <3>1, RefusalSafety
  <2> QED BY <2>1, <2>2
<1>4. CASE ToolRetiresSource
  BY <1>4 DEF ToolRetiresSource
<1>5. CASE ToolCleansSession
  BY <1>5 DEF ToolCleansSession, NewCleanPhases
<1>6. CASE ToolCleanupFails
  BY <1>6 DEF ToolCleanupFails
<1>7. CASE ToolPublishes
  BY <1>7 DEF ToolPublishes, AfterLink
<1>8. CASE ToolUnlinksStage
  BY <1>8 DEF ToolUnlinksStage
<1>9. CASE ToolFindsTargetBusy
  BY <1>9 DEF ToolFindsTargetBusy
<1>10. CASE ToolDies
  BY <1>10 DEF ToolDies
<1> QED BY <1>1, <1>2, <1>3, <1>4, <1>5, <1>6, <1>7, <1>8, <1>9, <1>10

(* The tool's steps that record a phase.                                   *)
LEMMA PhaseSafety ==
  ASSUME SafetyInv,
         ToolPrepares \/ ToolRecords \/ ToolBuildsReplacement \/ ToolFinishes
  PROVE  SafetyInv'
<1> USE DEF SafetyInv, TypeOK, Locked, Tombstone, Verified, OldGone, NewGone,
            Replacement, Retired, OldCleaned, NewCleaned, Ready, Published,
            Phases, HandedOver, NoArchive, sourceVars, fileVars, brokerVars, appVars,
            Steps, Refuses
<1>1. CASE ToolPrepares
  BY <1>1 DEF ToolPrepares
<1>2. CASE ToolRecords
  <2>1. CASE identity = "retired"
             /\ RecordPhase("Prepared", "journal", "SourceRetired")
    BY <2>1 DEF RecordPhase
  <2>2. CASE RecordPhase("SourceRetired", "journal", "OldCleanRequested")
    BY <2>2 DEF RecordPhase
  <2>3. CASE RecordPhase("OldCleanRequested", "cleaned", "OldCleanConfirmed")
    BY <2>3 DEF RecordPhase
  <2>4. CASE RecordPhase("OldCleanConfirmed", "journal", "NewCleanRequested")
    BY <2>4 DEF RecordPhase
  <2>5. CASE RecordPhase("NewCleanRequested", "cleaned", "NewCleanConfirmed")
    BY <2>5 DEF RecordPhase
  <2> QED BY <1>2, <2>1, <2>2, <2>3, <2>4, <2>5 DEF ToolRecords
<1>3. CASE ToolBuildsReplacement
  BY <1>3 DEF ToolBuildsReplacement
<1>4. CASE ToolFinishes
  <2>1. CASE RecordPhase("ReplacementReady", "unlinked",
                         "ReplacementPublished")
    BY <2>1 DEF RecordPhase
  <2>2. CASE RecordPhase("ReplacementPublished", "journal", "Complete")
    BY <2>2 DEF RecordPhase
  <2>3. CASE phase = "Complete" /\ Steps("journal", "off")
             /\ UNCHANGED <<sourceVars, fileVars, brokerVars, appVars,
                            crashes, past>>
    BY <2>3
  <2> QED BY <1>4, <2>1, <2>2, <2>3 DEF ToolFinishes
<1> QED BY <1>1, <1>2, <1>3, <1>4

(* The applications.                                                       *)
LEMMA EnvironmentSafety ==
  ASSUME SafetyInv, Environment
  PROVE  SafetyInv'
<1> USE DEF SafetyInv, TypeOK, Locked, Tombstone, Verified, OldGone, NewGone,
            Replacement, Retired, OldCleaned, NewCleaned, Ready, Published,
            Phases, HandedOver, NoArchive, sourceVars, fileVars, brokerVars, appVars
<1>1. CASE OldAppProbes
  BY <1>1 DEF OldAppProbes
<1>2. CASE OldAppLocks
  BY <1>2 DEF OldAppLocks, OldIdentityHolds
<1>3. CASE OldAppRuns
  BY <1>3, ResolutionAssumption DEF OldAppRuns, ResolutionAssumption
<1>4. CASE OldAppStops
  BY <1>4 DEF OldAppStops
<1>5. CASE NewAppStarts
  BY <1>5 DEF NewAppStarts
<1>6. CASE NewAppRuns
  BY <1>6 DEF NewAppRuns
<1>7. CASE NewAppStops
  BY <1>7 DEF NewAppStops
<1>8. CASE StageRemoved
  BY <1>8 DEF StageRemoved
<1> QED BY <1>1, <1>2, <1>3, <1>4, <1>5, <1>6, <1>7, <1>8 DEF Environment

(* The inductive invariant of the resolution.                              *)
THEOREM ResolutionInvariant == Spec => []SafetyInv
<1>1. SafetyInv /\ [Next]_vars => SafetyInv'
  <2> SUFFICES ASSUME SafetyInv, [Next]_vars
               PROVE  SafetyInv'
    OBVIOUS
  <2>1. CASE UNCHANGED vars
    BY <2>1 DEF vars, sourceVars, fileVars, brokerVars, appVars, SafetyInv,
                TypeOK, Locked, Tombstone, Verified, OldGone, NewGone,
                Replacement, HandedOver
  <2>2. CASE Tool
    BY <2>2, ToolStepSafety, PhaseSafety DEF Tool
  <2>3. CASE ToolDies
    BY <2>3, ToolStepSafety
  <2>4. CASE Environment
    BY <2>4, EnvironmentSafety
  <2> QED BY <2>1, <2>2, <2>3, <2>4 DEF Next
<1> QED BY <1>1, InitSafety, PTL DEF Spec

(* Old and new owner never coexist (advance_resolution's order of phases,  *)
(* the exclusive lock, the second validation of open_with_prelock).        *)
THEOREM OneOwnerHolds == Spec => []OneOwner
<1>1. SafetyInv => OneOwner
  BY DEF SafetyInv, OneOwner, TypeOK, Tombstone, OldGone, Replacement,
         Retired, OldCleaned, NewCleaned, Ready
<1> QED BY <1>1, ResolutionInvariant, PTL

(* A source is retired only when the archive holds its rows                *)
(* (prepare_resolution, reconcile_source).                                 *)
THEOREM EvidenceArchivedHolds == Spec => []EvidenceArchived
<1>1. SafetyInv => EvidenceArchived
  BY DEF SafetyInv, EvidenceArchived, Tombstone
<1> QED BY <1>1, ResolutionInvariant, PTL

(* The replacement becomes visible with a clean broker session             *)
(* (NewCleanConfirmed before ReplacementReady).                            *)
THEOREM HandedOverCleanHolds == Spec => []HandedOverClean
<1>1. SafetyInv => HandedOverClean
  BY DEF SafetyInv, HandedOverClean, NewGone, Replacement, NewCleaned
<1> QED BY <1>1, ResolutionInvariant, PTL

(* No resumed run cleans the session of an application at work on the      *)
(* replacement (advance_resolution never returns to NewCleanRequested).    *)
THEOREM NewSessionSurvivesHolds == Spec => NewSessionSurvives
<1>1. SafetyInv /\ [Next]_vars
        => [HandedOver /\ newSession = "kept" => newSession' = "kept"]_vars
  <2> SUFFICES ASSUME SafetyInv, Next, HandedOver, newSession = "kept"
               PROVE  newSession' = "kept"
    BY DEF vars, brokerVars
  <2>1. phase \in Ready
    BY DEF SafetyInv, Replacement
  <2>2. ~ToolCleansSession
    BY <2>1 DEF ToolCleansSession, NewCleanPhases, Ready, Published
  <2> QED
    BY <2>2 DEF Next, Tool, Environment, ToolStarts, ToolArchives,
         ToolPrepares, ToolOpensJournal, ToolRetiresSource, ToolRecords,
         ToolCleansSession, ToolCleanupFails, ToolBuildsReplacement,
         ToolPublishes, ToolUnlinksStage, ToolFinishes, ToolFindsTargetBusy,
         ToolDies, RecordPhase, OldAppProbes, OldAppLocks, OldAppRuns,
         OldAppStops, NewAppStarts, NewAppRuns, NewAppStops, StageRemoved,
         brokerVars
<1> QED BY <1>1, ResolutionInvariant, PTL DEF Spec, NewSessionSurvives

(* The staging file is linked to a free path only (os.link); a database    *)
(* somebody has written to stays as it is.                                 *)
THEOREM NeverReplacesHolds == Spec => NeverReplaces
<1>1. [Next]_vars
        => [(target \in {"used", "foreign"} => target' = target)]_vars
  BY DEF Next, Tool, Environment, ToolStarts, ToolArchives, ToolPrepares,
         ToolOpensJournal, ToolRetiresSource, ToolRecords, ToolCleansSession,
         ToolCleanupFails, ToolBuildsReplacement, ToolPublishes, AfterLink,
         ToolUnlinksStage, ToolFinishes, ToolFindsTargetBusy, ToolDies,
         RecordPhase, OldAppProbes, OldAppLocks, OldAppRuns, OldAppStops,
         NewAppStarts, NewAppRuns, NewAppStops, StageRemoved, fileVars, vars
<1> QED BY <1>1, PTL DEF Spec, NeverReplaces
-----------------------------------------------------------------------------
(* The archive is never newer than the rows, and there from the journal on.*)
ArchiveBehind ==
    /\ archive <= content
    /\ phase # "none" => archive # NoArchive

(* An application got at the replacement before the tool saw it published. *)
UsedEarly == target = "used" /\ phase = "ReplacementReady"

(* Each cause lasts: rows only change, a foreign target stays, and over a  *)
(* replacement in use no later run publishes.                              *)
LastingCause ==
    Refused => \/ archive \notin {NoArchive, content}
               \/ target = "foreign"
               \/ UsedEarly /\ tool \notin {"published", "unlinked"}

(* Inductive, together with SafetyInv.                                     *)
CauseInv == ArchiveBehind /\ LastingCause

(* The causes of a refusal are kept by every step.                         *)
LEMMA CauseStep == SafetyInv /\ CauseInv /\ [Next]_vars => CauseInv'
<1> SUFFICES ASSUME SafetyInv, CauseInv, [Next]_vars PROVE CauseInv'
  OBVIOUS
<1> USE DEF CauseInv, ArchiveBehind, LastingCause, UsedEarly, NoArchive,
            Refused, Refuses, sourceVars, fileVars, brokerVars, appVars, Steps
<1>0. /\ content \in Nat /\ archive \in Nat \cup {NoArchive}
      /\ target \in {"absent", "fresh", "used", "foreign"}
      /\ target \in {"fresh", "used"} => phase \in Ready
  BY DEF SafetyInv, TypeOK, Replacement
<1>1. CASE ToolStarts
  <2>1. phase = "none" /\ target # "absent" => target = "foreign"
    BY <1>0 DEF Ready, Published
  <2> QED BY <1>0, <1>1, <2>1 DEF ToolStarts
<1>2. CASE ToolArchives
  <2>1. identity = "old"
    BY <1>2 DEF ToolArchives, SafetyInv, Tombstone, TypeOK
  <2> QED BY <1>0, <1>2, <2>1 DEF ToolArchives, ArchiveFits
<1>3. CASE ToolPrepares
  <2>1. archive = content /\ phase = "none"
    BY <1>3 DEF ToolPrepares, SafetyInv, Verified
  <2> QED BY <1>0, <1>3, <2>1 DEF ToolPrepares
<1>4. CASE ToolOpensJournal
  <2>1. ~Reconciles => archive \notin {NoArchive, content}
    BY <1>4 DEF ToolOpensJournal, Reconciles, SafetyInv, TypeOK
  <2> QED BY <1>0, <1>4, <2>1 DEF ToolOpensJournal
<1>5. CASE ToolRetiresSource
  BY <1>0, <1>5 DEF ToolRetiresSource
<1>6. CASE ToolRecords
  BY <1>0, <1>6 DEF ToolRecords, RecordPhase
<1>7. CASE ToolCleansSession \/ ToolCleanupFails
  BY <1>0, <1>7 DEF ToolCleansSession, ToolCleanupFails
<1>8. CASE ToolBuildsReplacement
  <2>1. phase = "NewCleanConfirmed" /\ target # "absent" => target = "foreign"
    BY <1>0 DEF Ready, Published
  <2> QED BY <1>0, <1>8, <2>1 DEF ToolBuildsReplacement
<1>9. CASE ToolPublishes
  <2>1. AfterLink # "fresh" => target \in {"used", "foreign"}
    BY <1>0, <1>9 DEF ToolPublishes, AfterLink
  <2>2. target \in {"used", "foreign"} => target' = target /\ AfterLink # "fresh"
    BY <1>9 DEF ToolPublishes, AfterLink
  <2> QED BY <1>0, <1>9, <2>1, <2>2 DEF ToolPublishes
<1>10. CASE ToolUnlinksStage
  BY <1>0, <1>10 DEF ToolUnlinksStage
<1>11. CASE ToolFinishes
  BY <1>0, <1>11 DEF ToolFinishes, RecordPhase
<1>12. CASE ToolFindsTargetBusy \/ ToolDies
  BY <1>0, <1>12 DEF ToolFindsTargetBusy, ToolDies
<1>13. CASE OldAppProbes \/ OldAppLocks \/ OldAppStops \/ NewAppStops
            \/ StageRemoved
  BY <1>0, <1>13 DEF OldAppProbes, OldAppLocks, OldAppStops, NewAppStops,
                     StageRemoved
<1>14. CASE OldAppRuns
  <2>1. UNCHANGED <<archive, phase, target, tool, past>>
        /\ (content' = content \/ content' = content + 1)
    BY <1>14 DEF OldAppRuns
  <2>2. archive \notin {NoArchive, content} => archive \notin {NoArchive, content'}
    BY <1>0, <2>1
  <2> QED BY <1>0, <2>1, <2>2
<1>15. CASE NewAppStarts
  BY <1>0, <1>15 DEF NewAppStarts
<1>16. CASE NewAppRuns
  BY <1>0, <1>16 DEF NewAppRuns
<1>17. CASE UNCHANGED vars
  BY <1>17 DEF vars
<1> QED BY <1>1, <1>2, <1>3, <1>4, <1>5, <1>6, <1>7, <1>8, <1>9, <1>10, <1>11,
           <1>12, <1>13, <1>14, <1>15, <1>16, <1>17 DEF Next, Tool, Environment

(* The tool refuses to go on only where somebody else has touched what it  *)
(* had prepared: a death between any two of its effects is never the cause *)
(* (acquire_resolution_source, prepare_resolution, reconcile_source,       *)
(* create_replacement, advance_resolution).                               *)
THEOREM RefusalsHaveCauseHolds == Spec => []RefusalsHaveCause
<1>1. Init => CauseInv
  BY DEF Init, CauseInv, ArchiveBehind, LastingCause, Refused, NoArchive
<1>2. CauseInv => RefusalsHaveCause
  BY DEF CauseInv, LastingCause, UsedEarly, RefusalsHaveCause
<1> QED BY <1>1, <1>2, CauseStep, ResolutionInvariant, PTL DEF Spec
=============================================================================
