----------------------------- MODULE Resolution -----------------------------
(***************************************************************************)
(* scripts/durable_recovery.py resolve: retire the outbox of an old client *)
(* identity and hand its broker over to an empty outbox of a new one.  The *)
(* source database, the archive, the journal, the target and two broker    *)
(* sessions change one at a time; the tool may die between any two of      *)
(* those changes and is run again with the same request.  Applications     *)
(* that own the old or the new identity start and stop as they like.       *)
(*                                                                         *)
(* Only files and broker sessions survive the tool.  Rows of the source    *)
(* are a version number: what counts is whether they changed.              *)
(***************************************************************************)
EXTENDS Integers

CONSTANTS
    EarlyTarget,    \* the new application may start before there is a target
    MaxEdits,       \* bound: changes of the source's rows
    MaxCrashes      \* bound: deaths of the tool

ASSUME ResolutionAssumption ==
    EarlyTarget \in BOOLEAN /\ MaxEdits \in Nat /\ MaxCrashes \in Nat

VARIABLES
    identity,    \* durable_meta.identity of the source: "old" or "retired"
    content,     \* version of the rows of the source
    archive,     \* version of the rows in the published archive, or NoArchive
    phase,       \* phase in the journal, or "none" without a journal
    stage,      \* the journal's staging file exists
    target,      \* what is at the target path
    oldSession, newSession,      \* the broker's session of each client id
    tool,        \* where the tool is
    oldApp, newApp,              \* the applications
    crashes,
    past         \* history: whether the tool has "refused" to go on, whether
                 \* an application was "handedOver" the replacement

sourceVars == <<identity, content>>
fileVars   == <<archive, phase, stage, target>>
brokerVars == <<oldSession, newSession>>
appVars    == <<oldApp, newApp>>
vars == <<sourceVars, fileVars, brokerVars, tool, appVars, crashes, past>>

NoArchive == -1

Published  == {"ReplacementPublished", "Complete"}
Ready      == {"ReplacementReady"} \cup Published
NewCleaned == {"NewCleanConfirmed"} \cup Ready
OldCleaned == {"OldCleanConfirmed", "NewCleanRequested"} \cup NewCleaned
Retired    == {"SourceRetired", "OldCleanRequested"} \cup OldCleaned
Phases     == {"Prepared"} \cup Retired

Refused    == "refused" \in past
HandedOver == "handedOver" \in past

TypeOK ==
    /\ identity \in {"old", "retired"} /\ content \in Nat
    /\ archive \in Nat \cup {NoArchive}
    /\ phase \in Phases \cup {"none"}
    /\ stage \in {"absent", "present"}
    /\ target \in {"absent", "fresh", "used", "foreign"}
    /\ oldSession \in {"clean", "kept"} /\ newSession \in {"clean", "kept"}
    /\ tool \in {"off", "owner", "archived", "journal", "cleaned",
                 "published", "unlinked"}
    /\ oldApp \in {"off", "probed", "on"} /\ newApp \in {"off", "on"}
    /\ crashes \in Nat
    /\ past \subseteq {"refused", "handedOver"}

Init ==
    /\ identity = "old" /\ content = 0
    /\ archive = NoArchive /\ phase = "none" /\ stage = "absent"
    /\ target = "absent"
    /\ oldSession \in {"clean", "kept"} /\ newSession \in {"clean", "kept"}
    /\ tool = "off" /\ oldApp \in {"off", "on"} /\ newApp = "off"
    /\ crashes = 0 /\ past = {}
-----------------------------------------------------------------------------
(* The tool.                                                               *)

Steps(from, to) == tool = from /\ tool' = to

(* RecoveryError: the state contradicts the prepared operation.            *)
Refuses == tool' = "off" /\ past' = past \cup {"refused"}

(* An application that owns the source makes it busy.                      *)
SourceIsFree == oldApp # "on"

(* resolve: without a journal the target must be absent; then              *)
(* acquire_resolution_source takes the exclusive lock, held to the end.    *)
ToolStarts ==
    /\ tool = "off"
    /\ IF phase = "none" /\ target # "absent"
       THEN Refuses
       ELSE SourceIsFree /\ tool' = "owner" /\ UNCHANGED past
    /\ UNCHANGED <<sourceVars, fileVars, brokerVars, appVars, crashes>>

(* The archive is to be made, or verifies as one of just these rows.       *)
ArchiveFits == archive \in {NoArchive, content}

(* prepare_resolution: publish the archive, or verify the one there is.    *)
ToolArchives ==
    /\ tool = "owner" /\ phase = "none"
    /\ IF identity = "old" /\ ArchiveFits
       THEN archive' = content /\ tool' = "archived" /\ UNCHANGED past
       ELSE Refuses /\ UNCHANGED archive
    /\ UNCHANGED <<sourceVars, phase, stage, target, brokerVars, appVars,
                   crashes>>

(* create_journal publishes the journal with its only row.                 *)
ToolPrepares ==
    /\ Steps("archived", "owner")
    /\ phase' = "Prepared"
    /\ UNCHANGED <<sourceVars, archive, stage, target, brokerVars, appVars,
                   crashes, past>>

(* Mutation: the rows are not compared again. *)
ReconcilesWithArchiveOnly == archive # NoArchive

(* Mutation: a retired source is refused. *)
ReconcilesOldOnly == content = archive /\ (phase = "Prepared" => identity = "old")

(* reconcile_source: the rows are those of the archive, the identity is    *)
(* the original or this operation's tombstone.                             *)
Reconciles == content = archive /\ identity \in {"old", "retired"}

(* open_journal, verify_archive and the beginning of advance_resolution.   *)
ToolOpensJournal ==
    /\ tool = "owner" /\ phase # "none"
    /\ IF Reconciles THEN tool' = "journal" /\ UNCHANGED past
                     ELSE Refuses
    /\ UNCHANGED <<sourceVars, fileVars, brokerVars, appVars, crashes>>

(* One transaction of its own on the source.                               *)
ToolRetiresSource ==
    /\ tool = "journal" /\ phase = "Prepared" /\ identity = "old"
    /\ identity' = "retired"
    /\ UNCHANGED <<content, fileVars, brokerVars, tool, appVars, crashes,
                   past>>

(* update_phase(q) after the step of phase p, which left the tool at `at'. *)
RecordPhase(p, at, q) ==
    /\ phase = p /\ Steps(at, "journal")
    /\ phase' = q
    /\ UNCHANGED <<sourceVars, archive, stage, target, brokerVars, appVars,
                   crashes, past>>

(* Mutation: one accepted cleanup confirms both. *)
ToolRecordsBoth ==
    \/ /\ identity = "retired"
       /\ RecordPhase("Prepared", "journal", "SourceRetired")
    \/ RecordPhase("SourceRetired", "journal", "OldCleanRequested")
    \/ RecordPhase("OldCleanRequested", "cleaned", "NewCleanConfirmed")

ToolRecords ==
    \/ /\ identity = "retired"
       /\ RecordPhase("Prepared", "journal", "SourceRetired")
    \/ RecordPhase("SourceRetired", "journal", "OldCleanRequested")
    \/ RecordPhase("OldCleanRequested", "cleaned", "OldCleanConfirmed")
    \/ RecordPhase("OldCleanConfirmed", "journal", "NewCleanRequested")
    \/ RecordPhase("NewCleanRequested", "cleaned", "NewCleanConfirmed")

(* Mutation: resuming repeats the cleanup of the new session. *)
NewCleanPhasesRepeated ==
    {"NewCleanRequested", "NewCleanConfirmed", "ReplacementReady"}

NewCleanPhases == {"NewCleanRequested"}

(* clean_broker_session: the broker discards the session and accepts.  The *)
(* tool may still miss the CONNACK, which ends it with the phase unchanged.*)
ToolCleansSession ==
    /\ tool = "journal"
    /\ \/ /\ phase = "OldCleanRequested"
          /\ oldSession' = "clean" /\ UNCHANGED newSession
       \/ /\ phase \in NewCleanPhases
          /\ newSession' = "clean" /\ UNCHANGED oldSession
    /\ tool' \in {"cleaned", "off"}
    /\ UNCHANGED <<sourceVars, fileVars, appVars, crashes, past>>

(* Refused, timed out or disconnected before the broker acted.             *)
ToolCleanupFails ==
    /\ phase \in {"OldCleanRequested", "NewCleanRequested"}
    /\ Steps("journal", "off")
    /\ UNCHANGED <<sourceVars, fileVars, brokerVars, appVars, crashes,
                   past>>

(* Mutation: a lost staging file is not built again. *)
ToolBuildsOnce ==
    /\ tool = "journal" /\ phase = "NewCleanConfirmed"
    /\ IF target = "absent"
       THEN /\ phase' = "ReplacementReady" /\ stage' = "present"
            /\ UNCHANGED <<tool, past>>
       ELSE Refuses /\ UNCHANGED <<phase, stage>>
    /\ UNCHANGED <<sourceVars, archive, target, brokerVars, appVars, crashes>>

(* create_replacement and the phase that names its staging file; a lost    *)
(* staging file is built anew.                                             *)
ToolBuildsReplacement ==
    /\ tool = "journal"
    /\ \/ phase = "NewCleanConfirmed"
       \/ phase = "ReplacementReady" /\ target = "absent" /\ stage = "absent"
    /\ IF target = "absent"
       THEN /\ phase' = "ReplacementReady" /\ stage' = "present"
            /\ UNCHANGED <<tool, past>>
       ELSE Refuses /\ UNCHANGED <<phase, stage>>
    /\ UNCHANGED <<sourceVars, archive, target, brokerVars, appVars, crashes>>

(* Mutation: the staging file is moved over whatever is there. *)
PublishedOver ==
    IF stage = "present" THEN "fresh" ELSE target

(* What is at the target path after os.link of the staging file.           *)
AfterLink ==
    IF target = "absent" /\ stage = "present" THEN "fresh" ELSE target

(* Phase ReplacementReady: link the staging file to the target path.  Only *)
(* the untouched replacement itself may be there already.                  *)
ToolPublishes ==
    /\ tool = "journal" /\ phase = "ReplacementReady"
    /\ target = "absent" => stage = "present"
    /\ newApp = "off"
    /\ target' = AfterLink
    /\ IF AfterLink = "fresh" THEN tool' = "published" /\ UNCHANGED past
                              ELSE Refuses
    /\ UNCHANGED <<sourceVars, archive, phase, stage, brokerVars, appVars,
                   crashes>>

ToolUnlinksStage ==
    /\ Steps("published", "unlinked")
    /\ stage' = "absent"
    /\ UNCHANGED <<sourceVars, archive, phase, target, brokerVars, appVars,
                   crashes, past>>

(* From here on the target may hold legitimate new rows: verify_target     *)
(* looks at its identity and schema only.                                  *)
ToolFinishes ==
    \/ RecordPhase("ReplacementReady", "unlinked", "ReplacementPublished")
    \/ newApp = "off" /\ RecordPhase("ReplacementPublished", "journal", "Complete")
    \/ /\ phase = "Complete" /\ Steps("journal", "off")
       /\ UNCHANGED <<sourceVars, fileVars, brokerVars, appVars, crashes,
                      past>>

(* verify_target meets an application that owns the target: SQLite is      *)
(* busy, and the tool ends with everything as it was.                      *)
ToolFindsTargetBusy ==
    /\ phase \in Ready /\ newApp = "on"
    /\ Steps("journal", "off")
    /\ UNCHANGED <<sourceVars, fileVars, brokerVars, appVars, crashes,
                   past>>

ToolDies ==
    /\ tool # "off" /\ crashes < MaxCrashes
    /\ tool' = "off" /\ crashes' = crashes + 1
    /\ UNCHANGED <<sourceVars, fileVars, brokerVars, appVars, past>>

Tool == \/ ToolStarts \/ ToolArchives \/ ToolPrepares \/ ToolOpensJournal
        \/ ToolRetiresSource \/ ToolRecords \/ ToolCleansSession
        \/ ToolCleanupFails \/ ToolBuildsReplacement \/ ToolPublishes
        \/ ToolUnlinksStage \/ ToolFinishes \/ ToolFindsTargetBusy
-----------------------------------------------------------------------------
(* The applications.  SqliteOutbox::open_with_prelock validates the        *)
(* identity, takes the exclusive lock and validates once more.             *)

OldAppProbes ==
    /\ oldApp = "off" /\ tool = "off" /\ identity = "old"
    /\ oldApp' = "probed"
    /\ UNCHANGED <<sourceVars, fileVars, brokerVars, tool, newApp, crashes,
                   past>>

(* Mutation: what was validated before the lock is trusted after it. *)
OldIdentityTrusted == TRUE

OldIdentityHolds == identity = "old"

OldAppLocks ==
    /\ oldApp = "probed"
    /\ oldApp' = IF tool = "off" /\ OldIdentityHolds THEN "on" ELSE "off"
    /\ UNCHANGED <<sourceVars, fileVars, brokerVars, tool, newApp, crashes,
                   past>>

(* It connects, which makes the broker keep a session, or changes rows.    *)
OldAppRuns ==
    /\ oldApp = "on"
    /\ \/ oldSession' = "kept" /\ UNCHANGED content
       \/ /\ content < MaxEdits
          /\ content' = content + 1 /\ UNCHANGED oldSession
    /\ UNCHANGED <<identity, fileVars, newSession, tool, appVars, crashes,
                   past>>

OldAppStops ==
    /\ oldApp = "on" /\ oldApp' = "off"
    /\ UNCHANGED <<sourceVars, fileVars, brokerVars, tool, newApp, crashes,
                   past>>

(* Opening a path where nothing is creates a database there.               *)
NewAppStarts ==
    /\ newApp = "off" /\ (target # "absent" \/ EarlyTarget)
    /\ newApp' = "on"
    /\ target' = IF target = "absent" THEN "foreign" ELSE target
    /\ past' = IF target \in {"fresh", "used"} THEN past \cup {"handedOver"}
                                              ELSE past
    /\ UNCHANGED <<sourceVars, archive, phase, stage, brokerVars, tool,
                   oldApp, crashes>>

(* The broker keeps its session from CONNACK on; mark_session_known and    *)
(* admissions write to the file later.                                     *)
NewAppRuns ==
    /\ newApp = "on"
    /\ \/ newSession' = "kept" /\ UNCHANGED target
       \/ /\ target' = IF target = "fresh" THEN "used" ELSE target
          /\ UNCHANGED newSession
    /\ UNCHANGED <<sourceVars, archive, phase, stage, oldSession, tool,
                   appVars, crashes, past>>

NewAppStops ==
    /\ newApp = "on" /\ newApp' = "off"
    /\ UNCHANGED <<sourceVars, fileVars, brokerVars, tool, oldApp, crashes,
                   past>>

(* Somebody clears temporary files away while the tool does not run.       *)
StageRemoved ==
    /\ stage = "present" /\ tool = "off" /\ stage' = "absent"
    /\ UNCHANGED <<sourceVars, archive, phase, target, brokerVars, tool,
                   appVars, crashes, past>>

Environment == \/ OldAppProbes \/ OldAppLocks \/ OldAppRuns \/ OldAppStops
               \/ NewAppStarts \/ NewAppRuns \/ NewAppStops
               \/ StageRemoved

Next == Tool \/ ToolDies \/ Environment

Spec == Init /\ [][Next]_vars
-----------------------------------------------------------------------------
(* A database may be used under the new identity, and the journal may say  *)
(* that the old session is gone, only when the old owner can never come    *)
(* back: its identity is retired, no application holds the source, and the *)
(* broker keeps nothing for it (advance_resolution's order of phases, the  *)
(* exclusive lock, and open_with_prelock's second validation).             *)
OneOwner ==
    phase \in OldCleaned \/ target \in {"fresh", "used"} =>
        identity = "retired" /\ oldApp # "on" /\ oldSession = "clean"

(* The source stops being usable only after a journal names an archive     *)
(* with exactly its rows, whatever the old application wrote between two   *)
(* runs of the tool (prepare_resolution, reconcile_source).                *)
EvidenceArchived ==
    identity = "retired" => archive = content /\ phase # "none"

(* The replacement becomes visible with a clean broker session under its   *)
(* identity, even if the new application ran too early.                    *)
HandedOverClean ==
    target = "fresh" /\ ~HandedOver => newSession = "clean"

(* Once an application has opened the replacement, no resumed run cleans   *)
(* its broker session again.                                               *)
NewSessionSurvives ==
    [][HandedOver /\ newSession = "kept" => newSession' = "kept"]_vars

(* Publishing never puts the empty replacement in place of a database that *)
(* somebody has written to (os.link against an existing path).             *)
NeverReplaces ==
    [][(target \in {"used", "foreign"} => target' = target)]_vars

(* The tool refuses to go on only where somebody else has touched what it  *)
(* had prepared: a death at any point is never the cause.                  *)
RefusalsHaveCause ==
    Refused => \/ archive \notin {NoArchive, content}
               \/ target = "foreign"
               \/ target = "used" /\ phase = "ReplacementReady"

(* The tool is run again until it is done, applications stop when asked,   *)
(* and a broker that is asked for a clean session again and again accepts  *)
(* once.                                                                   *)
Fairness ==
    /\ WF_vars(ToolArchives \/ ToolPrepares \/ ToolOpensJournal
                  \/ ToolRetiresSource \/ ToolRecords
                  \/ ToolBuildsReplacement \/ ToolPublishes
                  \/ ToolUnlinksStage \/ ToolFinishes)
    /\ SF_vars(ToolStarts)
    /\ SF_vars(ToolCleansSession /\ tool' = "cleaned")
    /\ WF_vars(OldAppLocks) /\ WF_vars(OldAppStops)

FairSpec == Spec /\ Fairness

(* A resolution ends: completed, refused for a cause, with the new         *)
(* application already at work on the replacement, or with a database that *)
(* somebody else has put in its place.                                     *)
Settles == <>(phase = "Complete" \/ Refused \/ HandedOver \/ target = "foreign")
=============================================================================
