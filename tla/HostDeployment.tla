--------------------------- MODULE HostDeployment ---------------------------
(***************************************************************************)
(* What the API reports as a host's deployment state                       *)
(* (RoutingHostStore._deployment_state, tables/routing.py): it is derived  *)
(* from the process's set of applying hosts, the host's latest             *)
(* HostConfigRevisionStore row, the ACTIVE generation and the file on      *)
(* disk, all of which a reconciliation changes one await at a time         *)
(* (runtime/controller.py, reconcile and _persist).                        *)
(*                                                                         *)
(* Abstracted: reconciliations run one after another (RuntimeController    *)
(* shows when they do), and staging, validating, activating and reloading  *)
(* are one step that puts the candidate in force or leaves the predecessor *)
(* there (Reconciler).  A host's configuration is one of a few contents.   *)
(***************************************************************************)
EXTENDS Integers, Sequences, FiniteSets

CONSTANTS
    Host,           \* routing hosts
    Content,        \* rendered configurations of one host
    Disabled,       \* "renders no file"
    NoGeneration,   \* no candidate, nothing active
    Tampering,      \* may files of the active generation be edited on disk?
    MaxRevisions    \* bound on HostConfigRevisionStore rows

Generation == [Host -> Content \cup {Disabled}]

ASSUME DeploymentConstantsOK ==
    /\ Disabled \notin Content
    /\ NoGeneration \notin Generation
    /\ Tampering \in BOOLEAN
    /\ MaxRevisions \in Nat

VARIABLES
    desired,     \* the committed configuration
    active,      \* the ACTIVE generation
    tampered,    \* <<generation, host>> whose file was edited on disk
    candidate,   \* the generation under reconciliation
    applied,     \* did it come into force?
    unrecorded,  \* hosts of it whose revision _persist() has yet to record
    applying,    \* _applying_host_ids
    revisions,   \* HostConfigRevisionStore rows in id order
    succeeded,   \* history: the last reconciliation ended well
    returned     \* history: a generation of the past was rendered again

vars == <<desired, active, tampered, candidate, applied, unrecorded, applying,
          revisions, succeeded, returned>>

Revision == [host : Host, generation : Generation, applied : BOOLEAN]
Rendered(g) == {h \in Host : g[h] # Disabled}
Idle == candidate = NoGeneration

DTypeOK ==
    /\ desired \in Generation
    /\ active \in Generation \cup {NoGeneration}
    /\ tampered \in SUBSET (Generation \X Host)
    /\ candidate \in Generation \cup {NoGeneration}
    /\ applied \in {"unknown", "yes", "no"}
    /\ unrecorded \in SUBSET Host
    /\ applying \in SUBSET Host
    /\ revisions \in Seq(Revision)
    /\ succeeded \in BOOLEAN
    /\ returned \in BOOLEAN

DInit ==
    /\ desired \in Generation
    /\ active = NoGeneration
    /\ tampered = {}
    /\ candidate = NoGeneration
    /\ applied = "unknown"
    /\ unrecorded = {}
    /\ applying = {}
    /\ revisions = <<>>
    /\ succeeded = FALSE
    /\ returned = FALSE

-----------------------------------------------------------------------------
\* A host is created, edited, enabled or disabled.
Edit(h, content) ==
    /\ desired[h] # content
    /\ desired' = [desired EXCEPT ![h] = content]
    /\ succeeded' = FALSE
    /\ UNCHANGED <<active, tampered, candidate, applied, unrecorded, applying,
                   revisions, returned>>

\* The desired configuration was never recorded before, or it is the one
\* that was recorded last, and as applied.
FreshOrCurrent ==
    \A i, j \in 1..Len(revisions) :
        (i <= j /\ revisions[i].generation = desired) =>
            revisions[j].generation = desired /\ revisions[j].applied

\* reconcile(): render, and report the rendered hosts as applying.
Render ==
    /\ Idle
    /\ Len(revisions) + Cardinality(Host) <= MaxRevisions
    /\ candidate' = desired
    /\ applying' = Rendered(desired)
    /\ succeeded' = FALSE
    /\ returned' = (returned \/ ~FreshOrCurrent)
    /\ UNCHANGED <<desired, active, tampered, applied, unrecorded, revisions>>

\* Reconciler.reconcile returned: the candidate is in force.
Applied ==
    /\ ~Idle /\ applied = "unknown"
    /\ active' = candidate
    /\ applied' = "yes"
    /\ unrecorded' = Rendered(candidate)
    /\ UNCHANGED <<desired, tampered, candidate, applying, revisions,
                   succeeded, returned>>

\* It raised, and what was in force still is.
RolledBack ==
    /\ ~Idle /\ applied = "unknown"
    /\ candidate # active
    /\ applied' = "no"
    /\ unrecorded' = Rendered(candidate)
    /\ UNCHANGED <<desired, active, tampered, candidate, applying, revisions,
                   succeeded, returned>>

RecordedFor(h) ==
    {i \in 1..Len(revisions) : revisions[i].host = h}

\* HostConfigRevisionStore.record, the row a reconciliation should leave: an
\* existing row of the same host and generation is returned as it is.
Record(h) ==
    LET row == [host |-> h, generation |-> candidate, applied |-> applied = "yes"]
        exists == \E i \in RecordedFor(h) : revisions[i].generation = candidate
    IN  revisions' = IF exists THEN revisions ELSE Append(revisions, row)

\* One turn of the loop at the end of _persist().
PersistRevision(h) ==
    /\ h \in unrecorded
    /\ Record(h)
    /\ unrecorded' = unrecorded \ {h}
    /\ UNCHANGED <<desired, active, tampered, candidate, applied, applying,
                   succeeded, returned>>

\* Mutant of Finish: the applying hosts are not cleared.
FinishApplying ==
    /\ ~Idle /\ applied # "unknown" /\ unrecorded = {}
    /\ candidate' = NoGeneration
    /\ applied' = "unknown"
    /\ succeeded' = (applied = "yes" /\ candidate = desired)
    /\ UNCHANGED <<desired, active, tampered, unrecorded, applying, revisions,
                   returned>>

\* reconcile() returns or raises, and clears the applying hosts.
Finish ==
    /\ ~Idle /\ applied # "unknown" /\ unrecorded = {}
    /\ candidate' = NoGeneration
    /\ applied' = "unknown"
    /\ applying' = {}
    /\ succeeded' = (applied = "yes" /\ candidate = desired)
    /\ UNCHANGED <<desired, active, tampered, unrecorded, revisions, returned>>

\* The process is killed at any point; its successor starts with a Render.
CrashAndRestart ==
    /\ ~Idle
    /\ candidate' = NoGeneration
    /\ applied' = "unknown"
    /\ unrecorded' = {}
    /\ applying' = {}
    /\ UNCHANGED <<desired, active, tampered, revisions, succeeded, returned>>

\* Somebody edits a file of the active generation.
Tamper(h) ==
    /\ Tampering
    /\ active # NoGeneration /\ h \in Rendered(active)
    /\ tampered' = tampered \cup {<<active, h>>}
    /\ UNCHANGED <<desired, active, candidate, applied, unrecorded, applying,
                   revisions, succeeded, returned>>

DNext ==
    \/ \E h \in Host :
          \/ \E content \in Content \cup {Disabled} : Edit(h, content)
          \/ PersistRevision(h)
          \/ Tamper(h)
    \/ Render \/ Applied \/ RolledBack \/ Finish \/ CrashAndRestart

DSpec == DInit /\ [][DNext]_vars

-----------------------------------------------------------------------------
(* What is reported *)

\* The row of h with the highest id.
LatestRevision(h) ==
    revisions[CHOOSE i \in RecordedFor(h) : \A j \in RecordedFor(h) : j <= i]

\* Mutant of Drifted: the file on disk is not looked at.
DriftedInDatabase(h, revision) ==
    active # NoGeneration /\ active[h] # revision.generation[h]

\* host_revision_drifted: the file of h in the active generation is missing
\* or is not what the revision's digest was taken from.
Drifted(h, revision) ==
    /\ active # NoGeneration
    /\ \/ active[h] # revision.generation[h]
       \/ <<active, h>> \in tampered

DeploymentState(h) ==
    IF h \in applying THEN "applying"
    ELSE IF RecordedFor(h) = {} THEN "pending"
    ELSE LET revision == LatestRevision(h) IN
         IF ~revision.applied
         THEN IF active # NoGeneration THEN "rolled_back" ELSE "failed"
         ELSE IF active # NoGeneration /\ revision.generation # active
         THEN "pending"
         ELSE IF Drifted(h, revision) THEN "drifted"
         ELSE "applied"

-----------------------------------------------------------------------------
(* Properties *)

\* A host that is reported as applied has the configuration of its latest
\* revision in force, unedited: neither a partly recorded reconciliation
\* nor a crash in the middle of one makes the report run ahead of the disk
\* (_deployment_state).
AppliedIsInForce ==
    \A h \in Host :
        DeploymentState(h) = "applied" =>
            /\ active # NoGeneration
            /\ active[h] = LatestRevision(h).generation[h]
            /\ active[h] # Disabled
            /\ <<active, h>> \notin tampered

ReportedInForce ==
    (Idle /\ succeeded) =>
        \A h \in Rendered(active) :
            <<active, h>> \notin tampered => DeploymentState(h) = "applied"

\* While every generation is rendered for the first time or again at once,
\* each host that a successful reconciliation has put in force is reported
\* as applied, whatever failed, was edited or crashed before it.
FreshInForceIsApplied == ~returned => ReportedInForce

-----------------------------------------------------------------------------
(* What the documentation says and the code does not do *)

\* "Report ... deployment (pending/applying/applied/failed/drifted/
\* rolled_back)" (feature-matrix.md, PH-12): also when a configuration of the
\* past has come back.
InForceIsApplied == ReportedInForce
=============================================================================
