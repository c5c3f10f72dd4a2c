------------------------ MODULE HostDeploymentProofs ------------------------
(***************************************************************************)
(* Theorems about HostDeployment, for any hosts, any configurations and    *)
(* any number of revisions.                                                *)
(***************************************************************************)
EXTENDS HostDeployment, TLAPS

USE DeploymentConstantsOK

\* Where a reconciliation is.
StepsAgree ==
    /\ applied = "yes" => active = candidate
    /\ Idle \/ applied = "unknown" => unrecorded = {}
    /\ Idle => applied = "unknown" /\ applying = {}
    /\ ~Idle => unrecorded \subseteq Rendered(candidate) /\ ~succeeded

\* Rows are of hosts that render a file, applied ones of something that came into force.
\* One row of a host is its latest.
RowsAreReal ==
    /\ \A i \in 1..Len(revisions) :
          /\ revisions[i].generation[revisions[i].host] # Disabled
          /\ revisions[i].applied => active # NoGeneration
    /\ \A h \in Host : RecordedFor(h) # {} =>
          \E i \in RecordedFor(h) : \A j \in RecordedFor(h) : j <= i

\* From its first row on, g was recorded alone, and as applied.
OnlyLast(g) ==
    \A i, j \in 1..Len(revisions) :
        (i <= j /\ revisions[i].generation = g) =>
            revisions[j].generation = g /\ revisions[j].applied

RecordedUnder(h, g) == \E i \in RecordedFor(h) : revisions[i].generation = g

\* As long as no generation has come back, what is being recorded comes last, and what
\* was put in force is recorded for every host of it.
FreshIsRecorded ==
    ~returned =>
        /\ ~Idle /\ applied # "no" => OnlyLast(candidate)
        /\ applied = "yes" =>
              \A h \in Rendered(candidate) \ unrecorded : RecordedUnder(h, candidate)
        /\ Idle /\ succeeded =>
              /\ active # NoGeneration /\ OnlyLast(active)
              /\ \A h \in Rendered(active) : RecordedUnder(h, active)

DInv == DTypeOK /\ StepsAgree /\ RowsAreReal /\ FreshIsRecorded

LEMMA InitDInv == DInit => DInv
  <1> SUFFICES ASSUME DInit PROVE DInv
    OBVIOUS
  <1>1. revisions \in Seq(Revision) /\ Len(revisions) = 0
    BY DEF DInit
  <1>2. DTypeOK /\ StepsAgree
    BY <1>1 DEF DInit, DTypeOK, StepsAgree, Idle
  <1>3. RowsAreReal /\ FreshIsRecorded
    BY <1>1 DEF DInit, RowsAreReal, FreshIsRecorded, Idle, RecordedFor
  <1> QED
    BY <1>2, <1>3 DEF DInv

\* What PersistRevision does to the rows.
LEMMA RowsGrow ==
  ASSUME DTypeOK, RowsAreReal, ~Idle, applied = "yes" => active = candidate,
         NEW h \in Rendered(candidate), Record(h), UNCHANGED <<active, candidate, applied>>
  PROVE  /\ revisions' \in Seq(Revision) /\ RowsAreReal' /\ RecordedUnder(h, candidate)'
         /\ applied = "yes" /\ OnlyLast(candidate) => OnlyLast(candidate)'
         /\ \A k \in Host : \A g : RecordedUnder(k, g) => RecordedUnder(k, g)'
  <1> DEFINE row == [host |-> h, generation |-> candidate, applied |-> applied = "yes"]
  <1>0. h \in Host /\ candidate \in Generation /\ candidate[h] # Disabled
    BY DEF Rendered, DTypeOK, Idle
  <1>1. CASE \E i \in RecordedFor(h) : revisions[i].generation = candidate
    <2>1. UNCHANGED revisions
      BY <1>1 DEF Record
    <2> QED
      BY <1>1, <2>1 DEF DTypeOK, RowsAreReal, RecordedUnder, RecordedFor, OnlyLast
  <1>2. CASE ~ \E i \in RecordedFor(h) : revisions[i].generation = candidate
    <2>1. revisions' = Append(revisions, row)
      BY <1>2 DEF Record
    <2>2. row \in Revision /\ row.host = h /\ row.generation = candidate
          /\ row.applied = (applied = "yes")
      BY <1>0 DEF Revision
    <2> DEFINE n == Len(revisions)
    <2>3. /\ n \in Nat /\ revisions' \in Seq(Revision) /\ Len(revisions') = n + 1
          /\ revisions'[n + 1] = row /\ \A i \in 1..n : revisions'[i] = revisions[i]
      BY <2>1, <2>2 DEF DTypeOK
    <2> HIDE DEF row, n
    <2>4. \A k \in Host : RecordedFor(k)' =
            IF k = h THEN RecordedFor(k) \cup {n + 1} ELSE RecordedFor(k)
      BY <2>2, <2>3 DEF RecordedFor, n
    <2>5. \A k \in Host : \A i \in RecordedFor(k) : i \in 1..n
      BY DEF RecordedFor, n
    <2>6. \A i \in 1..n + 1 :
            /\ revisions'[i].generation[revisions'[i].host] # Disabled
            /\ revisions'[i].applied => active # NoGeneration
      <3>1. \A i \in 1..n :
              /\ revisions[i].generation[revisions[i].host] # Disabled
              /\ revisions[i].applied => active # NoGeneration
        BY DEF RowsAreReal, n
      <3>2. row.generation[row.host] # Disabled /\ (row.applied => active # NoGeneration)
        BY <1>0, <2>2 DEF Idle
      <3> QED
        BY <2>3, <3>1, <3>2
    <2>7. ASSUME NEW k \in Host, RecordedFor(k)' # {}
          PROVE  \E i \in RecordedFor(k)' : \A j \in RecordedFor(k)' : j <= i
      <3>1. CASE k = h
        BY <2>3, <2>4, <2>5, <3>1
      <3>2. CASE k # h
        BY <2>4, <2>7, <3>2 DEF RowsAreReal
      <3> QED
        BY <3>1, <3>2
    <2>8. RowsAreReal'
      BY <2>3, <2>6, <2>7 DEF RowsAreReal
    <2>9. \A k \in Host : \A g : RecordedUnder(k, g) => RecordedUnder(k, g)'
      BY <2>3, <2>4, <2>5 DEF RecordedUnder
    <2>10. RecordedUnder(h, candidate)'
      BY <1>0, <2>2, <2>3, <2>4 DEF RecordedUnder
    <2>11. applied = "yes" /\ OnlyLast(candidate) => OnlyLast(candidate)'
      <3> SUFFICES ASSUME applied = "yes", OnlyLast(candidate),
                          NEW i \in 1..n + 1, NEW j \in 1..n + 1, i <= j,
                          revisions'[i].generation = candidate
                   PROVE  revisions'[j].generation = candidate /\ revisions'[j].applied
        BY <2>3 DEF OnlyLast
      <3>1. CASE j = n + 1
        BY <2>2, <2>3, <3>1
      <3>2. CASE j # n + 1
        <4>1. i \in 1..n /\ j \in 1..n
          BY <2>3, <3>2
        <4> QED
          BY <2>3, <4>1 DEF OnlyLast, n
      <3> QED
        BY <3>1, <3>2
    <2> QED
      BY <2>3, <2>8, <2>9, <2>10, <2>11
  <1> QED
    BY <1>1, <1>2

LEMMA StepDInv ==
  ASSUME DInv, [DNext]_vars
  PROVE  DInv'
  <1> USE DEF DInv
  \* Steps that leave the rows as they are.
  <1>r. ASSUME UNCHANGED revisions, active # NoGeneration => active' # NoGeneration
        PROVE  RowsAreReal'
    BY <1>r DEF RowsAreReal, RecordedFor
  <1>1. ASSUME NEW h \in Host, NEW content \in Content \cup {Disabled}, Edit(h, content)
        PROVE  DInv'
    <2>1. DTypeOK' /\ StepsAgree'
      BY <1>1 DEF Edit, DTypeOK, Generation, StepsAgree, Idle, Rendered
    <2>2. FreshIsRecorded'
      BY <1>1 DEF Edit, FreshIsRecorded, Idle, Rendered, OnlyLast, RecordedUnder, RecordedFor
    <2> QED
      BY <1>1, <1>r, <2>1, <2>2 DEF Edit
  <1>2. ASSUME NEW h \in Host, PersistRevision(h)
        PROVE  DInv'
    <2>1. /\ ~Idle /\ applied # "unknown" /\ h \in Rendered(candidate) /\ Record(h)
          /\ unrecorded' = unrecorded \ {h}
          /\ UNCHANGED <<desired, active, tampered, candidate, applied, applying,
                         succeeded, returned>>
      BY <1>2 DEF PersistRevision, StepsAgree
    <2>2. /\ revisions' \in Seq(Revision) /\ RowsAreReal' /\ RecordedUnder(h, candidate)'
          /\ applied = "yes" /\ OnlyLast(candidate) => OnlyLast(candidate)'
          /\ \A k \in Host : \A g : RecordedUnder(k, g) => RecordedUnder(k, g)'
      BY <2>1, RowsGrow DEF StepsAgree
    <2>3. DTypeOK' /\ StepsAgree'
      BY <2>1, <2>2 DEF DTypeOK, StepsAgree, Idle, Rendered
    <2>4. FreshIsRecorded'
      <3>1. Rendered(candidate)' = Rendered(candidate) /\ Idle' = Idle
            /\ Rendered(candidate) \subseteq Host
        BY <2>1 DEF Rendered, Idle
      <3>2. applied \in {"yes", "no"}
        BY <2>1 DEF DTypeOK
      <3> QED
        BY <2>1, <2>2, <3>1, <3>2 DEF FreshIsRecorded
    <2> QED
      BY <2>2, <2>3, <2>4
  <1>3. ASSUME NEW h \in Host, Tamper(h)
        PROVE  DInv'
    <2>1. DTypeOK' /\ StepsAgree'
      BY <1>3 DEF Tamper, DTypeOK, StepsAgree, Idle, Rendered
    <2>2. FreshIsRecorded'
      BY <1>3 DEF Tamper, FreshIsRecorded, Idle, Rendered, OnlyLast, RecordedUnder, RecordedFor
    <2> QED
      BY <1>3, <1>r, <2>1, <2>2 DEF Tamper
  <1>4. CASE Render
    <2>1. DTypeOK'
      BY <1>4 DEF Render, DTypeOK, Rendered
    <2>2. StepsAgree'
      BY <1>4 DEF Render, DTypeOK, StepsAgree, Idle, Rendered
    <2>3. FreshIsRecorded'
      <3>1. ~Idle' /\ applied' = "unknown"
        BY <1>4 DEF Render, DTypeOK, StepsAgree, Idle
      <3>2. ~returned' => OnlyLast(candidate)'
        BY <1>4 DEF Render, FreshOrCurrent, OnlyLast
      <3> QED
        BY <3>1, <3>2 DEF FreshIsRecorded
    <2> QED
      BY <1>4, <1>r, <2>1, <2>2, <2>3 DEF Render
  <1>5. CASE Applied
    <2>1. DTypeOK' /\ StepsAgree'
      BY <1>5 DEF Applied, DTypeOK, StepsAgree, Idle, Rendered
    <2>2. FreshIsRecorded'
      BY <1>5 DEF Applied, FreshIsRecorded, Idle, Rendered, OnlyLast
    <2> QED
      BY <1>5, <1>r, <2>1, <2>2 DEF Applied, Idle
  <1>6. CASE RolledBack
    <2>1. DTypeOK' /\ StepsAgree'
      BY <1>6 DEF RolledBack, DTypeOK, StepsAgree, Idle, Rendered
    <2>2. FreshIsRecorded'
      BY <1>6 DEF RolledBack, FreshIsRecorded, Idle
    <2> QED
      BY <1>6, <1>r, <2>1, <2>2 DEF RolledBack
  <1>7. CASE Finish
    <2>1. DTypeOK' /\ StepsAgree'
      BY <1>7 DEF Finish, DTypeOK, StepsAgree, Idle
    <2>2. FreshIsRecorded'
      <3>1. UNCHANGED <<revisions, active, returned>> /\ Idle' /\ applied' = "unknown"
        BY <1>7 DEF Finish, Idle
      <3>2. ASSUME ~returned, succeeded'
            PROVE  /\ active # NoGeneration /\ OnlyLast(active)
                   /\ \A h \in Rendered(active) : RecordedUnder(h, active)
        BY <1>7, <3>2 DEF Finish, StepsAgree, FreshIsRecorded, Idle
      <3>3. ASSUME ~returned, succeeded'
            PROVE  OnlyLast(active)' /\ \A h \in Rendered(active)' : RecordedUnder(h, active)'
        BY <3>1, <3>2, <3>3 DEF OnlyLast, Rendered, RecordedUnder, RecordedFor
      <3> QED
        BY <3>1, <3>2, <3>3 DEF FreshIsRecorded
    <2> QED
      BY <1>7, <1>r, <2>1, <2>2 DEF Finish
  <1>8. CASE CrashAndRestart
    <2>1. DTypeOK' /\ StepsAgree'
      BY <1>8 DEF CrashAndRestart, DTypeOK, StepsAgree, Idle
    <2>2. FreshIsRecorded'
      BY <1>8 DEF CrashAndRestart, StepsAgree, FreshIsRecorded, Idle
    <2> QED
      BY <1>8, <1>r, <2>1, <2>2 DEF CrashAndRestart
  <1>9. CASE UNCHANGED vars
    <2>1. DTypeOK' /\ StepsAgree'
      BY <1>9 DEF vars, DTypeOK, StepsAgree, Idle, Rendered
    <2>2. FreshIsRecorded'
      BY <1>9 DEF vars, FreshIsRecorded, Idle, Rendered, OnlyLast, RecordedUnder, RecordedFor
    <2> QED
      BY <1>9, <1>r, <2>1, <2>2 DEF vars
  <1> QED
    BY <1>1, <1>2, <1>3, <1>4, <1>5, <1>6, <1>7, <1>8, <1>9 DEF DNext

\* The row that the report is taken from.
LEMMA LatestIsARow ==
  ASSUME RowsAreReal, NEW h \in Host, RecordedFor(h) # {}
  PROVE  \E i \in RecordedFor(h) :
            /\ LatestRevision(h) = revisions[i]
            /\ \A j \in RecordedFor(h) : j <= i
  BY DEF RowsAreReal, LatestRevision

\* A host that is reported as applied has its latest revision in force, unedited, after
\* any number of edits, rollbacks and crashes within _persist() (_deployment_state).
THEOREM AppliedHostsAreInForce == DSpec => []AppliedIsInForce
  <1>1. DInv => AppliedIsInForce
    <2> SUFFICES ASSUME DInv, NEW h \in Host, DeploymentState(h) = "applied"
                 PROVE  /\ active # NoGeneration
                        /\ active[h] = LatestRevision(h).generation[h]
                        /\ active[h] # Disabled
                        /\ <<active, h>> \notin tampered
      BY DEF AppliedIsInForce
    <2>1. RecordedFor(h) # {} /\ LatestRevision(h).applied
          /\ (active # NoGeneration => LatestRevision(h).generation = active)
          /\ ~Drifted(h, LatestRevision(h))
      BY DEF DeploymentState
    <2>2. PICK i \in RecordedFor(h) : LatestRevision(h) = revisions[i]
      BY <2>1, LatestIsARow DEF DInv
    <2>3. i \in 1..Len(revisions) /\ revisions[i].host = h
      BY <2>2 DEF RecordedFor
    <2>4. active # NoGeneration /\ revisions[i].generation[h] # Disabled
      BY <2>1, <2>2, <2>3 DEF DInv, RowsAreReal
    <2> QED
      BY <2>1, <2>2, <2>4 DEF Drifted
  <1> QED
    BY <1>1, InitDInv, StepDInv, PTL DEF DSpec

\* While no generation of the past has come back, what a successful reconciliation has put
\* in force is reported as applied for each of its hosts (reconcile, _persist).
THEOREM FreshHostsAreApplied == DSpec => []FreshInForceIsApplied
  <1>1. DInv => FreshInForceIsApplied
    <2> SUFFICES ASSUME DInv, ~returned, Idle, succeeded, NEW h \in Rendered(active),
                        <<active, h>> \notin tampered
                 PROVE  DeploymentState(h) = "applied"
      BY DEF FreshInForceIsApplied, ReportedInForce
    <2>1. /\ h \in Host /\ applying = {} /\ active # NoGeneration /\ OnlyLast(active)
          /\ RecordedUnder(h, active)
      BY DEF DInv, StepsAgree, FreshIsRecorded, Rendered
    <2>2. RecordedFor(h) # {}
      BY <2>1 DEF RecordedUnder
    <2>3. PICK i \in RecordedFor(h) : /\ LatestRevision(h) = revisions[i]
                                     /\ \A j \in RecordedFor(h) : j <= i
      BY <2>1, <2>2, LatestIsARow DEF DInv
    <2>4. revisions[i].generation = active /\ revisions[i].applied
      BY <2>1, <2>3 DEF RecordedUnder, OnlyLast, RecordedFor
    <2> QED
      BY <2>1, <2>2, <2>3, <2>4 DEF DeploymentState, Drifted
  <1> QED
    BY <1>1, InitDInv, StepDInv, PTL DEF DSpec
=============================================================================
