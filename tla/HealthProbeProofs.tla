-------------------------- MODULE HealthProbeProofs --------------------------
(* Theorems about HealthProbe, for any number of probers. *)
EXTENDS HealthProbe, TLAPS

\* Whoever probes the host holds its lease.
LeaseCoversProbe ==
    \A p \in Prober : step[p] = "probe" => lease = p

\* The part of PTypeOK that LeaseCoversProbe rests on.
StepAndLease ==
    /\ step \in [Prober -> ProbeSteps]
    /\ lease \in Prober \cup {Free, Stale}

PInv == StepAndLease /\ LeaseCoversProbe

LEMMA StepPInv ==
  ASSUME PInv, [PNext]_vars
  PROVE  PInv'
  <1> USE ProbeConstantsOK
      DEF PInv, StepAndLease, LeaseCoversProbe, ProbeSteps, Goto
  <1>1. ASSUME NEW p \in Prober, ReadHost(p)
        PROVE  PInv'
    BY <1>1 DEF ReadHost
  <1>2. ASSUME NEW p \in Prober, AcquireLease(p)
        PROVE  PInv'
    BY <1>2 DEF AcquireLease
  <1>3. ASSUME NEW p \in Prober, LeaseRefused(p)
        PROVE  PInv'
    BY <1>3 DEF LeaseRefused
  <1>4. ASSUME NEW p \in Prober, NEW status \in Status, ProbeEnds(p, status)
        PROVE  PInv'
    BY <1>4 DEF ProbeEnds
  <1>5. ASSUME NEW p \in Prober, ReleaseLease(p)
        PROVE  PInv'
    BY <1>5 DEF ReleaseLease
  <1>6. ASSUME NEW p \in Prober, AddObservation(p)
        PROVE  PInv'
    BY <1>6 DEF AddObservation
  <1>7. ASSUME NEW p \in Prober, Commit(p)
        PROVE  PInv'
    BY <1>7 DEF Commit
  <1>8. ASSUME NEW p \in Prober, Crash(p)
        PROVE  PInv'
    BY <1>8 DEF Crash
  <1>9. CASE LeaseExpires \/ Toggle \/ Tick \/ UNCHANGED vars
    BY <1>9 DEF LeaseExpires, Toggle, Tick, vars
  <1> QED
    BY <1>1, <1>2, <1>3, <1>4, <1>5, <1>6, <1>7, <1>8, <1>9 DEF PNext

\* The host is never probed twice at the same time, by any number of
\* schedulers and requests and whenever their processes die
\* (RoutingHostStore.probe).
THEOREM ProbesExcludeEachOther == PSpec => []OneProbeAtATime
  <1>1. PInit => PInv
    BY DEF PInit, PInv, StepAndLease, LeaseCoversProbe, ProbeSteps
  <1>2. PInv /\ [PNext]_vars => PInv'
    BY StepPInv
  <1>3. PInv => OneProbeAtATime
    BY DEF PInv, LeaseCoversProbe, OneProbeAtATime
  <1> QED
    BY <1>1, <1>2, <1>3, PTL DEF PSpec

-----------------------------------------------------------------------------
(* Probes that do not overlap *)

USE ProbeConstantsOK

AtWork(p) == step[p] \in {"probe", "release", "add", "commit"}

Newest(o, S) == o \in S /\ \A q \in S \ {o} : Newer(o, q)

\* Nobody else is at work; what is about to be committed is newer than what is, and its
\* event tells the difference from the latest.
ProbesAreSerial ==
    \A p \in Prober : AtWork(p) =>
        /\ \A q \in Prober : AtWork(q) => q = p
        /\ result[p].at <= clock /\ \A o \in observations : o.at <= result[p].at
        /\ step[p] = "commit" =>
              /\ result[p].id = flushed /\ \A o \in observations : o.id < flushed
              /\ event[p] = IF \/ observations = {}
                               \/ Latest(observations).status = result[p].status
                            THEN NoEvent
                            ELSE <<Latest(observations).status, result[p].status>>

TrailFollows ==
    LET current == Latest(observations).status IN
    /\ EventsContinue
    /\ IF events = <<>> THEN \A o \in observations : o.status = current
       ELSE events[Len(events)][2] = current

SerialInv ==
    ~overlapped =>
        /\ ProbesAreSerial
        /\ \A o \in observations : o.at <= clock /\ o.id <= flushed
        /\ \/ observations = {} /\ events = <<>>
           \/ (\E o \in observations : Newest(o, observations)) /\ TrailFollows
        /\ events \in Seq(Event)

\* The part of PTypeOK that SerialInv rests on.
ProbeTypes ==
    /\ clock \in 0..MaxClock
    /\ result \in [Prober -> Observation]
    /\ observations \in SUBSET Observation
    /\ flushed \in 0..MaxObservations
    /\ overlapped \in BOOLEAN
    /\ event = [p \in Prober |-> event[p]]

LEMMA StepTypes ==
  ASSUME PInv, ProbeTypes, [PNext]_vars
  PROVE  ProbeTypes'
  <1> USE DEF ProbeTypes, Goto
  <1>0. Blank \in Observation
    BY DEF Blank, Observation, Status
  <1>1. ASSUME NEW p \in Prober, ReadHost(p) \/ LeaseRefused(p) \/ ReleaseLease(p)
        PROVE  ProbeTypes'
    BY <1>1 DEF ReadHost, LeaseRefused, ReleaseLease
  <1>2. ASSUME NEW p \in Prober, AcquireLease(p)
        PROVE  ProbeTypes'
    <2>1. [result[p] EXCEPT !.at = clock] \in Observation
      BY DEF Observation
    <2>2. result' = [result EXCEPT ![p] = [result[p] EXCEPT !.at = clock]]
      BY <1>2 DEF AcquireLease
    <2> QED
      BY <1>2, <2>1, <2>2 DEF AcquireLease
  <1>3. ASSUME NEW p \in Prober, NEW status \in Status, ProbeEnds(p, status)
        PROVE  ProbeTypes'
    <2>1. [result[p] EXCEPT !.status = status] \in Observation
      BY DEF Observation
    <2>2. result' = [result EXCEPT ![p] = [result[p] EXCEPT !.status = status]]
      BY <1>3 DEF ProbeEnds
    <2> QED
      BY <1>3, <2>1, <2>2 DEF ProbeEnds
  <1>4. ASSUME NEW p \in Prober, AddObservation(p)
        PROVE  ProbeTypes'
    <2> DEFINE own == [result[p] EXCEPT !.id = flushed + 1]
    <2>1. flushed + 1 \in 0..MaxObservations
      BY <1>4 DEF AddObservation
    <2>2. own \in Observation
      BY <2>1 DEF Observation
    <2>3. result' = [result EXCEPT ![p] = own]
      BY <1>4 DEF AddObservation
    <2> HIDE DEF own
    <2> QED
      BY <1>4, <2>1, <2>2, <2>3 DEF AddObservation
  <1>5. ASSUME NEW p \in Prober, Commit(p)
        PROVE  ProbeTypes'
    BY <1>0, <1>5 DEF Commit
  <1>6. ASSUME NEW p \in Prober, Crash(p)
        PROVE  ProbeTypes'
    BY <1>0, <1>6 DEF Crash
  <1>7. CASE Tick
    BY <1>7 DEF Tick
  <1>8. CASE LeaseExpires \/ Toggle \/ UNCHANGED vars
    BY <1>8 DEF LeaseExpires, Toggle, vars
  <1> QED
    BY <1>1, <1>2, <1>3, <1>4, <1>5, <1>6, <1>7, <1>8 DEF PNext

\* Two observations cannot both be newer than all the others.
LEMMA NewestIsLatest ==
  ASSUME NEW S \in SUBSET Observation, NEW o, Newest(o, S)
  PROVE  Latest(S) = o
  <1>1. \A q \in Observation : q.at \in Int /\ q.id \in Int
    BY DEF Observation
  <1>2. \A q \in S : (\A r \in S \ {q} : Newer(q, r)) => q = o
    BY <1>1 DEF Newest, Newer
  <1> QED
    BY <1>2 DEF Newest, Latest

\* An observation whose id is beyond those committed and whose second is not before theirs
\* becomes the latest one.
LEMMA NextIsNewest ==
  ASSUME NEW S \in SUBSET Observation, NEW o \in Observation,
         \A q \in S : q.id < o.id /\ q.at <= o.at
  PROVE  Newest(o, S \cup {o}) /\ Latest(S \cup {o}) = o /\ (S \cup {o}) \ {o} = S
  <1>1. \A q \in Observation : q.at \in Int /\ q.id \in Int
    BY DEF Observation
  <1>2. Newest(o, S \cup {o})
    BY <1>1 DEF Newest, Newer
  <1>3. o \notin S
    BY <1>1
  <1> QED
    BY <1>2, <1>3, NewestIsLatest

\* The step of each action, while no probe has begun before an earlier one's commit.
LEMMA StepSerial ==
  ASSUME PInv, ProbeTypes, ProbeTypes', SerialInv, [PNext]_vars
  PROVE  SerialInv'
  <1> USE DEF ProbeTypes, Goto, AtWork
  <1> SUFFICES ASSUME ~overlapped'
               PROVE  SerialInv'
    BY DEF SerialInv
  <1>0. ASSUME ~overlapped
        PROVE  /\ ProbesAreSerial
               /\ \A o \in observations : o.at <= clock /\ o.id <= flushed
               /\ \/ observations = {} /\ events = <<>>
                  \/ (\E o \in observations : Newest(o, observations)) /\ TrailFollows
               /\ events \in Seq(Event)
    BY <1>0 DEF SerialInv
  <1>1. \A q \in Observation : q.at \in Int /\ q.id \in Int
    BY DEF Observation
  <1>2. \A q \in Prober : result[q] \in Observation /\ step[q] \in ProbeSteps
    BY DEF PInv, StepAndLease
  <1>t. (UNCHANGED <<observations, events>> /\ TrailFollows) => TrailFollows'
    BY DEF TrailFollows, EventsContinue
  <1> DEFINE Same == UNCHANGED <<clock, observations, flushed, events, overlapped>>
  <1>3. ASSUME Same, UNCHANGED <<result, event>>, NEW p \in Prober, NEW there,
               step' = [step EXCEPT ![p] = there], AtWork(p)' => AtWork(p),
               there # "commit"
        PROVE  SerialInv'
    <2>1. ~overlapped /\ \A q \in Prober : AtWork(q)' => AtWork(q)
      BY <1>3 DEF PInv, StepAndLease
    <2>2. \A q \in Prober : step'[q] = "commit" => step[q] = "commit"
      BY <1>3 DEF PInv, StepAndLease
    <2>3. ProbesAreSerial'
      BY <1>0, <1>3, <2>1, <2>2 DEF ProbesAreSerial
    <2> QED
      BY <1>0, <1>3, <1>t, <2>1, <2>3 DEF SerialInv
  <1>4. ASSUME NEW p \in Prober, ReadHost(p) \/ LeaseRefused(p) \/ ReleaseLease(p)
        PROVE  SerialInv'
    <2>1. CASE ReadHost(p)
      BY <1>3, <2>1 DEF ReadHost, PInv, StepAndLease
    <2>2. CASE LeaseRefused(p)
      BY <1>3, <2>2 DEF LeaseRefused, PInv, StepAndLease
    <2>3. CASE ReleaseLease(p)
      BY <1>3, <2>3 DEF ReleaseLease, PInv, StepAndLease
    <2> QED
      BY <1>4, <2>1, <2>2, <2>3
  <1>5. ASSUME NEW p \in Prober, AcquireLease(p)
        PROVE  SerialInv'
    <2>1. ~overlapped /\ \A q \in Prober : step[q] \notin {"release", "add", "commit"}
      BY <1>5 DEF AcquireLease
    <2>2. \A q \in Prober : step[q] # "probe"
      BY <1>5 DEF AcquireLease, PInv, StepAndLease, LeaseCoversProbe
    <2>3. \A q \in Prober : AtWork(q)' => q = p
      BY <1>5, <2>1, <2>2 DEF AcquireLease, PInv, StepAndLease
    <2>4. result'[p].at = clock /\ step'[p] = "probe"
      <3>1. result' = [result EXCEPT ![p] = [result[p] EXCEPT !.at = clock]]
        BY <1>5 DEF AcquireLease
      <3>2. [result[p] EXCEPT !.at = clock].at = clock
        BY <1>2 DEF Observation
      <3> QED
        BY <1>5, <3>1, <3>2 DEF AcquireLease, PInv, StepAndLease
    <2>5. Same /\ UNCHANGED observations
      BY <1>5, <2>1 DEF AcquireLease
    <2>6. ProbesAreSerial'
      BY <1>0, <2>1, <2>3, <2>4, <2>5 DEF ProbesAreSerial
    <2> QED
      BY <1>0, <1>t, <2>1, <2>5, <2>6 DEF SerialInv
  <1>6. ASSUME NEW p \in Prober, NEW status \in Status, ProbeEnds(p, status)
        PROVE  SerialInv'
    <2>1. Same /\ UNCHANGED <<observations, event>>
      BY <1>6 DEF ProbeEnds
    <2>2. result'[p].at = result[p].at /\ step'[p] = "release"
      <3>1. result' = [result EXCEPT ![p] = [result[p] EXCEPT !.status = status]]
        BY <1>6 DEF ProbeEnds
      <3>2. [result[p] EXCEPT !.status = status].at = result[p].at
        BY <1>2 DEF Observation
      <3> QED
        BY <1>6, <3>1, <3>2 DEF ProbeEnds, PInv, StepAndLease
    <2>3. AtWork(p) /\ \A q \in Prober : AtWork(q)' => AtWork(q)
      BY <1>6 DEF ProbeEnds, PInv, StepAndLease
    <2>4. ProbesAreSerial'
      BY <1>0, <2>1, <2>2, <2>3 DEF ProbesAreSerial
    <2> QED
      BY <1>0, <1>t, <2>1, <2>4 DEF SerialInv
  <1>7. ASSUME NEW p \in Prober, AddObservation(p)
        PROVE  SerialInv'
    <2> DEFINE own == [result[p] EXCEPT !.id = flushed + 1]
    <2>1. UNCHANGED <<clock, observations, events, overlapped>> /\ flushed' = flushed + 1
      BY <1>7 DEF AddObservation
    <2>2. /\ result'[p] = own /\ own \in Observation
          /\ own.id = flushed + 1 /\ own.at = result[p].at
      <3>1. result' = [result EXCEPT ![p] = own]
        BY <1>7 DEF AddObservation
      <3>2. own.id = flushed + 1 /\ own.at = result[p].at
        BY <1>2 DEF Observation
      <3> QED
        BY <3>1, <3>2
    <2>3. event'[p] = Transition(observations \cup {own})
      BY <1>7 DEF AddObservation
    <2>4. AtWork(p) /\ step'[p] = "commit" /\ \A q \in Prober : AtWork(q)' => AtWork(q)
      BY <1>7 DEF AddObservation, PInv, StepAndLease
    <2>5. ~overlapped
      BY <2>1
    <2>6. \A o \in observations : o.id < own.id /\ o.at <= own.at
      BY <1>0, <1>1, <2>2, <2>4, <2>5 DEF ProbesAreSerial
    <2> HIDE DEF own
    <2>7. Latest(observations \cup {own}) = own /\ (observations \cup {own}) \ {own} = observations
      BY <2>2, <2>6, NextIsNewest
    <2>8. event'[p] = IF \/ observations = {}
                         \/ Latest(observations).status = own.status
                      THEN NoEvent
                      ELSE <<Latest(observations).status, own.status>>
      BY <2>3, <2>7 DEF Transition
    <2>9. ProbesAreSerial'
      BY <1>0, <2>1, <2>2, <2>4, <2>5, <2>6, <2>8 DEF ProbesAreSerial
    <2>10. \A o \in observations : o.id <= flushed + 1
      BY <1>0, <1>1, <2>5
    <2> QED
      BY <1>0, <1>t, <2>1, <2>5, <2>9, <2>10 DEF SerialInv
  <1>8. ASSUME NEW p \in Prober, Commit(p)
        PROVE  SerialInv'
    <2>1. UNCHANGED <<clock, flushed, overlapped>> /\ ~overlapped
      BY <1>8 DEF Commit
    <2>2. step[p] = "commit" /\ AtWork(p)
      BY <1>8 DEF Commit
    <2>3. \A q \in Prober : ~AtWork(q)'
      BY <1>0, <1>8, <2>1, <2>2 DEF Commit, PInv, StepAndLease, ProbesAreSerial
    <2> DEFINE own == result[p]
    <2>4. own \in Observation /\ own.at <= clock /\ own.id = flushed
      BY <1>0, <2>1, <2>2 DEF ProbesAreSerial
    <2>5. \A o \in observations : o.id < own.id /\ o.at <= own.at
      BY <1>0, <2>1, <2>2 DEF ProbesAreSerial
    <2>6. event[p] = IF \/ observations = {}
                        \/ Latest(observations).status = own.status
                     THEN NoEvent
                     ELSE <<Latest(observations).status, own.status>>
      BY <1>0, <2>1, <2>2 DEF ProbesAreSerial
    <2>7. /\ observations' = observations \cup {own}
          /\ events' = IF event[p] = NoEvent THEN events ELSE Append(events, event[p])
      BY <1>8 DEF Commit
    <2> HIDE DEF own
    <2>8. Newest(own, observations') /\ Latest(observations') = own
      BY <2>4, <2>5, <2>7, NextIsNewest
    <2>9. events' \in Seq(Event) /\ TrailFollows'
      <3>1. CASE observations = {}
        BY <1>0, <2>1, <2>6, <2>7, <2>8, <3>1 DEF TrailFollows, EventsContinue
      <3>2. CASE observations # {} /\ Latest(observations).status = own.status
        BY <1>0, <2>1, <2>6, <2>7, <2>8, <3>2 DEF TrailFollows, EventsContinue
      <3>3. CASE observations # {} /\ Latest(observations).status # own.status
        <4>1. PICK last \in observations : Newest(last, observations)
          BY <1>0, <2>1, <3>3
        <4>2. Latest(observations) \in Observation /\ TrailFollows
          BY <1>0, <2>1, <3>3, <4>1, NewestIsLatest
        <4> DEFINE e == <<Latest(observations).status, own.status>>
        <4>3. e \in Event /\ e # NoEvent
          BY <2>4, <4>2 DEF Event, Observation, NoEvent
        <4>4. events' = Append(events, e)
          BY <2>6, <2>7, <3>3, <4>3
        <4>5. e[1] = Latest(observations).status /\ e[2] = own.status
          OBVIOUS
        <4> HIDE DEF e
        <4>6. events \in Seq(Event)
          BY <1>0, <2>1
        <4>7. /\ Len(events') = Len(events) + 1 /\ events'[Len(events) + 1] = e
              /\ \A i \in 1..Len(events) : events'[i] = events[i]
              /\ events' \in Seq(Event) /\ Len(events) \in Nat
          BY <4>3, <4>4, <4>6
        <4>8. events # <<>> => events[Len(events)][2] = e[1]
          BY <4>2, <4>5 DEF TrailFollows
        <4>9. EventsContinue'
          <5> SUFFICES ASSUME NEW i \in 1..(Len(events') - 1)
                       PROVE  events'[i][2] = events'[i + 1][1]
            BY DEF EventsContinue
          <5>1. CASE i = Len(events)
            BY <4>6, <4>7, <4>8, <5>1
          <5>2. CASE i # Len(events)
            <6>1. i \in 1..(Len(events) - 1) /\ i + 1 \in 1..Len(events)
              BY <4>7, <5>2
            <6>2. events[i][2] = events[i + 1][1]
              BY <4>2, <6>1 DEF TrailFollows, EventsContinue
            <6> QED
              BY <4>7, <6>1, <6>2
          <5> QED
            BY <5>1, <5>2
        <4>10. events' # <<>>
          BY <4>7
        <4> QED
          BY <2>8, <4>5, <4>7, <4>9, <4>10 DEF TrailFollows
      <3> QED
        BY <3>1, <3>2, <3>3
    <2>10. ProbesAreSerial'
      BY <2>3 DEF ProbesAreSerial
    <2>11. \A o \in observations' : o.at <= clock /\ o.id <= flushed
      BY <1>0, <2>1, <2>4, <2>7
    <2> QED
      BY <2>1, <2>7, <2>8, <2>9, <2>10, <2>11 DEF SerialInv
  <1>9. ASSUME NEW p \in Prober, Crash(p)
        PROVE  SerialInv'
    <2>1. Same /\ ~overlapped
      BY <1>9 DEF Crash
    <2>2. /\ ~AtWork(p)'
          /\ \A q \in Prober \ {p} : /\ result'[q] = result[q]
                                     /\ step'[q] = step[q] /\ event'[q] = event[q]
      BY <1>9 DEF Crash, PInv, StepAndLease
    <2>3. ProbesAreSerial'
      BY <1>0, <2>1, <2>2 DEF ProbesAreSerial
    <2> QED
      BY <1>0, <1>t, <2>1, <2>3 DEF SerialInv
  <1>10. CASE Tick
    <2>1. UNCHANGED <<step, result, event, observations, flushed, events, overlapped>>
      BY <1>10 DEF Tick
    <2>2. clock' = clock + 1 /\ ~overlapped
      BY <1>10, <2>1 DEF Tick
    <2>3. ProbesAreSerial'
      BY <1>0, <1>1, <1>2, <2>1, <2>2 DEF ProbesAreSerial
    <2> QED
      BY <1>0, <1>1, <1>t, <2>1, <2>2, <2>3 DEF SerialInv
  <1>11. CASE LeaseExpires \/ Toggle \/ UNCHANGED vars
    <2>1. Same /\ UNCHANGED <<step, result, event>> /\ ~overlapped
      BY <1>11 DEF LeaseExpires, Toggle, vars
    <2>2. ProbesAreSerial'
      BY <1>0, <2>1 DEF ProbesAreSerial
    <2> QED
      BY <1>0, <1>t, <2>1, <2>2 DEF SerialInv
  <1> QED
    BY <1>4, <1>5, <1>6, <1>7, <1>8, <1>9, <1>10, <1>11 DEF PNext

\* As long as no probe begins before the one before it is committed, for any number of
\* callers and whatever crashes, the audit trail of health transitions has no gap and no
\* repetition and ends where health_read is (audit_mutation, tables/lifecycle.py).
THEOREM SerialTrailFollowsHealth == PSpec => []SerialAuditFollowsHealth
  <1>1. PInit => PInv /\ ProbeTypes /\ SerialInv
    <2> SUFFICES ASSUME PInit
                 PROVE  PInv /\ ProbeTypes /\ SerialInv
      OBVIOUS
    <2>1. PInv
      BY DEF PInit, PInv, StepAndLease, LeaseCoversProbe, ProbeSteps
    <2>2. ProbeTypes
      <3>1. Blank \in Observation /\ 0 \in 0..MaxClock /\ 0 \in 0..MaxObservations
        BY DEF Blank, Observation, Status
      <3> QED
        BY <3>1 DEF PInit, ProbeTypes
    <2>3. SerialInv
      BY DEF PInit, SerialInv, ProbesAreSerial, AtWork
    <2> QED
      BY <2>1, <2>2, <2>3
  <1>2. PInv /\ ProbeTypes /\ SerialInv /\ [PNext]_vars => (PInv /\ ProbeTypes /\ SerialInv)'
    BY StepPInv, StepTypes, StepSerial
  <1>3. SerialInv => SerialAuditFollowsHealth
    BY DEF SerialInv, TrailFollows, SerialAuditFollowsHealth
  <1> QED
    BY <1>1, <1>2, <1>3, PTL DEF PSpec
=============================================================================
