---------------------------- MODULE HealthProbe ----------------------------
(***************************************************************************)
(* The `probe` operation of one proxy host (RoutingHostStore.probe,        *)
(* tables/routing.py), called by the scheduler and by API requests of any  *)
(* process, with its per-host lease, the observation that it adds and the  *)
(* audit event that audit_mutation (tables/lifecycle.py) stages for it.    *)
(*                                                                         *)
(* Every await of the operation separates two actions.  The observation    *)
(* and its event are staged in one action and committed in the next, since *)
(* another transaction may commit between them.                            *)
(*                                                                         *)
(* Abstracted: a result is its status and checked_at, whole seconds of     *)
(* `clock`; the target that is probed is the host's version.  The 30 s of  *)
(* the lease exceed what the prober's timeouts allow until it has a status *)
(* (21 s), but not the orderly closing of a TLS connection that follows    *)
(* (another 30 s): a lease expires then, or when its holder has died.      *)
(***************************************************************************)
EXTENDS Integers, Sequences

CONSTANTS
    Prober,           \* tasks that call probe on the host
    Free, Stale,      \* the lease is free, or belongs to a dead process
    MaxClock,         \* bound on seconds
    MaxObservations,  \* bound on observations
    MaxCrashes        \* bound on process crashes

ASSUME ProbeConstantsOK ==
    /\ Free \notin Prober /\ Stale \notin Prober /\ Free # Stale
    /\ MaxClock \in Nat /\ MaxObservations \in Nat /\ MaxCrashes \in Nat

VARIABLES
    enabled,       \* the host's row
    clock,         \* time.time()
    step,          \* step[p]: where p is in the operation
    lease,         \* the "proxy-host-probe:<id>" row
    result,        \* result[p]: checked_at and status of p's probe
    event,         \* event[p]: the audit event that p has staged
    observations,  \* committed observations
    flushed,       \* ids handed out
    events,        \* committed proxy_host.health.changed events
    overlapped,    \* history: a probe began before an earlier one's commit
    crashes        \* crashes spent of MaxCrashes

vars == <<enabled, clock, step, lease, result, event, observations, flushed,
          events, overlapped, crashes>>

Status == {"online", "offline"}
ProbeSteps == {"idle", "lease", "probe", "release", "add", "commit"}
Observation == [id : 0..MaxObservations, at : 0..MaxClock, status : Status]
NoEvent == <<>>
Event == {<<s, t>> : s, t \in Status}
Blank == [id |-> 0, at |-> 0, status |-> "online"]

PTypeOK ==
    /\ enabled \in BOOLEAN
    /\ clock \in 0..MaxClock
    /\ step \in [Prober -> ProbeSteps]
    /\ lease \in Prober \cup {Free, Stale}
    /\ result \in [Prober -> Observation]
    /\ event \in [Prober -> Event \cup {NoEvent}]
    /\ observations \in SUBSET Observation
    /\ flushed \in 0..MaxObservations
    /\ events \in Seq(Event)
    /\ overlapped \in BOOLEAN
    /\ crashes \in 0..MaxCrashes

PInit ==
    /\ enabled = TRUE
    /\ clock = 0
    /\ step = [p \in Prober |-> "idle"]
    /\ lease = Free
    /\ result = [p \in Prober |-> Blank]
    /\ event = [p \in Prober |-> NoEvent]
    /\ observations = {}
    /\ flushed = 0
    /\ events = <<>>
    /\ overlapped = FALSE
    /\ crashes = 0

Goto(p, here, there) ==
    /\ step[p] = here
    /\ step' = [step EXCEPT ![p] = there]

-----------------------------------------------------------------------------
\* The row is read; a disabled host is not probed.
ReadHost(p) ==
    /\ enabled
    /\ Goto(p, "idle", "lease")
    /\ UNCHANGED <<enabled, clock, lease, result, event, observations, flushed,
                   events, overlapped, crashes>>

\* LeaseStore.acquire, then the prober starts and takes checked_at.
AcquireLease(p) ==
    /\ lease = Free
    /\ lease' = p
    /\ Goto(p, "lease", "probe")
    /\ result' = [result EXCEPT ![p].at = clock]
    /\ overlapped' = (overlapped \/ \E q \in Prober : step[q] \in {"release", "add", "commit"})
    /\ UNCHANGED <<enabled, clock, event, observations, flushed, events,
                   crashes>>

\* "proxy host probe is already in progress"
LeaseRefused(p) ==
    /\ lease # Free
    /\ Goto(p, "lease", "idle")
    /\ UNCHANGED <<enabled, clock, lease, result, event, observations, flushed,
                   events, overlapped, crashes>>

\* UpstreamProber.probe has its status, by an answer or by one of its
\* timeouts, and goes on to close the connection.
ProbeEnds(p, status) ==
    /\ Goto(p, "probe", "release")
    /\ result' = [result EXCEPT ![p].status = status]
    /\ UNCHANGED <<enabled, clock, lease, event, observations, flushed, events,
                   overlapped, crashes>>

\* The connection is closed.  `finally`: the lease, if it is still p's, is
\* released before the observation is added.
ReleaseLease(p) ==
    /\ Goto(p, "release", "add")
    /\ lease' = IF lease = p THEN Free ELSE lease
    /\ UNCHANGED <<enabled, clock, result, event, observations, flushed,
                   events, overlapped, crashes>>

\* Mutant of Newer: within a second the first observation is the latest.
NewerLowestId(o, q) == o.at > q.at \/ (o.at = q.at /\ o.id < q.id)

Newer(o, q) == o.at > q.at \/ (o.at = q.at /\ o.id > q.id)
Latest(S) == CHOOSE o \in S : \A q \in S \ {o} : Newer(o, q)

\* The event audit_mutation stages when it sees the observations S: the two
\* latest ones differ.
Transition(S) ==
    LET newest == Latest(S)
        before == Latest(S \ {newest})
    IN  IF S \ {newest} = {} \/ before.status = newest.status THEN NoEvent
        ELSE <<before.status, newest.status>>

\* db.add and the PRE_COMMIT hook: p sees what is committed and its own row.
AddObservation(p) ==
    LET own == [result[p] EXCEPT !.id = flushed + 1] IN
    /\ flushed < MaxObservations
    /\ flushed' = flushed + 1
    /\ Goto(p, "add", "commit")
    /\ result' = [result EXCEPT ![p] = own]
    /\ event' = [event EXCEPT ![p] = Transition(observations \cup {own})]
    /\ UNCHANGED <<enabled, clock, lease, observations, events, overlapped, crashes>>

Commit(p) ==
    /\ Goto(p, "commit", "idle")
    /\ observations' = observations \cup {result[p]}
    /\ events' = IF event[p] = NoEvent THEN events ELSE Append(events, event[p])
    /\ result' = [result EXCEPT ![p] = Blank]
    /\ event' = [event EXCEPT ![p] = NoEvent]
    /\ UNCHANGED <<enabled, clock, lease, flushed, overlapped, crashes>>

\* p's process dies; nothing of an uncommitted transaction remains.
Crash(p) ==
    /\ crashes < MaxCrashes
    /\ crashes' = crashes + 1
    /\ step[p] # "idle"
    /\ step' = [step EXCEPT ![p] = "idle"]
    /\ lease' = IF lease = p THEN Stale ELSE lease
    /\ result' = [result EXCEPT ![p] = Blank]
    /\ event' = [event EXCEPT ![p] = NoEvent]
    /\ UNCHANGED <<enabled, clock, observations, flushed, events, overlapped>>

\* Mutant of LeaseExpires: the TTL is shorter than a probe.
LeaseExpiresEarly ==
    /\ lease # Free
    /\ lease' = Free
    /\ UNCHANGED <<enabled, clock, step, result, event, observations, flushed,
                   events, overlapped, crashes>>

\* The TTL passes: the holder is dead, or still closing its connection.
LeaseExpires ==
    /\ \/ lease = Stale
       \/ lease \in Prober /\ step[lease] = "release"
    /\ lease' = Free
    /\ UNCHANGED <<enabled, clock, step, result, event, observations, flushed,
                   events, overlapped, crashes>>

\* The operations `enable` and `disable`.
Toggle ==
    /\ enabled' = ~enabled
    /\ UNCHANGED <<clock, step, lease, result, event, observations, flushed,
                   events, overlapped, crashes>>

Tick ==
    /\ clock < MaxClock
    /\ clock' = clock + 1
    /\ UNCHANGED <<enabled, step, lease, result, event, observations, flushed,
                   events, overlapped, crashes>>

PNext ==
    \/ \E p \in Prober :
          \/ ReadHost(p) \/ AcquireLease(p) \/ LeaseRefused(p)
          \/ \E status \in Status : ProbeEnds(p, status)
          \/ ReleaseLease(p) \/ AddObservation(p) \/ Commit(p) \/ Crash(p)
    \/ LeaseExpires \/ Toggle \/ Tick

PSpec == PInit /\ [][PNext]_vars

-----------------------------------------------------------------------------
(* Properties *)

\* The host's upstream is never probed twice at the same time, whoever asks
\* and also after a process died with the lease ("direct and scheduled
\* probes use the same leased Tigrbl operation", feature-matrix.md PH-12).
OneProbeAtATime ==
    \A p, q \in Prober : (step[p] = "probe" /\ step[q] = "probe") => p = q

EventsContinue ==
    \A i \in 1..(Len(events) - 1) : events[i][2] = events[i + 1][1]

\* While each probe begins after the one before it has been committed, every
\* event continues where the one before it ended, and the last one names the
\* status that health_read reports: no transition is audited twice and none
\* is left out, whatever crashes and however short the time between probes.
SerialAuditFollowsHealth ==
    (~overlapped /\ observations # {}) =>
        /\ EventsContinue
        /\ LET current == Latest(observations).status IN
           IF events = <<>> THEN \A o \in observations : o.status = current
           ELSE events[Len(events)][2] = current

-----------------------------------------------------------------------------
(* What the documentation says and the code does not do *)

\* "Audit only completed health transitions" (feature-matrix.md PH-12): the
\* same for any probes, which "use the same leased Tigrbl operation".
AuditFollowsHealth == EventsContinue
=============================================================================
