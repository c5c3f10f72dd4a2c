--------------------------- MODULE HealthScheduler ---------------------------
(***************************************************************************)
(* Recurring health checks: ProxyHostHealthScheduler                       *)
(* (runtime/health_scheduler.py), the POST_COMMIT hook that wakes it       *)
(* (tables/lifecycle.py, schedule_committed_health_probe), and an API      *)
(* client that probes hosts too.                                           *)
(*                                                                         *)
(* Abstracted: the `probe` operation is three actions, the check of the    *)
(* row, the start of the probe under the host's lease and the observation  *)
(* (HealthProbe has its other steps); a probe's end includes the closing   *)
(* of its connection, which may outlast the lease.  A host's configuration *)
(* is a version, and an observation is the version that was probed.  Time  *)
(* is absent: the interval may always have passed, and checked_at is the   *)
(* order in which probes began, or no order at all, being whole seconds.   *)
(***************************************************************************)
EXTENDS Integers, FiniteSets

CONSTANTS
    Host,          \* proxy hosts
    Concurrency,   \* permits of the semaphore (20)
    MaxEdits,      \* bound on edits of each host
    MaxDirect,     \* bound on probes by API clients
    MaxFaults      \* bound on failing health_list calls

ASSUME SchedulerConstantsOK ==
    /\ IsFiniteSet(Host)
    /\ Concurrency \in Nat \ {0}
    /\ MaxEdits \in Nat /\ MaxDirect \in Nat /\ MaxFaults \in Nat

VARIABLES
    version,    \* version[h]: the host's committed configuration
    enabled,    \* hosts that are enabled
    unwoken,    \* commits whose POST_COMMIT hook has not called wake() yet
    wake,       \* _wake.is_set()
    loop,       \* where _run is
    todo,       \* _probe tasks of the sweep that have no permit
    step,       \* step[who][h]: who's probe operation on host h
    aim,        \* aim[who][h]: the version read by it
    holder,     \* holder[h]: who holds the host's lease, or "none"
    rank,       \* rank[who][h]: has a later probe of h begun, or been recorded?
    observed,   \* observed[h]: version of the latest observation, -1: none
    owed,       \* history: wake() was called after the sweep's health_list
    direct,     \* probes spent of MaxDirect
    faults      \* failures spent of MaxFaults

vars == <<version, enabled, unwoken, wake, loop, todo, step, aim, holder,
          rank, observed, owed, direct, faults>>

\* The sweep's tasks and the API client's requests.
Who == {"sweep", "client"}
Version == 0..MaxEdits

STypeOK ==
    /\ version \in [Host -> Version]
    /\ enabled \in SUBSET Host
    /\ unwoken \in SUBSET Host
    /\ wake \in BOOLEAN
    /\ loop \in {"off", "list", "gather", "wait", "dead"}
    /\ todo \in SUBSET Host
    /\ step \in [Who -> [Host -> {"idle", "read", "probe", "add"}]]
    /\ aim \in [Who -> [Host -> Version]]
    /\ holder \in [Host -> Who \cup {"none"}]
    /\ rank \in [Who -> [Host -> {"newest", "overtaken", "beaten"}]]
    /\ observed \in [Host -> Version \cup {-1}]
    /\ owed \in BOOLEAN
    /\ direct \in 0..MaxDirect
    /\ faults \in 0..MaxFaults

SInit ==
    /\ version = [h \in Host |-> 0]
    /\ enabled = Host
    /\ unwoken = {}
    /\ wake = FALSE
    /\ loop = "off"
    /\ todo = {}
    /\ step = [w \in Who |-> [h \in Host |-> "idle"]]
    /\ aim = [w \in Who |-> [h \in Host |-> 0]]
    /\ holder = [h \in Host |-> "none"]
    /\ rank = [w \in Who |-> [h \in Host |-> "newest"]]
    /\ observed = [h \in Host |-> -1]
    /\ owed = FALSE
    /\ direct = 0
    /\ faults = 0

hostVars  == <<version, enabled, unwoken>>
loopVars  == <<wake, loop, todo, owed, faults>>
probeVars == <<step, aim, holder, rank, observed, direct>>

-----------------------------------------------------------------------------
(* Hosts *)

\* create, update, replace: the hook comes after the commit, and after the
\* reconciliation that the commit also triggers.
Edit(h) ==
    /\ version[h] < MaxEdits
    /\ version' = [version EXCEPT ![h] = @ + 1]
    /\ unwoken' = unwoken \cup {h}
    /\ UNCHANGED <<enabled, loopVars, probeVars>>

Enable(h) ==
    /\ h \notin enabled /\ version[h] < MaxEdits
    /\ version' = [version EXCEPT ![h] = @ + 1]
    /\ enabled' = enabled \cup {h}
    /\ unwoken' = unwoken \cup {h}
    /\ UNCHANGED <<loopVars, probeVars>>

\* `disable` wakes nobody.
Disable(h) ==
    /\ h \in enabled
    /\ enabled' = enabled \ {h}
    /\ UNCHANGED <<version, unwoken, loopVars, probeVars>>

Wake(h) ==
    /\ h \in unwoken
    /\ unwoken' = unwoken \ {h}
    /\ wake' = TRUE
    /\ owed' = TRUE
    /\ UNCHANGED <<version, enabled, loop, todo, faults, probeVars>>

-----------------------------------------------------------------------------
(* _run and sweep *)

\* start(), by the API's lifespan.
StartLoop ==
    /\ loop = "off"
    /\ loop' = "list"
    /\ UNCHANGED <<wake, todo, owed, faults, hostVars, probeVars>>

\* Mutant of List: only hosts without an observation are probed.
ListUnknown ==
    /\ loop = "list"
    /\ loop' = "gather"
    /\ todo' = {h \in enabled : observed[h] = -1}
    /\ owed' = FALSE
    /\ UNCHANGED <<wake, faults, hostVars, probeVars>>

\* health_list, and one _probe task per enabled host.
List ==
    /\ loop = "list"
    /\ loop' = "gather"
    /\ todo' = enabled
    /\ owed' = FALSE
    /\ UNCHANGED <<wake, faults, hostVars, probeVars>>

\* health_list raises: nothing in _run catches it and the task ends.
ListFails ==
    /\ loop = "list"
    /\ faults < MaxFaults
    /\ faults' = faults + 1
    /\ loop' = "dead"
    /\ UNCHANGED <<wake, todo, owed, hostVars, probeVars>>

Busy == {h \in Host : step["sweep"][h] # "idle"}

\* gather() returned; the event is cleared before it is waited for.
SweepEnds ==
    /\ loop = "gather"
    /\ todo = {} /\ Busy = {}
    /\ loop' = "wait"
    /\ wake' = FALSE
    /\ UNCHANGED <<todo, owed, faults, hostVars, probeVars>>

\* wait_for(): the event was set, or the interval has passed.
NextSweep ==
    /\ loop = "wait"
    /\ loop' = "list"
    /\ UNCHANGED <<wake, todo, owed, faults, hostVars, probeVars>>

-----------------------------------------------------------------------------
(* The probe operation *)

At(w, h, there) == step' = [step EXCEPT ![w][h] = there]

\* A _probe task gets a permit and reads the row; ValueError if disabled.
ReadForSweep(h) ==
    /\ h \in todo
    /\ Cardinality(Busy) < Concurrency
    /\ todo' = todo \ {h}
    /\ IF h \in enabled
       THEN At("sweep", h, "read") /\ aim' = [aim EXCEPT !["sweep"][h] = version[h]]
       ELSE UNCHANGED <<step, aim>>
    /\ UNCHANGED <<wake, loop, owed, faults, hostVars, holder, rank, observed,
                   direct>>

\* A client's request reads the row.
ReadForClient(h) ==
    /\ direct < MaxDirect /\ h \in enabled
    /\ step["client"][h] = "idle"
    /\ direct' = direct + 1
    /\ At("client", h, "read")
    /\ aim' = [aim EXCEPT !["client"][h] = version[h]]
    /\ UNCHANGED <<hostVars, loopVars, holder, rank, observed>>

\* rank, where the others' probes of h that had rank `from` now have `to`.
Outranked(w, h, from, to) ==
    [u \in Who |-> [rank[u] EXCEPT
        ![h] = IF u # w /\ step[u][h] \in {"probe", "add"} /\ @ = from
               THEN to ELSE @]]

\* The lease is acquired and the prober takes checked_at.
StartProbe(w, h) ==
    /\ step[w][h] = "read"
    /\ holder[h] = "none"
    /\ holder' = [holder EXCEPT ![h] = w]
    /\ At(w, h, "probe")
    /\ rank' = Outranked(w, h, "newest", "overtaken")
    /\ UNCHANGED <<hostVars, loopVars, aim, observed, direct>>

\* "proxy host probe is already in progress": logged, or told the client.
ProbeRefused(w, h) ==
    /\ step[w][h] = "read"
    /\ holder[h] # "none"
    /\ At(w, h, "idle")
    /\ UNCHANGED <<hostVars, loopVars, aim, holder, rank, observed, direct>>

\* The result is there and the lease, if it is still w's, is released.
ProbeEnds(w, h) ==
    /\ step[w][h] = "probe"
    /\ holder' = [holder EXCEPT ![h] = IF @ = w THEN "none" ELSE @]
    /\ At(w, h, "add")
    /\ UNCHANGED <<hostVars, loopVars, aim, rank, observed, direct>>

\* The holder is still closing its connection when the TTL passes.
LeaseExpires(h) ==
    /\ holder[h] # "none"
    /\ holder' = [holder EXCEPT ![h] = "none"]
    /\ UNCHANGED <<hostVars, loopVars, step, aim, rank, observed, direct>>

\* The observation commits.  It is the latest one unless a probe that began
\* later has been recorded; within one second the higher id wins.
Observe(w, h) ==
    /\ step[w][h] = "add"
    /\ At(w, h, "idle")
    /\ \/ observed' = [observed EXCEPT ![h] = aim[w][h]]
       \/ rank[w][h] = "beaten" /\ UNCHANGED observed
    /\ rank' = IF rank[w][h] = "newest"
               THEN Outranked(w, h, "overtaken", "beaten")
               ELSE [rank EXCEPT ![w][h] = "newest"]
    /\ UNCHANGED <<hostVars, loopVars, aim, holder, direct>>

ProbeStep(w, h) == StartProbe(w, h) \/ ProbeRefused(w, h) \/ ProbeEnds(w, h) \/ Observe(w, h)

SNext ==
    \/ \E h \in Host :
          \/ Edit(h) \/ Enable(h) \/ Disable(h) \/ Wake(h)
          \/ ReadForSweep(h) \/ ReadForClient(h) \/ LeaseExpires(h)
          \/ \E w \in Who : ProbeStep(w, h)
    \/ StartLoop \/ List \/ ListFails \/ SweepEnds \/ NextSweep

SSpec == SInit /\ [][SNext]_vars

\* The event loop runs what is ready, probes end by their timeouts, and the
\* interval passes; nobody has to edit, probe by hand or fail.
SchedulerFairness ==
    /\ WF_vars(StartLoop) /\ WF_vars(List) /\ WF_vars(SweepEnds)
    /\ WF_vars(NextSweep)
    /\ \A h \in Host : WF_vars(Wake(h)) /\ WF_vars(ReadForSweep(h))
    /\ \A w \in Who, h \in Host : WF_vars(ProbeStep(w, h))

FairSSpec == SSpec /\ SchedulerFairness

-----------------------------------------------------------------------------
(* Properties *)

\* Whatever overlaps, however late an answer and whichever wake-ups are
\* lost: once a host is left alone, its latest observation is, and stays,
\* one of its current configuration (_run repeats the sweep), unless the
\* scheduler's task has died.
EventuallyCurrent ==
    \A h \in Host :
        <>(loop = "dead") \/ <>[](h \in enabled => observed[h] = version[h])

-----------------------------------------------------------------------------
(* What the documentation says and the code does not do *)

\* "Recurring proxy-host health checks" (health_scheduler.py): there is
\* always another sweep.
ChecksRecur == []<>(loop = "gather")

\* "Wake the scheduler after a committed proxy-host configuration change"
\* (lifecycle.py): a scheduler that waits has swept since the last wake().
WakeIsHonoured == (loop = "wait" /\ owed) => wake
=============================================================================
