-------------------------- MODULE RuntimeController --------------------------
(***************************************************************************)
(* Configuration delivery end to end: requests commit desired state, the   *)
(* post-commit hook (tables/lifecycle.py) asks TableRuntimeController      *)
(* (runtime/controller.py) to reconcile, and the controller renders the    *)
(* tables, takes its asyncio lock and the database lease, runs             *)
(* Reconciler.reconcile in a thread, records the outcome and releases.     *)
(*                                                                         *)
(* A task is the coroutine of one request, or of the reconciliation a      *)
(* process performs while it boots; its thread is the Reconciler worker of *)
(* the same name.  Every await of the coroutine separates two actions.     *)
(*                                                                         *)
(* Abstracted: the tables are a few parts that are read one at a time, and *)
(* a part's content is the number of commits to it, so a rendered          *)
(* configuration maps parts to counts.  Time is absent: a lease that has   *)
(* outlived its TTL is one that LeaseExpires may free.                     *)
(***************************************************************************)
EXTENDS Reconciler, Sequences

CONSTANTS
    Unrenderable, \* desired states that render() refuses to compile
    NParts,       \* render() reads parts 1..NParts, in this order
    MaxCommits,   \* bound on committed mutations
    SlowHolders,  \* may a reconciliation outlive its lease's TTL?
    Free, Stale   \* lease states beside "held by p's controller"

Part    == 1..NParts
Version == 0..MaxCommits

ASSUME ControllerConstantsOK ==
    /\ NParts \in Nat \ {0}
    /\ MaxCommits \in Nat
    /\ SlowHolders \in BOOLEAN
    /\ Generation = [Part -> Version]
    /\ Unrenderable \subseteq Generation
    /\ Free \notin Process /\ Stale \notin Process /\ Free # Stale

VARIABLES
    desired,    \* desired[i]: the committed content of part i
    tpc,        \* tpc[t]: where task t's coroutine is
    rendered,   \* rendered[t]: what render() has read, part by part
    reading,    \* reading[t]: the part render() reads next
    wrote,      \* history: wrote[t], the commit t's request made (0: none)
    ended,      \* ended[t]: how t's last reconciliation ended
    attempt,    \* attempt[t]: it left a ReconcileStore row
    queue,      \* queue[p]: asyncio.Lock, the head owns it, the rest wait
    applying,   \* applying[p]: _applying_host_ids is not empty
    booted,     \* booted[p]: this phase's reconciliation has succeeded
    lease,      \* the "nginx-reconcile" row of runtime_leases
    rows,       \* rows[g]: GenerationStore's row of g, its `state`
    dbActive    \* generations whose row has is_active

taskVars == <<tpc, rendered, reading, wrote, ended, attempt>>
dbVars   == <<rows, dbActive>>
cVars    == <<desired, taskVars, queue, applying, booted, lease, dbVars>>
vars     == <<rVars, cVars>>

TaskSteps == {"idle", "render", "lock", "lease", "thread", "activate",
              "attempt", "release"}

\* The coroutine is between the asyncio lock's acquisition and release.
Holding == TaskSteps \ {"idle", "render", "lock"}
\* ... and the lease has been acquired.
Leased  == Holding \ {"lease"}

TasksIdle(p) == \A t \in Worker : ProcOf[t] = p => tpc[t] = "idle"

TypeOK ==
    /\ RTypeOK
    /\ desired \in Generation
    /\ tpc \in [Worker -> TaskSteps]
    /\ rendered \in [Worker -> Generation]
    /\ reading \in [Worker -> 1..NParts + 1]
    /\ wrote \in [Worker -> [part : Part, version : Version]]
    /\ ended \in [Worker -> {"none", "applied", "raised"}]
    /\ attempt \in [Worker -> BOOLEAN]
    /\ queue \in [Process -> Seq(Worker)]
    /\ applying \in [Process -> BOOLEAN]
    /\ booted \in [Process -> BOOLEAN]
    /\ lease \in Process \cup {Free, Stale}
    /\ rows \in [Generation -> {"absent", "active", "failed"}]
    /\ dbActive \in SUBSET Generation

Blank == [i \in Part |-> 0]

Init ==
    /\ RInit
    /\ desired = Blank
    /\ tpc = [t \in Worker |-> "idle"]
    /\ rendered = [t \in Worker |-> Blank]
    /\ reading = [t \in Worker |-> 1]
    /\ wrote = [t \in Worker |-> [part |-> 1, version |-> 0]]
    /\ ended = [t \in Worker |-> "none"]
    /\ attempt = [t \in Worker |-> FALSE]
    /\ queue = [p \in Process |-> <<>>]
    /\ applying = [p \in Process |-> FALSE]
    /\ booted = [p \in Process |-> FALSE]
    /\ lease = Free
    /\ rows = [g \in Generation |-> "absent"]
    /\ dbActive = {}

-----------------------------------------------------------------------------
(* Helpers *)

Await(t, here, there) ==
    /\ tpc[t] = here
    /\ tpc' = [tpc EXCEPT ![t] = there]

\* Task t starts a reconciliation on behalf of the commit w.
Start(t, w) ==
    /\ Await(t, "idle", "render")
    /\ wrote' = [wrote EXCEPT ![t] = w]
    /\ ended' = [ended EXCEPT ![t] = "none"]
    /\ attempt' = [attempt EXCEPT ![t] = FALSE]
    /\ UNCHANGED <<rendered, reading, queue, applying, booted, lease, dbVars>>

NoWrite == [part |-> 1, version |-> 0]

\* Mutant of TaskForgets: a process that ends has no tasks any more.
TaskForgotten(p, f, initially) == [t \in {u \in Worker : ProcOf[u] # p} |-> f[t]]

\* f with every task of p back at its initial value.
TaskForgets(p, f, initially) ==
    [t \in Worker |-> IF ProcOf[t] = p THEN initially ELSE f[t]]

\* The process goes down and its coroutines with it; its lease row stays,
\* and no later controller has the same holder id.
ProcessEnds(p) ==
    /\ tpc' = TaskForgets(p, tpc, "idle")
    /\ rendered' = TaskForgets(p, rendered, Blank)
    /\ reading' = TaskForgets(p, reading, 1)
    /\ wrote' = TaskForgets(p, wrote, NoWrite)
    /\ ended' = TaskForgets(p, ended, "none")
    /\ attempt' = TaskForgets(p, attempt, FALSE)
    /\ queue' = [queue EXCEPT ![p] = <<>>]
    /\ applying' = [applying EXCEPT ![p] = FALSE]
    /\ booted' = [booted EXCEPT ![p] = FALSE]
    /\ UNCHANGED <<desired, dbVars>>

\* reconcile() returns or raises.
TaskEnds(t, how) ==
    /\ tpc' = [tpc EXCEPT ![t] = "idle"]
    /\ rendered' = [rendered EXCEPT ![t] = Blank]
    /\ reading' = [reading EXCEPT ![t] = 1]
    /\ wrote' = [wrote EXCEPT ![t] = NoWrite]
    /\ ended' = [ended EXCEPT ![t] = how]
    /\ UNCHANGED <<desired, attempt, dbVars>>

\* Mutant of LeaveReconcile: an exception leaves the asyncio lock taken.
LeaveReconcileLocked(t, how) ==
    LET p == ProcOf[t] IN
    /\ TaskEnds(t, how)
    /\ queue' = [queue EXCEPT ![p] = IF how = "raised" THEN @ ELSE Tail(@)]
    /\ applying' = [applying EXCEPT ![p] = FALSE]

\* The coroutine leaves `async with self._lock` and reconcile(), whose
\* `finally` clears the process-wide set of applying hosts.
LeaveReconcile(t, how) ==
    LET p == ProcOf[t] IN
    /\ TaskEnds(t, how)
    /\ queue' = [queue EXCEPT ![p] = Tail(@)]
    /\ applying' = [applying EXCEPT ![p] = FALSE]

-----------------------------------------------------------------------------
(* What starts a reconciliation *)

\* A mutation of part i commits; POST_COMMIT calls runtime.changed().
Commit(t, i) ==
    /\ phase[ProcOf[t]] = "serving"
    /\ desired[i] < MaxCommits
    /\ desired' = [desired EXCEPT ![i] = @ + 1]
    /\ Start(t, [part |-> i, version |-> desired[i] + 1])
    /\ UNCHANGED rVars

\* The `reconcile` operation of GenerationStore.
Reconcile(t) ==
    /\ phase[ProcOf[t]] = "serving"
    /\ Start(t, NoWrite)
    /\ UNCHANGED <<rVars, desired>>

\* prepare_runtime() and, later, the API's lifespan.
BootReconcile(t) ==
    /\ phase[ProcOf[t]] \in {"preparing", "starting"}
    /\ ~booted[ProcOf[t]]
    /\ TasksIdle(ProcOf[t])
    /\ Start(t, NoWrite)
    /\ UNCHANGED <<rVars, desired>>

-----------------------------------------------------------------------------
(* TableRuntimeController.reconcile *)

\* What render() has read, with the part that it reads next.
Seen(t) == [rendered[t] EXCEPT ![reading[t]] = desired[reading[t]]]

\* render() reads the tables one after another, outside every lock.  After
\* the last one the rendered hosts are applying and the task queues up.
ReadPart(t) ==
    LET i == reading[t] IN
    /\ tpc[t] = "render"
    /\ rendered' = [rendered EXCEPT ![t] = Seen(t)]
    /\ reading' = [reading EXCEPT ![t] = i + 1]
    /\ \/ /\ i < NParts
          /\ UNCHANGED <<tpc, queue, applying>>
       \/ /\ i = NParts /\ Seen(t) \notin Unrenderable
          /\ tpc' = [tpc EXCEPT ![t] = "lock"]
          /\ queue' = [queue EXCEPT ![ProcOf[t]] = Append(@, t)]
          /\ applying' = [applying EXCEPT ![ProcOf[t]] = TRUE]
    /\ UNCHANGED <<rVars, desired, wrote, ended, attempt, booted, lease,
                   dbVars>>

\* The renderer refuses what was read (merge_access_lists raises, a URL does
\* not parse): before the locks, and before any host is marked as applying.
\* A booting process does not survive it.
RenderFails(t) ==
    /\ tpc[t] = "render" /\ reading[t] = NParts
    /\ Seen(t) \in Unrenderable
    /\ \/ /\ phase[ProcOf[t]] = "serving"
          /\ TaskEnds(t, "raised")
          /\ UNCHANGED <<rVars, queue, applying, booted, lease>>
       \/ /\ phase[ProcOf[t]] # "serving"
          /\ Stop(ProcOf[t])
          /\ ProcessEnds(ProcOf[t])
          /\ UNCHANGED <<crashes, lease>>

\* Mutant of TakeLock: the controller has no lock of its own.
TakeLockAnyTime(t) ==
    /\ Await(t, "lock", "lease")
    /\ UNCHANGED <<rVars, desired, rendered, reading, wrote, ended, attempt,
                   queue, applying, booted, lease, dbVars>>

\* asyncio.Lock is fair: the longest waiter gets it.
TakeLock(t) ==
    /\ Await(t, "lock", "lease")
    /\ Head(queue[ProcOf[t]]) = t
    /\ UNCHANGED <<rVars, desired, rendered, reading, wrote, ended, attempt,
                   queue, applying, booted, lease, dbVars>>

\* Mutant of AcquireLease: somebody else's row is overwritten.
AcquireLeaseAnyhow(t) ==
    /\ lease' = ProcOf[t]
    /\ Await(t, "lease", "thread")
    /\ StartThread(t, rendered[t])
    /\ UNCHANGED <<desired, rendered, reading, wrote, ended, attempt, queue,
                   applying, booted, dbVars>>

\* LeaseStore.acquire: an expired row, or one of the same holder, is taken.
\* Reading the row and writing it is one step: control planes share PostgreSQL,
\* where FOR UPDATE makes the takers of a row wait for each other and the
\* unique name makes the second of two inserts raise, as LeaseRefused does.
\* (On SQLite, which ignores FOR UPDATE, there is one control plane.)
AcquireLease(t) ==
    /\ lease \in {Free, ProcOf[t]}
    /\ lease' = ProcOf[t]
    /\ Await(t, "lease", "thread")
    /\ StartThread(t, rendered[t])
    /\ UNCHANGED <<desired, rendered, reading, wrote, ended, attempt, queue,
                   applying, booted, dbVars>>

\* Somebody else's row: RuntimeError, before the `try` that persists.
\* A booting process does not survive it.
LeaseRefused(t) ==
    /\ tpc[t] = "lease"
    /\ lease \notin {Free, ProcOf[t]}
    /\ UNCHANGED lease
    /\ \/ /\ phase[ProcOf[t]] = "serving"
          /\ LeaveReconcile(t, "raised")
          /\ UNCHANGED <<rVars, booted>>
       \/ /\ phase[ProcOf[t]] # "serving"
          /\ Stop(ProcOf[t])
          /\ ProcessEnds(ProcOf[t])
          /\ UNCHANGED crashes

\* asyncio.to_thread(self.reconciler.reconcile, files)
RunThread(t) ==
    /\ tpc[t] = "thread"
    /\ ThreadStep(t)
    /\ UNCHANGED cVars

\* Mutant of PersistRecord: nothing is recorded when nothing was changed.
PersistRecordChanges(t) ==
    /\ tpc[t] = "thread" /\ pc[t] = "done"
    /\ IF outcome[t] = "unchanged" THEN UNCHANGED dbVars
       ELSE /\ rows' = [rows EXCEPT
                  ![rendered[t]] = IF Succeeded(t) THEN "active" ELSE "failed"]
            /\ dbActive' = dbActive \ {rendered[t]}
    /\ tpc' = [tpc EXCEPT
          ![t] = IF outcome[t] = "applied" THEN "activate" ELSE "attempt"]
    /\ UNCHANGED <<rVars, desired, rendered, reading, wrote, ended, attempt,
                   queue, applying, booted, lease>>

\* _persist(), first await: GenerationStore.record.  is_active is reset even
\* when the generation is the active one; GenerationStore.activate sets it.
PersistRecord(t) ==
    /\ tpc[t] = "thread" /\ pc[t] = "done"
    /\ rows' = [rows EXCEPT
          ![rendered[t]] = IF Succeeded(t) THEN "active" ELSE "failed"]
    /\ dbActive' = dbActive \ {rendered[t]}
    /\ tpc' = [tpc EXCEPT
          ![t] = IF Succeeded(t) THEN "activate" ELSE "attempt"]
    /\ UNCHANGED <<rVars, desired, rendered, reading, wrote, ended, attempt,
                   queue, applying, booted, lease>>

\* Second await: GenerationStore.activate, one transaction.
PersistActivate(t) ==
    /\ Await(t, "activate", "attempt")
    /\ rows' = [rows EXCEPT ![rendered[t]] = "active"]
    /\ dbActive' = {rendered[t]}
    /\ UNCHANGED <<rVars, desired, rendered, reading, wrote, ended, attempt,
                   queue, applying, booted, lease>>

\* The rest: the ReconcileStore row and the hosts' revisions.
PersistAttempt(t) ==
    /\ Await(t, "attempt", "release")
    /\ attempt' = [attempt EXCEPT ![t] = TRUE]
    /\ UNCHANGED <<rVars, desired, rendered, reading, wrote, ended, queue,
                   applying, booted, lease, dbVars>>

\* `finally`: LeaseStore.release deletes the row if it is still this
\* process's.  A process whose boot reconciliation failed goes down.
ReleaseLease(t) ==
    LET p == ProcOf[t] IN
    /\ tpc[t] = "release"
    /\ lease' = IF lease = p THEN Free ELSE lease
    /\ \/ /\ phase[p] = "serving" \/ Succeeded(t)
          /\ LeaveReconcile(t, IF Succeeded(t) THEN "applied" ELSE "raised")
          /\ booted' = [booted EXCEPT ![p] = phase[p] # "serving"]
          /\ Collect(t)
       \/ /\ phase[p] # "serving" /\ ~Succeeded(t)
          /\ Stop(p)
          /\ ProcessEnds(p)
          /\ UNCHANGED crashes

-----------------------------------------------------------------------------
(* The process and its lease *)

NextPhase(p) ==
    /\ booted[p]
    /\ StartNginx(p) \/ Serve(p)
    /\ booted' = [booted EXCEPT ![p] = FALSE]
    /\ UNCHANGED <<desired, taskVars, queue, applying, lease, dbVars>>

\* Nothing was ever published: Nginx exits and the supervisor follows.
NginxCannotStart(p) ==
    /\ phase[p] = "preparing" /\ booted[p]
    /\ current = NoGeneration
    /\ Stop(p)
    /\ ProcessEnds(p)
    /\ UNCHANGED <<crashes, lease>>

ProcessBoots(p) ==
    /\ Boot(p)
    /\ UNCHANGED cVars

ProcessCrashes(p) ==
    /\ Crash(p)
    /\ ProcessEnds(p)
    /\ lease' = IF lease = p THEN Stale ELSE lease

\* Mutant of LeaseExpires: an expired row is not taken over.
LeaseOutlivesHolder ==
    /\ SlowHolders /\ lease \in Process
    /\ lease' = Free
    /\ UNCHANGED <<rVars, desired, taskVars, queue, applying, booted, dbVars>>

\* The TTL passes.  Nothing renews the lease of a reconciliation that is
\* still running: LeaseStore.renew has no caller.
LeaseExpires ==
    /\ \/ lease = Stale
       \/ SlowHolders /\ lease \in Process
    /\ lease' = Free
    /\ UNCHANGED <<rVars, desired, taskVars, queue, applying, booted, dbVars>>

TaskStep(t) ==
    \/ ReadPart(t) \/ RenderFails(t)
    \/ TakeLock(t) \/ AcquireLease(t) \/ LeaseRefused(t)
    \/ RunThread(t) \/ PersistRecord(t) \/ PersistActivate(t)
    \/ PersistAttempt(t) \/ ReleaseLease(t)

ProcessStep(p) ==
    \/ ProcessBoots(p) \/ NextPhase(p) \/ NginxCannotStart(p)

Next ==
    \/ \E t \in Worker :
          \/ \E i \in Part : Commit(t, i)
          \/ Reconcile(t)
          \/ BootReconcile(t)
          \/ TaskStep(t)
    \/ \E p \in Process : ProcessStep(p) \/ ProcessCrashes(p)
    \/ LeaseExpires

Spec == Init /\ [][Next]_vars

(***************************************************************************)
(* Fairness: an event loop that keeps running its ready coroutines and     *)
(* threads that are scheduled, a container restart policy, boot code that  *)
(* goes on, and time.  Nobody is obliged to commit or to reconcile.        *)
(***************************************************************************)
Fairness ==
    /\ \A t \in Worker : WF_vars(TaskStep(t)) /\ WF_vars(BootReconcile(t))
    /\ \A p \in Process : WF_vars(ProcessStep(p))
    /\ WF_vars(LeaseExpires)

FairSpec == Spec /\ Fairness

-----------------------------------------------------------------------------
(* Properties *)

\* "Serialize ..." (Reconciler): at any time at most one thread of all
\* processes is between reading ACTIVE and its return.  threading.Lock and
\* asyncio.Lock give that inside a process, the database lease between
\* processes, also across a crash that leaves its row behind.
OneReconcilerAtATime ==
    \A t, u \in Worker :
        (pc[t] \in Critical /\ pc[u] \in Critical) => t = u

\* When every process serves and none reconciles, the generation the
\* database calls active is the one ACTIVE names: _persist() keeps the two
\* in step although record() and activate() are separate transactions, and
\* a crash between disk and database is repaired by the reconciliation
\* that every boot performs, even though it finds nothing to change.  Only a
\* generation that a failing restore left in ACTIVE is recorded as failed.
DatabaseAgreesWithDisk ==
    ((\A p \in Process : phase[p] = "serving" /\ TasksIdle(p))
       /\ active \notin abandoned) =>
        dbActive = {active}

\* A reconciliation that is reported as applied has put a configuration in
\* force that contains the change its request committed: whatever was
\* rendered while it waited for the locks, nothing older replaces its own
\* work before its outcome is recorded (controller.py, reconcile).
AppliedIncludesOwnWrite ==
    \A t \in Worker :
        (tpc[t] \in {"activate", "attempt", "release"} /\ Succeeded(t)) =>
            /\ active # NoGeneration
            /\ active[wrote[t].part] >= wrote[t].version

\* Every reconciliation that starts ends: nobody waits forever for the
\* asyncio lock, the thread lock or a lease whose holder crashed.
EveryReconcileEnds ==
    \A t \in Worker : tpc[t] = "render" ~> tpc[t] = "idle"

\* Once anything has been published, a control plane that is down comes back
\* and serves, also when its own crash left the lease row behind (compose.yaml
\* restarts the container; LeaseStore.acquire takes over an expired row) -
\* unless the committed state is one that render() or `nginx -t` refuses, and
\* provided that crashes, failing commands and failing writes cease: their
\* numbers are bounded by MaxCrashes and MaxFaults.
RecoversOncePublished ==
    \A p \in Process :
        (phase[p] = "down" /\ current # NoGeneration)
        ~> (phase[p] = "serving" \/ desired \in Refused \cup Unrenderable)

-----------------------------------------------------------------------------
(* What the documentation says and the code does not do *)

\* "Routing, access, certificate, and setting changes enqueue reconciliation
\* after commit" (architecture.md): once every reconciliation is over and
\* none failed, the configuration in force is the desired one.
SettledMatchesDesired ==
    (\A t \in Worker :
        /\ phase[ProcOf[t]] = "serving"
        /\ tpc[t] = "idle" /\ ended[t] = "applied")
    => active = desired

\* A reconciliation that succeeds "atomically switches the active
\* generation, reloads Nginx, and persists the generation and reconcile
\* result" (architecture.md): after it has been recorded, the Nginx of its
\* process runs the recorded generation.
AppliedIsServed ==
    \A t \in Worker :
        (tpc[t] = "release" /\ Succeeded(t) /\ phase[ProcOf[t]] = "serving")
        => nginx[ProcOf[t]] = rendered[t]

\* prepare_runtime() must "create the initial immutable generation before
\* Nginx starts" (entrypoint.py): when it has succeeded there is a `current`
\* for Nginx to start on.
PreparedIsPublished ==
    \A p \in Process :
        (phase[p] = "preparing" /\ booted[p]) => current # NoGeneration

\* "The runtime controller persists its failed reconcile attempt"
\* (lifecycle.py, reconcile_committed_change).
FailedAttemptIsPersisted ==
    \A t \in Worker : (tpc[t] = "idle" /\ ended[t] = "raised") => attempt[t]

\* is_host_applying() reports a host as applying while a configuration that
\* contains it waits, is validated, published or recorded.
ApplyingIsReported ==
    \A t \in Worker :
        tpc[t] \in Holding \cup {"lock"} => applying[ProcOf[t]]

\* "Crash consistency: kill processes during ... Nginx test/reload ...; target
\* recovers without split authority or unrelated outage" (feature-matrix.md),
\* the runtime having retained its last-known-good generation
\* (tigrbl-proof-migration.md): what was published once is served again.
RecoversFromCrash ==
    \A p \in Process :
        (phase[p] = "down" /\ current # NoGeneration) ~> phase[p] = "serving"
=============================================================================
