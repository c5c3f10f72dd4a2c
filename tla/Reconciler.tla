----------------------------- MODULE Reconciler -----------------------------
(***************************************************************************)
(* The filesystem half of configuration delivery: GenerationStore and      *)
(* Reconciler (runtime/reconcile.py), the publisher that repoints          *)
(* `current` (runtime/publisher.py) and the Nginx commands                 *)
(* (runtime/hooks.py), for any number of control-plane processes that      *)
(* share one runtime root and run one Nginx each.                          *)
(*                                                                         *)
(* A worker is the thread that runs Reconciler.reconcile.  Each of its     *)
(* filesystem operations that another process, or a crash, can separate    *)
(* from the next one is an action of its own.  Writing a temporary file    *)
(* or directory and os.replace-ing it is one atomic action.                *)
(*                                                                         *)
(* Abstracted: a generation is identified with its content (its id is the  *)
(* SHA-256 of its files), so a directory `generations/<id>` always holds   *)
(* what the id says.  Diagnostics are not kept.                            *)
(***************************************************************************)
EXTENDS Integers

CONSTANTS
    Process,        \* control-plane processes (deploy/entrypoint.py main)
    Worker,         \* threads that run Reconciler.reconcile
    ProcOf,         \* the process a worker belongs to
    Generation,     \* rendered configurations
    Refused,        \* those that `nginx -t` refuses, whenever it is asked
    NoGeneration,   \* "no generation": an absent manifest, link or Nginx
    NoWorker,       \* "the lock is free"
    MaxFaults,      \* bound on failing commands, publications and writes
    MaxCrashes      \* bound on process crashes

ASSUME ConstantsOK ==
    /\ ProcOf \in [Worker -> Process]
    /\ NoGeneration \notin Generation
    /\ NoWorker \notin Worker
    /\ Refused \subseteq Generation
    /\ MaxFaults \in Nat
    /\ MaxCrashes \in Nat

VARIABLES
    phase,        \* phase[p]: where p is in its life, see Phases
    nginx,        \* nginx[p]: the configuration p's Nginx has loaded
    lock,         \* lock[p]: owner of Reconciler._lock
    pc,           \* pc[w]: the next operation of reconcile()
    files,        \* files[w]: the candidate, reconcile()'s argument
    previous,     \* previous[w]: reconcile()'s local `previous`
    outcome,      \* outcome[w]: how reconcile() ended
    generations,  \* generations/<id> directories
    active,       \* the ACTIVE manifest
    current,      \* target of the `current` link
    validated,    \* history: generations that have passed `nginx -t`
    abandoned,    \* history: generations that a failed rollback left in ACTIVE
    faults,       \* failures spent of MaxFaults
    crashes       \* crashes spent of MaxCrashes

diskVars   == <<generations, active, current>>
threadVars == <<pc, files, previous, outcome>>
history    == <<validated, abandoned>>
rVars      == <<phase, nginx, lock, threadVars, diskVars, history, faults,
                crashes>>

(***************************************************************************)
(* A process prepares a generation before Nginx runs (prepare_runtime,     *)
(* reconciling with nginx_reload off), then starts Nginx and the API,      *)
(* whose lifespan reconciles once more, and then serves requests.          *)
(***************************************************************************)
Phases   == {"down", "preparing", "starting", "serving"}
Outcomes == {"none", "unchanged", "applied", "failed"}
Steps    == {"idle", "begin", "stage", "install", "validate", "activate",
             "publish", "reload", "rollback", "republish", "rereload",
             "done"}

Maybe(S)      == S \cup {NoGeneration}
\* Between Begin and its return the thread owns Reconciler._lock.
Critical      == Steps \ {"idle", "begin", "done"}
Succeeded(w)  == outcome[w] \in {"applied", "unchanged"}

RTypeOK ==
    /\ phase \in [Process -> Phases]
    /\ nginx \in [Process -> Maybe(Generation)]
    /\ lock \in [Process -> Worker \cup {NoWorker}]
    /\ pc \in [Worker -> Steps]
    /\ files \in [Worker -> Maybe(Generation)]
    /\ previous \in [Worker -> Maybe(Generation)]
    /\ outcome \in [Worker -> Outcomes]
    /\ generations \in SUBSET Generation
    /\ active \in Maybe(Generation)
    /\ current \in Maybe(Generation)
    /\ validated \in SUBSET Generation
    /\ abandoned \in SUBSET Generation
    /\ faults \in 0..MaxFaults
    /\ crashes \in 0..MaxCrashes

\* A fresh data volume and no process.
RInit ==
    /\ phase = [p \in Process |-> "down"]
    /\ nginx = [p \in Process |-> NoGeneration]
    /\ lock = [p \in Process |-> NoWorker]
    /\ pc = [w \in Worker |-> "idle"]
    /\ files = [w \in Worker |-> NoGeneration]
    /\ previous = [w \in Worker |-> NoGeneration]
    /\ outcome = [w \in Worker |-> "none"]
    /\ generations = {}
    /\ active = NoGeneration
    /\ current = NoGeneration
    /\ validated = {}
    /\ abandoned = {}
    /\ faults = 0
    /\ crashes = 0

-----------------------------------------------------------------------------
(* Helpers of the thread's actions *)

Goto(w, here, there) ==
    /\ pc[w] = here
    /\ pc' = [pc EXCEPT ![w] = there]

\* reconcile() returns or raises: the `with self._lock` block is left.
Finish(w, result) ==
    /\ pc' = [pc EXCEPT ![w] = "done"]
    /\ outcome' = [outcome EXCEPT ![w] = result]
    /\ lock' = [lock EXCEPT ![ProcOf[w]] = NoWorker]

Fault == faults < MaxFaults /\ faults' = faults + 1

-----------------------------------------------------------------------------
(* The thread: Reconciler.reconcile(files) *)

\* The controller hands the rendered files to a thread.
StartThread(w, g) ==
    /\ pc[w] = "idle"
    /\ pc' = [pc EXCEPT ![w] = "begin"]
    /\ files' = [files EXCEPT ![w] = g]
    /\ UNCHANGED <<phase, nginx, lock, previous, outcome, diskVars,
                   history, faults, crashes>>

\* Take the lock, read ACTIVE, and return at once when nothing would change.
Begin(w) ==
    /\ pc[w] = "begin"
    /\ lock[ProcOf[w]] = NoWorker
    /\ previous' = [previous EXCEPT ![w] = active]
    /\ \/ /\ active = files[w]
          /\ Finish(w, "unchanged")
       \/ /\ active # files[w]
          /\ lock' = [lock EXCEPT ![ProcOf[w]] = w]
          /\ pc' = [pc EXCEPT ![w] = "stage"]
          /\ UNCHANGED outcome
    /\ UNCHANGED <<phase, nginx, files, diskVars, history, faults,
                   crashes>>

\* Mutant of Stage: a directory that exists is taken to be validated.
StageTrustsDirectory(w) ==
    /\ \/ files[w] \in generations /\ Goto(w, "stage", "activate")
       \/ files[w] \notin generations /\ Goto(w, "stage", "install")
    /\ UNCHANGED <<phase, nginx, lock, files, previous, outcome, diskVars,
                   history, faults, crashes>>

\* stage(): an existing directory is reused, otherwise one is written.
Stage(w) ==
    /\ \/ files[w] \in generations /\ Goto(w, "stage", "validate")
       \/ files[w] \notin generations /\ Goto(w, "stage", "install")
    /\ UNCHANGED <<phase, nginx, lock, files, previous, outcome, diskVars,
                   history, faults, crashes>>

\* os.replace of the temporary directory.  It cannot replace a directory
\* another process installed meanwhile: that error leaves reconcile().
Install(w) ==
    /\ pc[w] = "install"
    /\ \/ /\ files[w] \notin generations
          /\ generations' = generations \cup {files[w]}
          /\ pc' = [pc EXCEPT ![w] = "validate"]
          /\ UNCHANGED <<lock, outcome>>
       \/ /\ files[w] \in generations
          /\ Finish(w, "failed")
          /\ UNCHANGED generations
    /\ UNCHANGED <<phase, nginx, files, previous, active, current, history,
                   faults, crashes>>

\* `nginx -t` on the staged candidate succeeds.
Validate(w) ==
    /\ Goto(w, "validate", "activate")
    /\ files[w] \notin Refused
    /\ validated' = validated \cup {files[w]}
    /\ UNCHANGED <<phase, nginx, lock, files, previous, outcome, diskVars,
                   abandoned, faults, crashes>>

\* `nginx -t` fails: nothing was activated, ReconcileError is raised.  It
\* refuses some configurations every time it is asked; any other may fail
\* for what is not in its files (a certificate, a name to resolve, memory).
ValidateFails(w) ==
    /\ pc[w] = "validate"
    /\ \/ files[w] \in Refused /\ UNCHANGED faults
       \/ Fault
    /\ Finish(w, "failed")
    /\ UNCHANGED <<phase, nginx, files, previous, diskVars, history,
                   crashes>>

\* A write of stage() or activate() raises: nothing is in force yet, and what
\* was written so far is a temporary file or directory.
WriteFails(w) ==
    /\ pc[w] \in {"stage", "install", "activate"}
    /\ Fault
    /\ Finish(w, "failed")
    /\ UNCHANGED <<phase, nginx, files, previous, diskVars, history,
                   crashes>>

\* activate(): the manifest is replaced before anything is published.
Activate(w) ==
    /\ Goto(w, "activate", "publish")
    /\ active' = files[w]
    /\ UNCHANGED <<phase, nginx, lock, files, previous, outcome,
                   generations, current, history, faults, crashes>>

\* The first half of the reloader: repoint `current`.  While the container
\* prepares, the reloader is publish() alone and reconcile() returns.
Publish(w) ==
    /\ pc[w] = "publish"
    /\ current' = files[w]
    /\ \/ /\ phase[ProcOf[w]] = "preparing"
          /\ Finish(w, "applied")
       \/ /\ phase[ProcOf[w]] # "preparing"
          /\ pc' = [pc EXCEPT ![w] = "reload"]
          /\ UNCHANGED <<lock, outcome>>
    /\ UNCHANGED <<phase, nginx, files, previous, generations, active,
                   history, faults, crashes>>

\* The second half: `nginx -s reload` reads what `current` points at.
Reload(w) ==
    /\ pc[w] = "reload"
    /\ nginx' = [nginx EXCEPT ![ProcOf[w]] = current]
    /\ Finish(w, "applied")
    /\ UNCHANGED <<phase, files, previous, diskVars, history, faults,
                   crashes>>

\* The reloader raises, before or after `current` was repointed.
ReloaderFails(w) ==
    /\ \/ Goto(w, "publish", "rollback")
       \/ Goto(w, "reload", "rollback")
    /\ Fault
    /\ UNCHANGED <<phase, nginx, lock, files, previous, outcome, diskVars,
                   history, crashes>>

\* Mutant of Rollback: ACTIVE is restored, `current` and Nginx are not.
RollbackManifestOnly(w) ==
    /\ pc[w] = "rollback"
    /\ active' = previous[w]
    /\ Finish(w, "failed")
    /\ UNCHANGED <<phase, nginx, files, previous, generations, current,
                   history, faults, crashes>>

\* Without a predecessor ACTIVE is removed and reconcile() raises;
\* otherwise ACTIVE names the predecessor again.
Rollback(w) ==
    /\ pc[w] = "rollback"
    /\ active' = previous[w]
    /\ \/ /\ previous[w] = NoGeneration
          /\ Finish(w, "failed")
       \/ /\ previous[w] # NoGeneration
          /\ pc' = [pc EXCEPT ![w] = "republish"]
          /\ UNCHANGED <<lock, outcome>>
    /\ UNCHANGED <<phase, nginx, files, previous, generations, current,
                   history, faults, crashes>>

\* clear_active() or activate(previous) raises, and leaves the `except` block
\* with it: ACTIVE goes on naming what is reported as failed.
RestoreFails(w) ==
    /\ pc[w] = "rollback"
    /\ Fault
    /\ Finish(w, "failed")
    /\ abandoned' = abandoned \cup {files[w]}
    /\ UNCHANGED <<phase, nginx, files, previous, diskVars, validated,
                   crashes>>

\* The rollback's reloader, first half.
Republish(w) ==
    /\ pc[w] = "republish"
    /\ current' = previous[w]
    /\ \/ /\ phase[ProcOf[w]] = "preparing"
          /\ Finish(w, "failed")
       \/ /\ phase[ProcOf[w]] # "preparing"
          /\ pc' = [pc EXCEPT ![w] = "rereload"]
          /\ UNCHANGED <<lock, outcome>>
    /\ UNCHANGED <<phase, nginx, files, previous, generations, active,
                   history, faults, crashes>>

\* The rollback's reloader, second half.
Rereload(w) ==
    /\ pc[w] = "rereload"
    /\ nginx' = [nginx EXCEPT ![ProcOf[w]] = current]
    /\ Finish(w, "failed")
    /\ UNCHANGED <<phase, files, previous, diskVars, history, faults,
                   crashes>>

\* The rollback's reloader raises: the error is only added to the diagnostic.
RollbackFails(w) ==
    /\ pc[w] \in {"republish", "rereload"}
    /\ Fault
    /\ Finish(w, "failed")
    /\ UNCHANGED <<phase, nginx, files, previous, diskVars, history,
                   crashes>>

\* The awaiting coroutine is done with the result.
Collect(w) ==
    /\ Goto(w, "done", "idle")
    /\ files' = [files EXCEPT ![w] = NoGeneration]
    /\ previous' = [previous EXCEPT ![w] = NoGeneration]
    /\ outcome' = [outcome EXCEPT ![w] = "none"]
    /\ UNCHANGED <<phase, nginx, lock, diskVars, history, faults, crashes>>

ThreadStep(w) ==
    \/ Begin(w) \/ Stage(w) \/ Install(w)
    \/ Validate(w) \/ ValidateFails(w) \/ WriteFails(w)
    \/ Activate(w) \/ Publish(w) \/ Reload(w) \/ ReloaderFails(w)
    \/ Rollback(w) \/ RestoreFails(w)
    \/ Republish(w) \/ Rereload(w) \/ RollbackFails(w)

-----------------------------------------------------------------------------
(* The process around the threads: deploy/entrypoint.py *)

Boot(p) ==
    /\ phase[p] = "down"
    /\ phase' = [phase EXCEPT ![p] = "preparing"]
    /\ UNCHANGED <<nginx, lock, threadVars, diskVars, history, faults,
                   crashes>>

ThreadsIdle(p) == \A w \in Worker : ProcOf[w] = p => pc[w] = "idle"

\* prepare_runtime is over: Nginx is started on `current`, next to the API.
StartNginx(p) ==
    /\ phase[p] = "preparing"
    /\ ThreadsIdle(p)
    /\ current # NoGeneration
    /\ phase' = [phase EXCEPT ![p] = "starting"]
    /\ nginx' = [nginx EXCEPT ![p] = current]
    /\ UNCHANGED <<lock, threadVars, diskVars, history, faults, crashes>>

\* The API's lifespan has reconciled: requests are accepted.
Serve(p) ==
    /\ phase[p] = "starting"
    /\ ThreadsIdle(p)
    /\ phase' = [phase EXCEPT ![p] = "serving"]
    /\ UNCHANGED <<nginx, lock, threadVars, diskVars, history, faults,
                   crashes>>

\* f with every thread of p back at its initial value.
Forget(p, f, initially) ==
    [w \in Worker |-> IF ProcOf[w] = p THEN initially ELSE f[w]]

\* The container stops: the supervisor takes Nginx and every thread with it.
\* What is on disk stays.
Stop(p) ==
    /\ phase[p] # "down"
    /\ phase' = [phase EXCEPT ![p] = "down"]
    /\ nginx' = [nginx EXCEPT ![p] = NoGeneration]
    /\ lock' = [lock EXCEPT ![p] = NoWorker]
    /\ pc' = Forget(p, pc, "idle")
    /\ files' = Forget(p, files, NoGeneration)
    /\ previous' = Forget(p, previous, NoGeneration)
    /\ outcome' = Forget(p, outcome, "none")
    /\ UNCHANGED <<diskVars, history, faults>>

Crash(p) ==
    /\ crashes < MaxCrashes
    /\ crashes' = crashes + 1
    /\ Stop(p)

-----------------------------------------------------------------------------
(***************************************************************************)
(* The component by itself: threads are started with any generation at any *)
(* time.  RuntimeController constrains when and with what.                 *)
(***************************************************************************)
RNext ==
    \/ \E w \in Worker :
          \/ /\ phase[ProcOf[w]] # "down"
             /\ \E g \in Generation : StartThread(w, g)
          \/ ThreadStep(w)
          \/ Collect(w)
    \/ \E p \in Process : Boot(p) \/ StartNginx(p) \/ Serve(p) \/ Crash(p)

RSpec == RInit /\ [][RNext]_rVars

-----------------------------------------------------------------------------
(* Properties *)

\* No configuration that did not pass `nginx -t` is ever named by ACTIVE,
\* linked as `current` or loaded by an Nginx: not by a rollback, not by the
\* interleaving of two processes, not after a crash between two file
\* operations (reconcile(): the validator runs before activate()).
OnlyValidatedIsServed ==
    /\ active \in Maybe(validated)
    /\ current \in Maybe(validated)
    /\ \A p \in Process : nginx[p] \in Maybe(validated)

\* When no reconciliation is under way, what ACTIVE names is what `current`
\* links and what every running Nginx has loaded.  It needs the rollback to
\* repoint and reload, not only to rewrite ACTIVE.  It holds of a single
\* process (each has an Nginx of its own) until it crashes, wherever one
\* command or publication fails; a rollback that fails as well may break it.
SettledServesActive ==
    (crashes = 0 /\ active # NoGeneration /\ \A w \in Worker : pc[w] \notin Critical) =>
        /\ current = active
        /\ \A p \in Process :
              phase[p] \in {"starting", "serving"} => nginx[p] = active

-----------------------------------------------------------------------------
(***************************************************************************)
(* Refinement of LastKnownGood.  A move is unsettled from activate() until *)
(* the reloader has succeeded or the rollback has rewritten ACTIVE; its    *)
(* predecessor is the thread's local variable `previous`.                  *)
(***************************************************************************)
Unsettled(w) == pc[w] \in {"publish", "reload", "rollback"}

Fallback ==
    IF \E w \in Worker : Unsettled(w)
    THEN previous[CHOOSE w \in Worker : Unsettled(w)]
    ELSE active

LKG == INSTANCE LastKnownGood WITH
    serving  <- active,
    fallback <- Fallback,
    good     <- validated

\* While one reconciliation runs at a time, ACTIVE only advances to a
\* validated candidate, and a failed reload puts back exactly the
\* configuration that was in force (reconcile.py, Reconciler.reconcile).
ImplementsLastKnownGood == LKG!Spec
=============================================================================
