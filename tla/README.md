# Portwyrm in TLA+

Portwyrm is a control plane for Nginx: a web application keeps hosts, streams,
certificates and settings in a database, renders them into an immutable
generation of Nginx configuration, validates it, puts it in force and reloads
Nginx; next to it runs a gateway that routes QUIC connections by SNI without
terminating them, and a scheduler that probes the upstreams of proxy hosts.

These modules model the parts of it whose behaviour depends on the order of
events: configuration delivery, certificates, the QUIC gateway, health
checking, accounts with their sessions, tokens and second factors, and the
hosts, streams, routes and access lists that requests and imports change. TLC
checks them on small instances; TLAPS proves the properties that matter most
for every value of the constants. Paths below are relative to the repository;
`portwyrm/` stands for `src/portwyrm/`.

## Inventory

| Part | State | Operations | Interacts with | Hard behaviour | What makes it correct |
|---|---|---|---|---|---|
| Generation store and reconciler (`portwyrm/runtime/reconcile.py`, `publisher.py`, `hooks.py`) | `generations/`, `ACTIVE`, `current`, one thread lock per process | stage, validate, activate, reload, roll back | called by the controller in a thread; Nginx reads `current` | failing commands, crashes between two file operations, several processes on one volume | only validated configurations are in force; a failed move restores the last known good one; `ACTIVE`, `current` and Nginx agree |
| Runtime controller (`portwyrm/runtime/controller.py`) | asyncio lock, set of applying hosts | changed, reconcile, render, _persist | post-commit hooks, lease, reconciler, generation and revision tables | concurrent requests, refused and expired leases, crash between disk and database | one reconciler at a time; database and disk agree; every reconciliation ends; a request that is told "applied" has its change in force |
| Runtime tables (`portwyrm/tables/runtime.py`) | generations, attempts, leases | record, activate, acquire, release | controller, probe | lease rows of dead holders | as above |
| Supervisor and lifespan (`deploy/entrypoint.py`, `portwyrm/api/app.py`) | child processes | prepare, start, stop all | controller, Nginx, scheduler | restart after a crash at any point | the container comes back |
| Deployment state (`portwyrm/tables/routing.py`) | config revisions | record, derived state | controller, `ACTIVE`, files on disk | read while a reconciliation runs | "applied" is reported when, and only when, it is so |
| Probe operation (`portwyrm/tables/routing.py`, `lifecycle.py`, `runtime/upstream_health.py`) | lease, observations, audit events | probe, health_read | scheduler, API clients | late answers, overlapping transactions, dead holders | one probe at a time; the audit trail tells the transitions |
| Health scheduler (`portwyrm/runtime/health_scheduler.py`) | wake event, semaphore, task | start, wake, sweep | post-commit hook, probe | wake-ups during a sweep, failures of the listing | sweeps recur and do not overlap; the current configuration gets observed |
| QUIC gateway (`portwyrm/runtime/quic_router.py`) | sessions and their indexes, queues of opening connections, ingress pause | datagrams both ways, opening, reaping, reload | upstream sockets, route file | datagrams during an await, migrating clients, duplicate ids, lost answers | no mixing of sessions; no leak of queues; ingress resumes |
| Routing tables, access lists, QUIC routes (`portwyrm/tables/routing.py`, `access.py`, `quic_passthrough.py`, `lifecycle.py`, `portwyrm/api/compat/`) | rows, their child rows and edges | create, PATCH, PUT, enable, disable, delete, validate | API handlers, lifecycle hooks, import, renderer | a request reads, validates and writes in transactions of their own; checks before an insert; PATCH writes back all it read; child rows deleted and inserted anew | the looks for collisions leave only races to the constraints; ports stay apart; an edit leaves what it does not name; passwords that are not sent survive |
| Portability and NPM import (`portwyrm/api/portability.py`, `portwyrm/migration/npm.py`) | a bundle; nothing of its own | export, preview, import, preflight | the tables, as a sequence of requests | stops halfway, other requests in between, ids and owners that must survive | an import that is not disturbed has restored what it went through |
| Certificates (`portwyrm/certificates/`, `tables/certificates.py`) | directories of key material, rows | upload, request, renew, delete | Certbot, hosts, reconciliation | directory and row change in separate steps, each with an undo; concurrent requests; crashes | an active row describes the material that is there; a failed request changes nothing; no key is left behind; assigned certificates exist; Nginx serves the material on disk |
| Sessions (`portwyrm/tables/sessions.py`, `portwyrm/api/security.py`) | session rows | issue, verify, refresh, revoke, exchange, impersonate | every request, tokens, accounts | refresh is three transactions; a logout or a crash between them | one session of a login, none after its logout |
| Personal access tokens (`portwyrm/tables/tokens.py`, `portwyrm/identity/token_policy.py`) | token rows | issue, verify, extend, rotate, revoke | accounts, permissions | a secret is hashed between read and write | one token of a grant; revoked is final |
| Multi-factor authentication (`portwyrm/tables/mfa.py`) | enrollment, recovery codes | begin, confirm, verify, disable, regenerate | login | codes are compared in a thread; several ways to replace them | codes are of the batch shown last, and are spent once |
| Accounts, credentials, permissions (`portwyrm/tables/identities.py`, `credentials.py`) | principal, credential and permission rows | register, edit, disable, delete, change and reset a password | all of the above | an edit reads all and writes all | an edit changes what it names; a reset forces a change |
| Schema migrations | applied versions | apply, record_failure | both boots | two containers that migrate | each migration is applied once |
| Renderers, API translation, CLI, UI, telemetry | none, or batch | - | - | - | - |

## Modules

| Module | Models | Uses |
|---|---|---|
| `LastKnownGood` | the promise of configuration delivery, without files, threads or locks | - |
| `Reconciler` | `GenerationStore`, `Reconciler`, publisher and Nginx commands for any number of processes, and a process's life | implements `LastKnownGood` |
| `RuntimeController` | the controller, its lock and lease, render, _persist, what triggers and what restarts it | EXTENDS `Reconciler` |
| `HostDeployment` | `_deployment_state` and the sources it reads | - |
| `HealthProbe` | the `probe` operation of one host | - |
| `HealthScheduler` | the recurring sweep, its wake-ups, clients that probe too | abstracts `HealthProbe` to start, end and observation |
| `QuicRouter` | the gateway's event loop | - |
| `Certificates` | `TableCertificateManager` and `CertificateMaterialStore` | abstracts `Reconciler` to what Nginx loads |
| `Identity` | principals, passwords, sessions, tokens, MFA and the requests that change them | - |
| `Routing` | hosts, streams, QUIC routes and access lists under overlapping requests | abstracts `Identity` to callers that may manage a section |
| `Portability` | export bundles, their import and the NPM import, among those requests | EXTENDS `Routing` |
| `ReconcilerProofs`, `HostDeploymentProofs`, `HealthProbeProofs`, `QuicRouterProofs`, `CertificatesProofs`, `IdentityProofs` | theorems | EXTEND the module they are named after |
| `RuntimeControllerProofs` | theorems about `RuntimeController` | EXTENDS it and `ReconcilerProofs` |
| `RoutingProofs` | theorems about `Routing` and `Portability` | EXTENDS `Portability` |
| `MC*` | instances for TLC | EXTEND the module they are named after; `MCRouting` extends `Portability` |

A definition marked "Mutant of X" is a plausible mistake in X. No specification
uses it; each property is known to notice at least one.

### Configuration delivery

A *worker* of `Reconciler` is a thread in `Reconciler.reconcile`; its actions
are the operations that another process or a crash can separate: `Begin` takes
the lock, reads `ACTIVE` and returns if nothing would change; `Stage` and
`Install` are `stage()`; `Validate` and `ValidateFails` are `nginx -t`;
`Activate` replaces `ACTIVE`; `Publish` and `Reload` are the two halves of the
reloader, and `Rollback`, `Republish`, `Rereload` and `RollbackFails` its undo.
A command fails for one of two reasons. Nginx *refuses* the configurations of
`Refused` every time it is asked, in this process and after any restart; and
any command, publication or write may fail for what is not in the files (a
full disk, a missing certificate, a name that does not resolve), as often as
`MaxFaults` allows. `WriteFails` is such a failure of `stage()` or
`activate()`, before anything is in force, and `RestoreFails` one of the undo's
own write: `ACTIVE` then goes on naming a generation that is recorded as failed
(history in `abandoned`), and a later reconciliation of the same files finds it
active and returns "unchanged" without a reload. A process goes through `preparing` (the reloader only publishes), `starting`
(Nginx runs, the lifespan reconciles) and `serving`; `Stop` and `Crash` take
its threads, its lock and its Nginx and leave the disk.

`RuntimeController` adds one *task* per worker, the coroutine that awaits it:
`ReadPart` reads the tables one after another, `RenderFails` is the exception
that rendering a state of `Unrenderable` raises, `TakeLock` is the fair asyncio
lock, `AcquireLease` and `LeaseRefused` the database lease, `RunThread` the
thread, `PersistRecord`, `PersistActivate` and `PersistAttempt` the
transactions of `_persist()`, `ReleaseLease` the `finally`. A configuration is
a function from parts (tables) to the number of commits they have seen, so "it
contains my change" is a comparison of counts. `LeaseExpires` frees the row of
a dead holder and, when `SlowHolders`, of a live one. Acquiring the lease is one
step: several control planes share PostgreSQL, where `FOR UPDATE` makes the
takers of a row wait for each other and the unique name refuses the second of
two inserts. SQLite ignores `FOR UPDATE`; there is one control plane then. What
a request committed stays committed when its reconciliation raises
(`reconcile_committed_change`), while a boot does not survive that: `RenderFails`,
`LeaseRefused` and `ReleaseLease` take a process down that is not yet serving.

`LastKnownGood` has what is in force, what an undo would restore, and what has
been validated. The mapping takes `ACTIVE` for the first; for the second, the
local variable `previous` of the thread that is between `activate()` and the
outcome of its reload, or `ACTIVE` when there is none; and the validated
generations for the third.

`HostDeployment` looks at the same reconciliation from the API: reconciling is
one step that succeeds or is rolled back, and the revision rows, the applying
set, the active generation and the edited files are what `DeploymentState`
derives its answer from at any moment.

### Certificates

Each *request* of `Certificates` is an upload, an ACME request, a renewal or a
deletion, with one action per await: row updates, the three moves of `put()`,
`detach()`, `commit_detach()` and the steps of the `except` blocks. Detached
material is in a directory of the request and the certificate. `Handler`
says which undo an exception at a step leads to, `Fails` raises one at any step
of `MayFail`, and `PutSwap`, `Update`, `DeleteRow` and `RollbackDetach` raise
the errors that another request can cause. A bundle is the number of its
issuance, and a row keeps the number its subject and expiry describe. The
reconciliation after a commit is taken with the commit; it does what matters
here, and loads material only if the generation changes. `overlapped` and
`interrupted` are history: certificates that two requests changed at once, and
those a crash left halfway. The code protects neither, and the properties
exempt them. Rows that a client writes itself through the generic operations
are left out.

### Accounts

A *request* of `Identity` is one API call, cut into the table operations it
makes; each is a transaction. An operation that reads, awaits (mostly a hash or
a comparison in a thread) and then writes is two steps: `ReadToken` and
`WriteToken`, `CheckFactor` and `SpendCode`, `ReadFactor` and `Enroll`,
`ConfirmFactor` or `DisableOrRegenerate`, `EditAccount` and `WriteAccount`.
Refreshing a session is three, `VerifySession`, `DropSession` and
`IssueSession`, and a browser login goes through all of them after its own
`IssueSession`. `Abort` ends a request between any two. A commit writes the
columns that the request changed, not the row, and what it does when the row is
gone is modelled per operation.

Secrets are what one must know: a caller has the right password or TOTP code or
has not, and a recovery code is a batch and a number. Sessions and tokens are
named by their row ids. `login` and `origin` are history that ties a session to
its login and a token to the one it was rotated from; `ended`, `reset`,
`shown`, `accepted` and `turnedAway` record what happened for the properties.
`raced` holds what a request wrote while another had read it and was about to
write it: no lock or version protects those rows. Most properties are about
what is not raced; `RevokedStaysRevoked` has no such exemption.

### Routing resources

A *request* of `Routing` begins with what it read (`BeginEdit`; a PATCH is laid
over the resource as the API shows it, a PUT over defaults), is validated in a
transaction of its own where the API asks for that (`Validate`: streams on POST
and PATCH, QUIC routes), and writes in another: `Open` is all that the writing
transaction reads and checks, `Commit` its flush under the unique constraints.
Other transactions may commit between the two. PostgreSQL admits that; SQLite,
which the code supports too, admits fewer behaviours, so what holds here holds
there. A row is its owner, one flag, what it claims (domain names, protocols
of a port, a server name), the access lists of a host and the one password of
an access list. Commits leave `notes` with the other requests: the row was
written since they read it (`stale`) or since their transaction did (`torn`),
or another request's claims were written to the table since they looked for
collisions (`overtaken`, `Sought`). `loose` are the streams whose ports were
written by PUT or by an overtaken request. A new row gets any unused id
(`Target`), because a sequence may hand out an id below those of imported rows;
a request for a QUIC route may say its id. Its owner is who the payload names,
or else its creator (`Assigned`).

`Portability` puts exports and imports among these requests. A record of an
import is skipped, or becomes a request of `Routing` that goes through the same
steps; the first one refused ends the import, and what it has written stays.
`restored` is history: how far an undisturbed import came, whether it reached its
end, was refused a record or lost its client (`Accomplished`).
`Reinstall` takes the bundle to an empty installation. `Preflight` is the
quarantine of the NPM import: soft-deleted rows, rows without an id, repeated
ids, and hosts whose access list was not accepted. What is left is imported in
ascending order of collections and ids.

### Health checking

`HealthProbe` has one action per await of `probe`: read the row, acquire the
lease, probe, close the connection, release, stage the observation and its
audit event, commit. The prober's own timeouts add up to 21 s and a lease
lasts 30 s, but closing a TLS connection may take another 30 s, so a live
holder's lease may expire while it closes its connection. `HealthScheduler` has
the loop, the semaphore, the wake event and an API client; `rank` keeps the
order in which overlapping probes began, which decides the latest observation.

### QUIC gateway

One action of `QuicRouter` per callback. A key is an address and the id that
the client chose; the four indexes of sessions, the four tables of pending
connections and the pause of the listener are variables under the source's
names. A long-header datagram is its destination id and the fragment of the
ClientHello in it; a short-header one its id only. `fate` records what became
of the last client datagram, for the two properties about delivery.

## What is checked

`TypeOK` (with `RTypeOK`), `QTypeOK`, `CTypeOK`, `IdTypeOK` and
`RoutingTypeOK` are the type invariants that are checked; `DTypeOK`, `PTypeOK`
and `STypeOK` document the types of three small modules. The other properties
are stated, with the code they are about, next to their definitions.

| Run | Question | Bounds |
|---|---|---|
| `MCControllerOne` | do `ACTIVE`, `current` and Nginx agree after a failure, has a request that is told "applied" its change in force, does every reconciliation end, and does the container come back after a crash? | 1 process, 2 tasks, 2 tables, 1 commit to each, of the 4 states they reach one that Nginx refuses and one that cannot be rendered, 1 failure, 1 crash, leases that expire under their holder |
| `MCControllerTwo` | does the lease exclude two control planes, is only validated configuration in force, do they together implement `LastKnownGood`, and does the database agree with the disk? | 2 processes, 1 table, 3 commits of which Nginx refuses the second, 2 failures, 1 crash |
| `MCCertificates` | after a failure, a crash or another request, do row, directory and assignments agree, and is no key left behind? | 1 certificate id, 2 requests, 3 bundles, 1 host, 1 failing step, 1 crash |
| `MCHostDeployment` | is what is reported as applied in force, and what is in force reported as applied? | 2 hosts, on or off, 5 revision rows, returning generations, edited files |
| `MCHealthProbe` | one probe at a time, and does the trail of consecutive probes tell every transition once? | 2 callers, 3 seconds, 3 observations, 1 crash |
| `MCHealthScheduler` | does the latest observation become, and stay, one of the current configuration, although sweeps, client probes and edits overlap? | 2 hosts, 1 permit, 1 edit each, 1 client probe, 1 failing listing |
| `MCQuicQueues` | is every queue of an opening connection reclaimed, do the indexes agree when two servers issue the same id, does ingress resume and every opening end? | 2 connections of an address, 2 fragments, queues of 3, 1 opening at a time |
| `MCQuicSessions` | is a datagram ever sent to the wrong upstream, does the pause match the wait? | 2 connections, one of which migrates, ids of two lengths, 2 openings at a time |
| `MCIdentity` | do overlapping requests leave one session of a login, one token of a grant, the recovery codes that were shown, each spent once, and accounts in which nobody's edit undid another? | an administrator and a user, with and without MFA, 2 requests at a time, 3 requests or expiries, 1 recovery code a batch |
| `MCRouting` | do the looks for collisions decide everything but races, do streams keep off each other's ports, edits leave what they do not name and passwords survive, and are the records an import went through stored as they were given? | 2 callers, 2 requests at a time, 3 requests, exports and imports, 2 ids a table, 2 claims, 1 access list with 1 user, 6 NPM databases, requests that name one column besides those they must |

Two of everything is where the interesting cases are: two tasks are the least
that can wait for each other, two processes the least that need the lease, two
tables the least of which a rendering can mix two states, two hosts the least
that a permit or a partly recorded reconciliation can separate, and two
connections of one address the least that can be confused. Counters of
failures, crashes, commits, observations and seconds are budgets in the guards
of the actions that spend them; with one failure and one crash every action
occurs, except that a rollback which fails takes two failures
(`MCControllerTwo`). Requests on different certificates share nothing, so one
id is enough; it is free again after a deletion. Some properties name a
precondition, because the code does not keep them without it. Those of
`Certificates` are about certificates on which requests did not overlap and (but for `AssignedExists` and `FailedChangesNothing`) which no
crash cut off, and about failures of issuing, of database writes and of moves
(`WritesAndMoves`): a removal that fails halfway, or a read that fails after a
commit, is not undone by the code. `SettledServesActive` assumes one process, one failure and
no crash (a failing rollback, or a crash within a move, leaves the disk as it
is). `FreshInForceIsApplied` assumes that no generation has come back, and
`SerialAuditFollowsHealth` that probes have not overlapped.

In `MCIdentity` two requests overlap in every pair of steps, and a third
comes before, between or after them: a rotation of what was rotated, a login
with the code that was just spent, an enrollment over a pending one. Two users
are the least of which one administers the other. `MCRouting` takes one family
of tables at a time (hosts with access lists, streams, QUIC routes), because
requests about different families read none of each other's rows; the initial
table is empty or has one row, two claims let `tcp` meet `tcp+udp` and one host
meet another on one of two names, and three begun operations are enough for an
export, an import and a request that disturbs it, or for two requests that race
after a third has filled the table. A PATCH of several columns writes back what it
does not name like a PATCH of one; the theorems hold for any `Naming`. In
`MCControllerOne` the refused and the unrenderable state are each one commit away
from a good one, so that a request may meet them, leave them with the next commit,
or crash in them.

`CHECK_DEADLOCK FALSE` is set where the system really may stop: the gateway
after its listener is gone, the scheduler after its task has died, certificates
when the bundles are used up, `Identity` and `Routing` when their requests are.

### Fairness

`RuntimeController`: the event loop resumes ready coroutines, threads are
scheduled, time passes (leases expire), the boot code proceeds and the
container's restart policy is `unless-stopped` (`compose.yaml:5`). Weak
fairness is enough, because the asyncio lock hands itself to its longest
waiter, and a refused lease is an end and not a retry. Nobody has to commit or
to reconcile. `RecoversOncePublished` also needs that crashes, failing commands
and failing writes cease, since a boot that fails is only tried again; `MaxCrashes`
and `MaxFaults` say so. What a configuration itself makes fail never ceases:
`Refused` and `Unrenderable` are as deterministic as `nginx -t` and `render()` are,
and the property exempts behaviours in which such a state is committed. There
the container does loop, see `VRefusedConfiguration` below. `QuicRouter`: timers fire and `_open` is resumed. Nothing is
assumed of clients, servers or the reaper. `HealthScheduler`: the loop goes on,
every probe ends (all its network steps have timeouts) and hooks run; nobody
has to edit or probe by hand, and listings need not fail. `Identity`, `Routing`
and `Portability` assume no fairness: a client may leave at any step.

### What the documentation says and the code does not do

Each of these runs checks one property that a document, docstring or comment
states, and finds a behaviour of the code that violates it.

| Run | Property | What happens |
|---|---|---|
| `VRenewedCertificate` | `ServedIsLive` | a generation names the directory of a certificate and not its contents: after a renewal the generation is the same, `reconcile()` returns early, and Nginx keeps the old certificate in memory |
| `VRefusedConfiguration` | `RecoversFromCrash` | "target recovers without ... unrelated outage" (`docs/product/feature-matrix.md:143`), and the runtime retains its last-known-good generation (`docs/testing/tigrbl-proof-migration.md:64`): a committed change that Nginx refuses is kept, so after a crash or a restart every boot renders it, fails and stops the container, although `ACTIVE` and `current` name a good generation |

More such sentences, which no run checks; but for one they are stated in the
modules:

- `SettledMatchesDesired`: the controller renders before it takes the lock, so
  the older of two renderings may be applied last and stay;
- `AppliedIsServed`: after a crash between `activate()` and the reload, the retry
  finds nothing to change and is recorded as applied, while Nginx runs the old
  generation;
- `InForceIsApplied`: the revision row of a returning generation is not renewed,
  and the host is reported as pending although its configuration is in force;
- `FailedAttemptIsPersisted`: a refused lease leaves no attempt behind;
- `ApplyingIsReported`: whoever ends first clears the set of applying hosts;
- `PreparedIsPublished`: a crash inside the very first publication leaves a
  container without `current`;
- `AuditFollowsHealth`: observations are committed after the lease is released,
  in any order;
- `ChecksRecur`: a listing that fails once ends the recurring task;
- `WakeIsHonoured`: a wake-up during a sweep is cleared at its end, although the
  sweep listed the hosts before it;
- `EveryDatagramForwarded`: an id issued inside encrypted packets is unknown to
  the gateway, so the datagram is dropped when its address has two sessions;
- `LevelsKeepTheirMeaning` (`docs/product/feature-matrix.md:35`): the levels
  "view" and "manage" of a permission are stored as keys that no action is
  compared with, so they allow nothing;
- "Preserve IDs ... during import" (`README.md:69`): `create_resource` drops the
  id of a stream (`portwyrm/api/compat/resources.py:146`), so `ImportRestores`
  leaves streams out;
- `ChallengesCanBeAnswered` (`docs/product/delivery-slices.yaml:214`): the token
  that answers an MFA challenge has the scope "mfa", which `verify()` does not
  know, so the right answer is refused.

Read in the code while modelling, and part of the actions where they touch a
modelled column: streams show no owner in the API, so only administrators reach
them and a PATCH clears their owner; a PUT of a host clears its owner unless it
names one; a bundle carries no password hashes, so an access list with users
cannot be imported into an empty installation; an NPM import has no actor, so
what it creates has no owner, and its records cannot replace the access list of
a host; a token whose owner is disabled cannot be looked up, so an administrator
cannot revoke it. Outside the model: rows of expired sessions are never purged,
and a deleted access list leaves its edges to hosts behind.

Between several control planes, `OneReconcilerAtATime` assumes that a
reconciliation does not outlive the 120 s of its lease, which nothing renews
(`SlowHolders`); within one, the asyncio lock excludes.

## What is proved

Every invariant and every action property that a run checks is proved too, and
so is the refinement of `LastKnownGood`; only liveness is left to TLC. TLC has
checked each inductive invariant as an invariant before it was proved. All
theorems rest on the ASSUMEs of the modules: the constants have the types they
are declared with, `Free` and `Stale` are no process, `None` is no id, user or
row, `Generation` in `RuntimeController` is the set of functions from parts to
counts, ids and passwords exist, and a dump of NPM has the shape that the
importer expects. Some theorems have a hypothesis besides; each is met by the
run that checks the property, and each names what the code needs it for:

| Hypothesis | Theorem | Why |
|---|---|---|
| one process | `OneProcessImplementsLastKnownGood` | without a lease, two processes move the same links |
| one process, `MaxFaults \leq 1` | `SettledActiveIsServed`, `ControllerServesSettled` | an undo that fails as well leaves the disk in the middle |
| `Serialized`: one process, or leases that are not outlived | `ReconcilersExcludeEachOther`, `ControllerImplementsLastKnownGood`, `AppliedContainsOwnWrite`, `DatabaseFollowsDisk` | nothing renews a lease |
| `Process # {}` | `DatabaseFollowsDisk` | it is a boot that owes the reconciliation |
| `MayFail \subseteq WritesAndMoves` | `FailedRequestsChangeNothing` | the code does not undo a removal that failed halfway, or a read that failed after a commit |
| `IdsAreDistinct`: no two connections use the same id | `ConnectionsAreNeverMixed` | the gateway tells connections apart by their ids alone; endpoints choose them at random |

**Reconciler** (`ReconcilerProofs`). `ReconcilerTypeCorrect` and
`ServedWasValidated` follow from the inductive invariant `RInv`. That
`ACTIVE`, `current` and Nginx are validated is not inductive by itself: a
thread carries generations in its locals. `ThreadsCarryValidated` says that a
thread's `files` is validated once it is past `nginx -t`, and that its
`previous` always is. `LockOwnedInside` says that a thread in the critical
section owns its process's lock; with one process, that excludes two threads.
`OneProcessImplementsLastKnownGood` then proves the refinement: `MoveKnown`
relates `previous` to `ACTIVE` during a move, and each action maps to a step of
`LastKnownGood` or to a stutter. `SettledActiveIsServed` follows the links
through a move and its undo: as long as nothing has crashed, they are settled
(`SettledParts`) when no thread is in the lock, and otherwise where the step of
the thread inside has left them (`MovingParts`); `UndoKnown` says that an undo
which has restored `ACTIVE` goes back to `previous`. A rollback has used up the
one failure, so nothing fails after it.

**RuntimeController** (`RuntimeControllerProofs`). `ControllerTypeCorrect` and
`ControllerServesValidated` extend the invariant to the controller. For
`ReconcilersExcludeEachOther` the invariant `CInv` adds that the asyncio
lock's queue has no duplicates and holds exactly the tasks that wait for or own
the lock, with the owner at its head (`QueueIsSound`), that a running thread is
awaited by its task (`ThreadsAreAwaited`), and, unless `SlowHolders`, that a
task past `AcquireLease` belongs to the lease's holder (`LeaseIsSound`): two
threads of a process are excluded by the queue, two processes by the lease
(`LeasedExclude`). `ControllerImplementsLastKnownGood` reuses the reconciler's
step lemmas, `ControllerServesSettled` its invariants: all it adds is that a task
and its thread agree on where they are, and that a process which goes down
without a crash leaves no thread in the lock.

`AppliedContainsOwnWrite` is about a request that is told "applied". Its task
read every table after its own commit (`OwnWriteIsRead`), so what it hands
to the thread contains the commit; the thread reports success only of a generation
that is in force (`ResultsAreTrue`), and no other thread can have moved it between
that report and the answer, because the task still holds lock and lease.
`DatabaseFollowsDisk`: the active generation of the database differs from
`ACTIVE` only while a successful task has yet to record it, or while a process
that crashed or stopped there owes the reconciliation of its boot (`Recorded`),
or when a failing restore has left a failed generation in `ACTIVE` (`abandoned`).

**HostDeployment** (`HostDeploymentProofs`). `AppliedHostsAreInForce` and
`FreshHostsAreApplied` are the two directions of "applied if and only if in
force". `StepsAgree` says which of the reconciliation's variables are meaningful
at which point, `RowsAreReal` that revision rows are of hosts their
generation renders, and `FreshIsRecorded` that, while no generation has
returned, what is being recorded comes last (`OnlyLast`) and what was put in force
is recorded for every host of it. The lemma
`RowsGrow` says what appending a row does to "the latest row of a host".

**HealthProbe** (`HealthProbeProofs`). `ProbesExcludeEachOther`: whoever probes
holds the lease, also when leases of dead and of closing holders expire.
`SerialTrailFollowsHealth`: as long as probes have not overlapped, at most one
of them is at work, its result is younger than every observation, and the event
it stages compares that result with the latest one (`ProbesAreSerial`); hence the
trail goes on from where it ended, and ends at the latest status (`TrailFollows`).

**QuicRouter** (`QuicRouterProofs`). `PauseIsBounded`: for any connections,
addresses and ids, the listener is paused exactly while a session waits for its
first answer, and each such session has its timer. `QueuesAlwaysReclaimed`
(`QueueInv`): a queue belongs either to `_open` or to the reaper's list, which
names no key twice; the fragments of the ClientHello that were counted are in the
queue too (`HelloIsQueued`), which is why an opening has all of it.
`IndexesAlwaysAgree` (`IndexInv`): an address lists exactly its sessions, an id
leads to a session exactly when that session owns it, also after a migration, a
reaping or an id that another session has taken over, and the lengths are counted
over a finite set. `Owners` adds that an id in the index was issued by the server of
that session, from which `ConnectionsAreNeverMixed` follows for ids that are not
shared.

**Certificates** (`CertificatesProofs`). `CertificatesTypeCorrect` needs to know
which steps each kind of request has (`StepsFit`). For
`AssignedCertificatesExist` the invariant adds that a certificate without
overlaps has one request at most (`OneRequestEach`) and that one which is being
created or deleted is assigned to no host (`GoingIsUnassigned`): only those two
kinds of request make a row disappear. `ActiveCertificatesHaveMaterial`,
`NoKeysAreLeftBehind` and `FailedRequestsChangeNothing` share one more invariant,
`MaterialInv`, which is a map of the protocol: for a certificate that no one is
busy with, row and directory agree and nothing is set aside (`Settled`); for one
with a request, `UnderWay` says for each of `Creating`, `Replacing`, `Renewing`
and `Deleting` where the row, the live directory, the backup and the detached
directory are at each step, and which of them are as they were before the request
began. Undoing from any step is then a lookup in that map.

**Identity** (`IdentityProofs`). `IdentityTypeCorrect` includes what each step of
a request has already chosen (`Ready`). `GrantHasOneToken` needs more than that at most
one token of a grant is live: `TokenRequest` says that a request about to write
a token has read a row that exists, of the same grant, which for a rotation was
not revoked, and that it still is (or is not) what was read unless the grant is
raced; `WrittenGrantIsRaced` is why that survives the writes of others.
`TokenIds` says that ids above `lastId` are unused, so a new row never takes
the place of a revoked one; `RevocationIsFinal` follows from the same invariant.
`LoginHasOneSession` has the same shape (`SessionInv`): between the drop of a
session and the issue of its successor, no row of the login is live and nobody but
the one request is about to end or replace it (`OneOfLogin`). `ResetsForceChanges`
needs `ResetInv`, which holds without the exemption of raced passwords: the flag
and the history change in one step of one action. `StoredCodesAreThoseShown` and
`RecoveryCodesWorkOnce` rest on `FactorInv`: a request that is about to
write an enrollment carries what it read (`FactorRequest`), batches are
numbered upwards, belong to one user, and an unused code has not been accepted
(`CodesAreFresh`). `EditsChangeTheirFieldAlone` (`EditInv`): until another request
writes the account, the row an edit is about to write back differs from what
is stored only in the field that the edit names.

**Routing and Portability** (`RoutingProofs`). That no two rows share a name is
the database's own constraint and needs no theorem. What the code adds is the
look before the write, and `CollisionsAreAlwaysForeseen` says that it decides
everything but races: a write that has looked, over the row it merged, and was not
overtaken is not refused by the constraint. `PortsAreSharedOnlyThroughTheGaps` is
about what no constraint covers. Both follow from `ClaimsInv`, which says of each
request that has looked and was not overtaken that its claims are still free
(`ValidHolds`), that the claims its transaction read are those stored
(`ReadHolds`), and that a toggle writes no claims (`ToggleKeeps`); a commit that
writes claims overtakes every other request of the table (`ToldIsSound`), and one
that does not cannot make two rows clash. The importer begins requests like any caller, so nothing has to
be known of bundles or NPM databases. `UntouchedFieldsAlwaysStay` and
`PasswordsAlwaysSurvive` follow from `AllFaithful`: a request that is not stale
carries, in the fields it does not name, what is stored, and of the password of
an access list nothing but `Kept`. `ImportsAlwaysRestore` adds `TransferInv`:
the records an undisturbed import has been through are in the tables,
also where it stopped halfway (`ImportInv`, `TransferStops`), the request it waits for carries the record at hand (`WriterInv`),
and a bundle holds what an export read (`ExportInv`); every access list
that a host of a dump names is among its records (`Closed`). `RoutingTypeCorrect`
covers both modules.

Only model-checked are the five liveness properties: `EveryReconcileEnds`,
`IngressResumes`, `EveryOpeningEnds`, `EventuallyCurrent` (with it all of
`HealthScheduler`) and `RecoversOncePublished`: liveness under fairness and
ENABLED are outside what TLAPS proves. The two properties of the documentation
are refuted, not proved.

## Not modelled, and the plan

Not modelled: Nginx itself beyond "it loads what `current` points at"; the
renderers (pure functions); packet parsing and cryptography; CLI, UI, reports
and API translation; roles and changes of `is_admin`; TLS settings, locations,
upstream addresses and advanced configuration of a host, on which no other row
depends; rules and principals of an access list, which are replaced like its
users; users, certificates and settings among imported records; the operating
system's loss of unsynced writes.

Next, in this order:

1. boot (`Boot`): migrations (`portwyrm/tables/migrations.py`) applied by two
   containers, the first administrator and its credential file (`portwyrm/api/app.py`,
   `portwyrm/runtime/bootstrap.py`, `deploy/rotate-bootstrap-admin.py`), with crashes
   in between: an administrator is always reachable, what was applied is
   recorded, every boot ends up serving;
2. the operations of the controller called by hand (stage, validate, reload,
   activate, clear_active), the cancellation of a request that awaits a
   reconciliation, and a database that fails inside `_persist()`;
3. the rest of certificates: rows written through the generic operations, the
   four reads of a download, a renewal by DNS, a crash between `detach()` and
   `put()`, and what one request's undo deletes of another's;
4. supervisor, log rotation and several gateway workers on one port;
5. users, certificates and settings among imported records;
6. proofs of what these add; in particular that the invariants of
   `RuntimeControllerProofs` survive the operations called by hand, and those of
   `CertificatesProofs` a crash between `detach()` and `put()`.
