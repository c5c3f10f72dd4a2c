---------------------------- MODULE Certificates ----------------------------
(***************************************************************************)
(* TableCertificateManager and CertificateMaterialStore: certificates as   *)
(* rows of a table and as directories of key material, changed by          *)
(* concurrent requests in steps that may fail or be cut off by a crash.    *)
(*                                                                         *)
(* Material is the number of its issuance.  A row keeps what the           *)
(* properties tell apart: its status, its provider, and the issuance its   *)
(* subject and expiry describe.  Reading, merging and writing one row is   *)
(* one step.  Reconciliation (Reconciler) appears by what it does to the   *)
(* material that Nginx holds in memory.                                    *)
(***************************************************************************)
EXTENDS Naturals, FiniteSets

CONSTANTS
    Cert,         \* ids of certificates; a free id may be taken again
    Host,         \* hosts that may be assigned a certificate
    Request,      \* API requests under way at the same time
    Missing,      \* no directory, no row, no certificate
    MayFail,      \* the steps that may fail
    MaxIssued,    \* bound on bundles uploaded or issued
    MaxFaults, MaxCrashes

Kinds == {"create", "replace", "renew", "delete"}

\* The steps that raise before they have an effect, and that the code can take back:
\* writes to the database and moves of directories, but no removal and no step of an undo.
WritesAndMoves == {"issue", "updateRow", "detach", "aside", "swap", "activate", "deleteRow"}

\* The awaits of the requests; the last four are those of an `except` block.
Steps == {"issue", "updateRow", "detach", "aside", "swap", "cleanup", "activate",
          "deleteRow", "commit",
          "dropMaterial", "dropRow", "rollback", "restoreRow"}

Material == 1..MaxIssued
Row == [status : {"pending", "active"}, provider : {"other", "letsencrypt"},
        serial : Material]
Optional(S) == S \cup {Missing}

ASSUME CertificatesAssumption ==
    /\ Missing \notin Cert \cup Material \cup Row
    /\ MayFail \subseteq Steps
    /\ MaxIssued \in Nat /\ MaxFaults \in Nat /\ MaxCrashes \in Nat

VARIABLES
    row,          \* the row of each certificate
    live,         \* the material in npm-<id>
    backup,       \* the material in .npm-<id>-backup
    quarantine,   \* of each request, the material in its .npm-<id>-delete-<uuid>, by id
    assigned,     \* the certificate of each host, in the database
    inForce,      \* the certificate of each host, in the active generation
    loaded,       \* the material Nginx read when it last loaded its configuration
    request,      \* what each request is doing
    overlapped,   \* certificates that two requests changed at the same time
    interrupted,  \* <<kind, certificate>> of the requests a crash has cut off
    issued, faults, crashes

disk == <<live, backup, quarantine>>
nginx == <<inForce, loaded>>
budgets == <<faults, crashes>>
rest == <<assigned, overlapped, interrupted, issued, budgets>>
vars == <<row, disk, assigned, nginx, request, overlapped, interrupted, issued, budgets>>

\* before is history: the row and the material when the request began.
Idle == [kind |-> Missing, pc |-> "idle", cert |-> Missing, serial |-> Missing,
         previous |-> Missing, updated |-> FALSE, before |-> <<Missing, Missing>>]

CTypeOK ==
    /\ row \in [Cert -> Optional(Row)]
    /\ live \in [Cert -> Optional(Material)] /\ backup \in [Cert -> Optional(Material)]
    /\ quarantine \in [Request -> [Cert -> Optional(Material)]]
    /\ assigned \in [Host -> Optional(Cert)] /\ inForce \in [Host -> Optional(Cert)]
    /\ loaded \in [Cert -> Optional(Material)]
    /\ request \in [Request ->
          [kind : Optional(Kinds), pc : Steps \cup {"idle", "done", "failed"},
           cert : Optional(Cert), serial : Optional(Material), previous : Optional(Row),
           updated : BOOLEAN, before : Optional(Row) \X Optional(Material)]]
    /\ overlapped \subseteq Cert /\ interrupted \subseteq Kinds \X Cert
    /\ issued \in 0..MaxIssued /\ faults \in 0..MaxFaults /\ crashes \in 0..MaxCrashes

CInit ==
    /\ row = [c \in Cert |-> Missing]
    /\ live = [c \in Cert |-> Missing] /\ backup = [c \in Cert |-> Missing]
    /\ quarantine = [r \in Request |-> [c \in Cert |-> Missing]]
    /\ assigned = [h \in Host |-> Missing] /\ inForce = assigned
    /\ loaded = [c \in Cert |-> Missing]
    /\ request = [r \in Request |-> Idle]
    /\ overlapped = {} /\ interrupted = {}
    /\ issued = 0 /\ faults = 0 /\ crashes = 0

---------------------------------------------------------------------------
(* Helpers *)

Busy(c) == {r \in Request : request[r].cert = c /\ request[r].pc \in Steps}

\* r is at this step of a request on c; it goes to another, or ends.  A renewal
\* that comes to commit_detach() has updated its row (metadata_updated).
At(r, c, here) == request[r].pc = here /\ request[r].cert = c
Go(r, there) ==
    request' = [request EXCEPT ![r] =
          IF there \in Steps
          THEN [request[r] EXCEPT !.pc = there,
                                  !.updated = request[r].updated \/ there = "commit"]
          ELSE [Idle EXCEPT !.pc = there]]

\* A second request on c, or an assignment of c, begins while one is under way.
Overlaps(c) == overlapped' = IF Busy(c) = {} THEN overlapped ELSE overlapped \cup {c}

\* Mutant of Reads: hosts, not certificates.
ReadsHosts(hosts) == [h \in Host |-> IF hosts[h] = Missing THEN Missing ELSE live[hosts[h]]]

\* What Nginx reads when it loads a configuration that names these certificates.
Reads(hosts) == [c \in Cert |-> IF \E h \in Host : hosts[h] = c THEN live[c] ELSE Missing]

\* The reconciliation that follows a commit.  A generation names directories and
\* not their contents: if it is the active one, nothing is validated or reloaded.
Reconcile(hosts) ==
    IF hosts # inForce /\ \A h \in Host : hosts[h] # Missing => live[hosts[h]] # Missing
    THEN inForce' = hosts /\ loaded' = Reads(hosts)
    ELSE UNCHANGED nginx

\* Mutant of AfterPut: a renewal skips its row.
AfterPutUnsaved(kind) == CASE kind = "create"  -> "activate"
                           [] kind = "replace" -> "done"
                           [] kind = "renew"   -> "commit"

\* store.put has returned; the statement after it.
AfterPut(kind) == CASE kind = "create"  -> "activate"
                    [] kind = "replace" -> "done"
                    [] kind = "renew"   -> "updateRow"

\* Mutant of Handler: a renewal's `try` begins after put().
HandlerLate(kind, step) ==
    CASE kind = "create" /\ step \in {"aside", "swap", "cleanup", "activate"} -> "dropMaterial"
      [] kind = "replace" /\ step \in {"aside", "swap", "cleanup"} -> "restoreRow"
      [] kind = "renew" /\ step \in {"updateRow", "commit"} -> "dropMaterial"
      [] kind = "delete" /\ step = "deleteRow" -> "rollback"
      [] OTHER -> "failed"

\* Where an exception raised at a step leads.
Handler(kind, step) ==
    CASE kind = "create" /\ step \in {"aside", "swap", "cleanup", "activate"} -> "dropMaterial"
      [] kind = "replace" /\ step \in {"aside", "swap", "cleanup"} -> "restoreRow"
      [] kind = "renew" /\ step \in {"aside", "swap", "cleanup", "updateRow", "commit"} ->
             "dropMaterial"
      [] kind = "delete" /\ step = "deleteRow" -> "rollback"
      [] OTHER -> "failed"

\* An error the code meets (it is not one of the budget's).
Raise(r, step) == Go(r, Handler(request[r].kind, step))

---------------------------------------------------------------------------
(* Requests begin *)

Begin(r, kind, c, step, serial) ==
    /\ request[r].pc \in {"idle", "done", "failed"}
    /\ request' = [request EXCEPT ![r] =
          [kind |-> kind, pc |-> step, cert |-> c, serial |-> serial,
           previous |-> row[c], updated |-> FALSE, before |-> <<row[c], live[c]>>]]
    /\ Overlaps(c)
    /\ UNCHANGED <<disk, assigned, interrupted, budgets>>

Issue == issued < MaxIssued /\ issued' = issued + 1

\* upload() of a new bundle and request(): validated, or issued, before the row
\* is created as "pending".
BeginCreate(r, c, provider) ==
    /\ row[c] = Missing
    /\ Issue
    /\ Begin(r, "create", c, "aside", issued')
    /\ row' = [row EXCEPT ![c] = [status |-> "pending", provider |-> provider,
                                 serial |-> issued']]
    /\ Reconcile(assigned)

\* upload() of a bundle for an existing certificate.
BeginReplace(r, c) ==
    /\ row[c] # Missing
    /\ Issue
    /\ Begin(r, "replace", c, "updateRow", issued')
    /\ UNCHANGED <<row, nginx>>

\* renew(), of an ACME certificate that is due or whose renewal is forced.
BeginRenew(r, c) ==
    /\ row[c] # Missing /\ row[c].provider = "letsencrypt"
    /\ Begin(r, "renew", c, "issue", Missing)
    /\ UNCHANGED <<row, nginx, issued>>

\* Mutant of BeginDelete: delete() does not look.
BeginDeleteAssigned(r, c) ==
    /\ Begin(r, "delete", c, "detach", Missing)
    /\ UNCHANGED <<row, nginx, issued>>

\* delete(), of a certificate that is assigned to no host when delete() looks.
BeginDelete(r, c) ==
    /\ \A h \in Host : assigned[h] # c
    /\ Begin(r, "delete", c, "detach", Missing)
    /\ UNCHANGED <<row, nginx, issued>>

---------------------------------------------------------------------------
(* Steps on the row *)

\* update_resource(): None, and so an error, when the row is gone.
Update(r, c, step, there, new) ==
    /\ At(r, c, step)
    /\ \/ /\ row[c] # Missing
          /\ row' = [row EXCEPT ![c] = new]
          /\ Reconcile(assigned)
          /\ Go(r, there)
       \/ row[c] = Missing /\ Raise(r, step) /\ UNCHANGED <<row, nginx>>
    /\ UNCHANGED <<disk, rest>>

\* upload() describes the new bundle, as active, before it stores it.
UpdateReplaced(r, c) ==
    /\ request[r].kind = "replace"
    /\ Update(r, c, "updateRow", "aside",
              [status |-> "active", provider |-> "other", serial |-> request[r].serial])

UpdateRenewed(r, c) ==
    /\ request[r].kind = "renew"
    /\ Update(r, c, "updateRow", "commit",
              [row[c] EXCEPT !.status = "active", !.serial = request[r].serial])

Activate(r, c) ==
    Update(r, c, "activate", "done", [row[c] EXCEPT !.status = "active"])

\* delete_resource(): False, and so an error, when the row is gone.
DeleteRow(r, c) ==
    /\ At(r, c, "deleteRow")
    /\ \/ /\ row[c] # Missing
          /\ row' = [row EXCEPT ![c] = Missing]
          /\ Reconcile(assigned)
          /\ Go(r, "commit")
       \/ row[c] = Missing /\ Raise(r, "deleteRow") /\ UNCHANGED <<row, nginx>>
    /\ UNCHANGED <<disk, rest>>

---------------------------------------------------------------------------
(* Steps on the directories *)

\* issuer.issue(), and the row that an undo would restore.
IssueEnds(r, c) ==
    /\ At(r, c, "issue")
    /\ Issue
    /\ request' = [request EXCEPT ![r].pc = "detach", ![r].serial = issued',
                                 ![r].previous = row[c]]
    /\ UNCHANGED <<row, disk, assigned, nginx, overlapped, interrupted, budgets>>

\* detach(): the directory, if there is one, goes to the request's quarantine.
Detach(r, c) ==
    /\ At(r, c, "detach")
    /\ quarantine' = [quarantine EXCEPT ![r][c] = live[c]]
    /\ live' = [live EXCEPT ![c] = Missing]
    /\ Go(r, IF request[r].kind = "renew" THEN "aside" ELSE "deleteRow")
    /\ UNCHANGED <<row, nginx, backup, rest>>

\* put(), up to here: an old backup is removed, the directory becomes the backup.
PutAside(r, c) ==
    /\ At(r, c, "aside")
    /\ backup' = [backup EXCEPT ![c] = live[c]]
    /\ live' = [live EXCEPT ![c] = Missing]
    /\ Go(r, "swap")
    /\ UNCHANGED <<row, nginx, quarantine, rest>>

\* put(): the stage becomes the directory.  It cannot replace one that another
\* request has put there meanwhile, nor can the backup.
PutSwap(r, c) ==
    /\ At(r, c, "swap")
    /\ \/ live[c] = Missing /\ live' = [live EXCEPT ![c] = request[r].serial] /\ Go(r, "cleanup")
       \/ live[c] # Missing /\ Raise(r, "swap") /\ UNCHANGED live
    /\ UNCHANGED <<row, nginx, backup, quarantine, rest>>

PutCleanup(r, c) ==
    /\ At(r, c, "cleanup")
    /\ backup' = [backup EXCEPT ![c] = Missing]
    /\ Go(r, AfterPut(request[r].kind))
    /\ UNCHANGED <<row, nginx, live, quarantine, rest>>

\* Mutant of CommitDetach: a deletion leaves it to the next one to tidy up.
CommitDetachRenewed(r, c) ==
    /\ At(r, c, "commit")
    /\ quarantine' = IF request[r].kind = "renew"
                     THEN [quarantine EXCEPT ![r][c] = Missing] ELSE quarantine
    /\ Go(r, "done")
    /\ UNCHANGED <<row, nginx, live, backup, rest>>

\* commit_detach(): the quarantine is removed.
CommitDetach(r, c) ==
    /\ At(r, c, "commit")
    /\ quarantine' = [quarantine EXCEPT ![r][c] = Missing]
    /\ Go(r, "done")
    /\ UNCHANGED <<row, nginx, live, backup, rest>>

---------------------------------------------------------------------------
(* What the `except` blocks undo *)

\* store.delete(), of whatever is in the directory.
DropMaterial(r, c) ==
    /\ At(r, c, "dropMaterial")
    /\ live' = [live EXCEPT ![c] = Missing]
    /\ Go(r, IF request[r].kind = "create" THEN "dropRow" ELSE "rollback")
    /\ UNCHANGED <<row, nginx, backup, quarantine, rest>>

\* delete_resource() of a certificate that could not be created.
DropRow(r, c) ==
    /\ At(r, c, "dropRow")
    /\ IF row[c] # Missing
       THEN row' = [row EXCEPT ![c] = Missing] /\ Reconcile(assigned)
       ELSE UNCHANGED <<row, nginx>>
    /\ Go(r, "failed")
    /\ UNCHANGED <<disk, rest>>

\* rollback_detach(): the quarantine becomes the directory again, unless another
\* request has put one there.
RollbackDetach(r, c) ==
    /\ At(r, c, "rollback")
    /\ \/ /\ quarantine[r][c] # Missing /\ live[c] = Missing
          /\ live' = [live EXCEPT ![c] = quarantine[r][c]]
          /\ quarantine' = [quarantine EXCEPT ![r][c] = Missing]
          /\ Go(r, IF request[r].updated THEN "restoreRow" ELSE "failed")
       \/ /\ quarantine[r][c] = Missing
          /\ Go(r, IF request[r].updated THEN "restoreRow" ELSE "failed")
          /\ UNCHANGED <<live, quarantine>>
       \/ /\ quarantine[r][c] # Missing /\ live[c] # Missing
          /\ Go(r, "failed")
          /\ UNCHANGED <<live, quarantine>>
    /\ UNCHANGED <<row, nginx, backup, rest>>

\* update_resource() with the row as it was read before.
RestoreRow(r, c) ==
    /\ At(r, c, "restoreRow")
    /\ IF row[c] # Missing /\ request[r].previous # Missing
       THEN row' = [row EXCEPT ![c] = request[r].previous] /\ Reconcile(assigned)
       ELSE UNCHANGED <<row, nginx>>
    /\ Go(r, "failed")
    /\ UNCHANGED <<disk, rest>>

---------------------------------------------------------------------------
(* Failures, crashes, and the hosts *)

\* A step raises instead.  put() restores the backup when its swap fails.
Fails(r, c) ==
    /\ faults < MaxFaults /\ faults' = faults + 1
    /\ request[r].cert = c /\ request[r].pc \in MayFail
    /\ IF request[r].pc = "swap" /\ backup[c] # Missing /\ live[c] = Missing
       THEN /\ live' = [live EXCEPT ![c] = backup[c]]
            /\ backup' = [backup EXCEPT ![c] = Missing]
       ELSE UNCHANGED <<live, backup>>
    /\ Raise(r, request[r].pc)
    /\ UNCHANGED <<row, quarantine, assigned, nginx, overlapped, interrupted, issued, crashes>>

\* The process dies; the container starts again with a new Nginx.
Crash ==
    /\ crashes < MaxCrashes /\ crashes' = crashes + 1
    /\ interrupted' = interrupted \cup
          {<<request[r].kind, request[r].cert>> :
             r \in {q \in Request : request[q].pc \in Steps \ {"issue"}}}
    /\ request' = [r \in Request |-> Idle]
    /\ quarantine' = [r \in Request |-> [c \in Cert |-> Missing]]   \* nobody knows its name
    /\ loaded' = Reads(inForce)
    /\ UNCHANGED <<row, live, backup, assigned, inForce, overlapped, issued, faults>>

\* A host is saved with a certificate that its client has seen, or with none.
Assign(h, c) ==
    /\ c # Missing => row[c] # Missing
    /\ assigned' = [assigned EXCEPT ![h] = c]
    /\ Reconcile(assigned')
    /\ IF c # Missing THEN Overlaps(c) ELSE UNCHANGED overlapped
    /\ UNCHANGED <<row, disk, request, interrupted, issued, budgets>>

CStep(r, c) ==
    \/ \E provider \in {"other", "letsencrypt"} : BeginCreate(r, c, provider)
    \/ BeginReplace(r, c) \/ BeginRenew(r, c) \/ BeginDelete(r, c)
    \/ UpdateReplaced(r, c) \/ UpdateRenewed(r, c) \/ Activate(r, c) \/ DeleteRow(r, c)
    \/ IssueEnds(r, c) \/ Detach(r, c) \/ PutAside(r, c) \/ PutSwap(r, c) \/ PutCleanup(r, c)
    \/ CommitDetach(r, c)
    \/ DropMaterial(r, c) \/ DropRow(r, c) \/ RollbackDetach(r, c) \/ RestoreRow(r, c)
    \/ Fails(r, c)

CNext ==
    \/ \E r \in Request, c \in Cert : CStep(r, c)
    \/ \E h \in Host, c \in Optional(Cert) : Assign(h, c)
    \/ Crash

CSpec == CInit /\ [][CNext]_vars

---------------------------------------------------------------------------
(* Properties *)

\* A crash cut off a request of one of these kinds on c.
Interrupted(c, kinds) == \E k \in kinds : <<k, c>> \in interrupted

\* An active row describes the material in the certificate's directory, at any
\* moment at which no request is replacing, renewing or deleting it: a new
\* certificate is not active before its material is there (upload() and request()
\* update the status after put()), and a request that fails midway restores both.
ActiveHasMaterial ==
    \A c \in Cert \ overlapped :
        /\ row[c] # Missing /\ row[c].status = "active"
        /\ \A r \in Busy(c) : request[r].kind = "create"
        /\ ~Interrupted(c, Kinds \ {"create"})
        => live[c] = row[c].serial

\* A request that fails leaves row and material as it found them: the `except`
\* blocks of TableCertificateManager undo every step that was taken.
FailedChangesNothing ==
    [][\A r \in Request :
          LET c == request[r].cert
          IN  /\ request[r].pc \in Steps /\ request'[r].pc = "failed"
              /\ c \notin overlapped
              => <<row'[c], live'[c]>> = request[r].before]_vars

\* When no request is under way, no private key is left in a backup, in a
\* quarantine, or in the directory of a certificate that has no row: put(),
\* commit_detach() and the `except` blocks remove what they moved away.
NoKeyLeftBehind ==
    \A c \in Cert \ overlapped :
        Busy(c) = {} /\ ~Interrupted(c, Kinds)
        => /\ backup[c] = Missing
           /\ row[c] = Missing => live[c] = Missing
           /\ \A r \in Request : quarantine[r][c] = Missing

\* No host is assigned a certificate that was deleted, or whose creation failed:
\* delete() refuses while the certificate is assigned.
AssignedExists ==
    \A h \in Host : assigned[h] \in Cert \ overlapped => row[assigned[h]] # Missing

\* Nginx holds the material that is in the directory of every certificate in
\* force, once no request is under way: docs/architecture/architecture.md says
\* that certificate changes are reconciled and that Nginx is reloaded.
ServedIsLive ==
    \A c \in Cert \ overlapped :
        (\E h \in Host : inForce[h] = c) /\ Busy(c) = {} /\ ~Interrupted(c, Kinds)
        => loaded[c] = live[c]
=============================================================================
