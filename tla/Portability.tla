---------------------------- MODULE Portability ----------------------------
(***************************************************************************)
(* Export bundles, their import, and the import of Nginx Proxy Manager     *)
(* tables, among the requests of Routing.                                  *)
(*                                                                         *)
(* An export reads one collection after the other.  An import takes the    *)
(* records in order and creates or updates each through the tables, so a   *)
(* record is a request of Routing; it stops at the first record that is    *)
(* refused and keeps what it has written.  MaxRequests bounds the exports  *)
(* and imports of a behaviour along with its requests.                     *)
(***************************************************************************)
EXTENDS Routing, Sequences

CONSTANTS
    Dumps   \* the contents of NPM databases: sequences of rows

\* A database holds its passwords, and only hosts name access lists.
ASSUME PortabilityAssumption ==
    /\ None \notin Request
    /\ \A dump \in Dumps :
         /\ dump \in Seq([table : {"hosts", "lists"}, id : Optional(Id), deleted : BOOLEAN,
                          row : Row])
         /\ \A n \in 1..Len(dump) :
              /\ dump[n].row.secret # Kept
              /\ dump[n].table = "lists" => dump[n].row.lists = {}

VARIABLES
    bundle,      \* the bundle exported last
    transfer,    \* the export or import under way
    restored     \* history: how far the import that ended last came, until another
                 \* request commits

pvars == <<bundle, transfer, restored>>
vars == <<rvars, pvars>>

\* The collections of a bundle, in its order.
Collections == <<"lists", "hosts", "streams">>

\* tables are still to be exported, todo is still to be imported, by the request by.
\* clean: no other request has committed since the transfer began.
Still == [kind |-> "none", tables |-> <<>>, records |-> <<>>, todo |-> <<>>, by |-> None,
          commit |-> FALSE, replace |-> FALSE, clean |-> TRUE]

\* A set of numbers as an ascending sequence, the only one there is.
Ascending(N) ==
    {f \in [1..Cardinality(N) -> N] : \A m, n \in 1..Cardinality(N) : m < n => f[m] < f[n]}

\* The records an export finds in table t.
Resources(t) ==
    {[n \in DOMAIN ids |-> [table |-> t, id |-> ids[n], row |-> Shown(t, store[t][ids[n]])]] :
        ids \in Ascending({i \in Id : store[t][i] # None})}

\* The first row of an id that is not soft-deleted.
Accepted(dump, n) ==
    /\ dump[n].id # None /\ ~dump[n].deleted
    /\ \A m \in 1..(n - 1) : dump[m].table = dump[n].table /\ dump[m].id = dump[n].id =>
                                 dump[m].deleted

\* The references of a host resolve in what was accepted.
Resolves(dump, n) ==
    dump[n].table = "hosts" =>
        \A l \in dump[n].row.lists : \E m \in 1..Len(dump) :
            Accepted(dump, m) /\ dump[m].table = "lists" /\ dump[m].id = l

\* preflight_npm; the rest is quarantined.
Preflight(dump) ==
    {[n \in DOMAIN kept |-> [table |-> dump[kept[n]].table, id |-> dump[kept[n]].id,
                             row |-> dump[kept[n]].row]] :
        kept \in Ascending({n \in 1..Len(dump) : Accepted(dump, n) /\ Resolves(dump, n)})}

Preflighted == UNION {Preflight(dump) : dump \in Dumps}

PortabilityInit ==
    /\ RoutingInit
    /\ bundle = None /\ transfer = Still /\ restored = None

Begins(t) ==
    /\ transfer = Still /\ begun < MaxRequests
    /\ transfer' = t /\ begun' = begun + 1
    /\ UNCHANGED <<family, store, request, loose>>

ExportBegins ==
    /\ Begins([Still EXCEPT !.kind = "export", !.tables = Collections])
    /\ UNCHANGED <<bundle, restored>>

\* list_resources of the next collection; after the last the bundle is sealed.
ExportTable ==
    /\ transfer.kind = "export"
    /\ \E found \in Resources(Head(transfer.tables)) :
         LET records == transfer.records \o found IN
         IF Len(transfer.tables) = 1
         THEN transfer' = Still /\ bundle' = records
         ELSE /\ transfer' = [transfer EXCEPT !.tables = Tail(@), !.records = records]
              /\ UNCHANGED bundle
    /\ UNCHANGED <<rvars, restored>>

\* commit is FALSE for a preview and for a dry run.
ImportBegins ==
    /\ transfer = Still /\ begun < MaxRequests
    /\ \E commit, replace \in BOOLEAN, kind \in {"bundle", "npm"} :
         \E records \in IF kind = "bundle" THEN {bundle} \ {None}
                        ELSE IF "hosts" \in family THEN Preflighted ELSE {} :
           Begins([Still EXCEPT !.kind = kind, !.records = records, !.todo = records,
                                !.commit = commit, !.replace = replace])
    /\ restored' = None
    /\ UNCHANGED bundle

Importing == transfer.kind \in {"bundle", "npm"} /\ transfer.by = None

\* What is stored under the id of a record equals it, but for an owner it lacks.
Same(record, row) ==
    /\ row # None
    /\ LET shown == Shown(record.table, row) IN
       \/ shown = record.row
       \/ record.row.owner = None /\ [shown EXCEPT !.owner = None] = record.row

\* A record that needs no write: unchanged, a conflict of the NPM import, or a preview.
SkipRecord ==
    LET record == Head(transfer.todo)
        existing == store[record.table][record.id]
    IN
    /\ Importing /\ transfer.todo # <<>>
    /\ \/ /\ transfer.kind = "bundle" /\ existing # None
          /\ Shown(record.table, existing) = record.row
       \/ transfer.kind = "npm" /\ existing # None /\ ~transfer.replace
       \/ ~transfer.commit /\ (existing = None \/ transfer.replace)
    /\ transfer' = [transfer EXCEPT !.todo = Tail(@)]
    /\ UNCHANGED <<rvars, bundle, restored>>

\* Mutant of Creation: the tables hand out the ids of what is imported.
CreationAnew(record) ==
    Starts("create", record.table, None, Admin, Fields, record.row)

\* A record that is new.  A stream does not keep its id; the importer becomes the owner
\* of what has none.  The NPM import has no actor and its records no owner_principal_id.
Creation(record) ==
    LET importer == IF transfer.kind = "bundle" THEN Admin ELSE None IN
    Starts("create", record.table, IF record.table = "streams" THEN None ELSE record.id,
           importer, Fields, Assigned(record.table, importer, record.row))

\* A record that replaces what is stored.  The access_list_id of an NPM record loses
\* against the access_list_ids of the stored host.
Replacement(record, existing) ==
    IF transfer.kind = "bundle"
    THEN Starts("update", record.table, record.id, Admin, Fields, record.row)
    ELSE Starts("update", record.table, record.id, None, Fields,
                [record.row EXCEPT !.owner = existing.owner, !.lists = existing.lists])

\* A record that is written.  A resource that was edited back to what the record says
\* has another modified_on and is written too.
WriteRecord(r) ==
    LET record == Head(transfer.todo)
        existing == store[record.table][record.id]
    IN
    /\ Importing /\ transfer.todo # <<>> /\ transfer.commit
    /\ request[r] = Idle
    /\ existing = None \/ transfer.replace
    /\ request' = [request EXCEPT ![r] = IF existing = None THEN Creation(record)
                                         ELSE Replacement(record, existing)]
    /\ transfer' = [transfer EXCEPT !.by = r]
    /\ UNCHANGED <<family, store, begun, loose, bundle, restored>>

\* How far an import has come that nobody disturbed.
Accomplished ==
    IF transfer.kind \in {"bundle", "npm"} /\ transfer.commit /\ transfer.clean
    THEN [kind |-> transfer.kind, replace |-> transfer.replace, records |-> transfer.records,
          done |-> Len(transfer.records) - Len(transfer.todo)]
    ELSE restored

ImportEnds ==
    /\ Importing /\ transfer.todo = <<>>
    /\ transfer' = Still /\ restored' = Accomplished
    /\ UNCHANGED <<rvars, bundle>>

\* The transfer ends with an error: an id that exists, a record that is refused, a client
\* that leaves.  What an import has written stays.
TransferFails ==
    /\ transfer # Still /\ transfer.by = None
    /\ transfer' = Still /\ restored' = Accomplished
    /\ UNCHANGED <<rvars, bundle>>

\* A request of the API, or the one of the importer, goes on.
RequestCommits(r) ==
    /\ Commit(r)
    /\ IF transfer.by = r
       THEN /\ transfer' = [transfer EXCEPT !.by = None, !.todo = Tail(@)]
            /\ UNCHANGED restored
       ELSE /\ transfer' = IF transfer = Still THEN Still
                           ELSE [transfer EXCEPT !.clean = FALSE]
            /\ restored' = None
    /\ UNCHANGED bundle

RequestAborts(r) ==
    /\ Abort(r)
    /\ IF transfer.by = r THEN transfer' = Still /\ restored' = Accomplished
       ELSE UNCHANGED <<transfer, restored>>
    /\ UNCHANGED bundle

\* The bundle is taken to another, empty installation.
Reinstall ==
    /\ bundle # None /\ transfer = Still
    /\ \A r \in Request : request[r] = Idle
    /\ store' = [t \in Table |-> [i \in Id |-> None]] /\ loose' = {}
    /\ restored' = None
    /\ UNCHANGED <<family, request, begun, bundle, transfer>>

PortabilityNext ==
    \/ ExportBegins \/ ExportTable \/ ImportBegins \/ SkipRecord \/ ImportEnds
    \/ TransferFails \/ Reinstall
    \/ \E r \in Request :
         \/ (BeginCreate(r) \/ BeginEdit(r) \/ Validate(r) \/ Open(r)) /\ UNCHANGED pvars
         \/ WriteRecord(r) \/ RequestCommits(r) \/ RequestAborts(r)

PortabilitySpec == PortabilityInit /\ [][PortabilityNext]_vars

-----------------------------------------------------------------------------
\* However far an undisturbed import came before it ended or was stopped, the hosts and
\* access lists of a bundle that it went through are stored under their ids as exported,
\* passwords apart, and of an NPM database every accepted row, as it was there if it was to
\* replace what existed.  When the import reached its end, the access lists its NPM hosts
\* name exist (_apply, _apply_npm_report).
ImportRestores ==
    restored # None =>
        \A n \in 1..restored.done :
          LET record == restored.records[n]
              now == store[record.table][record.id]
          IN  IF restored.kind = "bundle"
              THEN record.table # "streams" => Same(record, now)
              ELSE /\ now # None
                   /\ restored.done = Len(restored.records) =>
                        \A l \in record.row.lists : store["lists"][l] # None
                   /\ restored.replace => now.claims = record.row.claims
                                          /\ now.enabled = record.row.enabled
                                          /\ now.secret = record.row.secret
=============================================================================
