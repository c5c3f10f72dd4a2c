------------------------------ MODULE Routing ------------------------------
(***************************************************************************)
(* Proxy hosts, streams, QUIC routes and access lists, as API requests     *)
(* create, edit and delete them.                                           *)
(*                                                                         *)
(* A request reads the resource in one transaction, on some tables asks    *)
(* the table to validate the result in another, and writes in a third.     *)
(* The third reads again before it writes and is therefore two steps,      *)
(* Open and Commit, between which other transactions may commit (SQLite    *)
(* refuses most of these interleavings, PostgreSQL admits them).  What a   *)
(* check refuses ends, like a client that leaves, in Abort.                *)
(*                                                                         *)
(* A row is cut down to its owner, one column (enabled; the satisfy_any of *)
(* an access list), what it claims (the domain names of a host, the        *)
(* protocols of a stream's one port, the server name of a QUIC route), the *)
(* access lists of a host and the password of the one user of an access    *)
(* list.  Every caller holds the permissions of the sections, which        *)
(* Identity models.                                                        *)
(***************************************************************************)
EXTENDS Naturals, FiniteSets

CONSTANTS
    User, Admin,   \* principals, and the one that is an administrator
    Request,       \* requests under way at the same time
    Claim,         \* domain names, protocols, server names
    Password,      \* bcrypt hashes of passwords
    ListId,        \* the access lists a request may name, whether they exist or not
    Naming,        \* the sets of columns that requests name, besides those they must
    MaxId,         \* bound on the ids of a table
    MaxRequests,   \* bound on the requests of a behaviour
    None,          \* no row, no owner, no user in an access list
    Kept           \* a user of an access list named without a password

Id == 1..MaxId
Optional(S) == S \cup {None}
Fields == {"owner", "enabled", "claims", "lists", "secret"}
Table == {"hosts", "streams", "routes", "lists"}
Ops == {"create", "update", "replace", "toggle", "delete"}

Row == [owner : Optional(User), enabled : BOOLEAN, claims : SUBSET Claim,
        lists : SUBSET ListId, secret : Optional(Password \cup {Kept})]

ASSUME RoutingAssumption ==
    /\ Admin \in User
    /\ MaxId \in Nat /\ MaxRequests \in Nat
    /\ ListId \subseteq Id /\ Naming \subseteq SUBSET Fields
    /\ None \notin User \cup Id \cup Password \cup {Kept} /\ None \notin Row
    /\ Kept \notin Password /\ Password # {}

VARIABLES
    family,    \* the tables this behaviour's requests are about
    store,     \* the rows of each table
    request,   \* what each request is doing
    begun,     \* requests begun
    loose      \* history: streams whose ports were written without a valid check

rvars == <<family, store, request, begun, loose>>

Blank == [owner |-> None, enabled |-> TRUE, claims |-> {}, lists |-> {}, secret |-> None]

\* actor is who must be allowed to change the row, until that is checked, and named what
\* the request means to change; row is what is to be written, seen what the writing
\* transaction read.  notes says what other requests committed meanwhile: to the same
\* row since the request read it ("stale") or since its transaction did ("torn"), to the
\* table since collisions were looked for ("overtaken").
Idle == [at |-> "idle", op |-> "delete", table |-> "hosts", id |-> None, actor |-> None,
         named |-> {}, row |-> None, seen |-> None, notes |-> {}]

RoutingTypeOK ==
    /\ family \subseteq Table
    /\ store \in [Table -> [Id -> Optional(Row)]]
    /\ \A t \in Table, i \in Id : store[t][i] # None => store[t][i].secret # Kept
    /\ request \in [Request ->
          [at : {"idle", "validate", "open", "commit"}, op : Ops, table : Table,
           id : Optional(Id), actor : Optional(User), named : SUBSET Fields,
           row : Optional(Row), seen : Optional(Row),
           notes : SUBSET {"stale", "torn", "overtaken"}]]
    /\ begun \in 0..MaxRequests
    /\ loose \subseteq Id

Owned(t) == t # "lists"
Offered(t) ==
    CASE t = "routes" -> Ops \ {"replace", "toggle"}
      [] t = "lists" -> Ops \ {"toggle"}
      [] OTHER -> Ops

\* What a request may say its resource claims.  A host and a stream claim something,
\* a QUIC route one name.
Claims(t) ==
    CASE t = "routes" -> {{c} : c \in Claim}
      [] t = "lists" -> {{}}
      [] OTHER -> SUBSET Claim \ {{}}

Columns(t) ==
    CASE t = "hosts" -> {"owner", "enabled", "claims", "lists"}
      [] t = "lists" -> {"enabled", "secret"}
      [] OTHER -> {"owner", "enabled", "claims"}

\* A PATCH names any columns.  POST and PUT name what the resource claims; so does an
\* update of a QUIC route, which sends a resource.
Required(t, op) ==
    IF op \in {"create", "replace"} \/ t = "routes" THEN Columns(t) \cap {"claims"} ELSE {}

\* The columns a request names.
Named(t, op) ==
    CASE op = "toggle" -> {{"enabled"}}
      [] op = "delete" -> {{}}
      [] OTHER -> {(N \cap Columns(t)) \cup Required(t, op) : N \in Naming} \ {{}}

\* The payloads that name these columns, the others at their defaults.
Payload(t, named) ==
    [owner : IF "owner" \in named THEN Optional(User) ELSE {None},
     enabled : IF "enabled" \in named THEN BOOLEAN ELSE {t # "lists"},
     claims : IF "claims" \in named THEN Claims(t) ELSE {{}},
     lists : IF "lists" \in named THEN SUBSET ListId ELSE {{}},
     secret : IF "secret" \in named THEN Optional(Password \cup {Kept}) ELSE {None}]

\* A new resource without an owner belongs to its creator.
Assigned(t, actor, row) ==
    IF Owned(t) /\ row.owner = None THEN [row EXCEPT !.owner = actor] ELSE row

Overlay(row, named, payload) ==
    [owner |-> IF "owner" \in named THEN payload.owner ELSE row.owner,
     enabled |-> IF "enabled" \in named THEN payload.enabled ELSE row.enabled,
     claims |-> IF "claims" \in named THEN payload.claims ELSE row.claims,
     lists |-> IF "lists" \in named THEN payload.lists ELSE row.lists,
     secret |-> IF "secret" \in named THEN payload.secret ELSE row.secret]

\* Mutant of Shown: the API's resource carries the password hashes of an access list.
ShownHashes(t, row) == IF t = "streams" THEN [row EXCEPT !.owner = None] ELSE row

\* The row as the API's resource: no password hash, and no owner of a stream.
Shown(t, row) ==
    [row EXCEPT !.owner = IF t = "streams" THEN None ELSE @,
                !.secret = IF @ = None THEN None ELSE Kept]

\* The API shows a resource to administrators and to the owner its resource names.  The
\* QUIC API leaves edits to enforce_ownership.
Sees(actor, t, row) ==
    \/ actor = Admin \/ t = "routes"
    \/ Shown(t, row).owner = actor

\* Nobody but the owner changes a row, unless it has none.
MayChange(actor, row) == actor \in {Admin, None} \/ row.owner \in {None, actor}

\* Mutant of Clash: the port's protocols are compared as one word.
ClashWhole(row, other) == row.claims = other.claims

Clash(row, other) == row.claims \cap other.claims # {}

\* Mutant of Free: a disabled resource claims nothing.
FreeOfEnabled(t, id, row) ==
    \A i \in Id \ {id} :
        store[t][i] # None /\ store[t][i].enabled => ~Clash(row, store[t][i])

\* What validate() and the collision checks of the write look for.
Free(t, id, row) ==
    \A i \in Id \ {id} : store[t][i] # None => ~Clash(row, store[t][i])

\* The unique constraints, over the rows of a table.  uq_stream_port_protocol compares
\* the protocol as one word.
Unique(t, rows) ==
    \A i, j \in Id : i # j /\ None \notin {rows[i], rows[j]} =>
        CASE t \in {"hosts", "routes"} -> rows[i].claims \cap rows[j].claims = {}
          [] t = "streams" -> rows[i].claims # rows[j].claims
          [] OTHER -> TRUE

Validated(t, op) ==
    \/ t = "streams" /\ op \in {"create", "update"}
    \/ t = "routes" /\ op \in {"create", "update"}

Starts(op, t, id, actor, named, row) ==
    [at |-> IF Validated(t, op) THEN "validate" ELSE "open", op |-> op, table |-> t,
     id |-> id, actor |-> actor, named |-> named, row |-> row, seen |-> None, notes |-> {}]

-----------------------------------------------------------------------------
RoutingInit ==
    /\ family \in {{"hosts", "lists"}, {"streams"}, {"routes"}}
    /\ \E t0 \in family \cup {"none"}, u \in User \ {Admin}, c \in Claim :
         store = [t \in Table |-> [i \in Id |->
             IF i # 1 \/ t0 = "none" \/ t \notin family THEN None
             ELSE IF t = "lists" THEN [Blank EXCEPT !.enabled = FALSE,
                                                    !.secret = CHOOSE p \in Password : TRUE]
             ELSE [Blank EXCEPT !.owner = u, !.claims = {c},
                                !.lists = IF t = "hosts" THEN ListId ELSE {}]]]
    /\ request = [r \in Request |-> Idle]
    /\ begun = 0 /\ loose = {}

\* A request for a new resource.  Only that of a QUIC route may say its id.
BeginCreate(r) ==
    /\ request[r] = Idle /\ begun < MaxRequests
    /\ \E t \in family, actor \in User :
         \E named \in Named(t, "create"), id \in IF t = "routes" THEN Optional(Id) ELSE {None} :
           \E given \in Payload(t, named) :
             request' = [request EXCEPT ![r] =
                 Starts("create", t, id, None, Fields, Assigned(t, actor, given))]
    /\ begun' = begun + 1
    /\ UNCHANGED <<family, store, loose>>

\* A request about a resource reads it first.  PATCH writes all of what it read, with
\* the named fields replaced; PUT writes the payload, with defaults for the rest.
BeginEdit(r) ==
    /\ request[r] = Idle /\ begun < MaxRequests
    /\ \E t \in family, actor \in User, i \in Id :
         /\ store[t][i] # None /\ Sees(actor, t, store[t][i])
         /\ \E op \in Offered(t) \ {"create"} :
              \E named \in Named(t, op) : \E given \in Payload(t, named) :
                request' = [request EXCEPT ![r] =
                    Starts(op, t, i, actor, IF op = "replace" THEN Fields ELSE named,
                           IF op = "update" /\ t # "routes"
                           THEN Overlay(Shown(t, store[t][i]), named, given)
                           ELSE given)]
    /\ begun' = begun + 1
    /\ UNCHANGED <<family, store, loose>>

\* The table's validate operation, a transaction of its own.
Validate(r) ==
    LET q == request[r] IN
    /\ q.at = "validate"
    /\ Free(q.table, q.id, q.row)
    /\ request' = [request EXCEPT ![r].at = "open"]
    /\ UNCHANGED <<family, store, begun, loose>>

\* Mutant of Merged: a toggle writes the resource the request named, defaults and all.
MergedWhole(q, seen) ==
    IF q.op = "update" /\ q.table = "routes" THEN Overlay(seen, q.named, q.row) ELSE q.row

\* A toggle and the update of a QUIC route change the named columns of what the
\* transaction reads.
Merged(q, seen) ==
    IF q.op = "toggle" \/ (q.op = "update" /\ q.table = "routes")
    THEN Overlay(seen, q.named, q.row) ELSE q.row

\* The writes of these look for collisions in their own transaction.
Looks(q) == q.table \in {"hosts", "routes"} /\ q.op \in {"create", "update", "replace"}

\* The writing transaction reads the row, checks who changes it and looks for
\* collisions.  A user named without a password must have one.
Open(r) ==
    LET q == request[r]
        seen == IF q.op = "create" THEN None ELSE store[q.table][q.id]
        row == IF q.op = "create" THEN q.row ELSE Merged(q, seen)
    IN
    /\ q.at = "open"
    /\ q.op # "create" => seen # None /\ MayChange(q.actor, seen)
    /\ q.row.secret = Kept => seen # None /\ seen.secret # None
    /\ Looks(q) => Free(q.table, q.id, row)
    /\ request' = [request EXCEPT ![r] =
                      [@ EXCEPT !.at = "commit", !.seen = seen, !.row = row, !.actor = None]]
    /\ UNCHANGED <<family, store, begun, loose>>

\* The rows an aggregate deletes and inserts anew; everything else is a column, and a
\* commit writes the columns that differ from what the transaction read.
Children(t) ==
    CASE t = "hosts" -> {"claims", "lists"} [] t = "lists" -> {"secret"} [] OTHER -> {}

\* Mutant of Written: the placeholder of a password that was not sent is stored.
WrittenKept(q, now) ==
    IF q.op = "create" THEN q.row
    ELSE Overlay(now, IF q.op = "toggle" THEN {"enabled"} ELSE Fields, q.row)

Written(q, now) ==
    IF q.op = "create" THEN q.row
    ELSE LET replaced == IF q.op = "toggle" THEN {} ELSE Children(q.table)
             changed == {f \in Fields : q.row[f] # q.seen[f]}
             row == Overlay(now, changed \cup replaced, q.row)
         IN  [row EXCEPT !.secret = IF @ = Kept THEN q.seen.secret ELSE @]

\* The request has looked for collisions.
Sought(q) ==
    \/ Looks(q) /\ q.at = "commit"
    \/ q.table = "streams" /\ Validated(q.table, q.op) /\ q.at \in {"open", "commit"}

\* What a commit to row i of table t tells the other requests.
Notes(r, t, i, claimed) ==
    [p \in Request |->
        LET q == request[p] IN
        IF p = r THEN Idle
        ELSE IF q.at = "idle" \/ q.table # t THEN q
        ELSE [q EXCEPT !.notes = @ \cup
                 (IF q.id = i THEN {"stale"} ELSE {}) \cup
                 (IF q.id = i /\ q.at = "commit" THEN {"torn"} ELSE {}) \cup
                 (IF claimed /\ Sought(q) THEN {"overtaken"} ELSE {})]]

\* A new row gets the id its request says or any that is unused: a sequence may hand out
\* one below those of imported rows, and what it hands out twice the primary key refuses.
Target(q, i) ==
    /\ q.id = i \/ (q.id = None /\ q.op = "create")
    /\ (store[q.table][i] = None) <=> (q.op = "create")

\* The end of the writing transaction, at which the database upholds its constraints.
Commit(r) ==
    LET q == request[r] IN
    /\ q.at = "commit"
    /\ \E i \in Id :
         LET new == IF q.op = "delete" THEN None ELSE Written(q, store[q.table][i])
             rows == [store[q.table] EXCEPT ![i] = new]
         IN
         /\ Target(q, i)
         /\ Unique(q.table, rows)
         /\ store' = [store EXCEPT ![q.table] = rows]
         /\ request' = Notes(r, q.table, i, q.op \notin {"toggle", "delete"})
         /\ loose' = IF q.table # "streams" \/ q.op = "toggle" THEN loose
                     ELSE IF q.op = "replace" \/ (q.op # "delete" /\ "overtaken" \in q.notes)
                     THEN loose \cup {i}
                     ELSE loose \ {i}
    /\ UNCHANGED <<family, begun>>

\* The request ends with an error: a check refused it, the client left, the database
\* failed.  Its open transaction is rolled back.
Abort(r) ==
    /\ request[r] # Idle
    /\ request' = [request EXCEPT ![r] = Idle]
    /\ UNCHANGED <<family, store, begun, loose>>

RoutingNext ==
    \E r \in Request :
        BeginCreate(r) \/ BeginEdit(r) \/ Validate(r) \/ Open(r) \/ Commit(r) \/ Abort(r)

RoutingSpec == RoutingInit /\ [][RoutingNext]_rvars

-----------------------------------------------------------------------------
\* A host or QUIC route that has passed the look for collisions is not refused for its
\* names by the constraints, except to a request that another one overtook since: for an
\* edit, whatever it merged with the row and whoever toggled, moved or deleted rows
\* meanwhile (_assert_source_collisions, prepare_route, uq_routing_source_domain,
\* uq_quic_sni).
CollisionsAreForeseen ==
    \A r \in Request, i \in Id :
        LET q == request[r] IN
        q.at = "commit" /\ Looks(q) /\ Target(q, i) /\ "overtaken" \notin q.notes =>
            Unique(q.table, [store[q.table] EXCEPT ![i] = Written(q, store[q.table][i])])

\* Two streams that forward the same protocol of a port exist only if one of them was
\* put there by PUT, which does not validate, or by a request that another overtook
\* after its validation: no constraint knows that tcp+udp contains tcp.
StreamsDoNotOverlap ==
    \A i, j \in Id : i # j /\ None \notin {store["streams"][i], store["streams"][j]} =>
        \/ store["streams"][i].claims \cap store["streams"][j].claims = {}
        \/ {i, j} \cap loose # {}

\* The step in which request r commits.
Commits(r) ==
    request[r].at = "commit" /\ request'[r] = Idle /\ store' # store

\* An edit changes what it names.  A toggle and an update of a QUIC route never touch
\* another column, whatever commits around them; a PATCH, which writes back all it read,
\* only if another request changed the row since.  (It also clears a stream's owner.)
UntouchedFieldsStay ==
    [][\A r \in Request :
         LET q == request[r] IN
         Commits(r) /\ q.op \in {"update", "toggle"} /\
         (q.op = "toggle" \/ q.table = "routes" \/ "stale" \notin q.notes) =>
            \A f \in Fields \ q.named :
               \/ store'[q.table][q.id][f] = store[q.table][q.id][f]
               \/ q.table = "streams" /\ q.op = "update" /\ f = "owner"]_rvars

\* A user of an access list for whom a request sends no password keeps the one stored
\* last, or is dropped, even if that password was stored after the request read the list:
\* _replace_children reads the hashes in the transaction that writes.
PasswordsSurvive ==
    [][\A r \in Request :
         LET q == request[r]
             before == store["lists"][q.id].secret
             after == store'["lists"][q.id].secret
         IN
         Commits(r) /\ q.table = "lists" /\ q.op \in {"update", "replace"} /\
         ("secret" \notin q.named \/ q.row.secret = Kept) /\ "torn" \notin q.notes =>
            before = None \/ after = None \/ after = before]_rvars
=============================================================================
