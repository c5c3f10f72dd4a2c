---------------------------- MODULE RoutingProofs ----------------------------
(* Theorems about Routing and Portability, for any users, claims, rows and *)
(* requests, and for any exports and imports among them.                   *)
EXTENDS Portability, FiniteSetTheorems, SequenceTheorems, TLAPS

-----------------------------------------------------------------------------
(* The shape of the state, all that the proofs need of its types *)

\* A request has the fields of Idle and an operation.
Shaped(q) ==
    /\ q.op \in Ops
    /\ q = [at |-> q.at, op |-> q.op, table |-> q.table, id |-> q.id, actor |-> q.actor,
         named |-> q.named, row |-> q.row, seen |-> q.seen, notes |-> q.notes]

StoreShape == DOMAIN store = Table /\ \A t \in Table : DOMAIN store[t] = Id

RequestShape ==
    /\ request = [r \in Request |-> request[r]]
    /\ \A r \in Request : Shaped(request[r])

Shape == StoreShape /\ RequestShape

LEMMA StartsShaped ==
  ASSUME NEW op \in Ops, NEW t, NEW id, NEW actor, NEW named, NEW row
  PROVE  LET q == Starts(op, t, id, actor, named, row) IN
         /\ Shaped(q)
         /\ q.at = IF Validated(t, op) THEN "validate" ELSE "open"
         /\ q.op = op /\ q.table = t /\ q.named = named
  BY DEF Starts, Shaped

\* What the writing of a row does to the tables.
LEMMA CommitStores ==
  ASSUME Shape, NEW r \in Request, Commit(r)
  PROVE  \E i \in Id :
           LET q == request[r]
               new == IF q.op = "delete" THEN None ELSE Written(q, store[q.table][i])
               rows == [store[q.table] EXCEPT ![i] = new]
           IN
           /\ Target(q, i) /\ Unique(q.table, rows)
           /\ store' = [store EXCEPT ![q.table] = rows]
           /\ q.table \in Table => \A j \in Id : rows[j] = IF j = i THEN new
                                                        ELSE store[q.table][j]
           /\ request' = Notes(r, q.table, i, q.op \notin {"toggle", "delete"})
           /\ loose' = IF q.table # "streams" \/ q.op = "toggle" THEN loose
                       ELSE IF q.op = "replace" \/ (q.op # "delete" /\ "overtaken" \in q.notes)
                       THEN loose \cup {i}
                       ELSE loose \ {i}
  BY DEF Commit, Shape, StoreShape

-----------------------------------------------------------------------------
(* What was looked for holds until another request claims *)

\* The constraints hold of the tables that have constraints on names.
NamesAreUnique == \A t \in {"hosts", "routes"} : Unique(t, store[t])

\* A request that passed its look for collisions, and that nobody overtook since, still
\* finds free what it claims.
ValidHolds(q) == Sought(q) /\ "overtaken" \notin q.notes => Free(q.table, q.id, q.row)

\* What its transaction read as the claims of the row is what they are.
ReadHolds(q) ==
    Sought(q) /\ "overtaken" \notin q.notes /\ q.op # "create" /\ q.at = "commit" /\ q.id \in Id =>
        store[q.table][q.id] = None \/ store[q.table][q.id].claims = q.seen.claims

\* A toggle writes no claims.
ToggleKeeps(q) ==
    q.op = "toggle" => /\ "claims" \notin q.named
                       /\ q.at = "commit" => q.row.claims = q.seen.claims

Sound(q) == ValidHolds(q) /\ ReadHolds(q) /\ ToggleKeeps(q)

ClaimsInv ==
    Shape /\ (\A r \in Request : Sound(request[r])) /\ NamesAreUnique /\ StreamsDoNotOverlap

LEMMA SoughtTable ==
  ASSUME NEW q, Sought(q)
  PROVE  q.table \in Table /\ q.op \in {"create", "update", "replace"}
  BY DEF Sought, Looks, Validated, Table

LEMMA IdleIsSound == Shaped(Idle) /\ Sound(Idle)
  BY DEF Idle, Shaped, Sound, ValidHolds, ReadHolds, ToggleKeeps, Sought, Looks, Ops

LEMMA InitClaimsInv ==
  ASSUME PortabilityInit
  PROVE  ClaimsInv
  <1>1. StoreShape
    BY DEF PortabilityInit, RoutingInit, StoreShape
  <1>2. request = [r \in Request |-> Idle]
    BY DEF PortabilityInit, RoutingInit
  <1>3. RequestShape
    BY <1>2, IdleIsSound DEF RequestShape
  <1>4. \A r \in Request : Sound(request[r])
    BY <1>2, IdleIsSound
  <1>5. \A t \in Table, i \in Id \ {1} : store[t][i] = None
    <2>1. PICK t0 \in family \cup {"none"}, u \in User \ {Admin}, c \in Claim :
         store = [t \in Table |-> [i \in Id |->
             IF i # 1 \/ t0 = "none" \/ t \notin family THEN None
             ELSE IF t = "lists" THEN [Blank EXCEPT !.enabled = FALSE,
                                                    !.secret = CHOOSE p \in Password : TRUE]
             ELSE [Blank EXCEPT !.owner = u, !.claims = {c},
                                !.lists = IF t = "hosts" THEN ListId ELSE {}]]]
      BY DEF PortabilityInit, RoutingInit
    <2> QED
      BY <2>1
  <1>6. StreamsDoNotOverlap
    BY <1>5 DEF StreamsDoNotOverlap, Table
  <1>7. NamesAreUnique
    <2> SUFFICES ASSUME NEW t \in {"hosts", "routes"}, NEW i \in Id, NEW j \in Id, i # j,
                        None \notin {store[t][i], store[t][j]}
                 PROVE  FALSE
      BY DEF NamesAreUnique, Unique
    <2> QED
      BY <1>5 DEF Table
  <1> QED
    BY <1>1, <1>3, <1>4, <1>6, <1>7 DEF ClaimsInv, Shape

\* A request goes on, and the tables are as they were.
LEMMA OneRequestGoesOn ==
  ASSUME ClaimsInv, UNCHANGED <<store, loose>>, NEW r \in Request, NEW q,
         request' = [request EXCEPT ![r] = q], Shaped(q), Sound(q)
  PROVE  ClaimsInv'
  <1>1. request' = [p \in Request |-> IF p = r THEN q ELSE request[p]]
    BY DEF ClaimsInv, Shape, RequestShape
  <1>2. \A p \in Request : Shaped(request'[p])
    BY <1>1 DEF ClaimsInv, Shape, RequestShape
  <1>3. RequestShape'
    BY <1>1, <1>2 DEF RequestShape, Shaped
  <1>4. ASSUME NEW p \in Request
        PROVE  Sound(request[p])'
    <2>1. Sound(request'[p])
      BY <1>1 DEF ClaimsInv
    <2> QED
      BY <2>1 DEF Sound, ValidHolds, ReadHolds, ToggleKeeps, Free, Sought
  <1> QED
    BY <1>3, <1>4 DEF ClaimsInv, Shape, StoreShape, StreamsDoNotOverlap, NamesAreUnique

\* A request that begins has not been validated, or need not be.
LEMMA FreshClaimsInv ==
  ASSUME ClaimsInv, UNCHANGED <<store, loose>>, NEW r \in Request,
         NEW op \in Ops, NEW t, NEW id, NEW actor, NEW named, NEW row,
         op = "toggle" => "claims" \notin named,
         request' = [request EXCEPT ![r] = Starts(op, t, id, actor, named, row)]
  PROVE  ClaimsInv'
  <1> DEFINE q == Starts(op, t, id, actor, named, row)
  <1>1. /\ Shaped(q)
        /\ q.at = IF Validated(t, op) THEN "validate" ELSE "open"
        /\ q.op = op /\ q.table = t /\ q.named = named
    BY StartsShaped
  <1>2. request' = [request EXCEPT ![r] = q]
    OBVIOUS
  <1> HIDE DEF q
  <1>3. Sound(q)
    BY <1>1 DEF Sound, ValidHolds, ReadHolds, ToggleKeeps, Sought
  <1> QED
    BY <1>1, <1>2, <1>3, OneRequestGoesOn

LEMMA ValidateClaimsInv ==
  ASSUME ClaimsInv, NEW r \in Request, Validate(r)
  PROVE  ClaimsInv'
  <1> DEFINE q == request[r]
             goes == [q EXCEPT !.at = "open"]
  <1>1. Shaped(q) /\ Sound(q) /\ Free(q.table, q.id, q.row)
    BY DEF Validate, ClaimsInv, Shape, RequestShape
  <1>2. goes = [at |-> "open", op |-> q.op, table |-> q.table, id |-> q.id,
                actor |-> q.actor, named |-> q.named, row |-> q.row, seen |-> q.seen,
                notes |-> q.notes]
    BY <1>1 DEF Shaped
  <1>3. request' = [request EXCEPT ![r] = goes] /\ UNCHANGED <<store, loose>>
    BY DEF Validate, ClaimsInv, Shape, RequestShape
  <1> HIDE DEF goes, q
  <1>4. Shaped(goes)
    BY <1>1, <1>2 DEF Shaped
  <1>5. Sound(goes)
    BY <1>1, <1>2 DEF Sound, ValidHolds, ReadHolds, ToggleKeeps
  <1> QED
    BY <1>3, <1>4, <1>5, OneRequestGoesOn

LEMMA OpenedRequest ==
  ASSUME NEW q, Shaped(q), NEW seen, NEW row
  PROVE  [q EXCEPT !.at = "commit", !.seen = seen, !.row = row, !.actor = None] =
           [at |-> "commit", op |-> q.op, table |-> q.table, id |-> q.id,
            actor |-> None, named |-> q.named, row |-> row, seen |-> seen,
            notes |-> q.notes]
  <1> DEFINE one == [q EXCEPT !.at = "commit"]
             two == [one EXCEPT !.seen = seen]
             three == [two EXCEPT !.row = row]
             four == [three EXCEPT !.actor = None]
  <1>1. one = [at |-> "commit", op |-> q.op, table |-> q.table, id |-> q.id,
               actor |-> q.actor, named |-> q.named, row |-> q.row, seen |-> q.seen,
               notes |-> q.notes]
    BY DEF Shaped
  <1>2. two = [at |-> "commit", op |-> q.op, table |-> q.table, id |-> q.id,
               actor |-> q.actor, named |-> q.named, row |-> q.row, seen |-> seen,
               notes |-> q.notes]
    <2> HIDE DEF one
    <2> QED
      BY <1>1
  <1>3. three = [at |-> "commit", op |-> q.op, table |-> q.table, id |-> q.id,
                 actor |-> q.actor, named |-> q.named, row |-> row, seen |-> seen,
                 notes |-> q.notes]
    <2> HIDE DEF two
    <2> QED
      BY <1>2
  <1>4. four = [at |-> "commit", op |-> q.op, table |-> q.table, id |-> q.id,
                actor |-> None, named |-> q.named, row |-> row, seen |-> seen,
                notes |-> q.notes]
    <2> HIDE DEF three
    <2> QED
      BY <1>3
  <1>5. [q EXCEPT !.at = "commit", !.seen = seen, !.row = row, !.actor = None] = four
    OBVIOUS
  <1> QED
    BY <1>4, <1>5

LEMMA OpenClaimsInv ==
  ASSUME ClaimsInv, NEW r \in Request, Open(r)
  PROVE  ClaimsInv'
  <1> DEFINE q == request[r]
             seen == IF q.op = "create" THEN None ELSE store[q.table][q.id]
             row == IF q.op = "create" THEN q.row ELSE Merged(q, seen)
             goes == [q EXCEPT !.at = "commit", !.seen = seen, !.row = row, !.actor = None]
  <1>1. Shaped(q) /\ Sound(q) /\ q.at = "open"
    BY DEF Open, ClaimsInv, Shape, RequestShape
  <1>2. /\ request' = [request EXCEPT ![r] = goes] /\ UNCHANGED <<store, loose>>
        /\ Looks(q) => Free(q.table, q.id, row)
    BY DEF Open
  <1>3. q.table = "streams" /\ Validated(q.table, q.op) => row = q.row
    BY DEF Merged, Validated
  <1>4. q.op = "toggle" => row.claims = seen.claims
    BY <1>1 DEF Merged, Overlay, Sound, ToggleKeeps
  <1>5. q.op # "create" => seen = store[q.table][q.id]
    OBVIOUS
  <1> HIDE DEF row, seen, q
  <1>6. goes = [at |-> "commit", op |-> q.op, table |-> q.table, id |-> q.id,
                actor |-> None, named |-> q.named, row |-> row, seen |-> seen,
                notes |-> q.notes]
    BY <1>1, OpenedRequest
  <1> HIDE DEF goes
  <1>7. /\ goes.at = "commit" /\ goes.op = q.op /\ goes.table = q.table /\ goes.id = q.id
        /\ goes.named = q.named /\ goes.row = row /\ goes.seen = seen /\ goes.notes = q.notes
        /\ Shaped(goes)
    BY <1>1, <1>6 DEF Shaped
  <1>8. ValidHolds(goes)
    <2>1. CASE Looks(q)
      BY <1>2, <1>7, <2>1 DEF ValidHolds
    <2>2. CASE ~Looks(q)
      BY <1>1, <1>3, <1>7, <2>2 DEF ValidHolds, Sound, Sought, Looks
    <2> QED
      BY <2>1, <2>2
  <1>9. ReadHolds(goes) /\ ToggleKeeps(goes)
    BY <1>1, <1>4, <1>5, <1>7 DEF Sound, ReadHolds, ToggleKeeps
  <1> QED
    BY <1>2, <1>7, <1>8, <1>9, OneRequestGoesOn DEF Sound

LEMMA AbortClaimsInv ==
  ASSUME ClaimsInv, NEW r \in Request, Abort(r)
  PROVE  ClaimsInv'
  BY IdleIsSound, OneRequestGoesOn DEF Abort

\* An edit writes the claims of the request, or leaves those of the row.
LEMMA WrittenClaims ==
  ASSUME NEW q, NEW now, q.op # "create"
  PROVE  Written(q, now).claims =
           IF \/ q.row.claims # q.seen.claims
              \/ q.op # "toggle" /\ "claims" \in Children(q.table)
           THEN q.row.claims ELSE now.claims
  BY DEF Written, Overlay, Fields

\* What was looked for and found free, and overtaken by nobody, is free when it is written.
LEMMA SoughtIsFree ==
  ASSUME ClaimsInv, NEW r \in Request, NEW i \in Id,
         request[r].at = "commit", Target(request[r], i),
         Sought(request[r]), "overtaken" \notin request[r].notes
  PROVE  LET q == request[r]
             new == Written(q, store[q.table][i])
         IN  \A j \in Id \ {i} : store[q.table][j] # None =>
               new.claims \cap store[q.table][j].claims = {}
  <1> DEFINE q == request[r]
             new == Written(q, store[q.table][i])
  <1>1. Sound(q) /\ q.op \in {"create", "update", "replace"}
    BY SoughtTable DEF ClaimsInv
  <1>2. q.op # "create" => q.id = i /\ store[q.table][i] # None
    BY DEF Target
  <1>3. Free(q.table, q.id, q.row)
    BY <1>1 DEF Sound, ValidHolds
  <1>4. new.claims = q.row.claims
    <2>1. CASE q.op = "create"
      BY <2>1 DEF Written
    <2>2. CASE q.op # "create"
      <3>1. store[q.table][i].claims = q.seen.claims
        BY <1>1, <1>2, <2>2 DEF Sound, ReadHolds
      <3> QED
        BY <3>1, <2>2, WrittenClaims
    <2> QED
      BY <2>1, <2>2
  <1>5. q.id \in {i, None}
    BY DEF Target
  <1>6. None \notin Id
    BY RoutingAssumption
  <1>7. \A j \in Id \ {i} : j \in Id \ {q.id}
    BY <1>5, <1>6
  <1> HIDE DEF new, q
  <1>8. \A j \in Id \ {i} : store[q.table][j] # None =>
          new.claims \cap store[q.table][j].claims = {}
    BY <1>3, <1>4, <1>7 DEF Free, Clash
  <1> QED
    BY <1>8 DEF new, q

\* What a commit may do to the row of a stream.
LEMMA StreamWritten ==
  ASSUME ClaimsInv, NEW r \in Request, NEW i \in Id,
         request[r].table = "streams", request[r].at = "commit", Target(request[r], i),
         NEW new,
         new = IF request[r].op = "delete" THEN None
               ELSE Written(request[r], store["streams"][i]),
         new # None
  PROVE  \/ request[r].op = "toggle" /\ store["streams"][i] # None
            /\ new.claims = store["streams"][i].claims
         \/ request[r].op = "replace"
         \/ /\ request[r].op \in {"create", "update"}
            /\ \/ "overtaken" \in request[r].notes
               \/ \A j \in Id \ {i} : store["streams"][j] # None =>
                    new.claims \cap store["streams"][j].claims = {}
  <1> DEFINE q == request[r]
  <1>1. q.op \in {"create", "update", "replace", "toggle"} /\ Sound(q)
    BY DEF ClaimsInv, Shape, RequestShape, Shaped, Ops
  <1>2. q.op # "create" => store["streams"][i] # None
    BY DEF Target
  <1>3. CASE q.op = "toggle"
    BY <1>1, <1>2, <1>3, WrittenClaims DEF Sound, ToggleKeeps
  <1>4. CASE q.op = "replace"
    BY <1>4
  <1>5. CASE q.op \in {"create", "update"} /\ "overtaken" \notin q.notes
    <2>1. Sought(q)
      BY <1>5 DEF Sought, Validated
    <2> QED
      BY <1>5, <2>1, SoughtIsFree
  <1> QED
    BY <1>1, <1>3, <1>4, <1>5

LEMMA CommitShape ==
  ASSUME Shape, NEW r \in Request, Commit(r)
  PROVE  Shape'
  <1> DEFINE q == request[r]
  <1>1. PICK i \in Id :
          LET new == IF q.op = "delete" THEN None ELSE Written(q, store[q.table][i])
          IN  /\ store' = [store EXCEPT ![q.table] = [store[q.table] EXCEPT ![i] = new]]
              /\ request' = Notes(r, q.table, i, q.op \notin {"toggle", "delete"})
    BY DEF Commit
  <1>2. StoreShape'
    BY <1>1 DEF Shape, StoreShape
  <1>3. request' = [p \in Request |-> request'[p]]
    BY <1>1 DEF Notes
  <1>4. ASSUME NEW p \in Request
        PROVE  Shaped(request'[p])
    <2>1. Shaped(request[p])
      BY DEF Shape, RequestShape
    <2>2. PICK notes : request'[p] \in {Idle, request[p], [request[p] EXCEPT !.notes = notes]}
      BY <1>1 DEF Notes
    <2> QED
      BY <2>1, <2>2, IdleIsSound DEF Shaped
  <1> QED
    BY <1>2, <1>3, <1>4 DEF Shape, RequestShape, Shaped

\* The constraints hold of what a commit leaves.
LEMMA CommitNames ==
  ASSUME ClaimsInv, NEW r \in Request, Commit(r)
  PROVE  NamesAreUnique'
  <1> DEFINE q == request[r]
  <1>1. PICK rows : Unique(q.table, rows) /\ store' = [store EXCEPT ![q.table] = rows]
    BY DEF Commit
  <1> SUFFICES ASSUME NEW t \in {"hosts", "routes"}
               PROVE  Unique(t, store'[t])
    BY DEF NamesAreUnique, Unique
  <1>2. store'[t] = IF t = q.table THEN rows ELSE store[t]
    BY <1>1 DEF ClaimsInv, Shape, StoreShape, Table
  <1> HIDE DEF q
  <1> QED
    BY <1>1, <1>2 DEF ClaimsInv, NamesAreUnique

\* A commit to another table leaves the streams.
LEMMA CommitElsewhere ==
  ASSUME ClaimsInv, NEW r \in Request, Commit(r), request[r].table # "streams"
  PROVE  StreamsDoNotOverlap'
  <1>1. store'["streams"] = store["streams"] /\ loose' = loose
    BY DEF Commit, ClaimsInv, Shape, StoreShape, Table
  <1> QED
    BY <1>1 DEF ClaimsInv, StreamsDoNotOverlap

LEMMA CommitToStreams ==
  ASSUME ClaimsInv, NEW r \in Request, Commit(r), request[r].table = "streams"
  PROVE  StreamsDoNotOverlap'
  <1> DEFINE q == request[r]
  <1>2. PICK i \in Id :
          LET new == IF q.op = "delete" THEN None ELSE Written(q, store["streams"][i])
          IN  /\ Target(q, i)
              /\ store' = [store EXCEPT !["streams"] = [store["streams"] EXCEPT ![i] = new]]
              /\ loose' = IF q.op = "toggle" THEN loose
                          ELSE IF q.op = "replace" \/ (q.op # "delete" /\ "overtaken" \in q.notes)
                          THEN loose \cup {i}
                          ELSE loose \ {i}
    BY DEF Commit
  <1> DEFINE new == IF q.op = "delete" THEN None ELSE Written(q, store["streams"][i])
  <1>3. \A j \in Id : store'["streams"][j] = IF j = i THEN new ELSE store["streams"][j]
    <2> HIDE DEF new
    <2>1. store' = [store EXCEPT !["streams"] = [store["streams"] EXCEPT ![i] = new]]
      BY <1>2 DEF new
    <2> QED
      BY <2>1 DEF ClaimsInv, Shape, StoreShape, Table
  <1>4. q.at = "commit"
    BY DEF Commit
  <1>5. new # None =>
         \/ q.op = "toggle" /\ store["streams"][i] # None
            /\ new.claims = store["streams"][i].claims
         \/ q.op = "replace"
         \/ /\ q.op \in {"create", "update"}
            /\ \/ "overtaken" \in q.notes
               \/ \A j \in Id \ {i} : store["streams"][j] # None =>
                    new.claims \cap store["streams"][j].claims = {}
    BY <1>2, <1>4, StreamWritten
  <1>6. q.op = "delete" => new = None
    OBVIOUS
  <1>7. loose' = IF q.op = "toggle" THEN loose
                 ELSE IF q.op = "replace" \/ (q.op # "delete" /\ "overtaken" \in q.notes)
                 THEN loose \cup {i}
                 ELSE loose \ {i}
    BY <1>2
  <1> HIDE DEF new, q
  <1>8. ASSUME NEW j \in Id, j # i, new # None, store["streams"][j] # None
        PROVE  \/ new.claims \cap store["streams"][j].claims = {}
               \/ {i, j} \cap loose' # {}
    BY <1>8, <1>5, <1>7 DEF ClaimsInv, StreamsDoNotOverlap
  <1>9. ASSUME NEW j \in Id, NEW k \in Id, j # k, i \notin {j, k},
               None \notin {store["streams"][j], store["streams"][k]}
        PROVE  \/ store["streams"][j].claims \cap store["streams"][k].claims = {}
               \/ {j, k} \cap loose' # {}
    BY <1>9, <1>7 DEF ClaimsInv, StreamsDoNotOverlap
  <1> SUFFICES ASSUME NEW j \in Id, NEW k \in Id, j # k,
                      None \notin {store'["streams"][j], store'["streams"][k]}
               PROVE  \/ store'["streams"][j].claims \cap store'["streams"][k].claims = {}
                      \/ {j, k} \cap loose' # {}
    BY DEF StreamsDoNotOverlap
  <1>10. CASE j = i
    <2>1. \/ new.claims \cap store["streams"][k].claims = {}
          \/ {i, k} \cap loose' # {}
      BY <1>10, <1>8, <1>3
    <2> QED
      BY <2>1, <1>10, <1>3
  <1>11. CASE k = i
    <2>1. \/ new.claims \cap store["streams"][j].claims = {}
          \/ {i, j} \cap loose' # {}
      BY <1>11, <1>8, <1>3
    <2>2. store'["streams"][k] = new /\ store'["streams"][j] = store["streams"][j]
      BY <1>11, <1>3
    <2>3. store'["streams"][j].claims \cap store'["streams"][k].claims
            = new.claims \cap store["streams"][j].claims
      BY <2>2
    <2> QED
      BY <2>1, <2>3, <1>11
  <1>12. CASE i \notin {j, k}
    BY <1>12, <1>9, <1>3
  <1> QED
    BY <1>10, <1>11, <1>12

\* A commit that does not claim leaves every claim as it was, or drops it.
LEMMA UnclaimingCommit ==
  ASSUME ClaimsInv, NEW r \in Request, Commit(r), request[r].op \in {"toggle", "delete"},
         request[r].table \in Table, NEW j \in Id,
         store'[request[r].table][j] # None
  PROVE  /\ store[request[r].table][j] # None
         /\ store'[request[r].table][j].claims = store[request[r].table][j].claims
  <1> DEFINE q == request[r]
             t == q.table
  <1>1. PICK i \in Id :
          LET new == IF q.op = "delete" THEN None ELSE Written(q, store[t][i])
          IN  Target(q, i) /\ store' = [store EXCEPT ![t] = [store[t] EXCEPT ![i] = new]]
    BY DEF Commit
  <1> DEFINE new == IF q.op = "delete" THEN None ELSE Written(q, store[t][i])
  <1>2. Target(q, i) /\ store' = [store EXCEPT ![t] = [store[t] EXCEPT ![i] = new]]
    BY <1>1
  <1>3. store[t][i] # None /\ Sound(q) /\ q.at = "commit"
    BY <1>2 DEF Target, ClaimsInv, Commit
  <1>4. q.op = "toggle" => new.claims = store[t][i].claims
    BY <1>3, WrittenClaims DEF Sound, ToggleKeeps
  <1>5. q.op = "delete" => new = None
    OBVIOUS
  <1> HIDE DEF new, q
  <1>6. store'[t][j] = IF j = i THEN new ELSE store[t][j]
    BY <1>2 DEF ClaimsInv, Shape, StoreShape, q
  <1> QED
    BY <1>3, <1>4, <1>5, <1>6 DEF q

\* A request that looked for collisions and heard of no claim since is sound, as it was,
\* when the rows that remain keep their claims.
LEMMA ToldIsSound ==
  ASSUME NEW was, Sound(was), NEW now,
         now.at = was.at, now.op = was.op, now.id = was.id, now.table = was.table,
         now.named = was.named, now.row = was.row, now.seen = was.seen,
         Sought(now) /\ "overtaken" \notin now.notes =>
            /\ "overtaken" \notin was.notes
            /\ \A j \in Id : store'[was.table][j] # None =>
                 /\ store[was.table][j] # None
                 /\ store'[was.table][j].claims = store[was.table][j].claims
  PROVE  Sound(now)'
  <1>1. Sought(now) => Sought(was)
    BY DEF Sought, Looks
  <1>2. ValidHolds(now)'
    <2> SUFFICES ASSUME Sought(now), "overtaken" \notin now.notes,
                        NEW j \in Id \ {now.id}, store'[now.table][j] # None
                 PROVE  ~Clash(now.row, store'[now.table][j])
      BY DEF ValidHolds, Free, Sought
    <2>1. Free(was.table, was.id, was.row)
      BY <1>1 DEF Sound, ValidHolds
    <2> QED
      BY <2>1 DEF Free, Clash
  <1>3. ReadHolds(now)'
    <2> SUFFICES ASSUME Sought(now), "overtaken" \notin now.notes, now.op # "create",
                        now.at = "commit", now.id \in Id, store'[now.table][now.id] # None
                 PROVE  store'[now.table][now.id].claims = now.seen.claims
      BY DEF ReadHolds, Sought
    <2> QED
      BY <1>1 DEF Sound, ReadHolds
  <1>4. ToggleKeeps(now)'
    BY DEF Sound, ToggleKeeps
  <1> QED
    BY <1>2, <1>3, <1>4 DEF Sound

LEMMA IdleStaysSound == Sound(Idle)'
  BY DEF Idle, Sound, ValidHolds, ReadHolds, ToggleKeeps, Sought, Looks

\* What the other requests know stays true, or they are told.
LEMMA CommitSound ==
  ASSUME ClaimsInv, NEW r \in Request, Commit(r), NEW p \in Request
  PROVE  Sound(request[p])'
  <1> DEFINE q == request[r]
             claimed == q.op \notin {"toggle", "delete"}
             was == request[p]
             now == request'[p]
  <1>1. PICK i : request' = Notes(r, q.table, i, claimed)
    BY DEF Commit
  <1> DEFINE added == (IF was.id = i THEN {"stale"} ELSE {}) \cup
                      (IF was.id = i /\ was.at = "commit" THEN {"torn"} ELSE {}) \cup
                      (IF claimed /\ Sought(was) THEN {"overtaken"} ELSE {})
             notes == was.notes \cup added
  <1>2. Shaped(was) /\ Sound(was)
    BY DEF ClaimsInv, Shape, RequestShape
  <1>3. now = IF p = r THEN Idle
              ELSE IF was.at = "idle" \/ was.table # q.table THEN was
              ELSE [was EXCEPT !.notes = notes]
    BY <1>1 DEF Notes
  <1>4. "overtaken" \notin notes => "overtaken" \notin was.notes /\ (Sought(was) => ~claimed)
    OBVIOUS
  <1>5. \A t \in Table : t # q.table => store'[t] = store[t]
    BY DEF Commit, ClaimsInv, Shape, StoreShape
  <1>6. ~claimed /\ q.table \in Table =>
          \A j \in Id : store'[q.table][j] # None =>
             /\ store[q.table][j] # None
             /\ store'[q.table][j].claims = store[q.table][j].claims
    BY UnclaimingCommit
  <1>7. CASE now = Idle
    BY <1>7, IdleStaysSound
  <1>8. CASE p # r /\ now # Idle
    <2> HIDE DEF q, was, claimed, notes
    <2>1. /\ now.at = was.at /\ now.op = was.op /\ now.id = was.id
          /\ now.table = was.table /\ now.named = was.named
          /\ now.row = was.row /\ now.seen = was.seen
          /\ \/ now.notes = notes /\ was.table = q.table
             \/ now.notes = was.notes /\ (was.at = "idle" \/ was.table # q.table)
      <3>1. [was EXCEPT !.notes = notes] =
              [at |-> was.at, op |-> was.op, table |-> was.table, id |-> was.id,
               actor |-> was.actor, named |-> was.named, row |-> was.row,
               seen |-> was.seen, notes |-> notes]
        BY <1>2 DEF Shaped
      <3> HIDE DEF now
      <3> QED
        BY <1>3, <1>8, <3>1
    <2>2. Sought(now) /\ "overtaken" \notin now.notes =>
            /\ "overtaken" \notin was.notes
            /\ \A j \in Id : store'[was.table][j] # None =>
                 /\ store[was.table][j] # None
                 /\ store'[was.table][j].claims = store[was.table][j].claims
      <3> HIDE DEF now
      <3>1. Sought(now) => Sought(was) /\ was.at # "idle"
        BY <2>1 DEF Sought, Looks
      <3> QED
        BY <1>4, <1>5, <1>6, <2>1, <3>1, SoughtTable
    <2>3. \A k \in {now} : Sound(k)'
      <3> HIDE DEF now
      <3> QED
        BY <1>2, <2>1, <2>2, ToldIsSound
    <2> QED
      BY <2>3 DEF was
  <1> QED
    BY <1>3, <1>7, <1>8

LEMMA CommitClaimsInv ==
  ASSUME ClaimsInv, NEW r \in Request, Commit(r)
  PROVE  ClaimsInv'
  <1>1. Shape'
    BY CommitShape DEF ClaimsInv
  <1>2. \A p \in Request : Sound(request[p])'
    BY CommitSound
  <1>3. NamesAreUnique' /\ StreamsDoNotOverlap'
    BY CommitNames, CommitElsewhere, CommitToStreams
  <1> QED
    BY <1>1, <1>2, <1>3 DEF ClaimsInv

\* Into the new installation no request, row or exempt stream is taken.
LEMMA ReinstallClaimsInv ==
  ASSUME ClaimsInv, Reinstall
  PROVE  ClaimsInv'
  <1>1. /\ \A i \in Id : store'["streams"][i] = None
        /\ UNCHANGED request /\ \A r \in Request : request[r] = Idle
    BY DEF Reinstall, Table
  <1>2. Shape'
    BY <1>1 DEF Reinstall, ClaimsInv, Shape, StoreShape, RequestShape, Shaped
  <1>3. ASSUME NEW r \in Request
        PROVE  Sound(request[r])'
    <2>1. Sound(Idle)'
      BY DEF Sound, Idle, ValidHolds, ReadHolds, ToggleKeeps, Sought, Looks
    <2> QED
      BY <1>1, <2>1
  <1>4. NamesAreUnique'
    BY DEF Reinstall, NamesAreUnique, Unique, Table
  <1> QED
    BY <1>1, <1>2, <1>3, <1>4 DEF ClaimsInv, StreamsDoNotOverlap

\* A request begins, of a caller or of the importer.
LEMMA BeginClaimsInv ==
  ASSUME ClaimsInv, NEW r \in Request, BeginCreate(r) \/ BeginEdit(r) \/ WriteRecord(r)
  PROVE  ClaimsInv'
  <1>1. CASE BeginCreate(r)
    <2>1. PICK t, id, row :
            request' = [request EXCEPT ![r] = Starts("create", t, id, None, Fields, row)]
      BY <1>1 DEF BeginCreate
    <2>2. UNCHANGED <<store, loose>> /\ "create" \in Ops
      BY <1>1 DEF BeginCreate, Ops
    <2> QED
      BY <2>1, <2>2, FreshClaimsInv
  <1>2. CASE BeginEdit(r)
    <2>1. PICK t, op, id, actor, named, row :
            /\ op \in Offered(t) \ {"create"} /\ (named \in Named(t, op) \/ op = "replace")
            /\ request' = [request EXCEPT ![r] = Starts(op, t, id, actor, named, row)]
      BY <1>2 DEF BeginEdit
    <2>2. op \in Ops /\ (op = "toggle" => "claims" \notin named)
      BY <2>1 DEF Offered, Named, Ops
    <2> QED
      BY <1>2, <2>1, <2>2, FreshClaimsInv DEF BeginEdit
  <1>3. CASE WriteRecord(r)
    <2> DEFINE record == Head(transfer.todo)
               existing == store[record.table][record.id]
    <2>1. UNCHANGED <<store, loose>> /\ {"create", "update"} \subseteq Ops
      BY <1>3 DEF WriteRecord, Ops
    <2>2. request' = [request EXCEPT ![r] = IF existing = None THEN Creation(record)
                                            ELSE Replacement(record, existing)]
      BY <1>3 DEF WriteRecord
    <2> HIDE DEF record, existing
    <2>3. CASE existing = None
      <3>1. request' = [request EXCEPT ![r] = Creation(record)]
        BY <2>2, <2>3
      <3> QED
        BY <2>1, <3>1, FreshClaimsInv DEF Creation
    <2>4. CASE existing # None
      <3>1. request' = [request EXCEPT ![r] = Replacement(record, existing)]
        BY <2>2, <2>4
      <3>2. CASE transfer.kind = "bundle"
        BY <2>1, <3>1, <3>2, FreshClaimsInv DEF Replacement
      <3>3. CASE transfer.kind # "bundle"
        BY <2>1, <3>1, <3>3, FreshClaimsInv DEF Replacement
      <3> QED
        BY <3>2, <3>3
    <2> QED
      BY <2>3, <2>4
  <1> QED
    BY <1>1, <1>2, <1>3

LEMMA StepClaimsInv ==
  ASSUME ClaimsInv, [PortabilityNext]_vars
  PROVE  ClaimsInv'
  <1>1. ASSUME UNCHANGED <<store, request, loose>>
        PROVE  ClaimsInv'
    BY <1>1 DEF ClaimsInv, Shape, StoreShape, RequestShape, Shaped, StreamsDoNotOverlap,
                Sound, ValidHolds, ReadHolds, ToggleKeeps, Free, Sought, NamesAreUnique
  <1>2. CASE ExportBegins \/ ExportTable \/ ImportBegins \/ SkipRecord \/ ImportEnds
             \/ TransferFails \/ UNCHANGED vars
    <2>1. UNCHANGED <<store, request, loose>>
      BY <1>2 DEF ExportBegins, ExportTable, ImportBegins, SkipRecord, ImportEnds,
                  TransferFails, Begins, vars, rvars
    <2> QED
      BY <2>1, <1>1
  <1>3. CASE Reinstall
    BY <1>3, ReinstallClaimsInv
  <1>4. ASSUME NEW r \in Request, BeginCreate(r) \/ BeginEdit(r) \/ WriteRecord(r)
        PROVE  ClaimsInv'
    BY <1>4, BeginClaimsInv
  <1>5. ASSUME NEW r \in Request, Validate(r)
        PROVE  ClaimsInv'
    BY <1>5, ValidateClaimsInv
  <1>6. ASSUME NEW r \in Request, Open(r)
        PROVE  ClaimsInv'
    BY <1>6, OpenClaimsInv
  <1>7. ASSUME NEW r \in Request, RequestCommits(r)
        PROVE  ClaimsInv'
    BY <1>7, CommitClaimsInv DEF RequestCommits
  <1>8. ASSUME NEW r \in Request, RequestAborts(r)
        PROVE  ClaimsInv'
    BY <1>8, AbortClaimsInv DEF RequestAborts
  <1> QED
    BY <1>2, <1>3, <1>4, <1>5, <1>6, <1>7, <1>8 DEF PortabilityNext

\* However many requests and imports overlap, two streams forward the same protocol of a
\* port only if one of them was written without validation or overtaken after it: the
\* validate operation suffices wherever it is asked and still holds (stream_collision).
THEOREM PortsAreSharedOnlyThroughTheGaps == PortabilitySpec => []StreamsDoNotOverlap
  <1>1. PortabilityInit => ClaimsInv
    BY InitClaimsInv
  <1>2. ClaimsInv /\ [PortabilityNext]_vars => ClaimsInv'
    BY StepClaimsInv
  <1>3. ClaimsInv => StreamsDoNotOverlap
    BY DEF ClaimsInv
  <1> QED
    BY <1>1, <1>2, <1>3, PTL DEF PortabilitySpec

LEMMA ForeseenByClaimsInv ==
  ASSUME ClaimsInv
  PROVE  CollisionsAreForeseen
  <1> SUFFICES ASSUME NEW r \in Request, NEW i \in Id,
                      request[r].at = "commit", Looks(request[r]), Target(request[r], i),
                      "overtaken" \notin request[r].notes
               PROVE  Unique(request[r].table,
                             [store[request[r].table] EXCEPT
                                ![i] = Written(request[r], store[request[r].table][i])])
    BY DEF CollisionsAreForeseen
  <1> DEFINE q == request[r]
             t == q.table
             new == Written(q, store[t][i])
             rows == [store[t] EXCEPT ![i] = new]
  <1>1. t \in {"hosts", "routes"} /\ Sought(q)
    BY DEF Looks, Sought
  <1>2. \A j \in Id \ {i} : store[t][j] # None => new.claims \cap store[t][j].claims = {}
    BY <1>1, SoughtIsFree
  <1>3. Unique(t, store[t])
    BY <1>1 DEF ClaimsInv, NamesAreUnique
  <1> HIDE DEF new, t
  <1>4. \A j \in Id : rows[j] = IF j = i THEN new ELSE store[t][j]
    BY <1>1 DEF ClaimsInv, Shape, StoreShape, Table
  <1> HIDE DEF rows
  <1>5. Unique(t, rows)
    <2> SUFFICES ASSUME NEW j \in Id, NEW k \in Id, j # k, None \notin {rows[j], rows[k]}
                 PROVE  rows[j].claims \cap rows[k].claims = {}
      BY <1>1 DEF Unique
    <2>1. CASE j = i
      BY <1>2, <1>4, <2>1
    <2>2. CASE k = i
      BY <1>2, <1>4, <2>2
    <2>3. CASE i \notin {j, k}
      BY <1>1, <1>3, <1>4, <2>3 DEF Unique
    <2> QED
      BY <2>1, <2>2, <2>3
  <1> QED
    BY <1>5 DEF rows, new, t

\* However many requests and imports overlap, the constraints on the names of hosts and
\* QUIC routes refuse only a request that another one overtook after its look for
\* collisions: everything else the look foresees (_assert_source_collisions,
\* prepare_route).
THEOREM CollisionsAreAlwaysForeseen == PortabilitySpec => []CollisionsAreForeseen
  <1>1. PortabilityInit => ClaimsInv
    BY InitClaimsInv
  <1>2. ClaimsInv /\ [PortabilityNext]_vars => ClaimsInv'
    BY StepClaimsInv
  <1>3. ClaimsInv => CollisionsAreForeseen
    BY ForeseenByClaimsInv
  <1> QED
    BY <1>1, <1>2, <1>3, PTL DEF PortabilitySpec

-----------------------------------------------------------------------------
(* Types, and what a writing transaction has read *)

RequestType ==
    [at : {"idle", "validate", "open", "commit"}, op : Ops, table : Table,
     id : Optional(Id), actor : Optional(User), named : SUBSET Fields,
     row : Optional(Row), seen : Optional(Row),
     notes : SUBSET {"stale", "torn", "overtaken"}]

\* A request has a row to write, and an edit an id.  When it is to be committed, the placeholder of a
\* password stands for one that the transaction has read.
Ready(q) ==
    /\ q.at # "idle" => q.row \in Row /\ (q.op # "create" => q.id \in Id)
    /\ q.at = "commit" => IF q.op = "create" THEN q.row.secret # Kept
                          ELSE q.seen \in Row /\ q.seen.secret # Kept

StoreType ==
    /\ store \in [Table -> [Id -> Optional(Row)]]
    /\ \A t \in Table, i \in Id : store[t][i] # None => store[t][i].secret # Kept

RequestsType ==
    /\ request \in [Request -> RequestType]
    /\ \A r \in Request : Ready(request[r])

Record == [table : Table, id : Id, row : Row]

Transfers ==
    [kind : {"none", "export", "bundle", "npm"}, tables : Seq(Table), records : Seq(Record),
     todo : Seq(Record), by : Optional(Request), commit : BOOLEAN, replace : BOOLEAN,
     clean : BOOLEAN]

TransferType ==
    /\ bundle \in Seq(Record) \cup {None}
    /\ transfer \in Transfers
    /\ transfer.kind = "export" => transfer.tables # <<>>
    /\ transfer.by # None => transfer.todo # <<>>

CountersType == family \subseteq Table /\ begun \in 0..MaxRequests /\ loose \subseteq Id

TypeInv == StoreType /\ RequestsType /\ TransferType /\ CountersType

LEMMA IdleIsTyped == Blank \in Row /\ Idle \in RequestType /\ Ready(Idle)
  <1>1. None \notin Id /\ None \notin User /\ None \notin Password /\ None # Kept
    BY RoutingAssumption
  <1>2. Blank \in Row
    BY DEF Blank, Row, Optional
  <1>3. Idle \in RequestType
    BY DEF Idle, RequestType, Optional, Ops, Table
  <1>4. Ready(Idle)
    BY DEF Idle, Ready
  <1> QED
    BY <1>2, <1>3, <1>4
LEMMA StillIsTyped == Still \in Transfers
  BY DEF Still, Transfers, Optional

LEMMA InitTypeInv ==
  ASSUME PortabilityInit
  PROVE  TypeInv
  <1> USE DEF PortabilityInit
  <1>1. PICK t0 \in family \cup {"none"}, u \in User \ {Admin}, c \in Claim :
         store = [t \in Table |-> [i \in Id |->
             IF i # 1 \/ t0 = "none" \/ t \notin family THEN None
             ELSE IF t = "lists" THEN [Blank EXCEPT !.enabled = FALSE,
                                                    !.secret = CHOOSE p \in Password : TRUE]
             ELSE [Blank EXCEPT !.owner = u, !.claims = {c},
                                !.lists = IF t = "hosts" THEN ListId ELSE {}]]]
    BY DEF RoutingInit
  <1> DEFINE first == [Blank EXCEPT !.enabled = FALSE, !.secret = CHOOSE p \in Password : TRUE]
             other(L) == [Blank EXCEPT !.owner = u, !.claims = {c}, !.lists = L]
  <1>2. first \in Row /\ first.secret # Kept
    <2>1. (CHOOSE p \in Password : TRUE) \in Password
      BY RoutingAssumption
    <2>2. \A p \in Password : [Blank EXCEPT !.enabled = FALSE, !.secret = p] \in Row
                              /\ [Blank EXCEPT !.enabled = FALSE, !.secret = p].secret # Kept
      BY RoutingAssumption DEF Blank, Row, Optional
    <2> QED
      BY <2>1, <2>2
  <1>3. \A L \in SUBSET ListId : other(L) \in Row /\ other(L).secret # Kept
    BY RoutingAssumption DEF Row, Blank, Optional
  <1>4. family \subseteq Table
    BY DEF RoutingInit, Table
  <1>5. \A t \in Table, i \in Id : store[t][i] # None => store[t][i] \in Row /\ store[t][i].secret # Kept
    <2> HIDE DEF first, other
    <2> SUFFICES ASSUME NEW t \in Table, NEW i \in Id, store[t][i] # None
                 PROVE  store[t][i] \in {first} \cup {other(L) : L \in SUBSET ListId}
      BY <1>2, <1>3
    <2> QED
      BY <1>1 DEF first, other
  <1>6. StoreType
    <2>1. store = [t \in Table |-> [i \in Id |-> store[t][i]]]
      <3>1. store = [t \in Table |-> [i \in Id |->
              IF i # 1 \/ t0 = "none" \/ t \notin family THEN None
              ELSE IF t = "lists" THEN first
              ELSE other(IF t = "hosts" THEN ListId ELSE {})]]
        BY <1>1
      <3> HIDE DEF first, other
      <3> QED
        BY <3>1
    <2>2. \A t \in Table, i \in Id : store[t][i] \in Optional(Row)
      BY <1>5 DEF Optional
    <2> QED
      BY <1>5, <2>1, <2>2 DEF StoreType
  <1>7. RequestsType
    BY IdleIsTyped DEF RoutingInit, RequestsType
  <1>8. TransferType
    BY StillIsTyped DEF TransferType, Still
  <1>9. CountersType
    <2>1. begun = 0 /\ loose = {}
      BY DEF RoutingInit
    <2>2. 0 \in 0..MaxRequests
      BY RoutingAssumption
    <2> QED
      BY <1>4, <2>1, <2>2 DEF CountersType
  <1> QED
    BY <1>6, <1>7, <1>8, <1>9 DEF TypeInv

\* A request goes on, and the tables are as they were.
LEMMA OneRequestIsTyped ==
  ASSUME RequestsType, NEW r \in Request, NEW q \in RequestType, Ready(q),
         request' = [request EXCEPT ![r] = q]
  PROVE  RequestsType'
  BY DEF RequestsType, Ready

LEMMA StartsTyped ==
  ASSUME NEW op \in Ops, NEW t \in Table, NEW id \in Optional(Id),
         NEW actor \in Optional(User), NEW named \in SUBSET Fields, NEW row \in Row,
         op # "create" => id \in Id
  PROVE  /\ Starts(op, t, id, actor, named, row) \in RequestType
         /\ Ready(Starts(op, t, id, actor, named, row))
  BY DEF Starts, RequestType, Ready, Optional
LEMMA OverlayTyped ==
  ASSUME NEW row \in Row, NEW named, NEW payload \in Row
  PROVE  /\ Overlay(row, named, payload) \in Row
         /\ Overlay(row, named, payload).secret \in {row.secret, payload.secret}
  BY DEF Overlay, Row

LEMMA ShownRow ==
  ASSUME NEW row \in Row, NEW t
  PROVE  Shown(t, row) =
           [owner |-> IF t = "streams" THEN None ELSE row.owner, enabled |-> row.enabled,
            claims |-> row.claims, lists |-> row.lists,
            secret |-> IF row.secret = None THEN None ELSE Kept]
  <1> DEFINE owner == IF t = "streams" THEN None ELSE row.owner
             one == [row EXCEPT !.owner = owner]
  <1>1. row = [owner |-> row.owner, enabled |-> row.enabled, claims |-> row.claims,
               lists |-> row.lists, secret |-> row.secret]
    BY DEF Row
  <1>2. one = [owner |-> owner, enabled |-> row.enabled, claims |-> row.claims,
               lists |-> row.lists, secret |-> row.secret]
    BY <1>1
  <1>3. Shown(t, row) = [one EXCEPT !.secret = IF one.secret = None THEN None ELSE Kept]
    BY <1>1 DEF Shown
  <1> HIDE DEF one
  <1> QED
    BY <1>2, <1>3

LEMMA ShownTyped ==
  ASSUME NEW row \in Row, NEW t
  PROVE  Shown(t, row) \in Row
  <1> DEFINE owner == IF t = "streams" THEN None ELSE row.owner
             secret == IF row.secret = None THEN None ELSE Kept
  <1>1. owner \in Optional(User) /\ secret \in Optional(Password \cup {Kept})
    BY DEF Row, Optional
  <1>2. Shown(t, row) = [owner |-> owner, enabled |-> row.enabled, claims |-> row.claims,
                         lists |-> row.lists, secret |-> secret]
    BY ShownRow
  <1> HIDE DEF owner, secret
  <1> QED
    BY <1>1, <1>2 DEF Row

LEMMA PayloadTyped ==
  ASSUME NEW t \in Table, NEW op \in Ops, NEW named \in Named(t, op),
         NEW given \in Payload(t, named)
  PROVE  named \subseteq Fields /\ given \in Row
  <1>1. named \subseteq Fields
    BY RoutingAssumption DEF Named, Required, Columns, Fields, Ops
  <1>2. Claims(t) \subseteq SUBSET Claim
    BY DEF Claims
  <1>3. given \in Row
    BY <1>2 DEF Payload, Row, Optional
  <1> QED
    BY <1>1, <1>3

LEMMA AssignedTyped ==
  ASSUME NEW row \in Row, NEW t, NEW actor \in Optional(User)
  PROVE  /\ Assigned(t, actor, row) \in Row
         /\ Assigned(t, actor, row).enabled = row.enabled
         /\ Assigned(t, actor, row).claims = row.claims
         /\ Assigned(t, actor, row).lists = row.lists
         /\ Assigned(t, actor, row).secret = row.secret
         /\ row.owner \in {None, Assigned(t, actor, row).owner}
  BY DEF Assigned, Row

\* A request begins, of a caller or of the importer.
LEMMA BeginTyped ==
  ASSUME TypeInv, NEW r \in Request, BeginCreate(r) \/ BeginEdit(r) \/ WriteRecord(r)
  PROVE  RequestsType'
  <1>0. RequestsType /\ StoreType /\ family \subseteq Table
    BY DEF TypeInv, CountersType
  <1>1. CASE BeginCreate(r)
    <2>a. PICK t \in family, actor \in User :
            \E named \in Named(t, "create"),
               id \in IF t = "routes" THEN Optional(Id) ELSE {None} :
              \E given \in Payload(t, named) :
                request' = [request EXCEPT ![r] =
                    Starts("create", t, id, None, Fields, Assigned(t, actor, given))]
      BY <1>1 DEF BeginCreate
    <2>b. PICK named \in Named(t, "create"),
               id \in IF t = "routes" THEN Optional(Id) ELSE {None} :
              \E given \in Payload(t, named) :
                request' = [request EXCEPT ![r] =
                    Starts("create", t, id, None, Fields, Assigned(t, actor, given))]
      BY <2>a
    <2>1. PICK given \in Payload(t, named) :
              request' = [request EXCEPT ![r] =
                  Starts("create", t, id, None, Fields, Assigned(t, actor, given))]
      BY <2>b
    <2>2. t \in Table /\ given \in Row /\ "create" \in Ops
      BY <1>0, PayloadTyped DEF Ops
    <2>3. /\ id \in Optional(Id) /\ None \in Optional(User) /\ actor \in Optional(User)
          /\ Fields \in SUBSET Fields
      BY DEF Optional
    <2>4. Assigned(t, actor, given) \in Row
      BY <2>2, <2>3, AssignedTyped
    <2> QED
      BY <1>0, <2>1, <2>2, <2>3, <2>4, StartsTyped, OneRequestIsTyped
  <1>2. CASE BeginEdit(r)
    <2>1. PICK t \in family, actor \in User, i \in Id :
            /\ store[t][i] # None
            /\ \E op \in Offered(t) \ {"create"} :
                 \E named \in Named(t, op) : \E given \in Payload(t, named) :
                   request' = [request EXCEPT ![r] =
                     Starts(op, t, i, actor, IF op = "replace" THEN Fields ELSE named,
                            IF op = "update" /\ t # "routes"
                            THEN Overlay(Shown(t, store[t][i]), named, given)
                            ELSE given)]
      BY <1>2 DEF BeginEdit
    <2>a. PICK op \in Offered(t) \ {"create"} :
                 \E named \in Named(t, op) : \E given \in Payload(t, named) :
                   request' = [request EXCEPT ![r] =
                     Starts(op, t, i, actor, IF op = "replace" THEN Fields ELSE named,
                            IF op = "update" /\ t # "routes"
                            THEN Overlay(Shown(t, store[t][i]), named, given)
                            ELSE given)]
      BY <2>1
    <2>b. PICK named \in Named(t, op) : \E given \in Payload(t, named) :
                   request' = [request EXCEPT ![r] =
                     Starts(op, t, i, actor, IF op = "replace" THEN Fields ELSE named,
                            IF op = "update" /\ t # "routes"
                            THEN Overlay(Shown(t, store[t][i]), named, given)
                            ELSE given)]
      BY <2>a
    <2>2. PICK given \in Payload(t, named) :
                   request' = [request EXCEPT ![r] =
                     Starts(op, t, i, actor, IF op = "replace" THEN Fields ELSE named,
                            IF op = "update" /\ t # "routes"
                            THEN Overlay(Shown(t, store[t][i]), named, given)
                            ELSE given)]
      BY <2>b
    <2>3. op \in Ops /\ t \in Table
      BY <1>0 DEF Offered, Ops
    <2>4. named \in SUBSET Fields /\ given \in Row
      BY <2>3, PayloadTyped
    <2>5. store[t][i] \in Row
      BY <1>0, <2>1, <2>3 DEF StoreType, Optional
    <2> DEFINE row == IF op = "update" /\ t # "routes"
                      THEN Overlay(Shown(t, store[t][i]), named, given) ELSE given
               written == IF op = "replace" THEN Fields ELSE named
    <2>6. row \in Row /\ written \in SUBSET Fields
      BY <2>4, <2>5, ShownTyped, OverlayTyped
    <2>7. i \in Optional(Id) /\ actor \in Optional(User)
      BY DEF Optional
    <2>8. request' = [request EXCEPT ![r] = Starts(op, t, i, actor, written, row)]
      BY <2>2
    <2> HIDE DEF row, written
    <2> QED
      BY <1>0, <2>3, <2>6, <2>7, <2>8, StartsTyped, OneRequestIsTyped
  <1>3. CASE WriteRecord(r)
    <2> DEFINE record == Head(transfer.todo)
               existing == store[record.table][record.id]
               importer == IF transfer.kind = "bundle" THEN Admin ELSE None
    <2>1. record \in Record
      BY <1>3 DEF TypeInv, TransferType, Transfers, WriteRecord
    <2>2. existing \in Optional(Row)
      BY <1>0, <2>1 DEF Record, StoreType
    <2>3. request' = [request EXCEPT ![r] = IF existing = None THEN Creation(record)
                                            ELSE Replacement(record, existing)]
      BY <1>3 DEF WriteRecord
    <2>4. /\ "create" \in Ops /\ "update" \in Ops /\ Fields \in SUBSET Fields
          /\ record.table \in Table /\ record.row \in Row
          /\ record.id \in Id /\ record.id \in Optional(Id) /\ None \in Optional(Id)
          /\ None \in Optional(User) /\ Admin \in Optional(User)
      BY <2>1, RoutingAssumption DEF Ops, Record, Optional
    <2> HIDE DEF record, existing
    <2>5. CASE existing = None
      <3>1. request' = [request EXCEPT ![r] = Creation(record)]
        BY <2>3, <2>5
      <3>2. Assigned(record.table, importer, record.row) \in Row
        BY <2>4, AssignedTyped
      <3>3. Creation(record) = Starts("create", record.table,
               IF record.table = "streams" THEN None ELSE record.id, importer, Fields,
               Assigned(record.table, importer, record.row))
        BY DEF Creation
      <3>4. Creation(record) \in RequestType /\ Ready(Creation(record))
        BY <2>4, <3>2, <3>3, StartsTyped
      <3> QED
        BY <1>0, <3>1, <3>4, OneRequestIsTyped
    <2>6. CASE existing # None
      <3> DEFINE row == [record.row EXCEPT !.owner = existing.owner, !.lists = existing.lists]
      <3>1. request' = [request EXCEPT ![r] = Replacement(record, existing)]
        BY <2>3, <2>6
      <3>2. row \in Row
        BY <2>2, <2>4, <2>6 DEF Row, Optional
      <3> HIDE DEF row
      <3>3. Replacement(record, existing) \in RequestType /\ Ready(Replacement(record, existing))
        BY <2>4, <3>2, StartsTyped DEF Replacement, row
      <3> QED
        BY <1>0, <3>1, <3>3, OneRequestIsTyped
    <2> QED
      BY <2>5, <2>6
  <1> QED
    BY <1>1, <1>2, <1>3
LEMMA ValidateTyped ==
  ASSUME RequestsType, NEW r \in Request, Validate(r)
  PROVE  RequestsType'
  <1> DEFINE goes == [request[r] EXCEPT !.at = "open"]
  <1>1. goes \in RequestType /\ Ready(goes)
    BY DEF RequestsType, RequestType, Ready, Validate
  <1>2. request' = [request EXCEPT ![r] = goes]
    BY DEF Validate, RequestsType, RequestType
  <1> HIDE DEF goes
  <1> QED
    BY <1>1, <1>2, OneRequestIsTyped

\* What an edit writes is a row, whatever its transaction has read.
LEMMA OpenTyped ==
  ASSUME RequestsType, StoreType, NEW r \in Request, Open(r)
  PROVE  RequestsType'
  <1> DEFINE q == request[r]
             seen == IF q.op = "create" THEN None ELSE store[q.table][q.id]
             row == IF q.op = "create" THEN q.row ELSE Merged(q, seen)
             goes == [q EXCEPT !.at = "commit", !.seen = seen, !.row = row, !.actor = None]
  <1>1. /\ q \in RequestType /\ Ready(q) /\ q.at = "open" /\ Shaped(q)
    BY DEF Open, RequestsType, RequestType, Shaped
  <1>2. /\ request' = [request EXCEPT ![r] = goes]
        /\ q.op # "create" => seen # None
        /\ q.row.secret = Kept => seen # None
    BY DEF Open
  <1>3. q.op # "create" => seen \in Row /\ seen.secret # Kept
    <2> SUFFICES ASSUME q.op # "create"
                 PROVE  seen \in Row /\ seen.secret # Kept
      OBVIOUS
    <2>1. seen = store[q.table][q.id] /\ seen # None
      BY <1>2
    <2>2. q.id \in Optional(Id) /\ q.table \in Table
      BY <1>1 DEF RequestType
    <2> QED
      BY <1>1, <2>1, <2>2 DEF Ready, StoreType, Optional
  <1>4. row \in Row /\ (q.op = "create" => row.secret # Kept)
    <2>1. CASE q.op = "create"
      BY <1>1, <1>2, <2>1 DEF Ready
    <2>2. CASE q.op # "create"
      BY <1>1, <1>3, <2>2, OverlayTyped DEF Ready, Merged
    <2> QED
      BY <2>1, <2>2
  <1>5. seen \in Optional(Row)
    BY <1>3 DEF Optional
  <1> HIDE DEF row, seen, q
  <1>6. goes = [at |-> "commit", op |-> q.op, table |-> q.table, id |-> q.id,
                actor |-> None, named |-> q.named, row |-> row, seen |-> seen,
                notes |-> q.notes]
    BY <1>1, OpenedRequest
  <1> HIDE DEF goes
  <1>7. goes \in RequestType /\ Ready(goes)
    BY <1>1, <1>3, <1>4, <1>5, <1>6 DEF RequestType, Ready, Optional
  <1> QED
    BY <1>2, <1>7, OneRequestIsTyped

LEMMA WrittenTyped ==
  ASSUME NEW q \in RequestType, Ready(q), q.at = "commit",
         NEW now, q.op # "create" => now \in Row /\ now.secret # Kept
  PROVE  Written(q, now) \in Row /\ Written(q, now).secret # Kept
  <1>1. CASE q.op = "create"
    BY <1>1 DEF Written, Ready
  <1>2. CASE q.op # "create"
    <2> DEFINE replaced == IF q.op = "toggle" THEN {} ELSE Children(q.table)
               changed == {f \in Fields : q.row[f] # q.seen[f]}
               row == Overlay(now, changed \cup replaced, q.row)
    <2>1. row \in Row /\ row.secret \in {now.secret, q.row.secret}
      BY <1>2, OverlayTyped DEF Ready
    <2>2. Written(q, now) = [row EXCEPT !.secret = IF row.secret = Kept THEN q.seen.secret ELSE row.secret]
      BY <1>2, <2>1 DEF Written, Row
    <2>3. q.seen \in Row /\ q.seen.secret # Kept
      BY <1>2 DEF Ready
    <2> HIDE DEF row
    <2> QED
      BY <2>1, <2>2, <2>3 DEF Row
  <1> QED
    BY <1>1, <1>2

\* The other requests take note of a commit.
LEMMA NotesTyped ==
  ASSUME RequestsType, NEW r, NEW t, NEW i, NEW claimed, request' = Notes(r, t, i, claimed)
  PROVE  RequestsType'
  <1> SUFFICES ASSUME NEW p \in Request
               PROVE  request'[p] \in RequestType /\ Ready(request'[p])
    BY DEF RequestsType, Notes
  <1> DEFINE q == request[p]
             added == (IF q.id = i THEN {"stale"} ELSE {}) \cup
                      (IF q.id = i /\ q.at = "commit" THEN {"torn"} ELSE {}) \cup
                      (IF claimed /\ Sought(q) THEN {"overtaken"} ELSE {})
  <1>1. q \in RequestType /\ Ready(q)
    BY DEF RequestsType
  <1>2. q.notes \cup added \subseteq {"stale", "torn", "overtaken"}
    BY <1>1 DEF RequestType
  <1>3. request'[p] \in {Idle, q, [q EXCEPT !.notes = q.notes \cup added]}
    BY DEF Notes
  <1> HIDE DEF q, added
  <1>4. [q EXCEPT !.notes = q.notes \cup added] \in RequestType
        /\ Ready([q EXCEPT !.notes = q.notes \cup added])
    BY <1>1, <1>2 DEF RequestType, Ready
  <1> QED
    BY <1>1, <1>3, <1>4, IdleIsTyped
\* What a commit does, the row that it writes at hand.
LEMMA CommitTyped ==
  ASSUME TypeInv, NEW r \in Request, Commit(r)
  PROVE  StoreType' /\ RequestsType' /\ CountersType'
  <1> DEFINE q == request[r]
  <1>1. PICK i \in Id :
          LET new == IF q.op = "delete" THEN None ELSE Written(q, store[q.table][i])
              rows == [store[q.table] EXCEPT ![i] = new]
          IN  /\ Target(q, i)
              /\ store' = [store EXCEPT ![q.table] = rows]
              /\ request' = Notes(r, q.table, i, q.op \notin {"toggle", "delete"})
              /\ loose' = IF q.table # "streams" \/ q.op = "toggle" THEN loose
                          ELSE IF q.op = "replace" \/ (q.op # "delete" /\ "overtaken" \in q.notes)
                          THEN loose \cup {i}
                          ELSE loose \ {i}
    BY DEF Commit
  <1> DEFINE now == store[q.table][i]
             new == IF q.op = "delete" THEN None ELSE Written(q, now)
  <1>2. /\ Target(q, i)
        /\ store' = [store EXCEPT ![q.table] = [store[q.table] EXCEPT ![i] = new]]
        /\ request' = Notes(r, q.table, i, q.op \notin {"toggle", "delete"})
    BY <1>1
  <1>3. q \in RequestType /\ Ready(q) /\ q.at = "commit"
    BY DEF Commit, TypeInv, RequestsType
  <1>4. q.table \in Table /\ q.op \in Ops
    BY <1>3 DEF RequestType
  <1>5. q.op # "create" => now \in Row /\ now.secret # Kept
    BY <1>2, <1>4 DEF Target, TypeInv, StoreType, Optional
  <1>6. new # None => new \in Row /\ new.secret # Kept
    BY <1>3, <1>5, WrittenTyped
  <1>7. StoreType'
    <2> HIDE DEF new, q
    <2>1. new \in Optional(Row)
      BY <1>6 DEF Optional
    <2>2. store' \in [Table -> [Id -> Optional(Row)]]
      BY <1>2, <1>4, <2>1 DEF TypeInv, StoreType
    <2>3. \A t \in Table, j \in Id :
             store'[t][j] = IF t = q.table /\ j = i THEN new ELSE store[t][j]
      BY <1>2, <1>4 DEF TypeInv, StoreType
    <2> QED
      BY <1>6, <2>2, <2>3 DEF TypeInv, StoreType
  <1>8. RequestsType'
    BY <1>2, NotesTyped DEF TypeInv
  <1>9. loose' \subseteq Id
    BY <1>1 DEF TypeInv, CountersType
  <1> QED
    BY <1>7, <1>8, <1>9 DEF Commit, TypeInv, CountersType

LEMMA AbortTyped ==
  ASSUME RequestsType, NEW r \in Request, Abort(r)
  PROVE  RequestsType'
  BY IdleIsTyped, OneRequestIsTyped DEF Abort

\* The records of an export and of a preflight.
LEMMA ResourcesTyped ==
  ASSUME StoreType, NEW t \in Table, NEW found \in Resources(t)
  PROVE  found \in Seq(Record)
  <1> DEFINE N == {i \in Id : store[t][i] # None}
  <1>1. PICK ids \in Ascending(N) :
          found = [n \in DOMAIN ids |-> [table |-> t, id |-> ids[n], row |-> Shown(t, store[t][ids[n]])]]
    BY DEF Resources
  <1>2. IsFiniteSet(N) /\ Cardinality(N) \in Nat
    <2>1. IsFiniteSet(Id)
      BY RoutingAssumption, FS_Interval DEF Id
    <2> QED
      BY <2>1, FS_Subset, FS_CardinalityType
  <1>3. ids \in [1..Cardinality(N) -> N]
    BY DEF Ascending
  <1>4. \A i \in N : [table |-> t, id |-> i, row |-> Shown(t, store[t][i])] \in Record
    BY ShownTyped DEF StoreType, Record, Optional
  <1> HIDE DEF N
  <1>5. found \in [1..Cardinality(N) -> Record]
    BY <1>1, <1>3, <1>4
  <1> QED
    BY <1>2, <1>5

LEMMA PreflightTyped ==
  ASSUME NEW records \in Preflighted
  PROVE  records \in Seq(Record)
  <1>1. PICK dump \in Dumps : records \in Preflight(dump)
    BY DEF Preflighted
  <1> DEFINE N == {n \in 1..Len(dump) : Accepted(dump, n) /\ Resolves(dump, n)}
  <1>2. PICK kept \in Ascending(N) :
          records = [n \in DOMAIN kept |-> [table |-> dump[kept[n]].table,
                                            id |-> dump[kept[n]].id, row |-> dump[kept[n]].row]]
    BY <1>1 DEF Preflight
  <1>3. dump \in Seq([table : {"hosts", "lists"}, id : Optional(Id), deleted : BOOLEAN, row : Row])
    BY PortabilityAssumption
  <1>4. IsFiniteSet(N) /\ Cardinality(N) \in Nat
    <2>1. IsFiniteSet(1..Len(dump))
      BY <1>3, FS_Interval
    <2> QED
      BY <2>1, FS_Subset, FS_CardinalityType
  <1>5. kept \in [1..Cardinality(N) -> N]
    BY DEF Ascending
  <1>6. \A n \in N : [table |-> dump[n].table, id |-> dump[n].id, row |-> dump[n].row] \in Record
    <2> SUFFICES ASSUME NEW n \in N
                 PROVE  dump[n].table \in Table /\ dump[n].id \in Id /\ dump[n].row \in Row
      BY DEF Record
    <2>1. dump[n] \in [table : {"hosts", "lists"}, id : Optional(Id), deleted : BOOLEAN, row : Row]
      <3> DEFINE D == [table : {"hosts", "lists"}, id : Optional(Id), deleted : BOOLEAN, row : Row]
      <3>1. dump \in Seq(D) /\ n \in 1..Len(dump)
        BY <1>3
      <3> HIDE DEF D
      <3>2. dump[n] \in D
        BY <3>1
      <3> QED
        BY <3>2 DEF D
    <2>2. dump[n].id # None
      BY DEF Accepted
    <2> QED
      BY <2>1, <2>2 DEF Optional, Table
  <1> HIDE DEF N
  <1>7. records \in [1..Cardinality(N) -> Record]
    BY <1>2, <1>5, <1>6
  <1> QED
    BY <1>4, <1>7

\* A transfer takes the next step.
LEMMA TransferTyped ==
  ASSUME TypeInv, [PortabilityNext]_vars
  PROVE  TransferType'
  <1>0. /\ bundle \in Seq(Record) \cup {None} /\ transfer \in Transfers
        /\ transfer.kind = "export" => transfer.tables # <<>>
        /\ transfer.by # None => transfer.todo # <<>>
    BY DEF TypeInv, TransferType
  <1>1. ASSUME UNCHANGED bundle, transfer' \in Transfers,
               \/ transfer'.kind # "export"
               \/ transfer'.kind = transfer.kind /\ transfer'.tables = transfer.tables,
               \/ transfer'.by = None
               \/ transfer'.todo # <<>>
               \/ transfer'.todo = transfer.todo /\ transfer'.by = transfer.by
        PROVE  TransferType'
    BY <1>0, <1>1 DEF TransferType
  <1>2. Still \in Transfers /\ Still.kind = "none" /\ Still.by = None
    BY StillIsTyped DEF Still
  <1>3. CASE ExportBegins
    <2> DEFINE one == [Still EXCEPT !.kind = "export"]
               two == [one EXCEPT !.tables = Collections]
    <2>1. Collections \in Seq(Table) /\ Collections # <<>>
      BY DEF Collections, Table
    <2>2. one \in Transfers /\ two \in Transfers /\ two.tables = Collections /\ two.by = None
      BY <1>2, <2>1 DEF Transfers, Still
    <2>3. transfer' = two /\ UNCHANGED bundle
      BY <1>3 DEF ExportBegins, Begins
    <2> QED
      BY <1>0, <2>1, <2>2, <2>3 DEF TransferType
  <1>4. CASE ExportTable
    <2>1. PICK found \in Resources(Head(transfer.tables)) :
            LET records == transfer.records \o found IN
            IF Len(transfer.tables) = 1
            THEN transfer' = Still /\ bundle' = records
            ELSE /\ transfer' = [transfer EXCEPT !.tables = Tail(@), !.records = records]
                 /\ UNCHANGED bundle
      BY <1>4 DEF ExportTable
    <2> DEFINE records == transfer.records \o found
    <2>2. transfer.tables \in Seq(Table) /\ transfer.tables # <<>>
      BY <1>0, <1>4 DEF ExportTable, Transfers
    <2>3. found \in Seq(Record)
      BY <2>2, ResourcesTyped DEF TypeInv
    <2>4. records \in Seq(Record)
      BY <1>0, <2>3 DEF Transfers
    <2>5. CASE Len(transfer.tables) = 1
      BY <1>2, <2>1, <2>4, <2>5 DEF TransferType
    <2>6. CASE Len(transfer.tables) # 1
      <3> DEFINE one == [transfer EXCEPT !.tables = Tail(transfer.tables)]
                 two == [one EXCEPT !.records = records]
      <3>1. Tail(transfer.tables) \in Seq(Table) /\ Tail(transfer.tables) # <<>>
        <4>1. /\ Tail(transfer.tables) \in Seq(Table)
              /\ Len(Tail(transfer.tables)) = Len(transfer.tables) - 1
          BY <2>2, HeadTailProperties
        <4>2. Len(transfer.tables) \in Nat \ {0, 1}
          BY <2>2, <2>6, EmptySeq
        <4> DEFINE rest == Tail(transfer.tables)
        <4>3. rest \in Seq(Table) /\ Len(rest) # 0
          BY <4>1, <4>2
        <4> HIDE DEF rest
        <4>4. rest # <<>>
          BY <4>3, EmptySeq
        <4> QED
          BY <4>1, <4>4 DEF rest
      <3>2. /\ one \in Transfers /\ one.tables = Tail(transfer.tables)
            /\ one.todo = transfer.todo /\ one.by = transfer.by
        BY <1>0, <3>1 DEF Transfers
      <3>3. two \in Transfers /\ two.tables = one.tables /\ two.todo = one.todo /\ two.by = one.by
        <4> HIDE DEF one, records
        <4> QED
          BY <2>4, <3>2 DEF Transfers
      <3>4. transfer' = two /\ UNCHANGED bundle
        BY <1>0, <2>1, <2>6 DEF Transfers
      <3> QED
        BY <1>0, <3>1, <3>2, <3>3, <3>4 DEF TransferType
    <2> QED
      BY <2>5, <2>6
  <1>5. CASE ImportBegins
    <2>1. PICK commit \in BOOLEAN, replace \in BOOLEAN, kind \in {"bundle", "npm"} :
           \E records \in IF kind = "bundle" THEN {bundle} \ {None}
                          ELSE IF "hosts" \in family THEN Preflighted ELSE {} :
             Begins([Still EXCEPT !.kind = kind, !.records = records, !.todo = records,
                                  !.commit = commit, !.replace = replace])
      BY <1>5 DEF ImportBegins
    <2>2. PICK records \in IF kind = "bundle" THEN {bundle} \ {None}
                          ELSE IF "hosts" \in family THEN Preflighted ELSE {} :
             Begins([Still EXCEPT !.kind = kind, !.records = records, !.todo = records,
                                  !.commit = commit, !.replace = replace])
      BY <2>1
    <2>3. records \in Seq(Record)
      BY <1>0, PreflightTyped
    <2> DEFINE one == [Still EXCEPT !.kind = kind]
               two == [one EXCEPT !.records = records]
               three == [two EXCEPT !.todo = records]
               four == [three EXCEPT !.commit = commit]
               five == [four EXCEPT !.replace = replace]
    <2>4. one \in Transfers /\ one.kind # "export" /\ one.by = None
      BY <1>2 DEF Transfers, Still
    <2>5. two \in Transfers /\ two.kind # "export" /\ two.by = None
      BY <2>3, <2>4 DEF Transfers
    <2>6. three \in Transfers /\ three.kind # "export" /\ three.by = None
      <3> HIDE DEF two
      <3> QED
        BY <2>3, <2>5 DEF Transfers
    <2>7. four \in Transfers /\ four.kind # "export" /\ four.by = None
      <3> HIDE DEF three
      <3> QED
        BY <2>6 DEF Transfers
    <2>8. five \in Transfers /\ five.kind # "export" /\ five.by = None
      <3> HIDE DEF four
      <3> QED
        BY <2>7 DEF Transfers
    <2>9. transfer' = five /\ UNCHANGED bundle
      BY <1>5, <2>2 DEF Begins, ImportBegins
    <2> HIDE DEF five
    <2> QED
      BY <1>1, <2>8, <2>9
  <1>6. CASE SkipRecord
    <2> DEFINE goes == [transfer EXCEPT !.todo = Tail(transfer.todo)]
    <2>1. transfer.todo \in Seq(Record) /\ transfer.todo # <<>>
      BY <1>0, <1>6 DEF SkipRecord, Transfers
    <2>2. /\ goes \in Transfers /\ goes.kind = transfer.kind
          /\ goes.tables = transfer.tables /\ goes.by = transfer.by
      <3>1. Tail(transfer.todo) \in Seq(Record)
        BY <2>1, HeadTailProperties
      <3> QED
        BY <1>0, <3>1 DEF Transfers
    <2>3. transfer' = goes /\ UNCHANGED bundle
      BY <1>0, <1>6 DEF SkipRecord, Transfers
    <2> QED
      BY <1>1, <1>6, <2>2, <2>3 DEF SkipRecord, Importing
  <1>7. ASSUME NEW r \in Request, WriteRecord(r)
        PROVE  TransferType'
    <2> DEFINE goes == [transfer EXCEPT !.by = r]
    <2>1. /\ goes \in Transfers /\ goes.kind = transfer.kind
          /\ goes.tables = transfer.tables /\ goes.todo = transfer.todo
      BY <1>0 DEF Transfers, Optional
    <2>2. transfer' = goes /\ UNCHANGED bundle /\ transfer.todo # <<>>
      BY <1>7 DEF WriteRecord
    <2> QED
      BY <1>1, <2>1, <2>2
  <1>8. ASSUME NEW r \in Request, RequestCommits(r)
        PROVE  TransferType'
    <2>1. CASE transfer.by = r
      <3> DEFINE one == [transfer EXCEPT !.by = None]
                 two == [one EXCEPT !.todo = Tail(transfer.todo)]
      <3>1. /\ one \in Transfers /\ one.kind = transfer.kind
            /\ one.tables = transfer.tables /\ one.by = None
        BY <1>0 DEF Transfers, Optional
      <3>2. Tail(transfer.todo) \in Seq(Record)
        BY <1>0, <2>1, PortabilityAssumption, HeadTailProperties DEF Transfers
      <3>3. /\ two \in Transfers /\ two.kind = transfer.kind
            /\ two.tables = transfer.tables /\ two.by = None
        <4> HIDE DEF one
        <4> QED
          BY <3>1, <3>2 DEF Transfers
      <3>4. transfer' = two /\ UNCHANGED bundle
        BY <1>0, <1>8, <2>1 DEF RequestCommits, Transfers
      <3> QED
        BY <1>1, <3>3, <3>4
    <2>2. CASE transfer.by # r
      <3> DEFINE goes == [transfer EXCEPT !.clean = FALSE]
      <3>1. /\ goes \in Transfers /\ goes.kind = transfer.kind
            /\ goes.tables = transfer.tables /\ goes.todo = transfer.todo
            /\ goes.by = transfer.by
        BY <1>0 DEF Transfers
      <3>2. transfer' \in {goes, Still} /\ UNCHANGED bundle
        BY <1>8, <2>2 DEF RequestCommits
      <3> QED
        BY <1>1, <1>2, <3>1, <3>2
    <2> QED
      BY <2>1, <2>2
  <1>9. CASE ImportEnds \/ TransferFails \/ Reinstall \/ UNCHANGED vars
    <2>1. UNCHANGED bundle /\ transfer' \in {Still, transfer}
      BY <1>9 DEF ImportEnds, TransferFails, Reinstall, vars, pvars
    <2> QED
      BY <1>0, <1>1, <1>2, <2>1
  <1>10. ASSUME NEW r \in Request, RequestAborts(r) \/ UNCHANGED pvars
         PROVE  TransferType'
    <2>1. UNCHANGED bundle /\ transfer' \in {Still, transfer}
      BY <1>10 DEF RequestAborts, pvars
    <2> QED
      BY <1>0, <1>1, <1>2, <2>1
  <1> QED
    BY <1>3, <1>4, <1>5, <1>6, <1>7, <1>8, <1>9, <1>10 DEF PortabilityNext

LEMMA StepTypeInv ==
  ASSUME TypeInv, [PortabilityNext]_vars
  PROVE  TypeInv'
  <1>0. StoreType /\ RequestsType /\ CountersType
    BY DEF TypeInv
  <1>1. TransferType'
    BY TransferTyped
  <1>2. ASSUME UNCHANGED store
        PROVE  StoreType'
    BY <1>0, <1>2 DEF StoreType
  <1>3. ASSUME UNCHANGED request
        PROVE  RequestsType'
    BY <1>0, <1>3 DEF RequestsType, Ready
  <1>4. ASSUME UNCHANGED <<family, loose>>,
               begun' = begun \/ (begun < MaxRequests /\ begun' = begun + 1)
        PROVE  CountersType'
    BY <1>0, <1>4, RoutingAssumption DEF CountersType
  <1>5. CASE ExportBegins \/ ExportTable \/ ImportBegins \/ SkipRecord \/ ImportEnds
             \/ TransferFails \/ UNCHANGED vars
    <2>1. UNCHANGED <<store, request, family, loose>>
      BY <1>5 DEF ExportBegins, ExportTable, ImportBegins, SkipRecord, ImportEnds,
                  TransferFails, Begins, vars, rvars
    <2>2. begun' = begun \/ (begun < MaxRequests /\ begun' = begun + 1)
      BY <1>5 DEF ExportBegins, ExportTable, ImportBegins, SkipRecord, ImportEnds,
                  TransferFails, Begins, vars, rvars
    <2> QED
      BY <1>1, <1>2, <1>3, <1>4, <2>1, <2>2 DEF TypeInv
  <1>6. CASE Reinstall
    <2>1. StoreType'
      BY <1>6 DEF Reinstall, StoreType, Optional
    <2>2. CountersType'
      BY <1>0, <1>6 DEF Reinstall, CountersType
    <2>3. UNCHANGED request
      BY <1>6 DEF Reinstall
    <2> QED
      BY <1>1, <1>3, <2>1, <2>2, <2>3 DEF TypeInv
  <1>7. ASSUME NEW r \in Request, BeginCreate(r) \/ BeginEdit(r) \/ WriteRecord(r)
        PROVE  TypeInv'
    <2>1. UNCHANGED <<store, family, loose>>
      BY <1>7 DEF BeginCreate, BeginEdit, WriteRecord
    <2>2. begun' = begun \/ (begun < MaxRequests /\ begun' = begun + 1)
      BY <1>7 DEF BeginCreate, BeginEdit, WriteRecord
    <2> QED
      BY <1>1, <1>2, <1>4, <1>7, <2>1, <2>2, BeginTyped DEF TypeInv
  <1>8. ASSUME NEW r \in Request, Validate(r) \/ Open(r) \/ RequestAborts(r)
        PROVE  TypeInv'
    <2>1. UNCHANGED <<store, family, loose, begun>>
      BY <1>8 DEF Validate, Open, RequestAborts, Abort
    <2>2. RequestsType'
      BY <1>0, <1>8, ValidateTyped, OpenTyped, AbortTyped DEF RequestAborts
    <2> QED
      BY <1>1, <1>2, <1>4, <2>1, <2>2 DEF TypeInv
  <1>9. ASSUME NEW r \in Request, RequestCommits(r)
        PROVE  TypeInv'
    BY <1>1, <1>9, CommitTyped DEF RequestCommits, TypeInv
  <1> QED
    BY <1>5, <1>6, <1>7, <1>8, <1>9 DEF PortabilityNext

\* Whatever is exported, imported and requested, the tables hold rows with the hash of a
\* password and never its placeholder, and a request that edits holds a row to write and
\* what it is to be written over (_replace_children, tables/access.py).
THEOREM RoutingTypeCorrect == PortabilitySpec => []RoutingTypeOK
  <1>1. PortabilityInit => TypeInv
    BY InitTypeInv
  <1>2. TypeInv /\ [PortabilityNext]_vars => TypeInv'
    BY StepTypeInv
  <1>3. TypeInv => RoutingTypeOK
    BY DEF TypeInv, StoreType, RequestsType, RequestType, CountersType, RoutingTypeOK
  <1> QED
    BY <1>1, <1>2, <1>3, PTL DEF PortabilitySpec

-----------------------------------------------------------------------------
(* Edits change what they name *)

\* What an edit has read of its row still is there, unless its notes say that it is
\* stale; what it does not name it will write back as it was read, a password as its
\* placeholder.
Faithful(q) ==
    LET now == store[q.table][q.id] IN
    q.at # "idle" /\ q.op # "create" =>
        /\ "torn" \in q.notes => "stale" \in q.notes
        /\ q.at = "commit" /\ "torn" \notin q.notes => q.seen = now
        /\ q.op = "update" /\ q.table # "routes" /\ "stale" \notin q.notes =>
             \A f \in Fields \ q.named : q.row[f] = Shown(q.table, now)[f]
        /\ q.at = "commit" /\ (q.op = "toggle" \/ (q.op = "update" /\ q.table = "routes")) =>
             \A f \in Fields \ q.named : q.row[f] = q.seen[f]
        /\ q.table = "lists" /\ q.op \in {"update", "replace"} /\ "secret" \notin q.named =>
             q.row.secret \in {None, Kept}

AllFaithful == \A r \in Request : Faithful(request[r])

LEMMA OverlayKeeps ==
  ASSUME NEW row \in Row, NEW named, NEW payload \in Row, NEW f \in Fields
  PROVE  Overlay(row, named, payload)[f] = IF f \in named THEN payload[f] ELSE row[f]
  <1>1. f \in {"owner", "enabled", "claims", "lists", "secret"}
    BY DEF Fields
  <1> QED
    BY <1>1 DEF Overlay, Row

LEMMA ShownKeeps ==
  ASSUME NEW row \in Row, NEW t, NEW f \in Fields
  PROVE  /\ f = "secret" => Shown(t, row)[f] = IF row.secret = None THEN None ELSE Kept
         /\ f # "secret" /\ (f # "owner" \/ t # "streams") => Shown(t, row)[f] = row[f]
  <1>1. f \in {"owner", "enabled", "claims", "lists", "secret"}
    BY DEF Fields
  <1> QED
    BY <1>1 DEF Shown, Row

\* A request goes on, and the tables are as they were.
LEMMA OneRequestIsFaithful ==
  ASSUME RequestsType, AllFaithful, UNCHANGED store, NEW r \in Request, NEW q, Faithful(q),
         request' = [request EXCEPT ![r] = q]
  PROVE  AllFaithful'
  <1> SUFFICES ASSUME NEW p \in Request
               PROVE  Faithful(request[p])'
    BY DEF AllFaithful
  <1>1. Faithful(request'[p])
    BY DEF RequestsType, AllFaithful
  <1> QED
    BY <1>1 DEF Faithful

LEMMA InitFaithful ==
  ASSUME PortabilityInit
  PROVE  AllFaithful
  <1>1. request = [r \in Request |-> Idle]
    BY DEF PortabilityInit, RoutingInit
  <1>2. Faithful(Idle)
    BY DEF Faithful, Idle
  <1> QED
    BY <1>1, <1>2 DEF AllFaithful

LEMMA BeginFaithful ==
  ASSUME TypeInv, AllFaithful, NEW r \in Request, BeginCreate(r) \/ BeginEdit(r) \/ WriteRecord(r)
  PROVE  AllFaithful'
  <1>0. RequestsType /\ StoreType /\ family \subseteq Table /\ UNCHANGED store
    BY DEF TypeInv, CountersType, BeginCreate, BeginEdit, WriteRecord
  <1>1. ASSUME NEW t, NEW id, NEW actor, NEW named, NEW row,
               request' = [request EXCEPT ![r] = Starts("create", t, id, actor, named, row)]
        PROVE  AllFaithful'
    <2> DEFINE q == Starts("create", t, id, actor, named, row)
    <2>1. Faithful(q)
      BY DEF Faithful, Starts
    <2> HIDE DEF q
    <2> QED
      BY <1>0, <1>1, <2>1, OneRequestIsFaithful DEF q
  <1>2. ASSUME NEW t, NEW id, NEW actor, NEW row,
               request' = [request EXCEPT ![r] = Starts("update", t, id, actor, Fields, row)]
        PROVE  AllFaithful'
    <2> DEFINE q == Starts("update", t, id, actor, Fields, row)
    <2>1. Faithful(q)
      BY DEF Faithful, Starts, Fields
    <2> HIDE DEF q
    <2> QED
      BY <1>0, <1>2, <2>1, OneRequestIsFaithful DEF q
  <1>3. CASE BeginCreate(r)
    <2>1. PICK t, id, row :
            request' = [request EXCEPT ![r] = Starts("create", t, id, None, Fields, row)]
      BY <1>3 DEF BeginCreate
    <2> QED
      BY <1>1, <2>1
  <1>4. CASE WriteRecord(r)
    <2> DEFINE record == Head(transfer.todo)
               existing == store[record.table][record.id]
    <2>1. request' = [request EXCEPT ![r] = IF existing = None THEN Creation(record)
                                            ELSE Replacement(record, existing)]
      BY <1>4 DEF WriteRecord
    <2> HIDE DEF record, existing
    <2>2. PICK t, id, actor, row :
            \/ request' = [request EXCEPT ![r] = Starts("create", t, id, actor, Fields, row)]
            \/ request' = [request EXCEPT ![r] = Starts("update", t, id, actor, Fields, row)]
      BY <2>1 DEF Creation, Replacement
    <2> QED
      BY <1>1, <1>2, <2>2
  <1>5. CASE BeginEdit(r)
    <2>1. PICK t \in family, actor \in User, i \in Id :
            /\ store[t][i] # None
            /\ \E op \in Offered(t) \ {"create"} :
                 \E named \in Named(t, op) : \E given \in Payload(t, named) :
                   request' = [request EXCEPT ![r] =
                     Starts(op, t, i, actor, IF op = "replace" THEN Fields ELSE named,
                            IF op = "update" /\ t # "routes"
                            THEN Overlay(Shown(t, store[t][i]), named, given)
                            ELSE given)]
      BY <1>5 DEF BeginEdit
    <2>2. PICK op \in Offered(t) \ {"create"} :
                 \E named \in Named(t, op) : \E given \in Payload(t, named) :
                   request' = [request EXCEPT ![r] =
                     Starts(op, t, i, actor, IF op = "replace" THEN Fields ELSE named,
                            IF op = "update" /\ t # "routes"
                            THEN Overlay(Shown(t, store[t][i]), named, given)
                            ELSE given)]
      BY <2>1
    <2>3. PICK named \in Named(t, op) : \E given \in Payload(t, named) :
                   request' = [request EXCEPT ![r] =
                     Starts(op, t, i, actor, IF op = "replace" THEN Fields ELSE named,
                            IF op = "update" /\ t # "routes"
                            THEN Overlay(Shown(t, store[t][i]), named, given)
                            ELSE given)]
      BY <2>2
    <2>4. PICK given \in Payload(t, named) :
                   request' = [request EXCEPT ![r] =
                     Starts(op, t, i, actor, IF op = "replace" THEN Fields ELSE named,
                            IF op = "update" /\ t # "routes"
                            THEN Overlay(Shown(t, store[t][i]), named, given)
                            ELSE given)]
      BY <2>3
    <2> DEFINE shown == Shown(t, store[t][i])
               row == IF op = "update" /\ t # "routes" THEN Overlay(shown, named, given)
                      ELSE given
               written == IF op = "replace" THEN Fields ELSE named
               q == Starts(op, t, i, actor, written, row)
    <2>5. t \in Table /\ op \in Ops /\ store[t][i] \in Row
      BY <1>0, <2>1, <2>2 DEF StoreType, Optional, Offered, Ops
    <2>6. given \in Row
      BY <2>5, PayloadTyped
    <2>7. shown \in Row /\ shown.secret \in {None, Kept}
      BY <2>5, ShownTyped, ShownKeeps DEF Fields
    <2>8. "secret" \notin named => given.secret = None
      BY DEF Payload
    <2> HIDE DEF shown
    <2>9. op = "update" /\ t # "routes" => \A f \in Fields \ named : row[f] = shown[f]
      BY <2>6, <2>7, OverlayKeeps
    <2>10. "secret" \notin written => row.secret \in {None, Kept}
      BY <2>6, <2>7, <2>8 DEF Overlay, Fields
    <2>11. op = "update" => written = named
      OBVIOUS
    <2>12. request' = [request EXCEPT ![r] = q]
      BY <2>4 DEF shown
    <2> HIDE DEF row, written
    <2>13. Faithful(q)
      BY <2>9, <2>10, <2>11 DEF Faithful, Starts, shown
    <2> HIDE DEF q
    <2> QED
      BY <1>0, <2>12, <2>13, OneRequestIsFaithful
  <1> QED
    BY <1>3, <1>4, <1>5

LEMMA ValidateFaithful ==
  ASSUME RequestsType, AllFaithful, NEW r \in Request, Validate(r)
  PROVE  AllFaithful'
  <1> DEFINE q == request[r]
             goes == [q EXCEPT !.at = "open"]
  <1>1. q \in RequestType /\ Faithful(q) /\ q.at = "validate"
    BY DEF Validate, AllFaithful, RequestsType
  <1>2. request' = [request EXCEPT ![r] = goes] /\ UNCHANGED store
    BY <1>1 DEF Validate, RequestType
  <1>3. /\ goes.at = "open" /\ goes.op = q.op /\ goes.table = q.table /\ goes.id = q.id
        /\ goes.named = q.named /\ goes.row = q.row /\ goes.notes = q.notes
    BY <1>1 DEF RequestType
  <1> HIDE DEF goes, q
  <1>4. Faithful(goes)
    BY <1>1, <1>3 DEF Faithful
  <1> QED
    BY <1>2, <1>4, OneRequestIsFaithful

LEMMA OpenFaithful ==
  ASSUME TypeInv, AllFaithful, NEW r \in Request, Open(r)
  PROVE  AllFaithful'
  <1> DEFINE q == request[r]
             seen == IF q.op = "create" THEN None ELSE store[q.table][q.id]
             row == IF q.op = "create" THEN q.row ELSE Merged(q, seen)
             goes == [q EXCEPT !.at = "commit", !.seen = seen, !.row = row, !.actor = None]
  <1>1. /\ q \in RequestType /\ Ready(q) /\ q.at = "open" /\ Shaped(q) /\ Faithful(q)
    BY DEF Open, TypeInv, RequestsType, RequestType, Shaped, AllFaithful
  <1>2. /\ request' = [request EXCEPT ![r] = goes] /\ UNCHANGED store
        /\ q.op # "create" => seen # None
    BY DEF Open
  <1>3. q.op # "create" => seen = store[q.table][q.id] /\ seen \in Row
    <2>1. q.op # "create" => q.id \in Id /\ q.table \in Table
      BY <1>1 DEF Ready, RequestType
    <2> QED
      BY <1>2, <2>1 DEF TypeInv, StoreType, Optional
  <1>4. q.row \in Row
    BY <1>1 DEF Ready
  <1>5. q.op = "toggle" \/ (q.op = "update" /\ q.table = "routes") =>
          \A f \in Fields \ q.named : row[f] = seen[f]
    BY <1>3, <1>4, OverlayKeeps DEF Merged
  <1>6. q.op \in {"update", "replace"} /\ q.table # "routes" => row = q.row
    BY DEF Merged
  <1> HIDE DEF row, seen, q
  <1>7. goes = [at |-> "commit", op |-> q.op, table |-> q.table, id |-> q.id,
                actor |-> None, named |-> q.named, row |-> row, seen |-> seen,
                notes |-> q.notes]
    BY <1>1, OpenedRequest
  <1> HIDE DEF goes
  <1>8. Faithful(goes)
    BY <1>1, <1>3, <1>5, <1>6, <1>7 DEF Faithful
  <1> QED
    BY <1>2, <1>8, OneRequestIsFaithful DEF TypeInv

\* A commit to the row that a request is about makes it stale.
LEMMA CommitFaithful ==
  ASSUME TypeInv, AllFaithful, NEW r \in Request, Commit(r)
  PROVE  AllFaithful'
  <1> DEFINE by == request[r]
  <1>1. PICK i \in Id :
          LET new == IF by.op = "delete" THEN None ELSE Written(by, store[by.table][i])
          IN  /\ store' = [store EXCEPT ![by.table] = [store[by.table] EXCEPT ![i] = new]]
              /\ request' = Notes(r, by.table, i, by.op \notin {"toggle", "delete"})
    BY DEF Commit
  <1>2. \A t \in Table, j \in Id : t # by.table \/ j # i => store'[t][j] = store[t][j]
    BY <1>1 DEF TypeInv, StoreType
  <1>3. request' = Notes(r, by.table, i, by.op \notin {"toggle", "delete"})
    BY <1>1
  <1> DEFINE claimed == by.op \notin {"toggle", "delete"}
             t == by.table
  <1> SUFFICES ASSUME NEW p \in Request
               PROVE  Faithful(request[p])'
    BY DEF AllFaithful
  <1> DEFINE q == request[p]
             added == (IF q.id = i THEN {"stale"} ELSE {}) \cup
                      (IF q.id = i /\ q.at = "commit" THEN {"torn"} ELSE {}) \cup
                      (IF claimed /\ Sought(q) THEN {"overtaken"} ELSE {})
             noted == [q EXCEPT !.notes = q.notes \cup added]
  <1>4. q \in RequestType /\ Ready(q) /\ Faithful(q)
    BY DEF TypeInv, RequestsType, AllFaithful
  <1>5. request'[p] = IF p = r THEN Idle
                      ELSE IF q.at = "idle" \/ q.table # t THEN q ELSE noted
    BY <1>3 DEF Notes
  <1>6. CASE request'[p] = Idle
    BY <1>6 DEF Faithful, Idle
  <1>7. CASE q.at = "idle" /\ request'[p] = q
    BY <1>7 DEF Faithful
  <1>8. CASE q.at # "idle" /\ q.table # t /\ request'[p] = q
    <2>1. q.op # "create" => store'[q.table][q.id] = store[q.table][q.id]
      BY <1>2, <1>4, <1>8 DEF Ready, RequestType
    <2> HIDE DEF q
    <2> QED
      BY <1>4, <1>8, <2>1 DEF Faithful
  <1>9. CASE q.at # "idle" /\ q.table = t /\ request'[p] = noted
    <2>1. q.op # "create" /\ q.id # i => store'[q.table][q.id] = store[q.table][q.id]
      BY <1>2, <1>4, <1>9 DEF Ready, RequestType
    <2>2. /\ noted.at = q.at /\ noted.op = q.op /\ noted.table = q.table /\ noted.id = q.id
          /\ noted.named = q.named /\ noted.row = q.row /\ noted.seen = q.seen
          /\ noted.notes = q.notes \cup added
      BY <1>4 DEF RequestType
    <2>3. /\ "stale" \in added <=> q.id = i
          /\ "torn" \in added <=> q.id = i /\ q.at = "commit"
      OBVIOUS
    <2> HIDE DEF q, noted, added
    <2> QED
      BY <1>4, <1>9, <2>1, <2>2, <2>3 DEF Faithful
  <1> QED
    BY <1>5, <1>6, <1>7, <1>8, <1>9

LEMMA StepFaithful ==
  ASSUME TypeInv, AllFaithful, [PortabilityNext]_vars
  PROVE  AllFaithful'
  <1>1. ASSUME UNCHANGED <<store, request>>
        PROVE  AllFaithful'
    BY <1>1 DEF AllFaithful, Faithful
  <1>2. CASE ExportBegins \/ ExportTable \/ ImportBegins \/ SkipRecord \/ ImportEnds
             \/ TransferFails \/ UNCHANGED vars
    <2>1. UNCHANGED <<store, request>>
      BY <1>2 DEF ExportBegins, ExportTable, ImportBegins, SkipRecord, ImportEnds,
                  TransferFails, Begins, vars, rvars
    <2> QED
      BY <2>1, <1>1
  <1>3. CASE Reinstall
    BY <1>3 DEF Reinstall, AllFaithful, Faithful, Idle
  <1>4. ASSUME NEW r \in Request, BeginCreate(r) \/ BeginEdit(r) \/ WriteRecord(r)
        PROVE  AllFaithful'
    BY <1>4, BeginFaithful
  <1>5. ASSUME NEW r \in Request, Validate(r) \/ Open(r)
        PROVE  AllFaithful'
    BY <1>5, ValidateFaithful, OpenFaithful DEF TypeInv
  <1>6. ASSUME NEW r \in Request, RequestCommits(r)
        PROVE  AllFaithful'
    BY <1>6, CommitFaithful DEF RequestCommits
  <1>7. ASSUME NEW r \in Request, RequestAborts(r)
        PROVE  AllFaithful'
    <2>1. Faithful(Idle)
      BY DEF Faithful, Idle
    <2> QED
      BY <1>7, <2>1, OneRequestIsFaithful DEF RequestAborts, Abort, TypeInv
  <1> QED
    BY <1>2, <1>3, <1>4, <1>5, <1>6, <1>7 DEF PortabilityNext

\* A request that ends with a change of the tables is the one that commits.
LEMMA CommitsIsCommit ==
  ASSUME TypeInv, [PortabilityNext]_vars, NEW r \in Request, Commits(r)
  PROVE  Commit(r)
  <1>1. request[r].at = "commit" /\ request'[r] = Idle /\ store' # store
    BY DEF Commits
  <1>2. CASE ExportBegins \/ ExportTable \/ ImportBegins \/ SkipRecord \/ ImportEnds
             \/ TransferFails \/ UNCHANGED vars
    <2>1. UNCHANGED store
      BY <1>2 DEF ExportBegins, ExportTable, ImportBegins, SkipRecord, ImportEnds,
                  TransferFails, Begins, vars, rvars
    <2> QED
      BY <2>1, <1>1
  <1>3. CASE Reinstall
    BY <1>1, <1>3 DEF Reinstall, Idle
  <1>4. ASSUME NEW p \in Request,
               BeginCreate(p) \/ BeginEdit(p) \/ WriteRecord(p) \/ Validate(p) \/ Open(p)
               \/ RequestAborts(p)
        PROVE  FALSE
    BY <1>1, <1>4 DEF BeginCreate, BeginEdit, WriteRecord, Validate, Open, RequestAborts, Abort
  <1>5. ASSUME NEW p \in Request, Commit(p), p # r
        PROVE  FALSE
    <2>1. PICK i : request' = Notes(p, request[p].table, i, request[p].op \notin {"toggle", "delete"})
      BY <1>5 DEF Commit
    <2>2. request[r] \in RequestType
      BY DEF TypeInv, RequestsType
    <2>3. request'[r].at = "commit"
      BY <1>1, <1>5, <2>1, <2>2 DEF Notes, RequestType
    <2> QED
      BY <1>1, <2>3 DEF Idle
  <1> QED
    BY <1>2, <1>3, <1>4, <1>5 DEF PortabilityNext, RequestCommits

\* The columns of the row that an edit leaves.
LEMMA WrittenKeeps ==
  ASSUME NEW q \in RequestType, Ready(q), q.at = "commit", q.op # "create",
         NEW now \in Row, NEW f \in Fields
  PROVE  LET replaced == IF q.op = "toggle" THEN {} ELSE Children(q.table)
             taken == IF q.row[f] # q.seen[f] \/ f \in replaced THEN q.row[f] ELSE now[f]
         IN  Written(q, now)[f] = IF f = "secret" /\ taken = Kept THEN q.seen.secret ELSE taken
  <1> DEFINE replaced == IF q.op = "toggle" THEN {} ELSE Children(q.table)
             changed == {g \in Fields : q.row[g] # q.seen[g]}
             row == Overlay(now, changed \cup replaced, q.row)
             taken == IF q.row[f] # q.seen[f] \/ f \in replaced THEN q.row[f] ELSE now[f]
  <1>1. row \in Row /\ row[f] = taken
    BY OverlayTyped, OverlayKeeps DEF Ready
  <1>2. Written(q, now) = [row EXCEPT !.secret = IF row.secret = Kept THEN q.seen.secret ELSE row.secret]
    BY <1>1 DEF Written, Row
  <1>3. f \in {"owner", "enabled", "claims", "lists", "secret"}
    BY DEF Fields
  <1> HIDE DEF row, taken
  <1>4. Written(q, now)[f] = IF f = "secret" /\ taken = Kept THEN q.seen.secret ELSE taken
    BY <1>1, <1>2, <1>3 DEF Row
  <1> QED
    BY <1>4 DEF taken, replaced

\* Where an edit finds its row, and where it puts it.
LEMMA EditsInPlace ==
  ASSUME TypeInv, NEW r \in Request, Commit(r), Commits(r),
         request[r].op \notin {"create", "delete"}
  PROVE  LET q == request[r]
             now == store[q.table][q.id]
         IN  /\ q \in RequestType /\ Ready(q) /\ q.at = "commit"
             /\ now \in Row /\ now.secret # Kept
             /\ store'[q.table][q.id] = Written(q, now)
  <1> DEFINE q == request[r]
             now == store[q.table][q.id]
  <1>1. q \in RequestType /\ Ready(q) /\ q.at = "commit"
    BY DEF Commit, TypeInv, RequestsType
  <1>2. q.id \in Id /\ q.table \in Table
    BY <1>1 DEF Ready, RequestType
  <1>3. PICK i \in Id :
          LET new == IF q.op = "delete" THEN None ELSE Written(q, store[q.table][i])
          IN  /\ Target(q, i)
              /\ store' = [store EXCEPT ![q.table] = [store[q.table] EXCEPT ![i] = new]]
    BY DEF Commit
  <1>4. i = q.id /\ now # None
    BY <1>3 DEF Target
  <1>5. now \in Row /\ now.secret # Kept
    BY <1>2, <1>4 DEF TypeInv, StoreType, Optional
  <1>6. store' = [store EXCEPT ![q.table] = [store[q.table] EXCEPT ![q.id] = Written(q, now)]]
    BY <1>3, <1>4
  <1> DEFINE new == Written(q, now)
  <1>7. store'[q.table][q.id] = new
    <2> HIDE DEF q, new
    <2> QED
      BY <1>2, <1>6 DEF TypeInv, StoreType, new
  <1> QED
    BY <1>1, <1>5, <1>7

LEMMA CommitKeepsTheRest ==
  ASSUME TypeInv, AllFaithful, NEW r \in Request, Commit(r), Commits(r),
         request[r].op \in {"update", "toggle"},
         \/ request[r].op = "toggle" \/ request[r].table = "routes"
         \/ "stale" \notin request[r].notes,
         NEW f \in Fields \ request[r].named
  PROVE  LET q == request[r] IN
         \/ store'[q.table][q.id][f] = store[q.table][q.id][f]
         \/ q.table = "streams" /\ q.op = "update" /\ f = "owner"
  <1> DEFINE q == request[r]
             now == store[q.table][q.id]
             replaced == IF q.op = "toggle" THEN {} ELSE Children(q.table)
             taken == IF q.row[f] # q.seen[f] \/ f \in replaced THEN q.row[f] ELSE now[f]
  <1>1. /\ q \in RequestType /\ Ready(q) /\ q.at = "commit" /\ Faithful(q)
        /\ now \in Row /\ now.secret # Kept
        /\ store'[q.table][q.id] = Written(q, now)
    BY EditsInPlace DEF AllFaithful
  <1>2. Written(q, now)[f] = IF f = "secret" /\ taken = Kept THEN q.seen.secret ELSE taken
    BY <1>1, WrittenKeeps
  <1> HIDE DEF q
  <1>3. CASE q.op = "toggle" \/ (q.op = "update" /\ q.table = "routes")
    <2>1. q.row[f] = q.seen[f]
      BY <1>1, <1>3 DEF Faithful, q
    <2>2. replaced = {}
      BY <1>3 DEF Children
    <2>3. taken = now[f]
      BY <2>1, <2>2
    <2>4. f = "secret" => now[f] # Kept
      BY <1>1
    <2> QED
      BY <1>1, <1>2, <2>3, <2>4 DEF q
  <1>4. CASE q.op = "update" /\ q.table # "routes"
    <2>1. "stale" \notin q.notes
      BY <1>4 DEF q
    <2>2. q.row[f] = Shown(q.table, now)[f] /\ q.seen = now
      BY <1>1, <1>4, <2>1 DEF Faithful, q
    <2>3. CASE f = "secret"
      <3>1. q.row[f] = IF now.secret = None THEN None ELSE Kept
        BY <1>1, <2>2, <2>3, ShownKeeps
      <3> QED
        BY <1>1, <1>2, <2>2, <2>3, <3>1 DEF q
    <2>4. CASE f # "secret" /\ (f # "owner" \/ q.table # "streams")
      <3>1. q.row[f] = now[f]
        BY <1>1, <2>2, <2>4, ShownKeeps
      <3> QED
        BY <1>1, <1>2, <2>4, <3>1 DEF q
    <2> QED
      BY <1>4, <2>3, <2>4 DEF q
  <1> QED
    BY <1>3, <1>4 DEF q

\* An edit changes what it names, whatever commits around it, and a PATCH at least when
\* no other request has changed its row since it read it (update_resource,
\* api/compat/resources.py; set_enabled; prepare_route).
THEOREM UntouchedFieldsAlwaysStay == PortabilitySpec => UntouchedFieldsStay
  <1>1. PortabilityInit => TypeInv /\ AllFaithful
    BY InitTypeInv, InitFaithful
  <1>2. TypeInv /\ AllFaithful /\ [PortabilityNext]_vars => (TypeInv /\ AllFaithful)'
    BY StepTypeInv, StepFaithful
  <1>3. TypeInv /\ AllFaithful /\ [PortabilityNext]_vars =>
          [\A r \in Request :
             LET q == request[r] IN
             Commits(r) /\ q.op \in {"update", "toggle"} /\
             (q.op = "toggle" \/ q.table = "routes" \/ "stale" \notin q.notes) =>
                \A f \in Fields \ q.named :
                   \/ store'[q.table][q.id][f] = store[q.table][q.id][f]
                   \/ q.table = "streams" /\ q.op = "update" /\ f = "owner"]_rvars
    BY CommitsIsCommit, CommitKeepsTheRest
  <1> QED
    BY <1>1, <1>2, <1>3, PTL DEF PortabilitySpec, UntouchedFieldsStay

LEMMA CommitKeepsPasswords ==
  ASSUME TypeInv, AllFaithful, NEW r \in Request, Commit(r), Commits(r),
         request[r].table = "lists", request[r].op \in {"update", "replace"},
         "secret" \notin request[r].named \/ request[r].row.secret = Kept,
         "torn" \notin request[r].notes
  PROVE  LET before == store["lists"][request[r].id].secret
             after == store'["lists"][request[r].id].secret
         IN  before = None \/ after = None \/ after = before
  <1> DEFINE q == request[r]
             now == store[q.table][q.id]
             replaced == IF q.op = "toggle" THEN {} ELSE Children(q.table)
             taken == IF q.row["secret"] # q.seen["secret"] \/ "secret" \in replaced
                      THEN q.row["secret"] ELSE now["secret"]
  <1>1. /\ q \in RequestType /\ Ready(q) /\ q.at = "commit" /\ Faithful(q)
        /\ now \in Row
        /\ store'[q.table][q.id] = Written(q, now)
    BY EditsInPlace DEF AllFaithful
  <1>2. Written(q, now)["secret"] = IF taken = Kept THEN q.seen.secret ELSE taken
    <2>1. "secret" \in Fields
      BY DEF Fields
    <2> QED
      BY <1>1, <2>1, WrittenKeeps
  <1>3. q.row.secret \in {None, Kept} /\ q.seen = now
    BY <1>1 DEF Faithful
  <1>4. "secret" \in replaced
    BY DEF Children
  <1> QED
    BY <1>1, <1>2, <1>3, <1>4

\* A user of an access list for whom a request sends no password keeps the hash that the
\* writing transaction reads, or is dropped (_replace_children, tables/access.py).
THEOREM PasswordsAlwaysSurvive == PortabilitySpec => PasswordsSurvive
  <1>1. PortabilityInit => TypeInv /\ AllFaithful
    BY InitTypeInv, InitFaithful
  <1>2. TypeInv /\ AllFaithful /\ [PortabilityNext]_vars => (TypeInv /\ AllFaithful)'
    BY StepTypeInv, StepFaithful
  <1>3. TypeInv /\ AllFaithful /\ [PortabilityNext]_vars =>
          [\A r \in Request :
             LET q == request[r]
                 before == store["lists"][q.id].secret
                 after == store'["lists"][q.id].secret
             IN
             Commits(r) /\ q.table = "lists" /\ q.op \in {"update", "replace"} /\
             ("secret" \notin q.named \/ q.row.secret = Kept) /\ "torn" \notin q.notes =>
                before = None \/ after = None \/ after = before]_rvars
    BY CommitsIsCommit, CommitKeepsPasswords
  <1> QED
    BY <1>1, <1>2, <1>3, PTL DEF PortabilitySpec, PasswordsSurvive

-----------------------------------------------------------------------------
(* Imports restore what they import *)

\* No two records are about the same row.
Distinct(records) ==
    \A m, n \in 1..Len(records) :
        records[m].table = records[n].table /\ records[m].id = records[n].id => m = n

\* The records of an export.
Bundled(records) ==
    /\ Distinct(records)
    /\ \A n \in 1..Len(records) : /\ records[n].table \in {"lists", "hosts", "streams"}
                                  /\ records[n].row.secret \in {None, Kept}

\* The access lists that a record names are among the records.
Closed(records) ==
    \A n \in 1..Len(records) : \A l \in records[n].row.lists :
        \E m \in 1..Len(records) : records[m].table = "lists" /\ records[m].id = l

\* The records of a preflight.
Dumped(records) ==
    /\ Distinct(records) /\ Closed(records)
    /\ \A n \in 1..Len(records) : /\ records[n].table \in {"lists", "hosts"}
                                  /\ records[n].row.secret # Kept

\* What ImportRestores promises of one record, when the tables hold these rows.
Imported(rows, kind, replace, record) ==
    LET now == rows[record.table][record.id] IN
    IF kind = "bundle" THEN record.table # "streams" => Same(record, now)
    ELSE /\ now # None
         /\ replace => now.claims = record.row.claims
                       /\ now.enabled = record.row.enabled
                       /\ now.secret = record.row.secret

ExportInv ==
    transfer.kind = "export" =>
        /\ transfer.tables \in {<<"lists", "hosts", "streams">>, <<"hosts", "streams">>,
                                <<"streams">>}
        /\ Bundled(transfer.records)
        /\ \A m \in 1..Len(transfer.tables), n \in 1..Len(transfer.records) :
             transfer.tables[m] # transfer.records[n].table

Done(records, todo) == Len(records) - Len(todo)

\* todo is what remains of the records; everything before it is in place, as long as
\* nobody else has committed.
ImportInv ==
    transfer.kind \in {"bundle", "npm"} =>
        LET done == Done(transfer.records, transfer.todo) IN
        /\ IF transfer.kind = "bundle" THEN Bundled(transfer.records)
           ELSE Dumped(transfer.records)
        /\ done >= 0
        /\ \A j \in 1..Len(transfer.todo) : transfer.todo[j] = transfer.records[done + j]
        /\ transfer.commit /\ transfer.clean =>
             \A n \in 1..done :
                 Imported(store, transfer.kind, transfer.replace, transfer.records[n])

\* The row of request q is that of the record, but for an owner that the record lacks, or
\* the references that the NPM import takes over from the row that it replaces.
Carries(q, record) ==
    /\ q.table = record.table
    /\ q.op \in {"create", "update"}
    /\ record.table # "streams" \/ q.op = "update" => q.id = record.id
    /\ q.row.enabled = record.row.enabled /\ q.row.claims = record.row.claims
    /\ q.row.secret = record.row.secret
    /\ transfer.kind = "bundle" => /\ q.row.lists = record.row.lists
                                   /\ record.row.owner \in {None, q.row.owner}

\* The request of the importer writes the next record.
WriterInv ==
    transfer.by # None =>
        LET q == request[transfer.by] IN
        /\ transfer.kind \in {"bundle", "npm"} /\ q.at # "idle"
        /\ Carries(q, transfer.todo[1])
        /\ transfer.clean => q.notes = {}
        /\ q.at = "commit" /\ q.row.secret = Kept => q.seen.secret # None

TransferInv ==
    /\ bundle # None => Bundled(bundle)
    /\ ExportInv /\ ImportInv /\ WriterInv
    /\ transfer.kind \in {"bundle", "npm"} => restored = None
    /\ restored # None =>
         /\ restored.kind # "bundle" => Closed(restored.records)
         /\ \A n \in 1..restored.done :
              Imported(store, restored.kind, restored.replace, restored.records[n])

LEMMA AscendingIsInjective ==
  ASSUME NEW N \in SUBSET Nat, IsFiniteSet(N), NEW f \in Ascending(N)
  PROVE  /\ f \in [1..Cardinality(N) -> N]
         /\ \A m, n \in 1..Cardinality(N) : f[m] = f[n] => m = n
  <1>1. Cardinality(N) \in Nat
    BY FS_CardinalityType
  <1>2. \A m, n \in 1..Cardinality(N) : m < n => f[m] < f[n]
    BY DEF Ascending
  <1>3. f \in [1..Cardinality(N) -> N]
    BY DEF Ascending
  <1>4. \A n \in 1..Cardinality(N) : f[n] \in Nat
    BY <1>3
  <1> QED
    BY <1>1, <1>2, <1>3, <1>4

\* An ascending sequence of the right length leaves no number out.
LEMMA AscendingIsOnto ==
  ASSUME NEW N \in SUBSET Nat, IsFiniteSet(N), NEW f \in Ascending(N), NEW x \in N
  PROVE  \E n \in 1..Cardinality(N) : f[n] = x
  <1> DEFINE D == 1..Cardinality(N)
  <1>1. IsFiniteSet(D) /\ Cardinality(D) = Cardinality(N) /\ Cardinality(N) \in Nat
    <2>1. Cardinality(N) \in Nat
      BY FS_CardinalityType
    <2> QED
      BY <2>1, FS_Interval
  <1>2. f \in [D -> N] /\ \A m, n \in D : f[m] = f[n] => m = n
    BY AscendingIsInjective
  <1> HIDE DEF D
  <1> DEFINE T == {f[n] : n \in D}
  <1>3. f \in Bijection(D, T)
    BY <1>2 DEF Bijection, Injection, Surjection, IsInjective
  <1>4. Cardinality(T) = Cardinality(D)
    BY <1>1, <1>3, FS_Bijection DEF ExistsBijection
  <1>5. T \in SUBSET N
    BY <1>2
  <1> HIDE DEF T
  <1>6. T = N
    BY <1>1, <1>4, <1>5, FS_Subset
  <1> QED
    BY <1>6 DEF T, D

LEMMA ResourcesAreDistinct ==
  ASSUME StoreType, NEW t \in Table, NEW found \in Resources(t)
  PROVE  /\ found \in Seq(Record) /\ Distinct(found)
         /\ \A n \in 1..Len(found) : found[n].table = t /\ found[n].row.secret \in {None, Kept}
  <1> DEFINE N == {i \in Id : store[t][i] # None}
  <1>1. PICK ids \in Ascending(N) :
          found = [n \in DOMAIN ids |-> [table |-> t, id |-> ids[n], row |-> Shown(t, store[t][ids[n]])]]
    BY DEF Resources
  <1>2. N \in SUBSET Nat /\ IsFiniteSet(N) /\ Cardinality(N) \in Nat
    <2>1. IsFiniteSet(Id) /\ Id \in SUBSET Nat
      BY RoutingAssumption, FS_Interval DEF Id
    <2>2. N \in SUBSET Id
      OBVIOUS
    <2> HIDE DEF N
    <2>3. IsFiniteSet(N)
      BY <2>1, <2>2, FS_Subset
    <2> QED
      BY <2>1, <2>2, <2>3, FS_CardinalityType
  <1>3. /\ ids \in [1..Cardinality(N) -> N]
        /\ \A m, n \in 1..Cardinality(N) : ids[m] = ids[n] => m = n
    BY <1>2, AscendingIsInjective
  <1>4. \A i \in N : Shown(t, store[t][i]).secret \in {None, Kept}
    BY ShownKeeps DEF StoreType, Optional, Fields
  <1>5. found \in Seq(Record)
    BY ResourcesTyped
  <1> HIDE DEF N
  <1>6. Len(found) = Cardinality(N) /\ DOMAIN ids = 1..Cardinality(N)
    BY <1>1, <1>2, <1>3
  <1> QED
    BY <1>1, <1>3, <1>4, <1>5, <1>6 DEF Distinct

LEMMA PreflightIsDumped ==
  ASSUME NEW records \in Preflighted
  PROVE  Dumped(records)
  <1>1. PICK dump \in Dumps : records \in Preflight(dump)
    BY DEF Preflighted
  <1> DEFINE N == {n \in 1..Len(dump) : Accepted(dump, n) /\ Resolves(dump, n)}
             D == [table : {"hosts", "lists"}, id : Optional(Id), deleted : BOOLEAN, row : Row]
  <1>2. PICK kept \in Ascending(N) :
          records = [n \in DOMAIN kept |-> [table |-> dump[kept[n]].table,
                                            id |-> dump[kept[n]].id, row |-> dump[kept[n]].row]]
    BY <1>1 DEF Preflight
  <1>3. /\ dump \in Seq(D)
        /\ \A n \in 1..Len(dump) : /\ dump[n].row.secret # Kept
                                   /\ dump[n].table = "lists" => dump[n].row.lists = {}
    BY PortabilityAssumption
  <1>4. \A n \in 1..Len(dump) : dump[n].table \in {"hosts", "lists"}
    <2> HIDE DEF D
    <2>1. \A n \in 1..Len(dump) : dump[n] \in D
      BY <1>3
    <2> QED
      BY <2>1 DEF D
  <1>5. N \in SUBSET Nat /\ IsFiniteSet(N) /\ Cardinality(N) \in Nat
    <2>1. IsFiniteSet(1..Len(dump)) /\ N \in SUBSET (1..Len(dump)) /\ Len(dump) \in Nat
      BY <1>3, FS_Interval
    <2> HIDE DEF N
    <2>2. IsFiniteSet(N)
      BY <2>1, FS_Subset
    <2> QED
      BY <2>1, <2>2, FS_CardinalityType
  <1>6. /\ kept \in [1..Cardinality(N) -> N]
        /\ \A m, n \in 1..Cardinality(N) : kept[m] = kept[n] => m = n
    BY <1>5, AscendingIsInjective
  <1>7. \A x \in N : \E n \in 1..Cardinality(N) : kept[n] = x
    BY <1>5, AscendingIsOnto
  <1>8. \A x \in N : x \in 1..Len(dump) /\ Accepted(dump, x) /\ Resolves(dump, x)
    OBVIOUS
  <1> HIDE DEF N
  <1>9. /\ Len(records) = Cardinality(N)
        /\ \A n \in 1..Cardinality(N) :
             records[n] = [table |-> dump[kept[n]].table, id |-> dump[kept[n]].id,
                           row |-> dump[kept[n]].row]
    <2>1. DOMAIN kept = 1..Cardinality(N)
      BY <1>6
    <2>2. records = [n \in 1..Cardinality(N) |-> [table |-> dump[kept[n]].table,
                                            id |-> dump[kept[n]].id, row |-> dump[kept[n]].row]]
      BY <1>2, <2>1
    <2> QED
      BY <1>5, <2>2
  <1>10. Distinct(records)
    \* Of two rows with the same id only the first one is accepted.
    <2>1. \A x, y \in N : dump[x].table = dump[y].table /\ dump[x].id = dump[y].id => ~(x < y)
      <3> SUFFICES ASSUME NEW x \in N, NEW y \in N, x < y,
                          dump[x].table = dump[y].table, dump[x].id = dump[y].id
                   PROVE  FALSE
        OBVIOUS
      <3>1. x \in 1..(y - 1)
        BY <1>5, <1>8
      <3>2. dump[x].deleted
        BY <1>8, <3>1 DEF Accepted
      <3> QED
        BY <1>8, <3>2 DEF Accepted
    <2>2. \A x, y \in N : dump[x].table = dump[y].table /\ dump[x].id = dump[y].id => x = y
      BY <1>5, <2>1
    <2>3. \A n \in 1..Cardinality(N) : kept[n] \in N
      BY <1>6
    <2> QED
      BY <1>6, <1>9, <2>2, <2>3 DEF Distinct
  <1>11. Closed(records)
    <2> SUFFICES ASSUME NEW n \in 1..Len(records), NEW l \in records[n].row.lists
                 PROVE  \E m \in 1..Len(records) : records[m].table = "lists" /\ records[m].id = l
      BY DEF Closed
    <2>1. /\ kept[n] \in N /\ n \in 1..Cardinality(N) /\ l \in dump[kept[n]].row.lists
      BY <1>6, <1>9
    <2>2. dump[kept[n]].table = "hosts"
      BY <1>3, <1>4, <1>8, <2>1
    <2>3. PICK x \in 1..Len(dump) : Accepted(dump, x) /\ dump[x].table = "lists" /\ dump[x].id = l
      BY <1>8, <2>1, <2>2 DEF Resolves
    <2>4. x \in N
      BY <2>3 DEF N, Resolves
    <2>5. PICK m \in 1..Cardinality(N) : kept[m] = x
      BY <1>7, <2>4
    <2> QED
      BY <1>9, <2>3, <2>5
  <1>12. \A n \in 1..Len(records) : /\ records[n].table \in {"lists", "hosts"}
                                    /\ records[n].row.secret # Kept
    BY <1>3, <1>4, <1>6, <1>8, <1>9
  <1> QED
    BY <1>10, <1>11, <1>12 DEF Dumped

\* The tables, the bundle and what was restored stay as they are.
LEMMA TransferGoesOn ==
  ASSUME TransferInv, UNCHANGED <<store, bundle, restored>>,
         ExportInv', ImportInv', WriterInv',
         transfer'.kind \in {"bundle", "npm"} => restored = None
  PROVE  TransferInv'
  BY DEF TransferInv

LEMMA TransferStands ==
  ASSUME TransferInv, UNCHANGED <<store, transfer, bundle, restored>>, WriterInv'
  PROVE  TransferInv'
  <1>1. ExportInv'
    BY DEF TransferInv, ExportInv
  <1>2. ImportInv'
    BY DEF TransferInv, ImportInv
  <1> QED
    BY <1>1, <1>2, TransferGoesOn DEF TransferInv

\* A transfer ends or is stopped: what an import has done is what it went through.
LEMMA TransferStops ==
  ASSUME TransferInv, UNCHANGED <<store, bundle>>, transfer' = Still, restored' = Accomplished
  PROVE  TransferInv'
  <1>1. ExportInv' /\ ImportInv' /\ WriterInv' /\ transfer'.kind = "none"
    BY DEF ExportInv, ImportInv, WriterInv, Still
  <1>2. CASE transfer.kind \in {"bundle", "npm"} /\ transfer.commit /\ transfer.clean
    <2>1. restored' = [kind |-> transfer.kind, replace |-> transfer.replace,
                       records |-> transfer.records,
                       done |-> Done(transfer.records, transfer.todo)]
      BY <1>2 DEF Accomplished, Done
    <2>2. /\ transfer.kind # "bundle" => Closed(transfer.records)
          /\ \A n \in 1..Done(transfer.records, transfer.todo) :
               Imported(store, transfer.kind, transfer.replace, transfer.records[n])
      BY <1>2 DEF TransferInv, ImportInv, Dumped
    <2> QED
      BY <1>1, <2>1, <2>2 DEF TransferInv
  <1>3. CASE ~(transfer.kind \in {"bundle", "npm"} /\ transfer.commit /\ transfer.clean)
    BY <1>1, <1>3 DEF TransferInv, Accomplished
  <1> QED
    BY <1>2, <1>3

LEMMA WriterIsARequest ==
  ASSUME TypeInv, transfer.by # None
  PROVE  /\ transfer.by \in Request /\ request[transfer.by] \in RequestType
         /\ Ready(request[transfer.by])
         /\ transfer.todo \in Seq(Record) /\ transfer.todo # <<>>
         /\ Len(transfer.todo) \in Nat \ {0} /\ transfer.todo[1] \in Record
         /\ Head(transfer.todo) = transfer.todo[1]
  <1>1. transfer.by \in Request /\ transfer.todo \in Seq(Record) /\ transfer.todo # <<>>
    BY DEF TypeInv, TransferType, Transfers, Optional
  <1>2. Len(transfer.todo) \in Nat /\ Len(transfer.todo) # 0
    BY <1>1, EmptySeq
  <1> QED
    BY <1>1, <1>2 DEF TypeInv, RequestsType

\* The record that is next.
LEMMA NextRecord ==
  ASSUME TypeInv, ImportInv, transfer.kind \in {"bundle", "npm"}, transfer.todo # <<>>
  PROVE  LET record == transfer.todo[1]
             done == Done(transfer.records, transfer.todo)
         IN  /\ done \in Nat /\ done + 1 \in 1..Len(transfer.records)
             /\ transfer.records[done + 1] = record /\ record \in Record
             /\ Head(transfer.todo) = record
             /\ record.table \in {"lists", "hosts", "streams"}
             /\ transfer.kind = "bundle" => record.row.secret \in {None, Kept}
             /\ transfer.kind = "npm" => record.row.secret # Kept /\ record.table # "streams"
  <1> DEFINE todo == transfer.todo
             records == transfer.records
             done == Done(records, todo)
  <1>1. todo \in Seq(Record) /\ todo # <<>> /\ records \in Seq(Record)
    BY DEF TypeInv, TransferType, Transfers
  <1>2. Len(todo) \in Nat /\ Len(todo) # 0 /\ Len(records) \in Nat
    BY <1>1, EmptySeq
  <1>3. done >= 0 /\ \A j \in 1..Len(todo) : todo[j] = records[done + j]
    BY DEF ImportInv
  <1>4. done \in Nat /\ done + 1 \in 1..Len(records) /\ 1 \in 1..Len(todo)
    <2>1. done = Len(records) - Len(todo)
      BY DEF Done
    <2> HIDE DEF done, records, todo
    <2> QED
      BY <1>2, <1>3, <2>1
  <1>5. records[done + 1] = todo[1] /\ todo[1] \in Record /\ Head(todo) = todo[1]
    BY <1>1, <1>3, <1>4
  <1>6. \/ transfer.kind = "bundle" /\ Bundled(records)
        \/ transfer.kind = "npm" /\ Dumped(records)
    BY DEF ImportInv
  <1>7. \/ transfer.kind = "bundle" /\ records[done + 1].table \in {"lists", "hosts", "streams"}
             /\ records[done + 1].row.secret \in {None, Kept}
        \/ transfer.kind = "npm" /\ records[done + 1].table \in {"lists", "hosts"}
             /\ records[done + 1].row.secret # Kept
    <2> HIDE DEF done, records
    <2> QED
      BY <1>4, <1>6 DEF Bundled, Dumped
  <1> QED
    BY <1>4, <1>5, <1>7

LEMMA RequestsGoOn ==
  ASSUME TypeInv, TransferInv, NEW r \in Request, UNCHANGED pvars,
         BeginCreate(r) \/ BeginEdit(r) \/ Validate(r) \/ Open(r)
  PROVE  TransferInv'
  <1>0. UNCHANGED <<store, transfer, bundle, restored>>
    BY DEF pvars, BeginCreate, BeginEdit, Validate, Open
  <1>1. WriterInv'
    <2> SUFFICES ASSUME transfer.by # None
                 PROVE  WriterInv'
      BY <1>0 DEF WriterInv
    <2> DEFINE w == transfer.by
               q == request[w]
               record == transfer.todo[1]
    <2>1. /\ w \in Request /\ q \in RequestType /\ Ready(q)
          /\ transfer.kind \in {"bundle", "npm"} /\ q.at # "idle" /\ Carries(q, record)
          /\ transfer.clean => q.notes = {}
          /\ q.at = "commit" /\ q.row.secret = Kept => q.seen.secret # None
      BY WriterIsARequest DEF TransferInv, WriterInv
    <2>2. CASE request'[w] = q
      BY <1>0, <2>1, <2>2 DEF WriterInv, Carries
    <2>3. CASE r # w
      <3>1. request'[w] = q
        BY <2>1, <2>3 DEF BeginCreate, BeginEdit, Validate, Open, TypeInv, RequestsType
      <3> QED
        BY <2>2, <3>1
    <2>4. CASE r = w
      <3>1. Validate(w) \/ Open(w)
        BY <2>1, <2>4 DEF BeginCreate, BeginEdit, Idle
      <3>2. CASE Validate(w)
        <4>1. request'[w] = [q EXCEPT !.at = "open"]
          BY <2>1, <3>2 DEF Validate, TypeInv, RequestsType, RequestType
        <4> HIDE DEF q, record
        <4>2. /\ request'[w].at = "open" /\ request'[w].op = q.op
              /\ request'[w].table = q.table /\ request'[w].id = q.id
              /\ request'[w].row = q.row /\ request'[w].notes = q.notes
          BY <2>1, <4>1 DEF RequestType
        <4>3. Carries(request[w], transfer.todo[1])'
          BY <1>0, <2>1, <4>2 DEF Carries, record
        <4> QED
          BY <1>0, <2>1, <4>2, <4>3 DEF WriterInv
      <3>3. CASE Open(w)
        <4> DEFINE seen == IF q.op = "create" THEN None ELSE store[q.table][q.id]
                   row == IF q.op = "create" THEN q.row ELSE Merged(q, seen)
                   goes == [q EXCEPT !.at = "commit", !.seen = seen, !.row = row, !.actor = None]
        <4>1. /\ request'[w] = goes
              /\ q.row.secret = Kept => seen # None /\ seen.secret # None
          BY <2>1, <3>3 DEF Open, TypeInv, RequestsType
        <4>2. q.table # "routes"
          <5>1. record.table # "routes"
            BY <2>1, WriterIsARequest, NextRecord DEF TransferInv
          <5> QED
            BY <2>1, <5>1 DEF Carries
        <4>3. row = q.row
          BY <2>1, <4>2 DEF Merged, Carries
        <4>4. Shaped(q)
          BY <2>1 DEF RequestType, Shaped
        <4> HIDE DEF q, record, seen, row
        <4>5. goes = [at |-> "commit", op |-> q.op, table |-> q.table, id |-> q.id,
                      actor |-> None, named |-> q.named, row |-> row, seen |-> seen,
                      notes |-> q.notes]
          BY <4>4, OpenedRequest
        <4> HIDE DEF goes
        <4>6. /\ request'[w].at = "commit" /\ request'[w].op = q.op
              /\ request'[w].table = q.table /\ request'[w].id = q.id
              /\ request'[w].row = q.row /\ request'[w].seen = seen
              /\ request'[w].notes = q.notes
          BY <4>1, <4>3, <4>5
        <4>7. Carries(request[w], transfer.todo[1])'
          BY <1>0, <2>1, <4>6 DEF Carries, record
        <4> QED
          BY <1>0, <2>1, <4>1, <4>6, <4>7 DEF WriterInv
      <3> QED
        BY <3>1, <3>2, <3>3
    <2> QED
      BY <2>3, <2>4
  <1> QED
    BY <1>0, <1>1, TransferStands

\* What the importer asks to be written.
LEMMA RecordWritten ==
  ASSUME TypeInv, TransferInv, NEW r \in Request, WriteRecord(r)
  PROVE  TransferInv'
  <1> DEFINE record == transfer.todo[1]
             existing == store[record.table][record.id]
             q == IF existing = None THEN Creation(record) ELSE Replacement(record, existing)
             goes == [transfer EXCEPT !.by = r]
  <1>1. /\ transfer.kind \in {"bundle", "npm"} /\ transfer.todo # <<>> /\ UNCHANGED <<store, bundle, restored>>
        /\ transfer' = goes
    BY DEF WriteRecord, Importing
  <1>2. /\ Head(transfer.todo) = record /\ record \in Record
    BY <1>1, NextRecord DEF TransferInv
  <1>3. request' = [request EXCEPT ![r] = q]
    BY <1>2 DEF WriteRecord
  <1>4. /\ transfer'.kind = transfer.kind /\ transfer'.todo = transfer.todo
        /\ transfer'.records = transfer.records /\ transfer'.by = r
        /\ transfer'.commit = transfer.commit /\ transfer'.replace = transfer.replace
        /\ transfer'.clean = transfer.clean /\ transfer'.tables = transfer.tables
    BY <1>1 DEF TypeInv, TransferType, Transfers
  <1>5. record.row \in Row
    BY <1>2 DEF Record
  <1> HIDE DEF record, existing
  <1>6. /\ q.at # "idle" /\ q.at # "commit" /\ q.notes = {} /\ Carries(q, record)
    <2>1. CASE existing = None
      <3> DEFINE importer == IF transfer.kind = "bundle" THEN Admin ELSE None
                 row == Assigned(record.table, importer, record.row)
      <3>1. q = Starts("create", record.table,
                       IF record.table = "streams" THEN None ELSE record.id, importer, Fields, row)
        BY <2>1 DEF Creation
      <3>2. /\ row.enabled = record.row.enabled
            /\ row.claims = record.row.claims /\ row.lists = record.row.lists
            /\ row.secret = record.row.secret /\ record.row.owner \in {None, row.owner}
        <4>1. importer \in Optional(User)
          BY RoutingAssumption DEF Optional
        <4> QED
          BY <1>5, <4>1, AssignedTyped
      <3> HIDE DEF row, q
      <3> QED
        BY <3>1, <3>2 DEF Carries, Starts
    <2>2. CASE existing # None /\ transfer.kind = "bundle"
      BY <2>2 DEF Replacement, Carries, Starts
    <2>3. CASE existing # None /\ transfer.kind # "bundle"
      <3> DEFINE row == [record.row EXCEPT !.owner = existing.owner, !.lists = existing.lists]
      <3>1. q = Starts("update", record.table, record.id, None, Fields, row)
        BY <2>3 DEF Replacement
      <3>2. /\ row.enabled = record.row.enabled /\ row.claims = record.row.claims
            /\ row.secret = record.row.secret
        BY <1>5 DEF Row
      <3> HIDE DEF row, q
      <3> QED
        BY <2>3, <3>1, <3>2 DEF Carries, Starts
    <2> QED
      BY <2>1, <2>2, <2>3
  <1>7. request'[r] = q
    BY <1>3 DEF TypeInv, RequestsType
  <1> HIDE DEF q, goes
  <1>8. WriterInv'
    <2>1. Carries(request[transfer.by], transfer.todo[1])'
      BY <1>4, <1>6, <1>7 DEF Carries, record
    <2> QED
      BY <1>1, <1>4, <1>6, <1>7, <2>1 DEF WriterInv
  <1>9. ExportInv'
    BY <1>1, <1>4 DEF ExportInv
  <1>10. ImportInv'
    BY <1>1, <1>4 DEF TransferInv, ImportInv
  <1> QED
    BY <1>1, <1>4, <1>8, <1>9, <1>10, TransferGoesOn DEF TransferInv

\* What a commit makes of the row that a request carries.
LEMMA CarriedIsWritten ==
  ASSUME NEW q \in RequestType, Ready(q), q.at = "commit", q.op \in {"create", "update"},
         NEW now, q.op = "update" => now \in Row /\ now.secret # Kept /\ q.seen = now
  PROVE  LET new == Written(q, now) IN
         /\ new \in Row /\ new.secret # Kept
         /\ new.owner = q.row.owner /\ new.enabled = q.row.enabled
         /\ new.claims = q.row.claims /\ new.lists = q.row.lists
         /\ q.row.secret = Kept => q.op = "update" /\ new.secret = q.seen.secret
         /\ q.row.secret # Kept => new.secret = q.row.secret
  <1> DEFINE new == Written(q, now)
  <1>1. new \in Row /\ new.secret # Kept
    BY WrittenTyped
  <1>2. CASE q.op = "create"
    BY <1>1, <1>2 DEF Written, Ready
  <1>3. CASE q.op = "update"
    <2>1. \A f \in Fields : new[f] = IF f = "secret" /\ q.row[f] = Kept THEN q.seen.secret ELSE q.row[f]
      <3> SUFFICES ASSUME NEW f \in Fields
                   PROVE  new[f] = IF f = "secret" /\ q.row[f] = Kept THEN q.seen.secret ELSE q.row[f]
        OBVIOUS
      <3> DEFINE replaced == IF q.op = "toggle" THEN {} ELSE Children(q.table)
                 taken == IF q.row[f] # q.seen[f] \/ f \in replaced THEN q.row[f] ELSE now[f]
      <3>1. new[f] = IF f = "secret" /\ taken = Kept THEN q.seen.secret ELSE taken
        BY <1>3, WrittenKeeps
      <3>2. taken = q.row[f]
        BY <1>3
      <3> HIDE DEF taken, new
      <3> QED
        BY <3>1, <3>2
    <2> HIDE DEF new
    <2>2. /\ new["owner"] = q.row["owner"] /\ new["enabled"] = q.row["enabled"]
          /\ new["claims"] = q.row["claims"] /\ new["lists"] = q.row["lists"]
          /\ new["secret"] = IF q.row["secret"] = Kept THEN q.seen.secret ELSE q.row["secret"]
      BY <2>1 DEF Fields
    <2>3. /\ new.owner = q.row.owner /\ new.enabled = q.row.enabled
          /\ new.claims = q.row.claims /\ new.lists = q.row.lists
      BY <2>2
    <2>4. q.row.secret = Kept => new.secret = q.seen.secret
      BY <2>2
    <2>5. q.row.secret # Kept => new.secret = q.row.secret
      BY <2>2
    <2> QED
      BY <1>1, <1>3, <2>3, <2>4, <2>5 DEF new
  <1> QED
    BY <1>2, <1>3

LEMMA SameAgain ==
  ASSUME NEW record \in Record, record.table # "streams", NEW new \in Row, new # None,
         new.enabled = record.row.enabled, new.claims = record.row.claims,
         new.lists = record.row.lists, record.row.owner \in {None, new.owner},
         record.row.secret = IF new.secret = None THEN None ELSE Kept
  PROVE  Same(record, new)
  <1> DEFINE shown == Shown(record.table, new)
  <1>1. shown = [owner |-> new.owner, enabled |-> new.enabled, claims |-> new.claims,
                 lists |-> new.lists, secret |-> IF new.secret = None THEN None ELSE Kept]
    BY ShownRow
  <1>2. record.row \in Row
    BY DEF Record
  <1> DEFINE row == record.row
  <1>3. row = [owner |-> row.owner, enabled |-> row.enabled, claims |-> row.claims,
               lists |-> row.lists, secret |-> row.secret]
    BY <1>2 DEF Row
  <1> HIDE DEF shown, row
  <1>4. shown = [owner |-> new.owner, enabled |-> row.enabled, claims |-> row.claims,
                 lists |-> row.lists, secret |-> row.secret]
    BY <1>1 DEF row
  <1>5. CASE row.owner = new.owner
    BY <1>3, <1>4, <1>5 DEF Same, shown, row
  <1>6. CASE row.owner = None
    <2>1. [shown EXCEPT !.owner = None]
            = [owner |-> None, enabled |-> row.enabled, claims |-> row.claims,
               lists |-> row.lists, secret |-> row.secret]
      BY <1>4
    <2>2. [shown EXCEPT !.owner = None] = row
      BY <1>3, <1>6, <2>1
    <2> QED
      BY <1>6, <2>2 DEF Same, shown, row
  <1> QED
    BY <1>5, <1>6 DEF row

\* The importer's request puts the next record in its place, and touches no other.
LEMMA RecordCommitted ==
  ASSUME TypeInv, AllFaithful, TransferInv, transfer.by # None, transfer.clean,
         Commit(transfer.by)
  PROVE  LET record == transfer.todo[1] IN
         /\ record.table # "streams" => Imported(store', transfer.kind, transfer.replace, record)
         /\ \A t \in Table, j \in Id :
              t # record.table \/ (t # "streams" /\ j # record.id) => store'[t][j] = store[t][j]
  <1> DEFINE w == transfer.by
             q == request[w]
             record == transfer.todo[1]
             bundled == transfer.kind = "bundle"
  <1>1. /\ w \in Request /\ q \in RequestType /\ Ready(q) /\ q.at = "commit"
        /\ transfer.kind \in {"bundle", "npm"} /\ Carries(q, record) /\ q.notes = {}
        /\ q.row.secret = Kept => q.seen.secret # None
    BY WriterIsARequest DEF TransferInv, WriterInv, Commit
  <1>2. /\ record \in Record
        /\ bundled => record.row.secret \in {None, Kept}
        /\ transfer.kind = "npm" => record.row.secret # Kept
    BY <1>1, WriterIsARequest, NextRecord DEF TransferInv
  <1>3. PICK i \in Id :
          LET new == IF q.op = "delete" THEN None ELSE Written(q, store[q.table][i])
          IN  /\ Target(q, i)
              /\ store' = [store EXCEPT ![q.table] = [store[q.table] EXCEPT ![i] = new]]
    BY DEF Commit
  <1> DEFINE now == store[record.table][i]
             new == Written(q, now)
  <1>4. q.op \in {"create", "update"} /\ q.table = record.table /\ record.table \in Table
    BY <1>1, <1>2 DEF Carries, Record
  <1>5. record.table # "streams" => i = record.id
    <2>1. record.id \in Id /\ None \notin Id
      BY <1>2, RoutingAssumption DEF Record
    <2> QED
      BY <1>1, <1>3, <2>1 DEF Target, Carries
  <1>6. store' = [store EXCEPT ![record.table] = [store[record.table] EXCEPT ![i] = new]]
    BY <1>3, <1>4
  <1>7. q.op = "update" => now \in Row /\ now.secret # Kept /\ q.seen = now
    <2> SUFFICES ASSUME q.op = "update"
                 PROVE  now \in Row /\ now.secret # Kept /\ q.seen = now
      OBVIOUS
    <2>1. now # None /\ i = q.id
      BY <1>3, <1>4 DEF Target
    <2>2. q.seen = store[q.table][q.id]
      BY <1>1 DEF AllFaithful, Faithful
    <2> QED
      BY <1>4, <2>1, <2>2 DEF TypeInv, StoreType, Optional
  <1>8. /\ new \in Row /\ new.secret # Kept
        /\ new.owner = q.row.owner /\ new.enabled = q.row.enabled
        /\ new.claims = q.row.claims /\ new.lists = q.row.lists
        /\ q.row.secret = Kept => new.secret = q.seen.secret
        /\ q.row.secret # Kept => new.secret = q.row.secret
    BY <1>1, <1>4, <1>7, CarriedIsWritten
  <1> HIDE DEF new, now, q
  <1>9. \A t \in Table, j \in Id :
          store'[t][j] = IF t = record.table /\ j = i THEN new ELSE store[t][j]
    BY <1>4, <1>6 DEF TypeInv, StoreType
  <1>10. record.table # "streams" => Imported(store', transfer.kind, transfer.replace, record)
    <2> SUFFICES ASSUME record.table # "streams"
                 PROVE  Imported(store', transfer.kind, transfer.replace, record)
      OBVIOUS
    <2>1. store'[record.table][record.id] = new /\ new # None
      BY <1>2, <1>4, <1>5, <1>8, <1>9, RoutingAssumption DEF Record
    <2>2. /\ new.enabled = record.row.enabled /\ new.claims = record.row.claims
          /\ record.row.secret # Kept => new.secret = record.row.secret
      BY <1>1, <1>8 DEF Carries
    <2>3. CASE transfer.kind = "npm"
      BY <1>2, <2>1, <2>2, <2>3 DEF Imported
    <2>4. CASE bundled
      <3>1. record.row.secret = IF new.secret = None THEN None ELSE Kept
        <4>1. record.row.secret = q.row.secret
          BY <1>1 DEF Carries
        <4> QED
          BY <1>1, <1>2, <1>8, <2>4, <4>1, RoutingAssumption
      <3>2. new.lists = record.row.lists /\ record.row.owner \in {None, new.owner}
        BY <1>1, <1>8, <2>4 DEF Carries
      <3>3. Same(record, new)
        BY <1>2, <1>8, <2>1, <2>2, <3>1, <3>2, SameAgain
      <3> QED
        BY <2>1, <2>4, <3>3 DEF Imported
    <2> QED
      BY <1>1, <2>3, <2>4
  <1> QED
    BY <1>5, <1>9, <1>10
\* The next record is done with, and what follows it remains.
LEMMA OneMoreDone ==
  ASSUME TypeInv, ImportInv, transfer.kind \in {"bundle", "npm"}, transfer.todo # <<>>,
         transfer'.kind = transfer.kind, transfer'.commit = transfer.commit,
         transfer'.replace = transfer.replace, transfer'.records = transfer.records,
         transfer'.clean = transfer.clean, transfer'.todo = Tail(transfer.todo),
         transfer.commit /\ transfer.clean =>
             \A n \in 1..(Done(transfer.records, transfer.todo) + 1) :
                 Imported(store', transfer.kind, transfer.replace, transfer.records[n])
  PROVE  ImportInv'
  <1> DEFINE records == transfer.records
             todo == transfer.todo
             done == Done(records, todo)
  <1>1. todo \in Seq(Record) /\ records \in Seq(Record) /\ Len(todo) \in Nat \ {0}
    <2>1. todo \in Seq(Record) /\ todo # <<>> /\ records \in Seq(Record)
      BY DEF TypeInv, TransferType, Transfers
    <2> QED
      BY <2>1, EmptySeq
  <1>2. /\ Len(Tail(todo)) = Len(todo) - 1
        /\ \A j \in 1..(Len(todo) - 1) : Tail(todo)[j] = todo[j + 1]
    BY <1>1
  <1>3. done \in Nat /\ Done(records, Tail(todo)) = done + 1
    <2>1. done \in Nat
      BY NextRecord
    <2>2. Len(records) \in Nat
      BY <1>1
    <2> HIDE DEF records, todo
    <2> QED
      BY <1>1, <1>2, <2>1, <2>2 DEF Done
  <1>4. \A j \in 1..Len(todo) : todo[j] = records[done + j]
    BY DEF ImportInv
  <1>5. IF transfer.kind = "bundle" THEN Bundled(records) ELSE Dumped(records)
    BY DEF ImportInv
  <1> HIDE DEF done, todo, records
  <1>6. \A j \in 1..Len(Tail(todo)) : Tail(todo)[j] = records[done + 1 + j]
    <2> SUFFICES ASSUME NEW j \in 1..(Len(todo) - 1)
                 PROVE  Tail(todo)[j] = records[done + 1 + j]
      BY <1>2
    <2>1. Tail(todo)[j] = todo[j + 1] /\ j + 1 \in 1..Len(todo)
      BY <1>1, <1>2
    <2>2. done + (j + 1) = done + 1 + j
      BY <1>3
    <2> QED
      BY <1>4, <2>1, <2>2
  <1>7. /\ transfer'.records = records /\ transfer'.todo = Tail(todo)
        /\ transfer.commit /\ transfer.clean =>
             \A n \in 1..(done + 1) :
                 Imported(store', transfer.kind, transfer.replace, records[n])
    BY DEF records, todo, done
  <1>8. Done(transfer'.records, transfer'.todo) = done + 1
    BY <1>3, <1>7
  <1>9. IF transfer'.kind = "bundle" THEN Bundled(transfer'.records) ELSE Dumped(transfer'.records)
    BY <1>5, <1>7
  <1> DEFINE now == Done(transfer'.records, transfer'.todo)
  <1>10. now >= 0 /\ \A j \in 1..Len(transfer'.todo) : transfer'.todo[j] = transfer'.records[now + j]
    <2>1. now = done + 1 /\ done + 1 >= 0
      BY <1>3, <1>8
    <2> HIDE DEF now
    <2> QED
      BY <1>6, <1>7, <2>1
  <1>11. transfer'.commit /\ transfer'.clean =>
           \A n \in 1..now :
             Imported(store', transfer'.kind, transfer'.replace, transfer'.records[n])
    BY <1>7, <1>8
  <1> QED
    BY <1>9, <1>10, <1>11 DEF ImportInv

LEMMA RequestCommitted ==
  ASSUME TypeInv, AllFaithful, TransferInv, NEW r \in Request, RequestCommits(r)
  PROVE  TransferInv'
  <1>0. Commit(r) /\ UNCHANGED bundle /\ transfer \in Transfers
    BY DEF RequestCommits, TypeInv, TransferType
  <1>1. CASE transfer.by = r
    <2> DEFINE one == [transfer EXCEPT !.by = None]
               two == [one EXCEPT !.todo = Tail(transfer.todo)]
               done == Done(transfer.records, transfer.todo)
    <2>1. transfer.by # None /\ transfer.kind \in {"bundle", "npm"}
      BY <1>1, PortabilityAssumption DEF TransferInv, WriterInv
    <2>2. transfer.todo # <<>> /\ ImportInv /\ restored = None
      BY <2>1, WriterIsARequest DEF TransferInv
    <2>3. /\ transfer'.kind = transfer.kind /\ transfer'.commit = transfer.commit
          /\ transfer'.replace = transfer.replace /\ transfer'.records = transfer.records
          /\ transfer'.clean = transfer.clean /\ transfer'.todo = Tail(transfer.todo)
          /\ transfer'.by = None /\ UNCHANGED restored
      <3>1. transfer' = two /\ UNCHANGED restored
        BY <1>0, <1>1 DEF RequestCommits, Transfers
      <3>2. /\ one \in Transfers /\ one.kind = transfer.kind /\ one.records = transfer.records
            /\ one.commit = transfer.commit /\ one.replace = transfer.replace
            /\ one.clean = transfer.clean /\ one.by = None
        BY <1>0 DEF Transfers, Optional
      <3>3. /\ two.kind = one.kind /\ two.records = one.records /\ two.commit = one.commit
            /\ two.replace = one.replace /\ two.clean = one.clean /\ two.by = one.by
            /\ two.todo = Tail(transfer.todo)
        <4> HIDE DEF one
        <4> QED
          BY <3>2 DEF Transfers
      <3> HIDE DEF one, two
      <3> QED
        BY <3>1, <3>2, <3>3
    <2>4. ASSUME transfer.clean, NEW n \in 1..(done + 1),
                 n # done + 1 => Imported(store, transfer.kind, transfer.replace,
                                          transfer.records[n])
          PROVE  Imported(store', transfer.kind, transfer.replace, transfer.records[n])
      <3> DEFINE record == transfer.todo[1]
                 other == transfer.records[n]
      <3>1. /\ done \in Nat /\ done + 1 \in 1..Len(transfer.records)
            /\ transfer.records[done + 1] = record
            /\ record.table \in {"lists", "hosts", "streams"}
            /\ transfer.kind = "npm" => record.table # "streams"
        BY <2>1, <2>2, NextRecord
      <3>2. /\ record.table # "streams" => Imported(store', transfer.kind, transfer.replace, record)
            /\ \A t \in Table, j \in Id :
                 t # record.table \/ (t # "streams" /\ j # record.id) => store'[t][j] = store[t][j]
        BY <1>0, <1>1, <2>1, <2>4, RecordCommitted
      <3>3. /\ Distinct(transfer.records) /\ n \in 1..Len(transfer.records)
            /\ transfer.kind = "npm" => other.table # "streams"
        <4>1. n \in 1..Len(transfer.records)
          <5>1. transfer.records \in Seq(Record)
            BY <1>0 DEF Transfers
          <5> HIDE DEF done
          <5> QED
            BY <3>1, <5>1
        <4>2. \/ transfer.kind = "bundle" /\ Bundled(transfer.records)
              \/ transfer.kind = "npm" /\ Dumped(transfer.records)
          BY <2>1, <2>2 DEF ImportInv
        <4> HIDE DEF done
        <4> QED
          BY <4>1, <4>2 DEF Bundled, Dumped
      <3>4. other \in Record
        BY <1>0, <3>3 DEF Transfers
      <3> HIDE DEF record, done
      <3>5. CASE n = done + 1
        BY <2>1, <3>1, <3>2, <3>5 DEF Imported
      <3>6. CASE n # done + 1 /\ other.table = "streams"
        BY <2>1, <3>3, <3>6 DEF Imported
      <3>7. CASE n # done + 1 /\ other.table # "streams"
        <4>1. other.table # record.table \/ other.id # record.id
          BY <3>1, <3>3, <3>7 DEF Distinct
        <4>2. store'[other.table][other.id] = store[other.table][other.id]
          BY <3>2, <3>4, <3>7, <4>1 DEF Record
        <4> QED
          BY <2>4, <3>7, <4>2 DEF Imported
      <3> QED
        BY <3>5, <3>6, <3>7
    <2>5. ImportInv'
      <3>1. transfer.commit /\ transfer.clean =>
              \A n \in 1..(done + 1) :
                 Imported(store', transfer.kind, transfer.replace, transfer.records[n])
        <4>1. transfer.commit /\ transfer.clean =>
                \A n \in 1..done : Imported(store, transfer.kind, transfer.replace,
                                            transfer.records[n])
          BY <2>1, <2>2 DEF ImportInv
        <4>2. done \in Nat
          BY <2>1, <2>2, NextRecord
        <4> HIDE DEF done
        <4>3. \A n \in 1..(done + 1) : n # done + 1 => n \in 1..done
          BY <4>2
        <4> QED
          BY <2>4, <4>1, <4>3
      <3> QED
        BY <2>1, <2>2, <2>3, <3>1, OneMoreDone
    <2> QED
      BY <1>0, <2>1, <2>2, <2>3, <2>5 DEF TransferInv, ExportInv, WriterInv
  <1>2. CASE transfer.by # r
    <2>1. restored' = None /\ bundle' = bundle
      BY <1>0, <1>2 DEF RequestCommits
    <2>2. CASE transfer = Still
      <3>1. transfer' = Still
        BY <1>2, <2>2 DEF RequestCommits
      <3> QED
        BY <2>1, <3>1 DEF TransferInv, ExportInv, ImportInv, WriterInv, Still
    <2>3. CASE transfer # Still
      <3>1. /\ transfer'.kind = transfer.kind /\ transfer'.commit = transfer.commit
            /\ transfer'.replace = transfer.replace /\ transfer'.records = transfer.records
            /\ transfer'.clean = FALSE /\ transfer'.todo = transfer.todo
            /\ transfer'.by = transfer.by /\ transfer'.tables = transfer.tables
        <4>1. transfer' = [transfer EXCEPT !.clean = FALSE]
          BY <1>2, <2>3 DEF RequestCommits
        <4> QED
          BY <1>0, <4>1 DEF Transfers
      <3>2. ExportInv'
        BY <3>1 DEF TransferInv, ExportInv
      <3>3. ImportInv'
        BY <3>1 DEF TransferInv, ImportInv
      <3>4. WriterInv'
        <4> SUFFICES ASSUME transfer.by # None
                     PROVE  WriterInv'
          BY <3>1 DEF WriterInv
        <4> DEFINE w == transfer.by
                   q == request[w]
        <4>1. /\ w \in Request /\ q \in RequestType
              /\ transfer.kind \in {"bundle", "npm"} /\ q.at # "idle"
              /\ Carries(q, transfer.todo[1])
              /\ q.at = "commit" /\ q.row.secret = Kept => q.seen.secret # None
          BY WriterIsARequest DEF TransferInv, WriterInv
        <4>2. PICK i \in Id, claimed \in BOOLEAN : request' = Notes(r, request[r].table, i, claimed)
          BY <1>0 DEF Commit
        <4>3. PICK notes : request'[w] \in {q, [q EXCEPT !.notes = notes]}
          BY <1>2, <4>1, <4>2 DEF Notes
        <4>4. /\ request'[w].at = q.at /\ request'[w].op = q.op
              /\ request'[w].table = q.table /\ request'[w].id = q.id
              /\ request'[w].row = q.row /\ request'[w].seen = q.seen
          <5> HIDE DEF q
          <5> QED
            BY <4>1, <4>3 DEF RequestType
        <4>5. Carries(request[transfer.by], transfer.todo[1])'
          BY <3>1, <4>1, <4>4 DEF Carries
        <4> QED
          BY <3>1, <4>1, <4>4, <4>5 DEF WriterInv
      <3> QED
        BY <2>1, <3>2, <3>3, <3>4 DEF TransferInv
    <2> QED
      BY <2>2, <2>3
  <1> QED
    BY <1>1, <1>2

\* An export takes up one table after the other, and no row twice.
LEMMA TableExported ==
  ASSUME TypeInv, TransferInv, ExportTable
  PROVE  TransferInv'
  <1> DEFINE tables == transfer.tables
  <1>1. PICK found \in Resources(Head(tables)) :
          LET records == transfer.records \o found IN
          IF Len(tables) = 1
          THEN transfer' = Still /\ bundle' = records
          ELSE /\ transfer' = [transfer EXCEPT !.tables = Tail(@), !.records = records]
               /\ UNCHANGED bundle
    BY DEF ExportTable
  <1> DEFINE records == transfer.records \o found
  <1>2. /\ transfer.kind = "export" /\ transfer \in Transfers
        /\ transfer.records \in Seq(Record) /\ UNCHANGED <<store, restored>>
    BY DEF ExportTable, TypeInv, TransferType, Transfers, rvars
  <1>3. /\ tables \in {<<"lists", "hosts", "streams">>, <<"hosts", "streams">>, <<"streams">>}
        /\ Bundled(transfer.records)
        /\ \A m \in 1..Len(tables), n \in 1..Len(transfer.records) :
             tables[m] # transfer.records[n].table
    BY <1>2 DEF TransferInv, ExportInv
  <1>4. /\ 1 \in 1..Len(tables) /\ Head(tables) = tables[1]
        /\ tables[1] \in {"lists", "hosts", "streams"} /\ tables[1] \in Table
    BY <1>3 DEF Table
  <1>5. /\ found \in Seq(Record) /\ Distinct(found)
        /\ \A n \in 1..Len(found) : /\ found[n].table = tables[1]
                                    /\ found[n].row.secret \in {None, Kept}
    BY <1>4, ResourcesAreDistinct DEF TypeInv
  <1>6. /\ Len(records) = Len(transfer.records) + Len(found)
        /\ \A n \in 1..Len(records) :
             \/ n \in 1..Len(transfer.records) /\ records[n] = transfer.records[n]
             \/ /\ n - Len(transfer.records) \in 1..Len(found)
                /\ records[n] = found[n - Len(transfer.records)]
    BY <1>2, <1>5
  <1> HIDE DEF records, tables
  <1>7. \A n \in 1..Len(records) :
           /\ \/ records[n].table = tables[1]
              \/ /\ n \in 1..Len(transfer.records)
                 /\ records[n].table = transfer.records[n].table
           /\ records[n].table \in {"lists", "hosts", "streams"}
           /\ records[n].row.secret \in {None, Kept}
    <2> TAKE n \in 1..Len(records)
    <2>1. CASE n \in 1..Len(transfer.records) /\ records[n] = transfer.records[n]
      BY <1>3, <2>1 DEF Bundled
    <2>2. CASE /\ n - Len(transfer.records) \in 1..Len(found)
               /\ records[n] = found[n - Len(transfer.records)]
      <3> DEFINE k == n - Len(transfer.records)
      <3>1. k \in 1..Len(found) /\ records[n] = found[k]
        BY <2>2
      <3> HIDE DEF k
      <3>2. found[k].table = tables[1] /\ found[k].row.secret \in {None, Kept}
        BY <1>5, <3>1
      <3> QED
        BY <1>4, <3>1, <3>2
    <2> QED
      BY <1>6, <2>1, <2>2
  <1>8. Distinct(records)
    <2> SUFFICES ASSUME NEW m \in 1..Len(records), NEW n \in 1..Len(records),
                        records[m].table = records[n].table, records[m].id = records[n].id
                 PROVE  m = n
      BY DEF Distinct
    <2> DEFINE k == Len(transfer.records)
    <2>1. k \in Nat
      BY <1>2
    <2>2. CASE records[m].table = tables[1]
      <3>1. /\ m - k \in 1..Len(found) /\ records[m] = found[m - k]
            /\ n - k \in 1..Len(found) /\ records[n] = found[n - k]
        BY <1>3, <1>4, <1>6, <2>2
      <3>2. m - k = n - k
        BY <1>5, <3>1 DEF Distinct
      <3> HIDE DEF k
      <3> QED
        BY <1>6, <2>1, <3>2
    <2>3. CASE records[m].table # tables[1]
      <3>1. /\ m \in 1..k /\ records[m] = transfer.records[m]
            /\ n \in 1..k /\ records[n] = transfer.records[n]
        BY <1>5, <1>6, <2>3
      <3> QED
        BY <1>3, <3>1 DEF Bundled, Distinct
    <2> QED
      BY <2>2, <2>3
  <1>9. Bundled(records)
    BY <1>7, <1>8 DEF Bundled
  <1>10. CASE Len(tables) = 1
    <2>1. transfer' = Still /\ bundle' = records
      BY <1>1, <1>10 DEF records, tables
    <2> QED
      BY <1>2, <1>9, <2>1 DEF TransferInv, ExportInv, ImportInv, WriterInv, Still
  <1>11. CASE Len(tables) # 1
    <2> DEFINE one == [transfer EXCEPT !.tables = Tail(tables)]
               two == [one EXCEPT !.records = records]
    <2>1. transfer' = two /\ UNCHANGED bundle
      BY <1>1, <1>2, <1>11 DEF Transfers, records, tables
    <2>2. /\ Tail(tables) \in {<<"hosts", "streams">>, <<"streams">>}
          /\ Len(Tail(tables)) = Len(tables) - 1 /\ Len(tables) \in Nat
          /\ \A m \in 1..(Len(tables) - 1) : Tail(tables)[m] = tables[m + 1] /\ tables[m + 1] # tables[1]
      <3>1. CASE tables = <<"lists", "hosts", "streams">>
        <4>1. Tail(tables) = <<"hosts", "streams">> /\ Len(tables) = 3
          BY <3>1
        <4> QED
          BY <3>1, <4>1
      <3>2. CASE tables = <<"hosts", "streams">>
        <4>1. Tail(tables) = <<"streams">> /\ Len(tables) = 2
          BY <3>2
        <4> QED
          BY <3>2, <4>1
      <3> QED
        BY <1>3, <1>11, <3>1, <3>2
    <2>3. /\ one \in [kind : {"none", "export", "bundle", "npm"}, tables : {Tail(tables)},
                      records : Seq(Record), todo : Seq(Record), by : Optional(Request),
                      commit : BOOLEAN, replace : BOOLEAN, clean : BOOLEAN]
          /\ one.kind = "export" /\ one.tables = Tail(tables) /\ one.by = transfer.by
      BY <1>2 DEF Transfers
    <2>4. /\ two.kind = "export" /\ two.tables = Tail(tables) /\ two.by = transfer.by
          /\ two.records = records
      <3> HIDE DEF one
      <3> QED
        BY <2>3
    <2> HIDE DEF one, two
    <2>5. \A m \in 1..Len(Tail(tables)), n \in 1..Len(records) :
            Tail(tables)[m] # records[n].table
      <3> SUFFICES ASSUME NEW m \in 1..(Len(tables) - 1), NEW n \in 1..Len(records)
                   PROVE  Tail(tables)[m] # records[n].table
        BY <2>2
      <3>1. Tail(tables)[m] = tables[m + 1] /\ tables[m + 1] # tables[1] /\ m + 1 \in 1..Len(tables)
        BY <2>2
      <3> QED
        BY <1>3, <1>7, <3>1
    <2>6. ExportInv'
      BY <1>9, <2>1, <2>2, <2>4, <2>5 DEF ExportInv
    <2>7. ImportInv'
      BY <2>1, <2>4 DEF ImportInv
    <2>8. transfer.by = None
      BY <1>2 DEF TransferInv, WriterInv
    <2> QED
      BY <1>2, <2>1, <2>4, <2>6, <2>7, <2>8, TransferGoesOn DEF WriterInv
  <1> QED
    BY <1>10, <1>11

LEMMA ImportBegun ==
  ASSUME TypeInv, TransferInv, ImportBegins
  PROVE  TransferInv'
  <1>1. PICK commit \in BOOLEAN, replace \in BOOLEAN, kind \in {"bundle", "npm"} :
         \E records \in IF kind = "bundle" THEN {bundle} \ {None}
                        ELSE IF "hosts" \in family THEN Preflighted ELSE {} :
           Begins([Still EXCEPT !.kind = kind, !.records = records, !.todo = records,
                                !.commit = commit, !.replace = replace])
    BY DEF ImportBegins
  <1>2. PICK records \in IF kind = "bundle" THEN {bundle} \ {None}
                        ELSE IF "hosts" \in family THEN Preflighted ELSE {} :
           Begins([Still EXCEPT !.kind = kind, !.records = records, !.todo = records,
                                !.commit = commit, !.replace = replace])
    BY <1>1
  <1>3. /\ UNCHANGED <<store, bundle>> /\ restored' = None
        /\ transfer' = [Still EXCEPT !.kind = kind, !.records = records, !.todo = records,
                                     !.commit = commit, !.replace = replace]
    BY <1>2 DEF Begins, ImportBegins
  <1>4. /\ transfer'.kind = kind /\ transfer'.records = records /\ transfer'.todo = records
        /\ transfer'.commit = commit /\ transfer'.replace = replace /\ transfer'.by = None
        /\ transfer'.clean = TRUE
    BY <1>3 DEF Still
  <1>5. IF kind = "bundle" THEN Bundled(records) ELSE Dumped(records)
    <2>1. CASE kind = "bundle"
      BY <2>1, <1>2 DEF TransferInv
    <2>2. CASE kind # "bundle"
      BY <2>2, <1>2, PreflightIsDumped
    <2> QED
      BY <2>1, <2>2
  <1>6. Len(records) \in Nat
    BY PreflightTyped DEF TypeInv, TransferType
  <1>7. Done(records, records) = 0
    BY <1>6 DEF Done
  <1>8. ImportInv'
    <2>1. \A j \in 1..Len(records) : records[j] = records[0 + j]
      BY <1>6
    <2> QED
      BY <1>4, <1>5, <1>7, <2>1 DEF ImportInv
  <1> QED
    BY <1>3, <1>4, <1>8 DEF TransferInv, ExportInv, WriterInv

LEMMA RecordSkipped ==
  ASSUME TypeInv, TransferInv, SkipRecord
  PROVE  TransferInv'
  <1> DEFINE record == transfer.todo[1]
             done == Done(transfer.records, transfer.todo)
             goes == [transfer EXCEPT !.todo = Tail(transfer.todo)]
  <1>1. /\ transfer.kind \in {"bundle", "npm"} /\ transfer.todo # <<>> /\ transfer.by = None
        /\ UNCHANGED <<store, bundle, restored>> /\ transfer \in Transfers
        /\ transfer' = goes /\ ImportInv /\ restored = None
    BY DEF SkipRecord, Importing, rvars, TransferInv, TypeInv, TransferType
  <1>2. /\ transfer'.kind = transfer.kind /\ transfer'.commit = transfer.commit
        /\ transfer'.replace = transfer.replace /\ transfer'.records = transfer.records
        /\ transfer'.clean = transfer.clean /\ transfer'.todo = Tail(transfer.todo)
        /\ transfer'.by = None
    BY <1>1 DEF Transfers
  <1>3. /\ done \in Nat /\ done + 1 \in 1..Len(transfer.records)
        /\ transfer.records[done + 1] = record /\ Head(transfer.todo) = record
    BY <1>1, NextRecord
  <1>4. transfer.commit => Imported(store, transfer.kind, transfer.replace, record)
    <2>1. \/ transfer.kind = "bundle" /\ Same(record, store[record.table][record.id])
          \/ transfer.kind = "npm" /\ store[record.table][record.id] # None /\ ~transfer.replace
          \/ ~transfer.commit
      BY <1>3 DEF SkipRecord, Same
    <2> QED
      BY <2>1 DEF Imported
  <1>5. transfer.commit /\ transfer.clean =>
          \A n \in 1..(done + 1) :
             Imported(store', transfer.kind, transfer.replace, transfer.records[n])
    <2>1. transfer.commit /\ transfer.clean =>
            \A n \in 1..done : Imported(store, transfer.kind, transfer.replace,
                                        transfer.records[n])
      BY <1>1 DEF ImportInv
    <2> HIDE DEF done, record
    <2>2. \A n \in 1..(done + 1) : n # done + 1 => n \in 1..done
      BY <1>3
    <2> QED
      BY <1>1, <1>3, <1>4, <2>1, <2>2
  <1>6. ImportInv'
    BY <1>1, <1>2, <1>5, OneMoreDone
  <1> QED
    BY <1>1, <1>2, <1>6, TransferGoesOn DEF ExportInv, WriterInv

LEMMA StepTransferInv ==
  ASSUME TypeInv, AllFaithful, TransferInv, [PortabilityNext]_vars
  PROVE  TransferInv'
  <1>1. CASE ExportBegins
    <2>1. /\ UNCHANGED <<store, bundle, restored>>
          /\ transfer' = [Still EXCEPT !.kind = "export", !.tables = Collections]
      BY <1>1 DEF ExportBegins, Begins
    <2>2. /\ transfer'.kind = "export" /\ transfer'.tables = <<"lists", "hosts", "streams">>
          /\ transfer'.records = <<>> /\ transfer'.by = None
      BY <2>1 DEF Still, Collections
    <2>3. Bundled(<<>>) /\ Len(<<>>) = 0
      BY DEF Bundled, Distinct
    <2>4. ExportInv'
      BY <2>2, <2>3 DEF ExportInv
    <2> QED
      BY <2>1, <2>2, <2>4, TransferGoesOn DEF ImportInv, WriterInv
  <1>2. CASE ExportTable
    BY <1>2, TableExported
  <1>3. CASE ImportBegins
    BY <1>3, ImportBegun
  <1>4. CASE SkipRecord
    BY <1>4, RecordSkipped
  <1>5. CASE ImportEnds
    BY <1>5, TransferStops DEF ImportEnds, rvars
  <1>6. CASE TransferFails
    BY <1>6, TransferStops DEF TransferFails, rvars
  <1>7. CASE Reinstall
    BY <1>7 DEF Reinstall, TransferInv, ExportInv, ImportInv, WriterInv, Still
  <1>8. ASSUME NEW r \in Request,
               (BeginCreate(r) \/ BeginEdit(r) \/ Validate(r) \/ Open(r)) /\ UNCHANGED pvars
        PROVE  TransferInv'
    BY <1>8, RequestsGoOn
  <1>9. ASSUME NEW r \in Request, WriteRecord(r)
        PROVE  TransferInv'
    BY <1>9, RecordWritten
  <1>10. ASSUME NEW r \in Request, RequestCommits(r)
         PROVE  TransferInv'
    BY <1>10, RequestCommitted
  <1>11. ASSUME NEW r \in Request, RequestAborts(r)
         PROVE  TransferInv'
    <2>1. /\ UNCHANGED <<store, bundle>>
          /\ request' = [request EXCEPT ![r] = Idle]
          /\ IF transfer.by = r THEN transfer' = Still /\ restored' = Accomplished
             ELSE UNCHANGED <<transfer, restored>>
      BY <1>11 DEF RequestAborts, Abort
    <2>2. CASE transfer.by = r
      BY <2>1, <2>2, TransferStops
    <2>3. CASE transfer.by # r
      <3>1. WriterInv'
        <4> SUFFICES ASSUME transfer.by # None
                     PROVE  WriterInv'
          BY <2>1, <2>3 DEF WriterInv
        <4>1. request'[transfer.by] = request[transfer.by]
          BY <2>1, <2>3, WriterIsARequest DEF TypeInv, RequestsType
        <4> QED
          BY <2>1, <2>3, <4>1 DEF TransferInv, WriterInv, Carries
      <3> QED
        BY <2>1, <2>3, <3>1, TransferStands
    <2> QED
      BY <2>2, <2>3
  <1>12. CASE UNCHANGED vars
    BY <1>12, TransferStands DEF TransferInv, WriterInv, Carries, vars, rvars, pvars
  <1> QED
    BY <1>1, <1>2, <1>3, <1>4, <1>5, <1>6, <1>7, <1>8, <1>9, <1>10, <1>11, <1>12
    DEF PortabilityNext

LEMMA RestoredIsImported ==
  ASSUME TransferInv
  PROVE  ImportRestores
  <1> SUFFICES ASSUME restored # None, restored.done = Len(restored.records),
                      NEW n \in 1..restored.done, restored.kind # "bundle",
                      NEW l \in restored.records[n].row.lists
               PROVE  store["lists"][l] # None
    BY DEF TransferInv, ImportRestores, Imported
  <1>1. PICK m \in 1..Len(restored.records) :
          restored.records[m].table = "lists" /\ restored.records[m].id = l
    BY DEF TransferInv, Closed
  <1> QED
    BY <1>1 DEF TransferInv, Imported

\* An undisturbed import, whether it reaches its end or is stopped between or during two
\* records, leaves every record it went through in its place, whatever it skipped and
\* however much it wrote after it; and when it reaches its end, the access lists of an
\* imported NPM host exist (_apply, _apply_npm_report).
THEOREM ImportsAlwaysRestore == PortabilitySpec => []ImportRestores
  <1>1. PortabilityInit => TransferInv
    BY DEF PortabilityInit, TransferInv, ExportInv, ImportInv, WriterInv, Still
  <1>2. TypeInv /\ AllFaithful /\ TransferInv /\ [PortabilityNext]_vars
          => TypeInv' /\ AllFaithful' /\ TransferInv'
    BY StepTypeInv, StepFaithful, StepTransferInv
  <1>3. TransferInv => ImportRestores
    BY RestoredIsImported
  <1> QED
    BY <1>1, <1>2, <1>3, InitTypeInv, InitFaithful, PTL DEF PortabilitySpec
=============================================================================
