------------------------------ MODULE Identity ------------------------------
(***************************************************************************)
(* Principals, passwords, sessions, personal access tokens and MFA, as     *)
(* changed by API requests.                                                *)
(*                                                                         *)
(* A request is a sequence of table operations, each a transaction of its  *)
(* own.  A transaction that reads, awaits and then writes is two steps     *)
(* here, and the requests interleave between them.  A commit writes the    *)
(* columns it changed and nothing else; a unique constraint is enforced    *)
(* there.  Between its steps a request may end for any reason: a client    *)
(* that leaves, an error of the database, a crash.                         *)
(*                                                                         *)
(* Secrets are who knows them: a caller presents the right password or     *)
(* TOTP code, or a recovery code, which is a <<batch, number>>.  Sessions  *)
(* and tokens are their row ids, never reused.  The sections of the        *)
(* permissions are alike, so there is one; is_admin is not edited.         *)
(***************************************************************************)
EXTENDS Naturals, FiniteSets

CONSTANTS
    User,          \* ids of principals
    Admin,         \* the principal whose is_admin is set
    Request,       \* API requests under way at the same time
    None,          \* no row
    Grants,        \* the permissions an administrator may store for a user
    Scopes,        \* the scopes a token is asked for with
    CodesPerBatch, \* recovery codes shown at a time
    MaxRequests    \* bound on the requests and expiries, so on the ids handed out

Actions == {"read", "update"}
Levels == {"view", "manage"}
Id == 1..(2 * MaxRequests + 2)
Code == Id \X (1..CodesPerBatch)
Optional(S) == S \cup {None}

ASSUME IdentityAssumption ==
    /\ Admin \in User
    /\ {} \in Grants /\ Grants \subseteq SUBSET (Actions \cup Levels)
    /\ {} \in Scopes /\ Scopes \subseteq SUBSET Actions
    /\ CodesPerBatch \in Nat \ {0} /\ MaxRequests \in Nat
    /\ None \notin Id \cup Code \cup User

VARIABLES
    principal,   \* the row of each principal and its permission edges
    session,     \* rows of browser_sessions
    pat,         \* rows of personal_access_tokens
    enrollment,  \* the MFA enrollment of each principal
    codes,       \* the recovery codes of each principal, unused and used
    request,     \* what each request is doing
    begun,       \* requests begun
    lastId,      \* ids handed out
    \* history
    reset,       \* principals whose password was last set by an administrator
    ended,       \* logins that were logged out and grants whose token was revoked
    shown,       \* the batch of recovery codes each principal was shown last
    accepted,    \* how often each recovery code was accepted
    turnedAway,  \* principals whose right answer to an MFA challenge was refused
    raced        \* objects written while another transaction had read them

rows == <<principal, session, pat, enrollment, codes>>
history == <<reset, ended, shown, accepted, turnedAway>>
vars == <<rows, request, begun, lastId, history, raced>>

\* A grant is the set of keys that are allowed: actions, or one of the levels.
Account == [status : {"absent", "active", "disabled", "gone"}, mustChange : BOOLEAN,
            grants : Grants]
\* No scopes are the scope "user", the whole account.  login and origin are history:
\* the session a chain of refreshes began with, the token a chain of rotations did.
Session == [user : User, login : Id, scopes : Scopes, challenge : BOOLEAN]
Pat == [user : User, origin : Id, scopes : Scopes, revoked : BOOLEAN,
        expired : BOOLEAN]
Enrollment == [batch : Id, confirmed : BOOLEAN]

ASSUME RowAssumption == None \notin Account \cup Session \cup Pat \cup Enrollment

Steps == {"idle", "factor", "spend", "verify", "drop", "session", "challenge", "newToken",
          "readToken", "writeToken", "readFactor", "writeFactor", "writeUser",
          "writePassword", "register"}
Ops == {"none", "login", "browserLogin", "refresh", "logout", "exchange", "impersonate",
        "issue", "rotate", "revoke", "extend", "begin", "confirm", "disable", "regenerate",
        "profile", "setStatus", "setGrants", "delete", "changePassword", "setPassword",
        "register"}

\* user owns what the request changes; row is what its transaction has read.
Idle == [at |-> "idle", op |-> "none", user |-> None, on |-> None, scopes |-> {},
         login |-> None, code |-> None, row |-> None]

IdTypeOK ==
    /\ principal \in [User -> Account]
    /\ session \in [Id -> Optional(Session)]
    /\ pat \in [Id -> Optional(Pat)]
    /\ enrollment \in [User -> Optional(Enrollment)]
    /\ codes \in [User -> [unused : SUBSET Code, used : SUBSET Code]]
    /\ request \in [Request ->
          [at : Steps, op : Ops, user : Optional(User), on : Optional(Id),
           scopes : Scopes, login : Optional(Id), code : Optional(Code),
           row : Optional(Account \cup Enrollment \cup Pat)]]
    /\ begun \in 0..MaxRequests /\ lastId \in Id \cup {0}
    /\ reset \subseteq User /\ turnedAway \subseteq User
    /\ ended \subseteq {"login", "token"} \X Id
    /\ shown \in [User -> Optional(Id)]
    /\ accepted \in [Code -> Nat]
    /\ raced \subseteq ({"login", "token"} \X Id) \cup ({"account", "password", "factor"} \X User)

\* Mutant of Batch: one code too many.
BatchAndOne(n) == {n} \X (0..CodesPerBatch)

Batch(n) == {n} \X (1..CodesPerBatch)

\* Either nobody but the administrator is registered, or every user has a session, a
\* token and confirmed MFA, with ids handed out before.
IdInit ==
    \E given \in {{}, User \ {Admin}} :
      /\ \A u, v \in given : u = v
      /\ principal = [u \in User |-> [status |-> IF u \in given \cup {Admin} THEN "active"
                                                 ELSE "absent",
                                      mustChange |-> FALSE, grants |-> {}]]
      /\ session = [i \in Id |->
            IF i = 2 THEN [user |-> Admin, login |-> 2, scopes |-> {}, challenge |-> FALSE]
            ELSE IF i = 1 /\ given # {}
            THEN [user |-> CHOOSE u \in given : TRUE, login |-> 1, scopes |-> {},
                  challenge |-> FALSE]
            ELSE None]
      /\ pat = [i \in Id |->
            IF i = 1 /\ given # {}
            THEN [user |-> CHOOSE u \in given : TRUE, origin |-> 1, scopes |-> {},
                  revoked |-> FALSE, expired |-> FALSE]
            ELSE None]
      /\ enrollment = [u \in User |-> IF u \in given THEN [batch |-> 1, confirmed |-> TRUE]
                                      ELSE None]
      /\ codes = [u \in User |-> [unused |-> IF u \in given THEN Batch(1) ELSE {},
                                  used |-> {}]]
      /\ shown = [u \in User |-> IF u \in given THEN 1 ELSE None]
      /\ request = [r \in Request |-> Idle]
      /\ begun = 0 /\ lastId = 2
      /\ reset = {} /\ ended = {} /\ turnedAway = {} /\ raced = {}
      /\ accepted = [c \in Code |-> 0]

---------------------------------------------------------------------------
(* Permissions and token scopes *)

\* permission_allows() of a stored grant: the levels were spelled out as keys when the
\* grant was stored, and as keys they are not actions.
Allows(grant, action) == action \in grant

\* What the level or the actions an administrator sends stand for.
Meaning(grant) == (grant \cap Actions) \cup (IF "manage" \in grant THEN Actions ELSE {})
                  \cup (IF "view" \in grant THEN {"read"} ELSE {})

\* The authority of a token: the account's, or what its scopes leave of it.
Effective(scopes, grants, admin) ==
    IF scopes = {} THEN [admin |-> admin, grants |-> grants]
    ELSE [admin |-> FALSE, grants |-> {s \in scopes : admin \/ Allows(grants, s)}]

\* The scopes an owner may give a token.
Grantable(owner, wanted) ==
    \A s \in wanted : owner.admin \/ Allows(owner.grants, s)

---------------------------------------------------------------------------
(* Helpers *)

Active(u) == principal[u].status = "active"
Confirmed(u) == enrollment[u] # None /\ enrollment[u].confirmed
UsableSession(s) == session[s] # None /\ ~session[s].challenge /\ Active(session[s].user)
UsablePat(p) == pat[p] # None /\ ~pat[p].revoked /\ ~pat[p].expired /\ Active(pat[p].user)

\* The scopes under which u can call the API: those of its sessions and tokens.
Bearers(u) == {session[s].scopes : s \in {s \in Id : UsableSession(s) /\ session[s].user = u}}
              \cup {pat[p].scopes : p \in {p \in Id : UsablePat(p) /\ pat[p].user = u}}

\* u calls, may do more than change its password, and acts with this authority.
Calls(u, authority) ==
    /\ ~principal[u].mustChange
    /\ \E scopes \in Bearers(u) :
         authority = Effective(scopes, principal[u].grants, u = Admin)
Authorities(u) == {Effective(scopes, principal[u].grants, u = Admin) : scopes \in Bearers(u)}
AdminCalls == \E a \in Authorities(Admin) : Calls(Admin, a) /\ a.admin
Manages(u, a, owner) == u = owner \/ a.admin

NewId == lastId + 1

\* A row gets an id of its own.  Ids are bounded: a request uses up two at most.
HandOut == NewId \in Id /\ lastId' = NewId

Start(r, fresh) ==
    /\ request[r] = Idle /\ begun < MaxRequests
    /\ request' = [request EXCEPT ![r] = fresh]
    /\ begun' = begun + 1
Go(r, there) == request' = [request EXCEPT ![r].at = there]
End(r) == request' = [request EXCEPT ![r] = Idle]

\* What a request has read and is about to write; a logout has read the session it ends.
Held(r) ==
    LET q == request[r] IN
    (IF q.at \in {"drop", "session", "writePassword"} /\ q.login # None
     THEN {<<"login", q.login>>} ELSE {})
    \cup (CASE q.at = "writeToken" -> {<<"token", q.row.origin>>}
          [] q.at = "writeUser" -> {<<"account", q.user>>}
          [] q.at = "writePassword" -> {<<"password", q.user>>}
          [] q.at \in {"spend", "writeFactor"} -> {<<"factor", q.user>>}
          [] OTHER -> {})

Writes(r, x) ==
    raced' = IF \E q \in Request \ {r} : x \in Held(q) THEN raced \cup {x} ELSE raced

---------------------------------------------------------------------------
(* Sessions *)

\* POST /api/tokens and /browser/login: the password is right and the account active.
Login(r) ==
    /\ \E u \in User, op \in {"login", "browserLogin"} :
         Active(u) /\ Start(r, [Idle EXCEPT !.op = op, !.at = "factor", !.user = u])
    /\ UNCHANGED <<rows, lastId, history, raced>>

\* MFA is off, or a TOTP code is given, or a recovery code, or no code.
CheckFactor(r) ==
    LET u == request[r].user IN
    /\ request[r].at = "factor"
    /\ \/ Go(r, "session")
       \/ Confirmed(u) /\ Go(r, "challenge")
       \/ /\ Confirmed(u)
          /\ \E c \in codes[u].unused :
               request' = [request EXCEPT ![r] = [@ EXCEPT !.at = "spend", !.code = c]]
    /\ UNCHANGED <<rows, begun, lastId, history, raced>>

\* Mutant of CodeUsed: used_at is not written.
CodeKept(u, c) == codes

CodeUsed(u, c) == [codes EXCEPT ![u] = [unused |-> @.unused \ {c}, used |-> @.used \cup {c}]]
Accept(c) == accepted' = [accepted EXCEPT ![c] = @ + 1]

\* The commit of used_at; a row that is gone fails it.
SpendCode(r) ==
    LET u == request[r].user  c == request[r].code IN
    /\ request[r].at = "spend"
    /\ IF c \in codes[u].unused \cup codes[u].used
       THEN /\ codes' = CodeUsed(u, c) /\ Accept(c)
            /\ Go(r, "session")
            /\ Writes(r, <<"factor", u>>)
       ELSE End(r) /\ UNCHANGED <<codes, accepted, raced>>
    /\ UNCHANGED <<principal, session, pat, enrollment, begun, lastId, reset, ended, shown,
                   turnedAway>>

\* A session is issued.  A browser login then goes on as a refresh of it.
IssueSession(r) ==
    LET q == request[r]
        login == IF q.login = None THEN NewId ELSE q.login IN
    /\ q.at = "session"
    /\ session' = [session EXCEPT ![NewId] =
          [user |-> q.user, login |-> login, scopes |-> q.scopes, challenge |-> FALSE]]
    /\ HandOut
    /\ IF q.op = "browserLogin" /\ q.login = None
       THEN request' = [request EXCEPT ![r] = [@ EXCEPT !.at = "verify", !.on = NewId,
                                                        !.login = login]]
       ELSE End(r)
    /\ UNCHANGED <<principal, pat, enrollment, codes, begun, history, raced>>

\* A session that only answers a challenge; a browser login fails on verifying it.
IssueChallenge(r) ==
    /\ request[r].at = "challenge"
    /\ session' = [session EXCEPT ![NewId] =
          [user |-> request[r].user, login |-> NewId, scopes |-> {}, challenge |-> TRUE]]
    /\ HandOut
    /\ End(r)
    /\ UNCHANGED <<principal, pat, enrollment, codes, begun, history, raced>>

\* POST /api/tokens/2fa and /browser/2fa with the right code.  verify() normalizes the
\* scopes of every token, and "mfa" is not a scope it knows: ValueError, 401.
AnswerChallenge(r) ==
    /\ \E s \in Id : /\ session[s] # None /\ session[s].challenge
                     /\ Active(session[s].user)
                     /\ turnedAway' = turnedAway \cup {session[s].user}
    /\ Start(r, Idle)
    /\ UNCHANGED <<rows, lastId, reset, ended, shown, accepted, raced>>

\* GET and DELETE /api/tokens, DELETE /browser/session: the dependency verifies first.
RefreshOrLogout(r) ==
    /\ \E s \in Id, op \in {"refresh", "logout"} :
         /\ UsableSession(s) /\ ~principal[session[s].user].mustChange
         /\ Start(r, [Idle EXCEPT !.op = op, !.at = IF op = "refresh" THEN "verify" ELSE "drop",
                          !.user = session[s].user, !.on = s, !.login = session[s].login])
    /\ UNCHANGED <<rows, lastId, history, raced>>

\* refresh_session() verifies again.
VerifySession(r) ==
    LET s == request[r].on IN
    /\ request[r].at = "verify"
    /\ IF UsableSession(s)
       THEN request' = [request EXCEPT ![r] = [@ EXCEPT !.at = "drop",
                                                        !.scopes = session[s].scopes]]
       ELSE End(r)
    /\ UNCHANGED <<rows, begun, lastId, history, raced>>

\* Mutant of Dropped: the old session is kept.
Kept(s) == session

Dropped(s) == [session EXCEPT ![s] = None]

\* revoke_session(); whether there was a session is not looked at.
DropSession(r) ==
    LET q == request[r] IN
    /\ q.at = "drop"
    /\ session' = Dropped(q.on)
    /\ Writes(r, <<"login", q.login>>)
    /\ IF q.op \in {"refresh", "browserLogin"}
       THEN Go(r, "session") /\ UNCHANGED ended
       ELSE End(r) /\ ended' = ended \cup {<<"login", q.login>>}
    /\ UNCHANGED <<principal, pat, enrollment, codes, begun, lastId, reset, shown, accepted,
                   turnedAway>>

\* A refresh with a token as bearer revokes nothing, and an administrator's login as
\* another active user: both only issue.
ExchangeOrImpersonate(r) ==
    /\ \/ \E p \in Id :
            /\ UsablePat(p) /\ ~principal[pat[p].user].mustChange
            /\ Start(r, [Idle EXCEPT !.op = "exchange", !.at = "session",
                             !.user = pat[p].user, !.scopes = pat[p].scopes])
       \/ \E u \in User :
            /\ AdminCalls /\ Active(u)
            /\ Start(r, [Idle EXCEPT !.op = "impersonate", !.at = "session", !.user = u])
    /\ UNCHANGED <<rows, lastId, history, raced>>

---------------------------------------------------------------------------
(* Personal access tokens *)

\* create_token_for(): one's own with the authority of the call, another's with theirs.
IssueToken(r) ==
    /\ \E u, owner \in User : \E a \in Authorities(u) :
         /\ Calls(u, a) /\ Manages(u, a, owner)
         /\ principal[owner].status \in {"active", "disabled"}
         /\ \E wanted \in Scopes :
              /\ Grantable(IF u = owner THEN a
                           ELSE Effective({}, principal[owner].grants, owner = Admin), wanted)
              /\ Start(r, [Idle EXCEPT !.op = "issue", !.at = "newToken", !.user = owner,
                               !.scopes = wanted])
    /\ UNCHANGED <<rows, lastId, history, raced>>

WriteNewToken(r) ==
    /\ request[r].at = "newToken"
    /\ pat' = [pat EXCEPT ![NewId] =
          [user |-> request[r].user, origin |-> NewId, scopes |-> request[r].scopes,
           revoked |-> FALSE, expired |-> FALSE]]
    /\ HandOut
    /\ End(r)
    /\ UNCHANGED <<principal, session, enrollment, codes, begun, history, raced>>

\* get_pat() finds the token and resolves its owner, who must be active; the routes
\* refuse to rotate or revoke a revoked token.
ChangeToken(r) ==
    /\ \E u \in User, p \in Id, op \in {"rotate", "revoke", "extend"} :
       \E a \in Authorities(u) :
         /\ pat[p] # None /\ Active(pat[p].user)
         /\ Calls(u, a) /\ Manages(u, a, pat[p].user)
         /\ op = "extend" \/ ~pat[p].revoked
         /\ Start(r, [Idle EXCEPT !.op = op, !.at = "readToken", !.user = pat[p].user,
                          !.on = p])
    /\ UNCHANGED <<rows, lastId, history, raced>>

\* Mutant of TokenStands: the second look is forgotten.
AnyTokenStands(op, token) == TRUE

\* rotate() and refresh() refuse a revoked token, rotate() one past its expiry as well.
TokenStands(op, token) ==
    CASE op = "rotate" -> ~token.revoked /\ ~token.expired
      [] op = "extend" -> ~token.revoked
      [] OTHER -> TRUE

\* The operation reads the row, then hashes the new secret.
ReadToken(r) ==
    LET token == pat[request[r].on] IN
    /\ request[r].at = "readToken"
    /\ IF TokenStands(request[r].op, token)
       THEN request' = [request EXCEPT ![r] = [@ EXCEPT !.at = "writeToken", !.row = token]]
       ELSE End(r)
    /\ UNCHANGED <<rows, begun, lastId, history, raced>>

\* Mutant of Extended: every column is written as it was read.
ExtendedWhole(p, read) == [pat EXCEPT ![p] = [read EXCEPT !.expired = FALSE]]

Extended(p, read) == [pat EXCEPT ![p].expired = FALSE]

\* Only the columns that changed are written: revoked_at, or expires_at.
WriteToken(r) ==
    LET q == request[r]  p == q.on IN
    /\ q.at = "writeToken"
    /\ CASE q.op = "rotate" ->
              /\ pat' = [pat EXCEPT ![p].revoked = TRUE,
                                       ![NewId] = [q.row EXCEPT !.revoked = FALSE]]
              /\ HandOut /\ Writes(r, <<"token", q.row.origin>>)
              /\ UNCHANGED ended
         [] q.op = "revoke" ->
              /\ pat' = [pat EXCEPT ![p].revoked = TRUE]
              /\ Writes(r, <<"token", q.row.origin>>)
              /\ ended' = IF q.row.revoked THEN ended
                          ELSE ended \cup {<<"token", q.row.origin>>}
              /\ UNCHANGED lastId
         [] OTHER -> pat' = Extended(p, q.row) /\ UNCHANGED <<lastId, raced, ended>>
    /\ End(r)
    /\ UNCHANGED <<principal, session, enrollment, codes, begun, reset, shown, accepted,
                   turnedAway>>

\* The bound counts this with the requests.
TokenExpires(p) ==
    /\ pat[p] # None /\ ~pat[p].expired
    /\ begun < MaxRequests /\ begun' = begun + 1
    /\ pat' = [pat EXCEPT ![p].expired = TRUE]
    /\ UNCHANGED <<principal, session, enrollment, codes, request, lastId, history, raced>>

---------------------------------------------------------------------------
(* Multi-factor authentication *)

\* The routes act on the caller; enrolling looks at enabled() in a transaction before.
ChangeFactor(r) ==
    /\ \E u \in User, op \in {"begin", "confirm", "disable", "regenerate"} :
       \E a \in Authorities(u) :
         /\ Calls(u, a)
         /\ op = "begin" => ~Confirmed(u)
         /\ Start(r, [Idle EXCEPT !.op = op, !.at = "readFactor", !.user = u])
    /\ UNCHANGED <<rows, lastId, history, raced>>

\* confirm() wants a pending enrollment; disable() passes when there is nothing to
\* verify, and like regenerate() takes a TOTP code or an unused recovery code otherwise.
ReadFactor(r) ==
    LET u == request[r].user  op == request[r].op IN
    /\ request[r].at = "readFactor"
    /\ CASE op = "confirm" -> enrollment[u] # None /\ ~Confirmed(u)
         [] op = "regenerate" -> Confirmed(u)
         [] OTHER -> TRUE
    /\ \E c \in {None} \cup (IF op \in {"disable", "regenerate"} /\ Confirmed(u)
                             THEN codes[u].unused ELSE {}) :
         request' = [request EXCEPT ![r] = [@ EXCEPT !.at = "writeFactor", !.code = c,
                                                     !.row = enrollment[u]]]
    /\ UNCHANGED <<rows, begun, lastId, history, raced>>

NoCodes == [unused |-> {}, used |-> {}]

\* A batch takes the place of the codes; at the first enrollment there should be none.
NewBatch(u, keep) ==
    /\ codes' = [codes EXCEPT ![u] =
          [unused |-> Batch(NewId) \cup (IF keep THEN @.unused ELSE {}),
           used |-> IF keep THEN @.used ELSE {}]]
    /\ shown' = [shown EXCEPT ![u] = NewId]
    /\ HandOut

\* One enrollment per principal: a second insert is refused.  Where there was one, the
\* new row may be flushed before the old one is deleted, which is refused as well.
Enroll(r) ==
    LET q == request[r]  u == q.user IN
    /\ q.at = "writeFactor" /\ q.op = "begin"
    /\ End(r)
    /\ \/ /\ \/ q.row = None /\ enrollment[u] = None
             \/ q.row # None /\ enrollment[u] \in {None, q.row}
          /\ enrollment' = [enrollment EXCEPT ![u] = [batch |-> NewId, confirmed |-> FALSE]]
          /\ NewBatch(u, q.row = None)
          /\ Writes(r, <<"factor", u>>)
       \/ /\ q.row # None \/ enrollment[u] # None
          /\ UNCHANGED <<enrollment, codes, shown, lastId, raced>>
    /\ UNCHANGED <<principal, session, pat, begun, reset, ended, accepted, turnedAway>>

ConfirmFactor(r) ==
    LET q == request[r]  u == q.user IN
    /\ q.at = "writeFactor" /\ q.op = "confirm"
    /\ End(r)
    /\ IF enrollment[u] # None /\ enrollment[u].batch = q.row.batch
       THEN enrollment' = [enrollment EXCEPT ![u].confirmed = TRUE]
            /\ Writes(r, <<"factor", u>>)
       ELSE UNCHANGED <<enrollment, raced>>
    /\ UNCHANGED <<principal, session, pat, codes, begun, lastId, history>>

\* Mutant of Unenrolled: the recovery codes stay.
UnenrolledOnly(u) == enrollment' = [enrollment EXCEPT ![u] = None] /\ UNCHANGED codes

Unenrolled(u) ==
    /\ enrollment' = [enrollment EXCEPT ![u] = None]
    /\ codes' = [codes EXCEPT ![u] = IF enrollment[u] = None THEN @ ELSE NoCodes]

\* Either writes used_at of the recovery code it was given before it deletes the codes.
DisableOrRegenerate(r) ==
    LET q == request[r]  u == q.user IN
    /\ q.at = "writeFactor" /\ q.op \in {"disable", "regenerate"}
    /\ End(r)
    /\ IF q.code = None \/ q.code \in codes[u].unused \cup codes[u].used
       THEN /\ IF q.op = "disable"
               THEN Unenrolled(u) /\ UNCHANGED <<shown, lastId>>
               ELSE NewBatch(u, FALSE) /\ UNCHANGED enrollment
            /\ IF q.code = None THEN UNCHANGED accepted ELSE Accept(q.code)
            /\ Writes(r, <<"factor", u>>)
       ELSE UNCHANGED <<enrollment, codes, shown, lastId, accepted, raced>>
    /\ UNCHANGED <<principal, session, pat, begun, reset, ended, turnedAway>>

---------------------------------------------------------------------------
(* Accounts and passwords *)

\* Mutant of Snapshot: the permissions are not attached to what was read.
BareSnapshot(u) == [principal[u] EXCEPT !.grants = {}]

\* get_resource() of an account, which attaches the stored authorization.
Snapshot(u) == principal[u]

\* update_resource() reads the account, lays the payload over it and writes all of it:
\* PUT /api/v2/me with a name, and an administrator's PATCH of one field, or a DELETE.
EditAccount(r) ==
    /\ \E u \in User :
         /\ principal[u].status \in {"active", "disabled"}
         /\ \/ /\ \E a \in Authorities(u) : Calls(u, a)
               /\ Start(r, [Idle EXCEPT !.op = "profile", !.at = "writeUser", !.user = u,
                                !.row = Snapshot(u)])
            \/ /\ AdminCalls /\ u # Admin
               /\ \/ \E status \in {"active", "disabled"} :
                       Start(r, [Idle EXCEPT !.op = "setStatus", !.at = "writeUser",
                                    !.user = u, !.row = [Snapshot(u) EXCEPT !.status = status]])
                  \/ \E grants \in Grants :
                       Start(r, [Idle EXCEPT !.op = "setGrants", !.at = "writeUser",
                                    !.user = u, !.row = [Snapshot(u) EXCEPT !.grants = grants]])
                  \/ Start(r, [Idle EXCEPT !.op = "delete", !.at = "writeUser", !.user = u,
                                  !.row = [Snapshot(u) EXCEPT !.status = "gone"]])
    /\ UNCHANGED <<rows, lastId, history, raced>>

\* Mutant of Edited: must_change_password is written back with the rest.
EditedWhole(u, row) == [principal EXCEPT ![u] = row]

\* update_identity() leaves must_change_password alone.
Edited(u, row) ==
    [principal EXCEPT ![u] = [@ EXCEPT !.status = row.status, !.grants = row.grants]]

WriteAccount(r) ==
    LET q == request[r]  u == q.user IN
    /\ q.at = "writeUser"
    /\ End(r)
    /\ IF principal[u].status = "gone" THEN UNCHANGED <<principal, raced>>
       ELSE principal' = Edited(u, q.row) /\ Writes(r, <<"account", u>>)
    /\ UNCHANGED <<session, pat, enrollment, codes, begun, lastId, history>>

\* A change of one's own password, by the browser route alone while a change is forced,
\* and an administrator's reset of another's.
StartPassword(r) ==
    /\ \/ \E s \in Id :
            /\ UsableSession(s) /\ principal[session[s].user].mustChange
            /\ Start(r, [Idle EXCEPT !.op = "changePassword", !.at = "writePassword",
                             !.user = session[s].user, !.on = s, !.login = session[s].login])
       \/ \E u \in User : \E a \in Authorities(u) :
            /\ Calls(u, a)
            /\ Start(r, [Idle EXCEPT !.op = "changePassword", !.at = "writePassword",
                             !.user = u])
       \/ \E u \in User \ {Admin} :
            /\ AdminCalls /\ principal[u].status \in {"active", "disabled"}
            /\ Start(r, [Idle EXCEPT !.op = "setPassword", !.at = "writePassword",
                             !.user = u])
    /\ UNCHANGED <<rows, lastId, history, raced>>

\* The hook of the operation sets the flag in the same transaction; the browser route
\* then revokes the session it came with.
WritePassword(r) ==
    LET q == request[r]  u == q.user  forced == q.op = "setPassword" IN
    /\ q.at = "writePassword"
    /\ IF principal[u].status = "gone"
       THEN End(r) /\ UNCHANGED <<principal, reset, raced>>
       ELSE /\ principal' = [principal EXCEPT ![u].mustChange = forced]
            /\ reset' = IF forced THEN reset \cup {u} ELSE reset \ {u}
            /\ Writes(r, <<"password", u>>)
            /\ IF q.on # None THEN Go(r, "drop") ELSE End(r)
    /\ UNCHANGED <<session, pat, enrollment, codes, begun, lastId, ended, shown, accepted,
                   turnedAway>>

\* POST /api/users: the e-mail address is looked up, the password hashed, and the unique
\* constraint has the last word.
Register(r) ==
    /\ \/ /\ \E u \in User :
               /\ AdminCalls /\ principal[u].status = "absent"
               /\ Start(r, [Idle EXCEPT !.op = "register", !.at = "register", !.user = u])
          /\ UNCHANGED principal
       \/ /\ request[r].at = "register"
          /\ LET u == request[r].user IN
             principal' = IF principal[u].status = "absent"
                          THEN [principal EXCEPT ![u].status = "active"] ELSE principal
          /\ End(r) /\ UNCHANGED begun
    /\ UNCHANGED <<session, pat, enrollment, codes, lastId, history, raced>>

\* A request that is cancelled, or fails, or dies with the process, between two steps.
Abort(r) ==
    /\ request[r] # Idle
    /\ End(r)
    /\ UNCHANGED <<rows, begun, lastId, history, raced>>

IdNext ==
    \/ \E r \in Request :
         \/ Login(r) \/ CheckFactor(r) \/ SpendCode(r) \/ IssueSession(r)
         \/ IssueChallenge(r) \/ AnswerChallenge(r) \/ RefreshOrLogout(r)
         \/ VerifySession(r) \/ DropSession(r) \/ ExchangeOrImpersonate(r)
         \/ IssueToken(r) \/ WriteNewToken(r) \/ ChangeToken(r) \/ ReadToken(r)
         \/ WriteToken(r) \/ ChangeFactor(r) \/ ReadFactor(r) \/ Enroll(r)
         \/ ConfirmFactor(r) \/ DisableOrRegenerate(r) \/ EditAccount(r)
         \/ WriteAccount(r) \/ StartPassword(r) \/ WritePassword(r) \/ Register(r)
         \/ Abort(r)
    \/ \E p \in Id : TokenExpires(p)

IdSpec == IdInit /\ [][IdNext]_vars

---------------------------------------------------------------------------
(* Properties *)

Undisturbed(x) == x \notin raced

\* Of a login and all its refreshes at most one session is left, and none after a logout:
\* a session is revoked before its successor is issued (tokens.py, sessions.py).
OneSessionPerLogin ==
    \A i \in Id : Undisturbed(<<"login", i>>) =>
        LET live == {s \in Id : session[s] # None /\ session[s].login = i} IN
        Cardinality(live) \leq (IF <<"login", i>> \in ended THEN 0 ELSE 1)

\* Of a token and all its rotations at most one is not revoked, and none once it was
\* revoked: the successor is issued in the transaction that revokes.
OneTokenPerGrant ==
    \A i \in Id : Undisturbed(<<"token", i>>) =>
        LET live == {p \in Id : pat[p] # None /\ pat[p].origin = i /\ ~pat[p].revoked} IN
        Cardinality(live) \leq (IF <<"token", i>> \in ended THEN 0 ELSE 1)

\* A revoked token stays revoked, whatever an extension of it had read before.
RevokedStaysRevoked ==
    [][\A p \in Id : pat[p] # None /\ pat[p].revoked => pat'[p].revoked]_vars

\* The recovery codes stored are those the user was shown last, and only while MFA is
\* enrolled: beginning, disabling and regenerating delete the others (mfa.py).
CodesMatchEnrollment ==
    \A u \in User : Undisturbed(<<"factor", u>>) =>
        codes[u].unused \cup codes[u].used =
            IF enrollment[u] = None THEN {} ELSE Batch(shown[u])

\* A recovery code opens the account once.
CodesAreSpentOnce ==
    (\A u \in User : Undisturbed(<<"factor", u>>)) => \A c \in Code : accepted[c] \leq 1

\* After a reset by an administrator, and only then, the user has to choose a password;
\* no other edit of the account makes it forgotten (credentials.py, identities.py).
ResetForcesChange ==
    \A u \in User : Undisturbed(<<"password", u>>) => (principal[u].mustChange <=> u \in reset)

\* An edit that does not name a field leaves it, unless two edits of the account overlap.
Sets(op, field) == IF field = "grants" THEN op = "setGrants"
                   ELSE op \in {"setStatus", "delete", "register"}
EditsKeepTheRest ==
    [][\A u \in User, field \in {"status", "grants"} :
          Undisturbed(<<"account", u>>) /\ principal'[u][field] # principal[u][field] =>
             \E r \in Request : request[r].user = u /\ Sets(request[r].op, field)]_vars

\* "`view` cannot mutate; `manage` can CRUD/toggle" (docs/product/feature-matrix.md:35):
\* a stored level allows the actions it stands for.
LevelsKeepTheirMeaning ==
    \A u \in User : \A action \in Meaning(principal[u].grants) :
        Allows(principal[u].grants, action)

\* "Users can enroll, enable, challenge, recover, regenerate, disable, and audit TOTP MFA"
\* (docs/product/delivery-slices.yaml:214): a right answer to a challenge is taken.
ChallengesCanBeAnswered == turnedAway = {}
=============================================================================
