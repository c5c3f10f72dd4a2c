--------------------------- MODULE IdentityProofs ---------------------------
(* Theorems about Identity, for any users, scopes, grants and requests. *)
EXTENDS Identity, FiniteSetTheorems, TLAPS

-----------------------------------------------------------------------------
(* The shape of the requests, all that the proofs need of their types *)

\* A request has the fields of Idle, whatever is in them.
Shaped(q) ==
    q = [at |-> q.at, op |-> q.op, user |-> q.user, on |-> q.on, scopes |-> q.scopes,
         login |-> q.login, code |-> q.code, row |-> q.row]

RequestShape ==
    /\ request = [r \in Request |-> request[r]]
    /\ \A r \in Request : Shaped(request[r])

\* Request r takes a step, the others are as they were.
Moves(r) ==
    /\ request' = [p \in Request |-> request'[p]]
    /\ Shaped(request'[r])
    /\ \A p \in Request \ {r} : request'[p] = request[p]

LEMMA StartMoves ==
  ASSUME RequestShape, NEW r \in Request, NEW q, Shaped(q), Start(r, q)
  PROVE  Moves(r) /\ request'[r] = q
  BY DEF Start, RequestShape, Moves

LEMMA GoMoves ==
  ASSUME RequestShape, NEW r \in Request, NEW there, Go(r, there)
  PROVE  Moves(r) /\ request'[r].at = there
  <1>1. Shaped(request[r])
    BY DEF RequestShape
  <1>2. request'[r] = [request[r] EXCEPT !.at = there]
    BY DEF Go, RequestShape
  <1>3. request'[r] = [at |-> there, op |-> request[r].op, user |-> request[r].user,
                       on |-> request[r].on, scopes |-> request[r].scopes,
                       login |-> request[r].login, code |-> request[r].code,
                       row |-> request[r].row]
    BY <1>1, <1>2 DEF Shaped
  <1>4. Shaped(request'[r]) /\ request'[r].at = there
    BY <1>3 DEF Shaped
  <1> QED
    BY <1>4 DEF Go, RequestShape, Moves

LEMMA EndMoves ==
  ASSUME RequestShape, NEW r \in Request, End(r)
  PROVE  Moves(r) /\ request'[r] = Idle
  BY DEF End, RequestShape, Moves, Idle, Shaped

LEMMA MovesKeepShape ==
  ASSUME RequestShape, NEW r \in Request, Moves(r)
  PROVE  RequestShape'
  BY DEF RequestShape, Moves, Shaped

LEMMA WritesOnlyAdds ==
  ASSUME NEW r, NEW x, Writes(r, x)
  PROVE  raced \subseteq raced'
  BY DEF Writes

-----------------------------------------------------------------------------
(* Tokens *)

TokenSteps == {"newToken", "readToken", "writeToken"}

Live(i, p) == pat[p] # None /\ pat[p].origin = i /\ ~pat[p].revoked

\* What is known of a request about a token: the row it acts on exists, and until another
\* request writes to the grant is revoked if and only if it was when it was read.
TokenRequest(q) ==
    /\ q.at = "newToken" => q.user \in User /\ q.scopes \in Scopes
    /\ q.at \in {"readToken", "writeToken"} => q.on \in Id /\ pat[q.on] \in Pat
    /\ q.at = "writeToken" =>
         /\ q.row \in Pat /\ q.row.origin = pat[q.on].origin
         /\ q.op = "rotate" => ~q.row.revoked
         /\ Undisturbed(<<"token", q.row.origin>>) => q.row.revoked = pat[q.on].revoked

TokenTypes ==
    /\ RequestShape
    /\ pat \in [Id -> Optional(Pat)]
    /\ lastId \in Nat
    /\ \A r \in Request : TokenRequest(request[r])

\* Ids are not reused.
TokenIds ==
    /\ \A p \in Id : pat[p] # None => p \leq lastId /\ pat[p].origin \leq lastId
    /\ \A i \in Id : <<"token", i>> \in ended => i \leq lastId

AtMostOneLive ==
    \A i \in Id : Undisturbed(<<"token", i>>) =>
        /\ \A p, o \in Id : Live(i, p) /\ Live(i, o) => p = o
        /\ <<"token", i>> \in ended => \A p \in Id : ~Live(i, p)

TokenInv == TokenTypes /\ TokenIds /\ AtMostOneLive

LEMMA InitTokenInv ==
  ASSUME IdInit
  PROVE  TokenInv
  <1>1. PICK given \in {{}, User \ {Admin}} :
          /\ pat = [i \in Id |->
                IF i = 1 /\ given # {}
                THEN [user |-> CHOOSE u \in given : TRUE, origin |-> 1, scopes |-> {},
                      revoked |-> FALSE, expired |-> FALSE]
                ELSE None]
          /\ request = [r \in Request |-> Idle] /\ lastId = 2 /\ ended = {}
    BY DEF IdInit
  <1>2. 1 \in Id /\ {} \in Scopes
    BY IdentityAssumption DEF Id
  <1>3. given # {} => (CHOOSE u \in given : TRUE) \in User
    OBVIOUS
  <1>4. pat \in [Id -> Optional(Pat)]
    BY <1>1, <1>2, <1>3 DEF Optional, Pat
  <1>5. RequestShape /\ \A r \in Request : TokenRequest(request[r])
    BY <1>1 DEF RequestShape, Shaped, Idle, TokenRequest
  <1>6. TokenIds
    BY <1>1 DEF TokenIds
  <1>7. AtMostOneLive
    BY <1>1 DEF AtMostOneLive, Live
  <1> QED
    BY <1>1, <1>4, <1>5, <1>6, <1>7 DEF TokenInv, TokenTypes

\* A step that touches no token.
Quiet(r) ==
    /\ Moves(r) /\ UNCHANGED pat
    /\ lastId' \in {lastId, NewId}
    /\ raced \subseteq raced'
    /\ \A i \in Id : <<"token", i>> \in ended' <=> <<"token", i>> \in ended

LEMMA QuietTokenInv ==
  ASSUME TokenInv, NEW r \in Request, Quiet(r), TokenRequest(request'[r])
  PROVE  TokenInv'
  <1>1. RequestShape'
    BY MovesKeepShape DEF TokenInv, TokenTypes, Quiet
  <1>2. ASSUME NEW p \in Request
        PROVE  TokenRequest(request[p])'
    <2>1. TokenRequest(request'[p])
      BY DEF Quiet, Moves, TokenInv, TokenTypes
    <2> QED
      BY <2>1 DEF TokenRequest, Quiet, Undisturbed
  <1>3. TokenTypes'
    BY <1>1, <1>2 DEF TokenInv, TokenTypes, Quiet, NewId
  <1>4. TokenIds'
    <2>1. lastId \in Nat /\ lastId' \in Nat /\ lastId \leq lastId'
      BY DEF TokenInv, TokenTypes, Quiet, NewId
    <2>2. \A p \in Id : pat[p] # None => pat[p].origin \in Nat
      BY IdentityAssumption DEF TokenInv, TokenTypes, Optional, Pat, Id
    <2> QED
      BY <2>1, <2>2, IdentityAssumption DEF TokenInv, TokenIds, Quiet, Id
  <1>5. AtMostOneLive'
    BY DEF TokenInv, AtMostOneLive, Live, Quiet, Undisturbed
  <1> QED
    BY <1>3, <1>4, <1>5 DEF TokenInv

\* A token that is written anew begins a grant of its own.
LEMMA NewTokenInv ==
  ASSUME TokenInv, NEW r \in Request, WriteNewToken(r)
  PROVE  TokenInv'
  <1> DEFINE q == request[r]
             new == [user |-> q.user, origin |-> NewId, scopes |-> q.scopes,
                     revoked |-> FALSE, expired |-> FALSE]
  <1>1. /\ lastId \in Nat /\ lastId' = lastId + 1 /\ NewId = lastId + 1
        /\ Moves(r) /\ request'[r] = Idle /\ UNCHANGED <<raced, ended>>
    BY EndMoves DEF TokenInv, TokenTypes, WriteNewToken, HandOut, NewId, history
  <1>2. q.user \in User /\ q.scopes \in Scopes
    BY DEF WriteNewToken, TokenInv, TokenTypes, TokenRequest
  <1>3. pat \in [Id -> Optional(Pat)] /\ pat' = [pat EXCEPT ![NewId] = new]
    BY DEF WriteNewToken, TokenInv, TokenTypes
  <1>4. \A p \in Id : pat'[p] = IF p = NewId THEN new ELSE pat[p]
    BY <1>3
  <1>5. NewId \in Id => new \in Pat
    BY <1>2 DEF Pat
  <1> HIDE DEF new, q
  <1>6. pat' \in [Id -> Optional(Pat)]
    BY <1>3, <1>5 DEF Optional
  <1>7. \A p \in Id : pat[p] # None => p \leq lastId /\ pat[p].origin \leq lastId
                                       /\ pat[p].origin \in Id
    BY <1>3 DEF TokenInv, TokenIds, Optional, Pat
  <1>8. Id \subseteq Nat /\ None \notin Pat
    BY IdentityAssumption, RowAssumption DEF Id
  <1>9. new.origin = NewId /\ ~new.revoked
    BY DEF new
  <1>10. ASSUME NEW p \in Request
         PROVE  TokenRequest(request[p])'
    <2>1. TokenRequest(request'[p]) /\ request'[p] \in {Idle, request[p]}
      BY <1>1 DEF Moves, TokenInv, TokenTypes, TokenRequest, Idle
    <2>2. request'[p].at \in {"readToken", "writeToken"} =>
            request'[p].on \in Id /\ request'[p].on # NewId
      <3>1. ASSUME NEW o \in Id, pat[o] \in Pat
            PROVE  o # NewId
        BY <3>1, <1>1, <1>7, <1>8
      <3> QED
        BY <2>1, <3>1 DEF TokenRequest
    <2> QED
      BY <2>1, <2>2, <1>1, <1>4 DEF TokenRequest, Undisturbed
  <1>11. TokenTypes'
    BY <1>1, <1>6, <1>10, MovesKeepShape DEF TokenInv, TokenTypes
  <1>12. TokenIds'
    <2>1. \A p \in Id : pat'[p] # None => p \leq lastId' /\ pat'[p].origin \leq lastId'
      <3>1. ASSUME NEW n \in Nat, n \leq lastId
            PROVE  n \leq lastId'
        BY <3>1, <1>1
      <3>2. ASSUME NEW p \in Id, p # NewId, pat'[p] # None
            PROVE  p \leq lastId' /\ pat'[p].origin \leq lastId'
        BY <3>1, <3>2, <1>4, <1>7, <1>8
      <3>3. NewId \leq lastId'
        BY <1>1
      <3> QED
        BY <3>2, <3>3, <1>4, <1>9
    <2>2. \A i \in Id : <<"token", i>> \in ended => i \leq lastId'
      BY <1>1, <1>8 DEF TokenInv, TokenIds
    <2> QED
      BY <2>1, <2>2, <1>1 DEF TokenIds
  <1>13. AtMostOneLive'
    <2> SUFFICES ASSUME NEW i \in Id, Undisturbed(<<"token", i>>)
                 PROVE  /\ \A p, o \in Id : Live(i, p)' /\ Live(i, o)' => p = o
                        /\ <<"token", i>> \in ended => \A p \in Id : ~Live(i, p)'
      BY <1>1 DEF AtMostOneLive, Undisturbed
    <2>1. CASE i = NewId
      <3>1. \A p \in Id \ {NewId} : ~Live(i, p)'
        BY <2>1, <1>1, <1>4, <1>7, <1>8 DEF Live
      <3>2. <<"token", i>> \notin ended
        BY <2>1, <1>1, <1>8 DEF TokenInv, TokenIds
      <3> QED
        BY <3>1, <3>2
    <2>2. CASE i # NewId
      <3>1. \A p \in Id : Live(i, p)' <=> p # NewId /\ Live(i, p)
        BY <2>2, <1>1, <1>4, <1>9 DEF Live
      <3> QED
        BY <3>1 DEF TokenInv, AtMostOneLive
    <2> QED
      BY <2>1, <2>2
  <1> QED
    BY <1>11, <1>12, <1>13 DEF TokenInv

\* An expiry that is reached or put off leaves what the grants are.
LEMMA ExpiryTokenInv ==
  ASSUME TokenInv, NEW p \in Id, pat[p] \in Pat, NEW b \in BOOLEAN,
         pat' = [pat EXCEPT ![p].expired = b], UNCHANGED <<lastId, raced, ended>>,
         RequestShape', \A r \in Request : request'[r] \in {Idle, request[r]}
  PROVE  TokenInv'
  <1> DEFINE new == [pat[p] EXCEPT !.expired = b]
  <1>1. /\ new \in Pat /\ new.origin = pat[p].origin /\ new.revoked = pat[p].revoked
        /\ new.user = pat[p].user /\ new.scopes = pat[p].scopes
    BY DEF Pat
  <1>2. pat \in [Id -> Optional(Pat)] /\ pat' = [pat EXCEPT ![p] = new]
    BY DEF TokenInv, TokenTypes
  <1> HIDE DEF new
  <1>3. pat' \in [Id -> Optional(Pat)]
    BY <1>1, <1>2 DEF Optional
  <1>4. \A o \in Id : pat'[o] = IF o = p THEN new ELSE pat[o]
    BY <1>2
  <1>5. None \notin Pat
    BY RowAssumption
  <1>6. ASSUME NEW r \in Request
        PROVE  TokenRequest(request[r])'
    <2>1. TokenRequest(request'[r])
      BY DEF TokenInv, TokenTypes, TokenRequest, Idle
    <2> QED
      BY <2>1, <1>1, <1>4 DEF TokenRequest, Undisturbed
  <1>7. TokenIds'
    BY <1>1, <1>4, <1>5 DEF TokenInv, TokenIds
  <1>8. \A i, o \in Id : Live(i, o)' <=> Live(i, o)
    BY <1>1, <1>4, <1>5 DEF Live
  <1>9. AtMostOneLive'
    BY <1>8 DEF TokenInv, AtMostOneLive, Undisturbed
  <1> QED
    BY <1>3, <1>6, <1>7, <1>9 DEF TokenInv, TokenTypes

\* What the write of a token starts from.
LEMMA WriteTokenStarts ==
  ASSUME TokenInv, NEW r \in Request, WriteToken(r)
  PROVE  LET q == request[r] IN
         /\ q.at = "writeToken" /\ q.on \in Id
         /\ pat[q.on] \in Pat /\ q.row \in Pat /\ q.row.origin = pat[q.on].origin
         /\ q.op = "rotate" => ~q.row.revoked
         /\ Undisturbed(<<"token", q.row.origin>>) => q.row.revoked = pat[q.on].revoked
         /\ Moves(r) /\ request'[r] = Idle /\ RequestShape'
         /\ \A p \in Request : request'[p] \in {Idle, request[p]}
  <1>1. RequestShape /\ TokenRequest(request[r])
    BY DEF TokenInv, TokenTypes
  <1>2. End(r) /\ request[r].at = "writeToken"
    BY DEF WriteToken
  <1>3. Moves(r) /\ request'[r] = Idle /\ RequestShape'
    BY <1>1, <1>2, EndMoves, MovesKeepShape
  <1> QED
    BY <1>1, <1>2, <1>3 DEF TokenRequest, Moves

\* After a write to a grant, whoever still holds one of its rows is warned.
LEMMA WrittenGrantIsRaced ==
  ASSUME NEW r \in Request, NEW i, Writes(r, <<"token", i>>),
         NEW p \in Request \ {r}, request[p].at = "writeToken", request[p].row.origin = i
  PROVE  <<"token", i>> \in raced'
  BY DEF Writes, Held

\* The requests after a write that revokes row p of a grant, and may add a row.
LEMMA RevokedRowRequests ==
  ASSUME TokenInv, NEW r \in Request, NEW p \in Id, pat[p] \in Pat,
         Writes(r, <<"token", pat[p].origin>>), Moves(r), request'[r] = Idle,
         pat'[p].revoked = TRUE, pat'[p].origin = pat[p].origin, pat'[p] \in Pat,
         \A o \in Id : o # p /\ o # NewId => pat'[o] = pat[o]
  PROVE  \A q \in Request : TokenRequest(request[q])'
  <1> SUFFICES ASSUME NEW q \in Request
               PROVE  TokenRequest(request[q])'
    OBVIOUS
  <1>1. CASE q = r
    BY <1>1 DEF TokenRequest, Idle
  <1>2. CASE q # r
    <2> DEFINE was == request[q]
    <2>1. request'[q] = was /\ TokenRequest(was)
      BY <1>2 DEF Moves, TokenInv, TokenTypes
    <2>2. \A o \in Id : pat[o] \in Pat => o # NewId
      BY IdentityAssumption, RowAssumption DEF TokenInv, TokenTypes, TokenIds, NewId, Id
    <2>3. was.at = "writeToken" /\ was.row.origin = pat[p].origin =>
            <<"token", pat[p].origin>> \in raced'
      BY <1>2, WrittenGrantIsRaced
    <2>4. raced \subseteq raced'
      BY WritesOnlyAdds
    <2> HIDE DEF was
    <2>5. was.at \in {"readToken", "writeToken"} =>
            /\ was.on \in Id /\ pat'[was.on] \in Pat
            /\ pat'[was.on].origin = pat[was.on].origin
            /\ was.on # p => pat'[was.on] = pat[was.on]
      BY <2>1, <2>2 DEF TokenRequest
    <2>6. was.at = "writeToken" /\ <<"token", was.row.origin>> \notin raced' =>
            was.row.revoked = pat'[was.on].revoked
      BY <2>1, <2>3, <2>4, <2>5 DEF TokenRequest, Undisturbed
    <2> QED
      BY <2>1, <2>5, <2>6 DEF TokenRequest, Undisturbed
  <1> QED
    BY <1>1, <1>2

LEMMA RevokeTokenInv ==
  ASSUME TokenInv, NEW r \in Request, WriteToken(r), request[r].op = "revoke"
  PROVE  TokenInv'
  <1> DEFINE q == request[r]
             p == q.on
             i == pat[p].origin
             new == [pat[p] EXCEPT !.revoked = TRUE]
  <1>1. /\ p \in Id /\ pat[p] \in Pat /\ q.row.origin = i
        /\ Undisturbed(<<"token", i>>) => q.row.revoked = pat[p].revoked
        /\ Moves(r) /\ request'[r] = Idle /\ RequestShape'
    BY WriteTokenStarts
  <1>2. /\ pat' = [pat EXCEPT ![p].revoked = TRUE] /\ lastId' = lastId
        /\ Writes(r, <<"token", i>>)
        /\ ended' = IF q.row.revoked THEN ended ELSE ended \cup {<<"token", i>>}
    BY <1>1 DEF WriteToken
  <1>3. new \in Pat /\ new.revoked = TRUE /\ new.origin = i
    BY <1>1 DEF Pat
  <1>4. pat \in [Id -> Optional(Pat)] /\ pat' = [pat EXCEPT ![p] = new]
    BY <1>2 DEF TokenInv, TokenTypes
  <1> HIDE DEF new
  <1>5. /\ pat' \in [Id -> Optional(Pat)]
        /\ \A o \in Id : pat'[o] = IF o = p THEN new ELSE pat[o]
    BY <1>1, <1>3, <1>4 DEF Optional
  <1>6. None \notin Pat /\ raced \subseteq raced'
    BY <1>2, RowAssumption, WritesOnlyAdds
  <1> HIDE DEF p, i, q
  <1>7. \A o \in Request : TokenRequest(request[o])'
    BY <1>1, <1>2, <1>3, <1>5, RevokedRowRequests DEF i
  <1>8. TokenTypes'
    BY <1>1, <1>2, <1>5, <1>7 DEF TokenInv, TokenTypes
  <1>9. pat[p].origin = i /\ i \leq lastId
    BY <1>1, <1>6 DEF TokenInv, TokenIds, i
  <1>10. TokenIds'
    BY <1>1, <1>2, <1>3, <1>5, <1>6, <1>9 DEF TokenInv, TokenIds
  <1>11. \A j, o \in Id : Live(j, o)' <=> o # p /\ Live(j, o)
    BY <1>3, <1>5, <1>6 DEF Live
  <1>12. \A j \in Id : <<"token", j>> \in ended' =>
           <<"token", j>> \in ended \/ (j = i /\ ~q.row.revoked)
    BY <1>2
  <1>13. AtMostOneLive'
    <2> SUFFICES ASSUME NEW j \in Id, <<"token", j>> \notin raced'
                 PROVE  /\ \A o, m \in Id : Live(j, o)' /\ Live(j, m)' => o = m
                        /\ <<"token", j>> \in ended' => \A o \in Id : ~Live(j, o)'
      BY DEF AtMostOneLive, Undisturbed
    <2>1. Undisturbed(<<"token", j>>)
      BY <1>6 DEF Undisturbed
    <2>2. /\ \A o, m \in Id : Live(j, o) /\ Live(j, m) => o = m
          /\ <<"token", j>> \in ended => \A o \in Id : ~Live(j, o)
      BY <2>1 DEF TokenInv, AtMostOneLive
    <2>3. j = i /\ ~q.row.revoked => Live(j, p)
      BY <2>1, <1>1, <1>6, <1>9 DEF Live
    <2> QED
      BY <2>2, <2>3, <1>1, <1>11, <1>12
  <1> QED
    BY <1>8, <1>10, <1>13 DEF TokenInv

LEMMA RotateTokenInv ==
  ASSUME TokenInv, NEW r \in Request, WriteToken(r), request[r].op = "rotate"
  PROVE  TokenInv'
  <1> DEFINE q == request[r]
             p == q.on
             i == pat[p].origin
             old == [pat[p] EXCEPT !.revoked = TRUE]
             new == [q.row EXCEPT !.revoked = FALSE]
  <1>1. /\ p \in Id /\ pat[p] \in Pat /\ q.row \in Pat /\ q.row.origin = i
        /\ ~q.row.revoked
        /\ Undisturbed(<<"token", i>>) => q.row.revoked = pat[p].revoked
        /\ Moves(r) /\ request'[r] = Idle /\ RequestShape'
    BY WriteTokenStarts
  <1>2. /\ pat' = [pat EXCEPT ![p].revoked = TRUE, ![NewId] = new]
        /\ lastId' = NewId /\ ended' = ended /\ Writes(r, <<"token", i>>)
    BY <1>1 DEF WriteToken, HandOut
  <1>3. /\ old \in Pat /\ old.revoked = TRUE /\ old.origin = i
        /\ new \in Pat /\ new.revoked = FALSE /\ new.origin = i
    BY <1>1 DEF Pat
  <1>4. None \notin Pat /\ raced \subseteq raced' /\ Id \subseteq Nat
    BY <1>2, RowAssumption, IdentityAssumption, WritesOnlyAdds DEF Id
  <1>5. /\ lastId \in Nat /\ NewId = lastId + 1 /\ p # NewId /\ p \leq lastId
        /\ i \leq lastId /\ i \in Id
    <2>1. lastId \in Nat /\ NewId = lastId + 1 /\ pat[p] # None
      BY <1>1, <1>4 DEF TokenInv, TokenTypes, NewId
    <2>2. p \leq lastId /\ i \leq lastId
      BY <1>1, <2>1 DEF TokenInv, TokenIds
    <2>3. i \in Id /\ p \in Nat
      BY <1>1, <1>4 DEF Pat
    <2> HIDE DEF p, i
    <2> QED
      BY <2>1, <2>2, <2>3
  <1>6. pat \in [Id -> Optional(Pat)]
        /\ \A o \in Id : pat'[o] = IF o = NewId THEN new ELSE IF o = p THEN old ELSE pat[o]
    BY <1>2, <1>5 DEF TokenInv, TokenTypes
  <1>7. pat' = [o \in Id |-> pat'[o]]
    BY <1>2, <1>6
  <1> HIDE DEF old, new, p, i, q
  <1>8. pat' \in [Id -> Optional(Pat)]
    BY <1>3, <1>6, <1>7 DEF Optional
  <1>9. \A o \in Request : TokenRequest(request[o])'
    <2>1. pat'[p] = old /\ \A o \in Id : o # p /\ o # NewId => pat'[o] = pat[o]
      BY <1>1, <1>5, <1>6
    <2> QED
      BY <1>1, <1>2, <1>3, <2>1, RevokedRowRequests DEF i
  <1>10. TokenTypes'
    <2>1. lastId' \in Nat
      BY <1>2, <1>5
    <2> QED
      BY <1>1, <1>8, <1>9, <2>1 DEF TokenInv, TokenTypes
  <1>11. TokenIds'
    <2>1. ASSUME NEW n \in Nat, n \leq lastId
          PROVE  n \leq lastId'
      BY <2>1, <1>2, <1>5
    <2>2. ASSUME NEW o \in Id, pat'[o] # None
          PROVE  o \leq lastId' /\ pat'[o].origin \leq lastId'
      <3>1. CASE o = NewId
        BY <3>1, <2>1, <1>2, <1>3, <1>4, <1>5, <1>6
      <3>2. CASE o # NewId
        <4>1. o \in Nat /\ o \leq lastId /\ pat'[o].origin \in Nat
              /\ pat'[o].origin \leq lastId
          BY <3>2, <2>2, <1>3, <1>4, <1>5, <1>6 DEF TokenInv, TokenIds, Optional, Pat
        <4> QED
          BY <4>1, <2>1
      <3> QED
        BY <3>1, <3>2
    <2>3. \A j \in Id : <<"token", j>> \in ended' => j \leq lastId'
      BY <2>1, <1>2, <1>4 DEF TokenInv, TokenIds
    <2> QED
      BY <2>2, <2>3 DEF TokenIds
  <1>12. \A j, o \in Id :
           Live(j, o)' <=> IF o = NewId THEN j = i ELSE o # p /\ Live(j, o)
    BY <1>3, <1>4, <1>6 DEF Live
  <1>13. AtMostOneLive'
    <2> SUFFICES ASSUME NEW j \in Id, <<"token", j>> \notin raced'
                 PROVE  /\ \A o, m \in Id : Live(j, o)' /\ Live(j, m)' => o = m
                        /\ <<"token", j>> \in ended => \A o \in Id : ~Live(j, o)'
      BY <1>2 DEF AtMostOneLive, Undisturbed
    <2>1. Undisturbed(<<"token", j>>)
      BY <1>4 DEF Undisturbed
    <2>2. /\ \A o, m \in Id : Live(j, o) /\ Live(j, m) => o = m
          /\ <<"token", j>> \in ended => \A o \in Id : ~Live(j, o)
      BY <2>1 DEF TokenInv, AtMostOneLive
    <2>3. j = i => Live(j, p)
      BY <2>1, <1>1, <1>4 DEF Live, i
    <2> QED
      BY <2>2, <2>3, <1>1, <1>12
  <1> QED
    BY <1>10, <1>11, <1>13 DEF TokenInv

\* A request that begins with other business than a token.
LEMMA FreshIsQuiet ==
  ASSUME TokenInv, NEW r \in Request, NEW q, Start(r, q), Shaped(q),
         q.at \notin {"readToken", "writeToken"},
         q.at = "newToken" => q.user \in User /\ q.scopes \in Scopes,
         UNCHANGED <<pat, lastId, raced, ended>>
  PROVE  TokenInv'
  <1>1. Moves(r) /\ request'[r] = q
    BY StartMoves DEF TokenInv, TokenTypes
  <1>2. TokenRequest(q)
    BY DEF TokenRequest
  <1> QED
    BY <1>1, <1>2, QuietTokenInv DEF Quiet

\* The steps of a request that is about something else.
LEMMA OtherStepQuiet ==
  ASSUME TokenInv, NEW r \in Request, Moves(r), request'[r].at \notin TokenSteps,
         UNCHANGED pat, lastId' \in {lastId, NewId}, raced \subseteq raced',
         \A i : <<"token", i>> \in ended' <=> <<"token", i>> \in ended
  PROVE  TokenInv'
  <1>1. TokenRequest(request'[r])
    BY DEF TokenRequest, TokenSteps
  <1> QED
    BY <1>1, QuietTokenInv DEF Quiet

LEMMA BeginsTokenInv ==
  ASSUME TokenInv, NEW r \in Request,
         \/ Login(r) \/ AnswerChallenge(r) \/ RefreshOrLogout(r)
         \/ ExchangeOrImpersonate(r) \/ ChangeFactor(r) \/ EditAccount(r)
         \/ StartPassword(r) \/ IssueToken(r)
  PROVE  TokenInv'
  <1>1. UNCHANGED <<pat, lastId, raced, ended>>
    BY DEF Login, AnswerChallenge, RefreshOrLogout, ExchangeOrImpersonate, ChangeFactor,
           EditAccount, StartPassword, IssueToken, rows, history
  <1>2. CASE Login(r)
    <2>1. PICK q, u, op :
            /\ q = [Idle EXCEPT !.op = op, !.at = "factor", !.user = u]
            /\ Start(r, q)
      BY <1>2 DEF Login
    <2>2. Shaped(q) /\ q.at = "factor"
      BY <2>1 DEF Idle, Shaped
    <2> QED
      BY <1>1, <2>1, <2>2, FreshIsQuiet
  <1>3. CASE AnswerChallenge(r)
    <2>1. Start(r, Idle) /\ Shaped(Idle) /\ Idle.at = "idle"
      BY <1>3 DEF AnswerChallenge, Idle, Shaped
    <2> QED
      BY <2>1, <1>1, FreshIsQuiet
  <1>4. CASE RefreshOrLogout(r)
    <2>1. PICK q, op, s :
            /\ q = [Idle EXCEPT !.op = op,
                       !.at = IF op = "refresh" THEN "verify" ELSE "drop",
                       !.user = session[s].user, !.on = s, !.login = session[s].login]
            /\ Start(r, q)
      BY <1>4 DEF RefreshOrLogout
    <2>2. Shaped(q) /\ q.at \in {"verify", "drop"}
      BY <2>1 DEF Idle, Shaped
    <2> QED
      BY <1>1, <2>1, <2>2, FreshIsQuiet
  <1>5. CASE ExchangeOrImpersonate(r)
    <2>1. CASE \E p : Start(r, [Idle EXCEPT !.op = "exchange", !.at = "session",
                     !.user = pat[p].user, !.scopes = pat[p].scopes])
      <3>1. PICK q, p :
              /\ q = [Idle EXCEPT !.op = "exchange", !.at = "session",
                     !.user = pat[p].user, !.scopes = pat[p].scopes]
              /\ Start(r, q)
        BY <2>1
      <3>2. Shaped(q) /\ q.at = "session"
        BY <3>1 DEF Idle, Shaped
      <3> QED
        BY <1>1, <3>1, <3>2, FreshIsQuiet
    <2>2. CASE \E u : Start(r, [Idle EXCEPT !.op = "impersonate", !.at = "session", !.user = u])
      <3>1. PICK q, u :
              /\ q = [Idle EXCEPT !.op = "impersonate", !.at = "session", !.user = u]
              /\ Start(r, q)
        BY <2>2
      <3>2. Shaped(q) /\ q.at = "session"
        BY <3>1 DEF Idle, Shaped
      <3> QED
        BY <1>1, <3>1, <3>2, FreshIsQuiet
    <2> QED
      BY <1>5, <2>1, <2>2 DEF ExchangeOrImpersonate
  <1>6. CASE ChangeFactor(r)
    <2>1. PICK q, u, op :
            /\ q = [Idle EXCEPT !.op = op, !.at = "readFactor", !.user = u]
            /\ Start(r, q)
      BY <1>6 DEF ChangeFactor
    <2>2. Shaped(q) /\ q.at = "readFactor"
      BY <2>1 DEF Idle, Shaped
    <2> QED
      BY <1>1, <2>1, <2>2, FreshIsQuiet
  <1>7. CASE EditAccount(r)
    <2>1. PICK q, op, u, row :
            /\ q = [Idle EXCEPT !.op = op, !.at = "writeUser", !.user = u, !.row = row]
            /\ Start(r, q)
      BY <1>7 DEF EditAccount
    <2>2. Shaped(q) /\ q.at = "writeUser"
      BY <2>1 DEF Idle, Shaped
    <2> QED
      BY <1>1, <2>1, <2>2, FreshIsQuiet
  <1>8. CASE StartPassword(r)
    <2>1. CASE \E s : Start(r, [Idle EXCEPT !.op = "changePassword", !.at = "writePassword",
                     !.user = session[s].user, !.on = s, !.login = session[s].login])
      <3>1. PICK q, s :
              /\ q = [Idle EXCEPT !.op = "changePassword", !.at = "writePassword",
                     !.user = session[s].user, !.on = s, !.login = session[s].login]
              /\ Start(r, q)
        BY <2>1
      <3>2. Shaped(q) /\ q.at = "writePassword"
        BY <3>1 DEF Idle, Shaped
      <3> QED
        BY <1>1, <3>1, <3>2, FreshIsQuiet
    <2>2. CASE \E u : Start(r, [Idle EXCEPT !.op = "changePassword", !.at = "writePassword", !.user = u])
      <3>1. PICK q, u :
              /\ q = [Idle EXCEPT !.op = "changePassword", !.at = "writePassword", !.user = u]
              /\ Start(r, q)
        BY <2>2
      <3>2. Shaped(q) /\ q.at = "writePassword"
        BY <3>1 DEF Idle, Shaped
      <3> QED
        BY <1>1, <3>1, <3>2, FreshIsQuiet
    <2>3. CASE \E u : Start(r, [Idle EXCEPT !.op = "setPassword", !.at = "writePassword", !.user = u])
      <3>1. PICK q, u :
              /\ q = [Idle EXCEPT !.op = "setPassword", !.at = "writePassword", !.user = u]
              /\ Start(r, q)
        BY <2>3
      <3>2. Shaped(q) /\ q.at = "writePassword"
        BY <3>1 DEF Idle, Shaped
      <3> QED
        BY <1>1, <3>1, <3>2, FreshIsQuiet
    <2> QED
      BY <1>8, <2>1, <2>2, <2>3 DEF StartPassword
  <1>9. CASE IssueToken(r)
    <2>1. PICK owner \in User, wanted \in Scopes :
            Start(r, [Idle EXCEPT !.op = "issue", !.at = "newToken", !.user = owner,
                           !.scopes = wanted])
      BY <1>9 DEF IssueToken
    <2>2. PICK q :
            /\ q = [Idle EXCEPT !.op = "issue", !.at = "newToken", !.user = owner,
                                !.scopes = wanted]
            /\ Start(r, q)
      BY <2>1
    <2>3. Shaped(q) /\ q.at = "newToken" /\ q.user = owner /\ q.scopes = wanted
      BY <2>2 DEF Idle, Shaped
    <2> QED
      BY <1>1, <2>2, <2>3, FreshIsQuiet
  <1> QED
    BY <1>2, <1>3, <1>4, <1>5, <1>6, <1>7, <1>8, <1>9

\* The row a request is about exists, and what it read of it is what it was.
LEMMA ReadsTokenInv ==
  ASSUME TokenInv, NEW r \in Request, ChangeToken(r) \/ ReadToken(r)
  PROVE  TokenInv'
  <1>1. UNCHANGED <<pat, lastId, raced, ended>> /\ RequestShape
    BY DEF ChangeToken, ReadToken, rows, history, TokenInv, TokenTypes
  <1>2. CASE ChangeToken(r)
    <2>1. PICK q, p, op :
            /\ p \in Id /\ pat[p] # None
            /\ q = [Idle EXCEPT !.op = op, !.at = "readToken", !.user = pat[p].user,
                                !.on = p]
            /\ Start(r, q)
      BY <1>2 DEF ChangeToken
    <2>2. Shaped(q) /\ q.at = "readToken" /\ q.on = p
      BY <2>1 DEF Idle, Shaped
    <2>3. pat[p] \in Pat
      BY <2>1 DEF TokenInv, TokenTypes, Optional
    <2>4. Moves(r) /\ request'[r] = q
      BY <1>1, <2>1, <2>2, StartMoves
    <2>5. TokenRequest(q)
      BY <2>1, <2>2, <2>3 DEF TokenRequest
    <2> QED
      BY <1>1, <2>4, <2>5, QuietTokenInv DEF Quiet
  <1>3. CASE ReadToken(r)
    <2> DEFINE was == request[r]
               token == pat[was.on]
    <2>1. /\ was.at = "readToken" /\ Shaped(was) /\ TokenRequest(was)
          /\ token \in Pat /\ was.on \in Id
      BY <1>3 DEF ReadToken, TokenInv, TokenTypes, RequestShape, TokenRequest
    <2>2. CASE TokenStands(was.op, token)
      <3>1. PICK q : q = [was EXCEPT !.at = "writeToken", !.row = token]
        OBVIOUS
      <3>2. request' = [request EXCEPT ![r] = q] /\ request'[r] = q
        BY <1>1, <1>3, <2>2, <3>1 DEF ReadToken, RequestShape
      <3> HIDE DEF token, was
      <3>3. /\ Shaped(q) /\ q.at = "writeToken" /\ q.op = was.op /\ q.on = was.on
            /\ q.row = token
        <4> DEFINE half == [was EXCEPT !.at = "writeToken"]
        <4>1. half = [at |-> "writeToken", op |-> was.op, user |-> was.user,
                      on |-> was.on, scopes |-> was.scopes, login |-> was.login,
                      code |-> was.code, row |-> was.row]
          BY <2>1 DEF Shaped
        <4>2. q = [half EXCEPT !.row = token]
          BY <3>1
        <4> HIDE DEF half
        <4> QED
          BY <4>1, <4>2 DEF Shaped
      <3>4. Moves(r)
        BY <3>2, <3>3, <1>1 DEF Moves, RequestShape
      <3>5. TokenRequest(q)
        BY <2>1, <2>2, <3>3 DEF TokenRequest, TokenStands, token
      <3> QED
        BY <1>1, <3>2, <3>4, <3>5, QuietTokenInv DEF Quiet
    <2>3. CASE ~TokenStands(was.op, token)
      <3>1. Moves(r) /\ request'[r] = Idle
        BY <1>1, <1>3, <2>3, EndMoves DEF ReadToken
      <3> QED
        BY <1>1, <3>1, OtherStepQuiet DEF Idle, TokenSteps
    <2> QED
      BY <2>2, <2>3
  <1> QED
    BY <1>2, <1>3

LEMMA EditedShape ==
  ASSUME NEW q, Shaped(q), NEW v
  PROVE  /\ Shaped([q EXCEPT !.on = v]) /\ [q EXCEPT !.on = v].at = q.at
         /\ Shaped([q EXCEPT !.scopes = v]) /\ [q EXCEPT !.scopes = v].at = q.at
         /\ Shaped([q EXCEPT !.login = v]) /\ [q EXCEPT !.login = v].at = q.at
         /\ Shaped([q EXCEPT !.code = v]) /\ [q EXCEPT !.code = v].at = q.at
         /\ Shaped([q EXCEPT !.row = v]) /\ [q EXCEPT !.row = v].at = q.at
  <1>1. Shaped([q EXCEPT !.on = v]) /\ [q EXCEPT !.on = v].at = q.at
    BY DEF Shaped
  <1>2. Shaped([q EXCEPT !.scopes = v]) /\ [q EXCEPT !.scopes = v].at = q.at
    BY DEF Shaped
  <1>3. Shaped([q EXCEPT !.login = v]) /\ [q EXCEPT !.login = v].at = q.at
    BY DEF Shaped
  <1>4. Shaped([q EXCEPT !.code = v]) /\ [q EXCEPT !.code = v].at = q.at
    BY DEF Shaped
  <1>5. Shaped([q EXCEPT !.row = v]) /\ [q EXCEPT !.row = v].at = q.at
    BY DEF Shaped
  <1> QED
    BY <1>1, <1>2, <1>3, <1>4, <1>5

LEMMA EditMoves ==
  ASSUME RequestShape, NEW r \in Request, NEW q, Shaped(q),
         request' = [request EXCEPT ![r] = q]
  PROVE  Moves(r) /\ request'[r] = q
  BY DEF RequestShape, Moves

\* The requests that are about sessions and second factors.
LEMMA SessionStepMoves ==
  ASSUME RequestShape, NEW r \in Request,
         CheckFactor(r) \/ IssueSession(r) \/ VerifySession(r) \/ ReadFactor(r)
  PROVE  Moves(r) /\ request'[r].at \notin TokenSteps
  <1> DEFINE was == request[r]
  <1>1. Shaped(was)
    BY DEF RequestShape
  <1> HIDE DEF was
  <1>2. ASSUME NEW there, there \notin TokenSteps, Go(r, there)
        PROVE  Moves(r) /\ request'[r].at \notin TokenSteps
    BY <1>2, GoMoves
  <1>3. ASSUME End(r)
        PROVE  Moves(r) /\ request'[r].at \notin TokenSteps
    BY <1>3, EndMoves DEF Idle, TokenSteps
  <1>4. ASSUME NEW c, request' = [request EXCEPT ![r] = [@ EXCEPT !.at = "spend", !.code = c]]
        PROVE  Moves(r) /\ request'[r].at \notin TokenSteps
    <2> DEFINE one == [was EXCEPT !.at = "spend"]
               two == [one EXCEPT !.code = c]
    <2>1. request' = [request EXCEPT ![r] = two]
      BY <1>4 DEF was
    <2>2. Shaped(one) /\ one.at = "spend"
      BY <1>1 DEF Shaped
    <2> HIDE DEF one
    <2>3. Shaped(two) /\ two.at = "spend"
      BY <2>2, EditedShape
    <2> HIDE DEF two
    <2> QED
      BY <2>1, <2>3, EditMoves DEF TokenSteps
  <1>5. CASE CheckFactor(r)
    <2>1. \/ Go(r, "session") \/ Go(r, "challenge")
          \/ \E c : request' = [request EXCEPT ![r] = [@ EXCEPT !.at = "spend", !.code = c]]
      BY <1>5 DEF CheckFactor
    <2> QED
      BY <2>1, <1>2, <1>4 DEF TokenSteps
  <1>6. CASE IssueSession(r)
    <2>1. CASE End(r)
      BY <2>1, <1>3
    <2>2. CASE ~End(r)
      <3>1. PICK login :
              request' = [request EXCEPT ![r] = [@ EXCEPT !.at = "verify", !.on = NewId,
                                                          !.login = login]]
        BY <1>6, <2>2 DEF IssueSession
      <3> DEFINE one == [was EXCEPT !.at = "verify"]
                 two == [one EXCEPT !.on = NewId]
                 three == [two EXCEPT !.login = login]
      <3>2. request' = [request EXCEPT ![r] = three]
        BY <3>1 DEF was
      <3>3. Shaped(one) /\ one.at = "verify"
        BY <1>1 DEF Shaped
      <3> HIDE DEF one
      <3>4. Shaped(two) /\ two.at = "verify"
        BY <3>3, EditedShape
      <3> HIDE DEF two
      <3>5. Shaped(three) /\ three.at = "verify"
        BY <3>4, EditedShape
      <3> HIDE DEF three
      <3> QED
        BY <3>2, <3>5, EditMoves DEF TokenSteps
    <2> QED
      BY <2>1, <2>2
  <1>7. CASE VerifySession(r)
    <2>1. CASE End(r)
      BY <2>1, <1>3
    <2>2. CASE ~End(r)
      <3>1. PICK scopes :
              request' = [request EXCEPT ![r] = [@ EXCEPT !.at = "drop", !.scopes = scopes]]
        BY <1>7, <2>2 DEF VerifySession
      <3> DEFINE one == [was EXCEPT !.at = "drop"]
                 two == [one EXCEPT !.scopes = scopes]
      <3>2. request' = [request EXCEPT ![r] = two]
        BY <3>1 DEF was
      <3>3. Shaped(one) /\ one.at = "drop"
        BY <1>1 DEF Shaped
      <3> HIDE DEF one
      <3>4. Shaped(two) /\ two.at = "drop"
        BY <3>3, EditedShape
      <3> HIDE DEF two
      <3> QED
        BY <3>2, <3>4, EditMoves DEF TokenSteps
    <2> QED
      BY <2>1, <2>2
  <1>8. CASE ReadFactor(r)
    <2>1. PICK c, row :
            request' = [request EXCEPT ![r] = [@ EXCEPT !.at = "writeFactor", !.code = c,
                                                        !.row = row]]
      BY <1>8 DEF ReadFactor
    <2> DEFINE one == [was EXCEPT !.at = "writeFactor"]
               two == [one EXCEPT !.code = c]
               three == [two EXCEPT !.row = row]
    <2>2. request' = [request EXCEPT ![r] = three]
      BY <2>1 DEF was
    <2>3. Shaped(one) /\ one.at = "writeFactor"
      BY <1>1 DEF Shaped
    <2> HIDE DEF one
    <2>4. Shaped(two) /\ two.at = "writeFactor"
      BY <2>3, EditedShape
    <2> HIDE DEF two
    <2>5. Shaped(three) /\ three.at = "writeFactor"
      BY <2>4, EditedShape
    <2> HIDE DEF three
    <2> QED
      BY <2>2, <2>5, EditMoves DEF TokenSteps
  <1> QED
    BY <1>5, <1>6, <1>7, <1>8

LEMMA OtherStepTokenInv ==
  ASSUME TokenInv, NEW r \in Request,
         \/ CheckFactor(r) \/ SpendCode(r) \/ IssueSession(r) \/ IssueChallenge(r)
         \/ VerifySession(r) \/ DropSession(r) \/ ReadFactor(r) \/ Enroll(r)
         \/ ConfirmFactor(r) \/ DisableOrRegenerate(r) \/ WriteAccount(r)
         \/ WritePassword(r) \/ Abort(r)
  PROVE  TokenInv'
  <1>1. RequestShape
    BY DEF TokenInv, TokenTypes
  <1>2. Moves(r) /\ request'[r].at \notin TokenSteps
    <2>1. CASE CheckFactor(r) \/ IssueSession(r) \/ VerifySession(r) \/ ReadFactor(r)
      BY <1>1, <2>1, SessionStepMoves
    <2>2. CASE End(r) \/ Go(r, "session") \/ Go(r, "drop")
      BY <1>1, <2>2, EndMoves, GoMoves DEF TokenSteps, Idle
    <2>3. CASE \/ SpendCode(r) \/ IssueChallenge(r) \/ DropSession(r) \/ Enroll(r)
               \/ ConfirmFactor(r) \/ DisableOrRegenerate(r) \/ WriteAccount(r)
               \/ WritePassword(r) \/ Abort(r)
      BY <2>2, <2>3 DEF SpendCode, IssueChallenge, DropSession, Enroll, ConfirmFactor,
                        DisableOrRegenerate, WriteAccount, WritePassword, Abort
    <2> QED
      BY <2>1, <2>3
  <1>3. UNCHANGED pat
    BY DEF CheckFactor, SpendCode, IssueSession, IssueChallenge, VerifySession, DropSession,
           ReadFactor, Enroll, ConfirmFactor, DisableOrRegenerate, WriteAccount,
           WritePassword, Abort, rows
  <1>4. lastId' \in {lastId, NewId}
    BY DEF CheckFactor, SpendCode, IssueSession, IssueChallenge, VerifySession, DropSession,
           ReadFactor, Enroll, ConfirmFactor, DisableOrRegenerate, WriteAccount,
           WritePassword, Abort, NewBatch, HandOut
  <1>5. raced \subseteq raced'
    <2>1. UNCHANGED raced \/ \E x : Writes(r, x)
      BY DEF CheckFactor, SpendCode, IssueSession, IssueChallenge, VerifySession,
             DropSession, ReadFactor, Enroll, ConfirmFactor, DisableOrRegenerate,
             WriteAccount, WritePassword, Abort
    <2> QED
      BY <2>1, WritesOnlyAdds
  <1>6. \A i : <<"token", i>> \in ended' <=> <<"token", i>> \in ended
    <2>1. UNCHANGED ended \/ ended' = ended \cup {<<"login", request[r].login>>}
      BY DEF CheckFactor, SpendCode, IssueSession, IssueChallenge, VerifySession,
             DropSession, ReadFactor, Enroll, ConfirmFactor, DisableOrRegenerate,
             WriteAccount, WritePassword, Abort, history
    <2> QED
      BY <2>1
  <1> QED
    BY <1>2, <1>3, <1>4, <1>5, <1>6, OtherStepQuiet

LEMMA RegisterTokenInv ==
  ASSUME TokenInv, NEW r \in Request, Register(r)
  PROVE  TokenInv'
  <1>1. UNCHANGED <<pat, lastId, raced, ended>> /\ RequestShape
    BY DEF Register, history, TokenInv, TokenTypes
  <1>2. CASE End(r)
    <2>1. Moves(r) /\ request'[r].at \notin TokenSteps
      BY <1>1, <1>2, EndMoves DEF Idle, TokenSteps
    <2> QED
      BY <1>1, <2>1, OtherStepQuiet
  <1>3. CASE ~End(r)
    <2>1. PICK q, u :
            /\ q = [Idle EXCEPT !.op = "register", !.at = "register", !.user = u]
            /\ Start(r, q)
      BY <1>3 DEF Register
    <2>2. Shaped(q) /\ q.at = "register"
      BY <2>1 DEF Idle, Shaped
    <2> QED
      BY <1>1, <2>1, <2>2, FreshIsQuiet
  <1> QED
    BY <1>2, <1>3

LEMMA WriteTokenInv ==
  ASSUME TokenInv, NEW r \in Request, WriteToken(r)
  PROVE  TokenInv'
  <1>1. CASE request[r].op = "revoke"
    BY <1>1, RevokeTokenInv
  <1>2. CASE request[r].op = "rotate"
    BY <1>2, RotateTokenInv
  <1>3. CASE request[r].op \notin {"revoke", "rotate"}
    <2> DEFINE p == request[r].on
    <2>1. pat' = [pat EXCEPT ![p].expired = FALSE] /\ UNCHANGED <<lastId, raced, ended>>
      BY <1>3 DEF WriteToken, Extended
    <2>2. /\ p \in Id /\ pat[p] \in Pat /\ RequestShape'
          /\ \A o \in Request : request'[o] \in {Idle, request[o]}
      BY WriteTokenStarts
    <2> QED
      BY <2>1, <2>2, ExpiryTokenInv
  <1> QED
    BY <1>1, <1>2, <1>3

LEMMA TokenExpiresInv ==
  ASSUME TokenInv, NEW p \in Id, TokenExpires(p)
  PROVE  TokenInv'
  <1>1. /\ pat[p] \in Pat /\ pat' = [pat EXCEPT ![p].expired = TRUE]
        /\ UNCHANGED <<request, lastId, raced, ended>>
    BY DEF TokenExpires, history, TokenInv, TokenTypes, Optional
  <1>2. RequestShape'
    BY <1>1 DEF TokenInv, TokenTypes, RequestShape, Shaped
  <1> QED
    BY <1>1, <1>2, ExpiryTokenInv

LEMMA StepTokenInv ==
  ASSUME TokenInv, [IdNext]_vars
  PROVE  TokenInv'
  <1>1. CASE UNCHANGED vars
    BY <1>1 DEF vars, rows, history, TokenInv, TokenTypes, TokenIds, AtMostOneLive, Live,
                Undisturbed, TokenRequest, RequestShape, Shaped
  <1>2. ASSUME NEW r \in Request,
               \/ Login(r) \/ AnswerChallenge(r) \/ RefreshOrLogout(r)
               \/ ExchangeOrImpersonate(r) \/ ChangeFactor(r) \/ EditAccount(r)
               \/ StartPassword(r) \/ IssueToken(r)
        PROVE  TokenInv'
    BY <1>2, BeginsTokenInv
  <1>3. ASSUME NEW r \in Request,
               \/ CheckFactor(r) \/ SpendCode(r) \/ IssueSession(r) \/ IssueChallenge(r)
               \/ VerifySession(r) \/ DropSession(r) \/ ReadFactor(r) \/ Enroll(r)
               \/ ConfirmFactor(r) \/ DisableOrRegenerate(r) \/ WriteAccount(r)
               \/ WritePassword(r) \/ Abort(r)
        PROVE  TokenInv'
    BY <1>3, OtherStepTokenInv
  <1>4. ASSUME NEW r \in Request, Register(r)
        PROVE  TokenInv'
    BY <1>4, RegisterTokenInv
  <1>5. ASSUME NEW r \in Request, ChangeToken(r) \/ ReadToken(r)
        PROVE  TokenInv'
    BY <1>5, ReadsTokenInv
  <1>6. ASSUME NEW r \in Request, WriteNewToken(r)
        PROVE  TokenInv'
    BY <1>6, NewTokenInv
  <1>7. ASSUME NEW r \in Request, WriteToken(r)
        PROVE  TokenInv'
    BY <1>7, WriteTokenInv
  <1>8. ASSUME NEW p \in Id, TokenExpires(p)
        PROVE  TokenInv'
    BY <1>8, TokenExpiresInv
  <1> QED
    BY <1>1, <1>2, <1>3, <1>4, <1>5, <1>6, <1>7, <1>8 DEF IdNext

\* Of a token and all its rotations at most one is not revoked, and none once the token
\* was revoked, unless two requests read the same row before either wrote it.
THEOREM GrantHasOneToken == IdSpec => []OneTokenPerGrant
  <1>1. IdInit => TokenInv
    BY InitTokenInv
  <1>2. TokenInv /\ [IdNext]_vars => TokenInv'
    BY StepTokenInv
  <1>3. ASSUME AtMostOneLive
        PROVE  OneTokenPerGrant
    <2> SUFFICES ASSUME NEW i \in Id, Undisturbed(<<"token", i>>)
                 PROVE  Cardinality({p \in Id : Live(i, p)})
                          \leq (IF <<"token", i>> \in ended THEN 0 ELSE 1)
      BY DEF OneTokenPerGrant, Live
    <2> DEFINE live == {p \in Id : Live(i, p)}
    <2>1. live = {} \/ \E p \in Id : live = {p}
      BY <1>3 DEF AtMostOneLive
    <2>2. <<"token", i>> \in ended => live = {}
      BY <1>3 DEF AtMostOneLive
    <2>3. Cardinality({}) = 0 /\ \A p \in Id : Cardinality({p}) = 1
      BY FS_EmptySet, FS_Singleton
    <2> HIDE DEF live
    <2>4. Cardinality(live) \leq (IF <<"token", i>> \in ended THEN 0 ELSE 1)
      BY <2>1, <2>2, <2>3
    <2> QED
      BY <2>4 DEF live
  <1>4. TokenInv => OneTokenPerGrant
    BY <1>3 DEF TokenInv
  <1> QED
    BY <1>1, <1>2, <1>4, PTL DEF IdSpec

LEMMA StepKeepsRevoked ==
  ASSUME TokenInv, [IdNext]_vars, NEW p \in Id, pat[p] # None, pat[p].revoked
  PROVE  pat'[p].revoked
  <1>1. /\ pat \in [Id -> Optional(Pat)] /\ pat[p] \in Pat /\ p # NewId
        /\ lastId \in Nat
    <2>1. pat \in [Id -> Optional(Pat)] /\ pat[p] \in Pat /\ lastId \in Nat
          /\ p \leq lastId /\ p \in Nat
      BY IdentityAssumption DEF TokenInv, TokenTypes, TokenIds, Optional, Id
    <2> QED
      BY <2>1 DEF NewId
  <1>2. CASE UNCHANGED pat
    BY <1>2
  <1>3. ASSUME NEW r \in Request, WriteNewToken(r)
        PROVE  pat'[p].revoked
    BY <1>1, <1>3 DEF WriteNewToken
  <1>4. ASSUME NEW r \in Request, WriteToken(r)
        PROVE  pat'[p].revoked
    <2>1. PICK o, new :
            \/ pat' = [pat EXCEPT ![o].revoked = TRUE, ![NewId] = new]
            \/ pat' = [pat EXCEPT ![o].revoked = TRUE]
            \/ pat' = [pat EXCEPT ![o].expired = FALSE]
      BY <1>4 DEF WriteToken, Extended
    <2>2. pat'[p] \in {pat[p], [pat[p] EXCEPT !.revoked = TRUE],
                       [pat[p] EXCEPT !.expired = FALSE]}
      BY <1>1, <2>1
    <2> QED
      BY <1>1, <2>2 DEF Pat
  <1>5. ASSUME NEW o \in Id, TokenExpires(o)
        PROVE  pat'[p].revoked
    <2>1. pat'[p] \in {pat[p], [pat[p] EXCEPT !.expired = TRUE]}
      BY <1>1, <1>5 DEF TokenExpires
    <2> QED
      BY <1>1, <2>1 DEF Pat
  <1>6. \/ UNCHANGED pat
        \/ \E r \in Request : WriteNewToken(r) \/ WriteToken(r)
        \/ \E o \in Id : TokenExpires(o)
    BY DEF IdNext, vars, rows, Login, AnswerChallenge, RefreshOrLogout,
           ExchangeOrImpersonate, ChangeFactor, EditAccount, StartPassword, IssueToken,
           CheckFactor, SpendCode, IssueSession, IssueChallenge, VerifySession,
           DropSession, ReadFactor, Enroll, ConfirmFactor, DisableOrRegenerate,
           WriteAccount, WritePassword, Abort, Register, ChangeToken, ReadToken
  <1> QED
    BY <1>2, <1>3, <1>4, <1>5, <1>6

\* A revoked token is never valid again: an extension that was under way writes nothing
\* but the expiry, and a new token never takes the id of another.
THEOREM RevocationIsFinal == IdSpec => RevokedStaysRevoked
  <1>1. IdInit => TokenInv
    BY InitTokenInv
  <1>2. TokenInv /\ [IdNext]_vars => TokenInv'
    BY StepTokenInv
  <1>3. TokenInv /\ [IdNext]_vars =>
          [\A p \in Id : pat[p] # None /\ pat[p].revoked => pat'[p].revoked]_vars
    BY StepKeepsRevoked
  <1> QED
    BY <1>1, <1>2, <1>3, PTL DEF IdSpec, RevokedStaysRevoked

-----------------------------------------------------------------------------
(* Forced changes of a password *)

AccountShaped(a) ==
    /\ a = [status |-> a.status, mustChange |-> a.mustChange, grants |-> a.grants]
    /\ a.mustChange \in BOOLEAN

ResetInv ==
    /\ principal = [u \in User |-> principal[u]]
    /\ \A u \in User : AccountShaped(principal[u])
    /\ \A u \in User : principal[u].mustChange = (u \in reset)

\* A row whose flag is as it was, or goes with the password that is written.
LEMMA AccountWritten ==
  ASSUME ResetInv, NEW user, NEW a, AccountShaped(a),
         principal' = [principal EXCEPT ![user] = a],
         \A u \in User : u # user => (u \in reset' <=> u \in reset),
         a.mustChange = (user \in reset')
  PROVE  ResetInv'
  <1>1. \A u \in User : principal'[u] = IF u = user THEN a ELSE principal[u]
    BY DEF ResetInv
  <1>2. principal' = [u \in User |-> principal'[u]]
    BY DEF ResetInv
  <1>3. \A u \in User : AccountShaped(principal'[u])
    BY <1>1 DEF ResetInv
  <1>4. ASSUME NEW u \in User
        PROVE  principal'[u].mustChange = (u \in reset')
    <2>1. CASE u = user
      BY <2>1, <1>1
    <2>2. CASE u # user
      <3>1. principal'[u].mustChange = (u \in reset)
        BY <2>2, <1>1 DEF ResetInv
      <3>2. (u \in reset) = (u \in reset')
        BY <2>2
      <3> QED
        BY <3>1, <3>2
    <2> QED
      BY <2>1, <2>2
  <1> QED
    BY <1>2, <1>3, <1>4 DEF ResetInv, AccountShaped

LEMMA StepResetInv ==
  ASSUME ResetInv, [IdNext]_vars
  PROVE  ResetInv'
  <1>1. CASE UNCHANGED <<principal, reset>>
    BY <1>1 DEF ResetInv, AccountShaped
  <1>2. ASSUME NEW r \in Request, WriteAccount(r)
        PROVE  ResetInv'
    <2> DEFINE u == request[r].user
               row == request[r].row
               a == [principal[u] EXCEPT !.status = row.status, !.grants = row.grants]
    <2>1. reset' = reset
      BY <1>2 DEF WriteAccount, history
    <2>2. CASE principal' = principal \/ u \notin User
      <3>1. principal' = principal
        BY <1>2, <2>2 DEF WriteAccount, Edited, ResetInv
      <3> QED
        BY <1>1, <2>1, <3>1
    <2>3. CASE principal' # principal /\ u \in User
      <3>1. principal' = [principal EXCEPT ![u] = a]
        BY <1>2, <2>3 DEF WriteAccount, Edited
      <3>2. AccountShaped(principal[u]) /\ principal[u].mustChange = (u \in reset)
        BY <2>3 DEF ResetInv
      <3>3. a = [status |-> row.status, mustChange |-> principal[u].mustChange,
                 grants |-> row.grants]
        <4> DEFINE half == [principal[u] EXCEPT !.status = row.status]
        <4>1. half = [status |-> row.status, mustChange |-> principal[u].mustChange,
                      grants |-> principal[u].grants]
          BY <3>2 DEF AccountShaped
        <4>2. a = [half EXCEPT !.grants = row.grants]
          OBVIOUS
        <4> HIDE DEF half, a
        <4> QED
          BY <4>1, <4>2
      <3> HIDE DEF a
      <3>4. AccountShaped(a) /\ a.mustChange = (u \in reset')
        BY <2>1, <3>2, <3>3 DEF AccountShaped
      <3> QED
        BY <2>1, <3>1, <3>4, AccountWritten
    <2> QED
      BY <2>2, <2>3
  <1>3. ASSUME NEW r \in Request, WritePassword(r)
        PROVE  ResetInv'
    <2> DEFINE u == request[r].user
               forced == request[r].op = "setPassword"
               a == [principal[u] EXCEPT !.mustChange = forced]
    <2>1. CASE principal[u].status = "gone"
      <3>1. UNCHANGED <<principal, reset>>
        BY <1>3, <2>1 DEF WritePassword
      <3> QED
        BY <3>1, <1>1
    <2>2. CASE principal[u].status # "gone"
      <3>1. /\ principal' = [principal EXCEPT ![u] = a]
            /\ reset' = IF forced THEN reset \cup {u} ELSE reset \ {u}
        BY <1>3, <2>2 DEF WritePassword
      <3>2. forced \in BOOLEAN /\ forced = (u \in reset')
        BY <3>1
      <3>3. \A v \in User : v # u => (v \in reset' <=> v \in reset)
        BY <3>1
      <3> HIDE DEF forced
      <3>4. CASE u \in User
        <4>1. AccountShaped(principal[u])
          BY <3>4 DEF ResetInv
        <4>2. a = [status |-> principal[u].status, mustChange |-> forced,
                   grants |-> principal[u].grants]
          BY <4>1 DEF AccountShaped
        <4> HIDE DEF a, u
        <4>3. AccountShaped(a) /\ a.mustChange = forced
          BY <3>2, <4>2 DEF AccountShaped
        <4> QED
          BY <3>1, <3>2, <3>3, <4>3, AccountWritten
      <3>5. CASE u \notin User
        <4>1. principal' = principal /\ \A v \in User : v \in reset' <=> v \in reset
          BY <3>1, <3>3, <3>5 DEF ResetInv
        <4> QED
          BY <4>1 DEF ResetInv, AccountShaped
      <3> QED
        BY <3>4, <3>5
    <2> QED
      BY <2>1, <2>2
  <1>4. ASSUME NEW r \in Request, Register(r)
        PROVE  ResetInv'
    <2> DEFINE u == request[r].user
               a == [principal[u] EXCEPT !.status = "active"]
    <2>1. reset' = reset
      BY <1>4 DEF Register, history
    <2>2. CASE principal' = principal \/ u \notin User
      <3>1. principal' = principal
        BY <1>4, <2>2 DEF Register, ResetInv
      <3> QED
        BY <1>1, <2>1, <3>1
    <2>3. CASE principal' # principal /\ u \in User
      <3>1. principal' = [principal EXCEPT ![u] = a]
        BY <1>4, <2>3 DEF Register
      <3>2. AccountShaped(principal[u]) /\ principal[u].mustChange = (u \in reset)
        BY <2>3 DEF ResetInv
      <3>3. a = [status |-> "active", mustChange |-> principal[u].mustChange,
                 grants |-> principal[u].grants]
        BY <3>2 DEF AccountShaped
      <3> HIDE DEF a
      <3>4. AccountShaped(a) /\ a.mustChange = (u \in reset')
        BY <2>1, <3>2, <3>3 DEF AccountShaped
      <3> QED
        BY <2>1, <3>1, <3>4, AccountWritten
    <2> QED
      BY <2>2, <2>3
  <1>5. \/ UNCHANGED <<principal, reset>>
        \/ \E r \in Request : WriteAccount(r) \/ WritePassword(r) \/ Register(r)
    BY DEF IdNext, vars, rows, history, Login, AnswerChallenge, RefreshOrLogout,
           ExchangeOrImpersonate, ChangeFactor, EditAccount, StartPassword, IssueToken,
           CheckFactor, SpendCode, IssueSession, IssueChallenge, VerifySession,
           DropSession, ReadFactor, Enroll, ConfirmFactor, DisableOrRegenerate, Abort,
           ChangeToken, ReadToken, WriteNewToken, WriteToken, TokenExpires
  <1> QED
    BY <1>1, <1>2, <1>3, <1>4, <1>5

\* A user whose password an administrator has set must choose another, and nobody else
\* must, whatever profile, status and permission edits commit in between.
THEOREM ResetsForceChanges == IdSpec => []ResetForcesChange
  <1>1. IdInit => ResetInv
    <2> SUFFICES ASSUME IdInit
                 PROVE  ResetInv
      OBVIOUS
    <2>1. PICK given \in {{}, User \ {Admin}} :
            principal = [u \in User |->
                [status |-> IF u \in given \cup {Admin} THEN "active" ELSE "absent",
                 mustChange |-> FALSE, grants |-> {}]]
      BY DEF IdInit
    <2>2. reset = {}
      BY DEF IdInit
    <2>3. principal = [u \in User |-> principal[u]]
      BY <2>1
    <2>4. ASSUME NEW u \in User
          PROVE  AccountShaped(principal[u]) /\ principal[u].mustChange = FALSE
      <3>1. PICK status : principal[u] = [status |-> status, mustChange |-> FALSE,
                                          grants |-> {}]
        BY <2>1
      <3> QED
        BY <3>1 DEF AccountShaped
    <2>5. ASSUME NEW u \in User
          PROVE  principal[u].mustChange = (u \in reset)
      <3>1. (u \in reset) = FALSE
        BY <2>2
      <3> QED
        BY <2>4, <3>1
    <2> QED
      BY <2>3, <2>4, <2>5 DEF ResetInv
  <1>2. ResetInv /\ [IdNext]_vars => ResetInv'
    BY StepResetInv
  <1>3. ResetInv => ResetForcesChange
    BY DEF ResetInv, ResetForcesChange
  <1> QED
    BY <1>1, <1>2, <1>3, PTL DEF IdSpec

-----------------------------------------------------------------------------
(* Types *)

RequestType ==
    [at : Steps, op : Ops, user : Optional(User), on : Optional(Id), scopes : Scopes,
     login : Optional(Id), code : Optional(Code), row : Optional(Account \cup Enrollment \cup Pat)]

\* What a request has at hand for its next step.
Ready(q) ==
    /\ q # Idle => q.at # "idle" /\ q.user \in User
    /\ q.at \in {"verify", "drop"} => q.on \in Id /\ q.login \in Id
    /\ q.at = "writePassword" => (q.on = None <=> q.login = None)
    /\ q.at = "spend" => q.code \in Code
    /\ q.at \in {"readToken", "writeToken"} => q.on \in Id
    /\ q.at = "writeToken" => q.row \in Pat
    /\ q.at = "writeUser" => q.row \in Account
    /\ q.at = "writeFactor" => q.row \in Optional(Enrollment)

Objects == ({"login", "token"} \X Id) \cup ({"account", "password", "factor"} \X User)

RowTypes ==
    /\ principal \in [User -> Account]
    /\ session \in [Id -> Optional(Session)]
    /\ pat \in [Id -> Optional(Pat)]
    /\ enrollment \in [User -> Optional(Enrollment)]
    /\ codes \in [User -> [unused : SUBSET Code, used : SUBSET Code]]

RequestTypes ==
    /\ request \in [Request -> RequestType]
    /\ \A r \in Request : Ready(request[r])

HistoryTypes ==
    /\ begun \in 0..MaxRequests /\ lastId \in Id
    /\ reset \subseteq User /\ turnedAway \subseteq User
    /\ ended \subseteq {"login", "token"} \X Id
    /\ shown \in [User -> Optional(Id)]
    /\ accepted \in [Code -> Nat]
    /\ raced \subseteq Objects

TypeInv == RowTypes /\ RequestTypes /\ HistoryTypes

\* A request from its fields.
Asks(at, op, user, on, scopes, login, code, row) ==
    [at |-> at, op |-> op, user |-> user, on |-> on, scopes |-> scopes, login |-> login,
     code |-> code, row |-> row]

LEMMA AskedFields ==
  ASSUME NEW at, NEW op, NEW user, NEW on, NEW scopes, NEW login, NEW code, NEW row
  PROVE  LET q == Asks(at, op, user, on, scopes, login, code, row) IN
         /\ q.at = at /\ q.op = op /\ q.user = user /\ q.on = on /\ q.scopes = scopes
         /\ q.login = login /\ q.code = code /\ q.row = row
  BY DEF Asks

LEMMA AskedTyped ==
  ASSUME NEW at \in Steps, NEW op \in Ops, NEW user \in Optional(User), NEW on \in Optional(Id),
         NEW scopes \in Scopes, NEW login \in Optional(Id), NEW code \in Optional(Code),
         NEW row \in Optional(Account \cup Enrollment \cup Pat)
  PROVE  Asks(at, op, user, on, scopes, login, code, row) \in RequestType
  BY DEF Asks, RequestType

Becomes(r, q) == request' = [request EXCEPT ![r] = q]

\* What a write of the account of q.user was made from, until another one commits.
EditRequest(q) ==
    q.at = "writeUser" =>
        /\ q.row.status # "absent" /\ principal[q.user].status # "absent"
        /\ Undisturbed(<<"account", q.user>>) =>
             \A field \in {"status", "grants"} :
                 Sets(q.op, field) \/ q.row[field] = principal[q.user][field]

\* A request that has just begun.
Fresh(q) ==
    \/ /\ q.at \in {"idle", "factor", "session", "newToken", "readToken", "readFactor",
                    "register", "writePassword"}
       /\ q.login = None
       /\ q.at = "register" => q.op = "register"
    \/ /\ q.at \in {"verify", "drop", "writePassword"}
       /\ q.on \in Id /\ session[q.on] # None /\ q.login = session[q.on].login
    \/ q.at = "writeUser" /\ EditRequest(q)

\* A request that was at one step and now is at another.
Continues(was, q) ==
    \/ q = Idle
    \/ /\ was.at = "factor" /\ q.at \in {"session", "challenge"} /\ q.login = was.login
    \/ /\ was.at = "factor" /\ q.at = "spend" /\ q.login = was.login
       /\ q.code \in codes[q.user].unused
    \/ /\ was.at \in {"spend", "drop"} /\ q.at = "session" /\ q.login = was.login
    \/ /\ was.at = "session" /\ q.at = "verify" /\ was.login = None
       /\ q.on = NewId /\ q.login = NewId
    \/ /\ was.at = "verify" /\ q.at = "drop" /\ q.on = was.on /\ q.login = was.login
       /\ session[q.on] # None
    \/ /\ was.at = "writePassword" /\ q.at = "drop" /\ q.on = was.on /\ q.login = was.login
    \/ was.at = "readToken" /\ q.at = "writeToken"
    \/ /\ was.at = "readFactor" /\ q.at = "writeFactor" /\ q.row = enrollment[q.user]
       /\ q.op = "regenerate" \/ q.code # None => q.row # None
       /\ q.code # None => q.code \in codes[q.user].unused

LEMMA IdleIsReady == Idle \in RequestType /\ Ready(Idle) /\ Idle.at = "idle" /\ Idle.login = None
  <1>1. Idle = Asks("idle", "none", None, None, {}, None, None, None)
    BY DEF Idle, Asks
  <1>2. {} \in Scopes
    BY IdentityAssumption
  <1>3. Idle \in RequestType
    BY <1>1, <1>2, AskedTyped DEF Steps, Ops, Optional
  <1> QED
    BY <1>3 DEF Ready, Idle

\* An administrator, or the user, edits an account as it was read.
LEMMA AccountAsked ==
  ASSUME TypeInv, NEW r \in Request, EditAccount(r)
  PROVE  \E q \in RequestType : Start(r, q) /\ Ready(q) /\ Fresh(q)
  <1>1. PICK u \in User :
         /\ principal[u].status \in {"active", "disabled"}
         /\ \/ Start(r, [Idle EXCEPT !.op = "profile", !.at = "writeUser", !.user = u,
                                !.row = Snapshot(u)])
            \/ \E status \in {"active", "disabled"} :
                       Start(r, [Idle EXCEPT !.op = "setStatus", !.at = "writeUser",
                                    !.user = u, !.row = [Snapshot(u) EXCEPT !.status = status]])
            \/ \E grants \in Grants :
                       Start(r, [Idle EXCEPT !.op = "setGrants", !.at = "writeUser",
                                    !.user = u, !.row = [Snapshot(u) EXCEPT !.grants = grants]])
            \/ Start(r, [Idle EXCEPT !.op = "delete", !.at = "writeUser", !.user = u,
                                  !.row = [Snapshot(u) EXCEPT !.status = "gone"]])
    BY DEF EditAccount
  <1>2. principal[u] \in Account
    BY DEF TypeInv, RowTypes
  <1>3. PICK op, row :
          /\ op \in {"profile", "setStatus", "setGrants", "delete"}
          /\ Start(r, [Idle EXCEPT !.op = op, !.at = "writeUser", !.user = u, !.row = row])
          /\ \/ op = "profile" /\ row = principal[u]
             \/ /\ op \in {"setStatus", "delete"}
                /\ \E status \in {"active", "disabled", "gone"} :
                       row = [principal[u] EXCEPT !.status = status]
             \/ /\ op = "setGrants"
                /\ \E grants \in Grants : row = [principal[u] EXCEPT !.grants = grants]
    <2> DEFINE Opens(op, row) ==
                 Start(r, [Idle EXCEPT !.op = op, !.at = "writeUser", !.user = u, !.row = row])
    <2>1. \/ Opens("profile", principal[u])
          \/ \E status \in {"active", "disabled"} :
                Opens("setStatus", [principal[u] EXCEPT !.status = status])
          \/ \E grants \in Grants : Opens("setGrants", [principal[u] EXCEPT !.grants = grants])
          \/ Opens("delete", [principal[u] EXCEPT !.status = "gone"])
      BY <1>1 DEF Snapshot
    <2> HIDE DEF Opens
    <2> DEFINE Wanted(op, row) ==
                 /\ op \in {"profile", "setStatus", "setGrants", "delete"}
                 /\ Opens(op, row)
                 /\ \/ op = "profile" /\ row = principal[u]
                    \/ /\ op \in {"setStatus", "delete"}
                       /\ \E status \in {"active", "disabled", "gone"} :
                              row = [principal[u] EXCEPT !.status = status]
                    \/ /\ op = "setGrants"
                       /\ \E grants \in Grants : row = [principal[u] EXCEPT !.grants = grants]
    <2>2. \/ Wanted("profile", principal[u])
          \/ \E status \in {"active", "disabled"} :
                Wanted("setStatus", [principal[u] EXCEPT !.status = status])
          \/ \E grants \in Grants : Wanted("setGrants", [principal[u] EXCEPT !.grants = grants])
          \/ Wanted("delete", [principal[u] EXCEPT !.status = "gone"])
      <3>1. Opens("profile", principal[u]) => Wanted("profile", principal[u])
        OBVIOUS
      <3>2. ASSUME NEW status \in {"active", "disabled"},
                   Opens("setStatus", [principal[u] EXCEPT !.status = status])
            PROVE  Wanted("setStatus", [principal[u] EXCEPT !.status = status])
        BY <3>2
      <3>3. ASSUME NEW grants \in Grants, Opens("setGrants", [principal[u] EXCEPT !.grants = grants])
            PROVE  Wanted("setGrants", [principal[u] EXCEPT !.grants = grants])
        BY <3>3
      <3>4. Opens("delete", [principal[u] EXCEPT !.status = "gone"])
              => Wanted("delete", [principal[u] EXCEPT !.status = "gone"])
        OBVIOUS
      <3> HIDE DEF Wanted
      <3> QED
        BY <2>1, <3>1, <3>2, <3>3, <3>4
    <2>3. \E op, row : Wanted(op, row)
      <3> HIDE DEF Wanted
      <3> QED
        BY <2>2
    <2> QED
      BY <2>3 DEF Opens
  <1>4. /\ row \in Account /\ row.status # "absent"
        /\ \A field \in {"status", "grants"} : Sets(op, field) \/ row[field] = principal[u][field]
    <2>1. CASE op = "profile" /\ row = principal[u]
      BY <1>1, <1>2, <2>1
    <2>2. ASSUME op \in {"setStatus", "delete"}, NEW status \in {"active", "disabled", "gone"},
                 row = [principal[u] EXCEPT !.status = status]
          PROVE  /\ row \in Account /\ row.status # "absent"
                 /\ \A field \in {"status", "grants"} :
                      Sets(op, field) \/ row[field] = principal[u][field]
      BY <1>2, <2>2 DEF Account, Sets
    <2>3. ASSUME op = "setGrants", NEW grants \in Grants,
                 row = [principal[u] EXCEPT !.grants = grants]
          PROVE  /\ row \in Account /\ row.status # "absent"
                 /\ \A field \in {"status", "grants"} :
                      Sets(op, field) \/ row[field] = principal[u][field]
      BY <1>1, <1>2, <2>3 DEF Account, Sets
    <2> QED
      BY <1>3, <2>1, <2>2, <2>3
  <1>5. PICK q : /\ q = [Idle EXCEPT !.op = op, !.at = "writeUser", !.user = u, !.row = row]
                 /\ Start(r, q)
    BY <1>3
  <1>6. q = Asks("writeUser", op, u, None, {}, None, None, row)
    BY <1>5 DEF Idle, Asks
  <1>7. q \in RequestType
    BY <1>3, <1>4, <1>6, AskedTyped, IdentityAssumption DEF Steps, Ops, Optional
  <1>8. q.at = "writeUser" /\ q.op = op /\ q.user = u /\ q.row = row
    BY <1>6, AskedFields
  <1>9. Ready(q)
    BY <1>4, <1>8 DEF Ready
  <1>10. Fresh(q)
    BY <1>1, <1>4, <1>8 DEF Fresh, EditRequest
  <1> QED
    BY <1>5, <1>7, <1>9, <1>10

\* A request begins with the fields it sets, the others as in Idle.
LEMMA AskedReady ==
  ASSUME TypeInv, NEW r \in Request, NEW q, Start(r, q),
         NEW at \in Steps \ {"idle", "spend", "writeToken", "writeUser", "writeFactor"},
         NEW op \in Ops, NEW user \in User, NEW on \in Optional(Id), NEW scopes \in Scopes,
         NEW login \in Optional(Id), q = Asks(at, op, user, on, scopes, login, None, None),
         at \in {"verify", "drop", "readToken"} => on # None,
         at \in {"verify", "drop"} => login # None,
         at = "writePassword" => (on = None <=> login = None),
         Fresh(q)
  PROVE  \E ask \in RequestType : Start(r, ask) /\ Ready(ask) /\ Fresh(ask)
  <1>1. q \in RequestType
    BY AskedTyped DEF Optional
  <1>2. /\ q.at = at /\ q.op = op /\ q.user = user /\ q.on = on /\ q.scopes = scopes
        /\ q.login = login
    BY AskedFields
  <1>3. Ready(q)
    BY <1>2 DEF Ready, Optional
  <1> QED
    BY <1>1, <1>3

LEMMA SimplyAsked ==
  ASSUME TypeInv, NEW r \in Request, NEW at, NEW op \in Ops, NEW u \in User,
         Start(r, [Idle EXCEPT !.op = op, !.at = at, !.user = u]),
         at \in {"factor", "session", "readFactor", "writePassword", "register"},
         at = "register" => op = "register"
  PROVE  \E q \in RequestType : Start(r, q) /\ Ready(q) /\ Fresh(q)
  <1>1. PICK q : q = [Idle EXCEPT !.op = op, !.at = at, !.user = u] /\ Start(r, q)
    OBVIOUS
  <1>2. q = Asks(at, op, u, None, {}, None, None, None)
    BY <1>1 DEF Idle, Asks
  <1>3. q.at = at /\ q.op = op /\ q.login = None
    BY <1>2, AskedFields
  <1>4. Fresh(q)
    BY <1>3 DEF Fresh
  <1> QED
    BY <1>1, <1>2, <1>4, AskedReady, IdentityAssumption DEF Optional, Steps

LEMMA ScopesAsked ==
  ASSUME TypeInv, NEW r \in Request, NEW at \in {"session", "newToken"}, NEW op \in Ops,
         NEW u \in User, NEW s \in Scopes,
         Start(r, [Idle EXCEPT !.op = op, !.at = at, !.user = u, !.scopes = s])
  PROVE  \E q \in RequestType : Start(r, q) /\ Ready(q) /\ Fresh(q)
  <1>1. PICK q : q = [Idle EXCEPT !.op = op, !.at = at, !.user = u, !.scopes = s] /\ Start(r, q)
    OBVIOUS
  <1>2. q = Asks(at, op, u, None, s, None, None, None)
    BY <1>1 DEF Idle, Asks
  <1>3. q.at = at /\ q.op = op /\ q.login = None
    BY <1>2, AskedFields
  <1>4. Fresh(q)
    BY <1>3 DEF Fresh
  <1> QED
    BY <1>1, <1>2, <1>4, AskedReady, IdentityAssumption DEF Optional, Steps

LEMMA SessionAsked ==
  ASSUME TypeInv, NEW r \in Request, NEW at \in {"verify", "drop", "writePassword"},
         NEW op \in Ops, NEW s \in Id, UsableSession(s),
         Start(r, [Idle EXCEPT !.op = op, !.at = at, !.user = session[s].user, !.on = s,
                               !.login = session[s].login])
  PROVE  \E q \in RequestType : Start(r, q) /\ Ready(q) /\ Fresh(q)
  <1>1. PICK q : /\ q = [Idle EXCEPT !.op = op, !.at = at, !.user = session[s].user, !.on = s,
                                     !.login = session[s].login]
                 /\ Start(r, q)
    OBVIOUS
  <1>2. session[s] # None /\ session[s].user \in User /\ session[s].login \in Id
    BY DEF TypeInv, RowTypes, UsableSession, Optional, Session
  <1>3. q = Asks(at, op, session[s].user, s, {}, session[s].login, None, None)
    BY <1>1 DEF Idle, Asks
  <1>4. q.at = at /\ q.op = op /\ q.on = s /\ q.login = session[s].login
    BY <1>3, AskedFields
  <1>5. Fresh(q)
    BY <1>2, <1>4 DEF Fresh
  <1> QED
    BY <1>1, <1>2, <1>3, <1>5, AskedReady, IdentityAssumption DEF Optional, Steps

\* The first step of every request.
LEMMA RequestBegins ==
  ASSUME TypeInv, NEW r \in Request,
         \/ Login(r) \/ AnswerChallenge(r) \/ RefreshOrLogout(r) \/ ExchangeOrImpersonate(r)
         \/ IssueToken(r) \/ ChangeToken(r) \/ ChangeFactor(r) \/ EditAccount(r)
         \/ StartPassword(r) \/ (Register(r) /\ request[r].at # "register")
  PROVE  \E q \in RequestType : Start(r, q) /\ Ready(q) /\ Fresh(q)
  <1>1. CASE Login(r)
    <2>1. PICK u \in User, op \in {"login", "browserLogin"} :
            Start(r, [Idle EXCEPT !.op = op, !.at = "factor", !.user = u])
      BY <1>1 DEF Login
    <2> QED
      BY <2>1, SimplyAsked DEF Ops
  <1>2. CASE AnswerChallenge(r)
    BY <1>2, IdleIsReady DEF AnswerChallenge, Fresh
  <1>3. CASE RefreshOrLogout(r)
    <2>1. PICK s \in Id, op \in {"refresh", "logout"} :
            /\ UsableSession(s)
            /\ Start(r, [Idle EXCEPT !.op = op, !.at = IF op = "refresh" THEN "verify" ELSE "drop",
                          !.user = session[s].user, !.on = s, !.login = session[s].login])
      BY <1>3 DEF RefreshOrLogout
    <2> DEFINE at == IF op = "refresh" THEN "verify" ELSE "drop"
    <2>2. at \in {"verify", "drop", "writePassword"} /\ op \in Ops
      BY DEF Ops
    <2> HIDE DEF at
    <2>3. Start(r, [Idle EXCEPT !.op = op, !.at = at, !.user = session[s].user, !.on = s,
                                !.login = session[s].login])
      BY <2>1 DEF at
    <2> QED
      BY <2>1, <2>2, <2>3, SessionAsked
  <1>4. CASE ExchangeOrImpersonate(r)
    <2>1. CASE \E p \in Id :
                 /\ pat[p] # None
                 /\ Start(r, [Idle EXCEPT !.op = "exchange", !.at = "session",
                                          !.user = pat[p].user, !.scopes = pat[p].scopes])
      <3>1. PICK p \in Id :
                 /\ pat[p] # None
                 /\ Start(r, [Idle EXCEPT !.op = "exchange", !.at = "session",
                                          !.user = pat[p].user, !.scopes = pat[p].scopes])
        BY <2>1
      <3>2. pat[p].user \in User /\ pat[p].scopes \in Scopes
        BY <3>1 DEF TypeInv, RowTypes, Optional, Pat
      <3> QED
        BY <3>1, <3>2, ScopesAsked DEF Ops
    <2>2. CASE \E u \in User :
                 Start(r, [Idle EXCEPT !.op = "impersonate", !.at = "session", !.user = u])
      BY <2>2, SimplyAsked DEF Ops
    <2> QED
      BY <1>4, <2>1, <2>2 DEF ExchangeOrImpersonate, UsablePat
  <1>5. CASE IssueToken(r)
    <2>1. PICK owner \in User, wanted \in Scopes :
            Start(r, [Idle EXCEPT !.op = "issue", !.at = "newToken", !.user = owner,
                                  !.scopes = wanted])
      BY <1>5 DEF IssueToken
    <2> QED
      BY <2>1, ScopesAsked DEF Ops
  <1>6. CASE ChangeToken(r)
    <2>1. PICK p \in Id, op \in {"rotate", "revoke", "extend"} :
            /\ pat[p] # None
            /\ Start(r, [Idle EXCEPT !.op = op, !.at = "readToken", !.user = pat[p].user,
                                     !.on = p])
      BY <1>6 DEF ChangeToken
    <2>2. PICK q : /\ q = [Idle EXCEPT !.op = op, !.at = "readToken", !.user = pat[p].user,
                                       !.on = p]
                   /\ Start(r, q)
      BY <2>1
    <2>3. pat[p].user \in User
      BY <2>1 DEF TypeInv, RowTypes, Optional, Pat
    <2>4. q = Asks("readToken", op, pat[p].user, p, {}, None, None, None)
      BY <2>2 DEF Idle, Asks
    <2>5. q.at = "readToken" /\ q.login = None
      BY <2>4, AskedFields
    <2>6. Fresh(q)
      BY <2>5 DEF Fresh
    <2>7. /\ p \in Optional(Id) /\ None \in Optional(Id) /\ p # None /\ op \in Ops
          /\ "readToken" \in Steps \ {"idle", "spend", "writeToken", "writeUser", "writeFactor"}
          /\ {} \in Scopes
      BY IdentityAssumption DEF Optional, Steps, Ops
    <2> QED
      BY <2>2, <2>3, <2>4, <2>6, <2>7, AskedReady
  <1>7. CASE ChangeFactor(r)
    <2>1. PICK u \in User, op \in {"begin", "confirm", "disable", "regenerate"} :
            Start(r, [Idle EXCEPT !.op = op, !.at = "readFactor", !.user = u])
      BY <1>7 DEF ChangeFactor
    <2> QED
      BY <2>1, SimplyAsked DEF Ops
  <1>8. CASE EditAccount(r)
    BY <1>8, AccountAsked
  <1>9. CASE StartPassword(r)
    <2>1. CASE \E s \in Id : /\ UsableSession(s)
                             /\ Start(r, [Idle EXCEPT !.op = "changePassword",
                                    !.at = "writePassword", !.user = session[s].user, !.on = s,
                                    !.login = session[s].login])
      BY <2>1, SessionAsked DEF Ops
    <2>2. CASE \E u \in User : Start(r, [Idle EXCEPT !.op = "changePassword",
                                                     !.at = "writePassword", !.user = u])
      BY <2>2, SimplyAsked DEF Ops
    <2>3. CASE \E u \in User : Start(r, [Idle EXCEPT !.op = "setPassword",
                                                     !.at = "writePassword", !.user = u])
      BY <2>3, SimplyAsked DEF Ops
    <2> QED
      BY <1>9, <2>1, <2>2, <2>3 DEF StartPassword
  <1>10. CASE Register(r) /\ request[r].at # "register"
    <2>1. PICK u \in User :
            Start(r, [Idle EXCEPT !.op = "register", !.at = "register", !.user = u])
      BY <1>10 DEF Register
    <2> QED
      BY <2>1, SimplyAsked DEF Ops
  <1> QED
    BY <1>1, <1>2, <1>3, <1>4, <1>5, <1>6, <1>7, <1>8, <1>9, <1>10

LEMMA WasAsked ==
  ASSUME TypeInv, NEW r \in Request
  PROVE  LET was == request[r] IN
         /\ was \in RequestType /\ Ready(was)
         /\ was = Asks(was.at, was.op, was.user, was.on, was.scopes, was.login, was.code,
                       was.row)
         /\ was.at \in Steps /\ was.op \in Ops /\ was.user \in Optional(User)
         /\ was.on \in Optional(Id) /\ was.scopes \in Scopes /\ was.login \in Optional(Id)
         /\ was.code \in Optional(Code)
         /\ was.row \in Optional(Account \cup Enrollment \cup Pat)
         /\ was.at # "idle" => was.user \in User
  <1> DEFINE was == request[r]
  <1>1. was \in RequestType /\ Ready(was)
    BY DEF TypeInv, RequestTypes
  <1> HIDE DEF was
  <1>2. was = Asks(was.at, was.op, was.user, was.on, was.scopes, was.login, was.code, was.row)
    BY <1>1 DEF Asks, RequestType
  <1>3. /\ was.at \in Steps /\ was.op \in Ops /\ was.user \in Optional(User)
        /\ was.on \in Optional(Id) /\ was.scopes \in Scopes /\ was.login \in Optional(Id)
        /\ was.code \in Optional(Code)
        /\ was.row \in Optional(Account \cup Enrollment \cup Pat)
    BY <1>1 DEF RequestType
  <1>4. was.at # "idle" => was # Idle
    BY IdleIsReady
  <1>5. was.at # "idle" => was.user \in User
    BY <1>1, <1>4 DEF Ready
  <1> QED
    BY <1>1, <1>2, <1>3, <1>5 DEF was

LEMMA EndContinues ==
  ASSUME NEW r \in Request, End(r)
  PROVE  \E q \in RequestType : Becomes(r, q) /\ Ready(q) /\ Continues(request[r], q)
  BY IdleIsReady DEF End, Becomes, Continues

\* A request goes on with what it had.
LEMMA GoContinues ==
  ASSUME TypeInv, NEW r \in Request,
         NEW there \in {"session", "challenge", "drop"}, Go(r, there),
         \/ request[r].at = "factor" /\ there \in {"session", "challenge"}
         \/ request[r].at \in {"spend", "drop"} /\ there = "session"
         \/ request[r].at = "writePassword" /\ there = "drop" /\ request[r].on # None
  PROVE  \E q \in RequestType : Becomes(r, q) /\ Ready(q) /\ Continues(request[r], q)
  <1> DEFINE was == request[r]
  <1>1. PICK q : q = [was EXCEPT !.at = there] /\ Becomes(r, q)
    BY DEF Go, Becomes
  <1>2. was = Asks(was.at, was.op, was.user, was.on, was.scopes, was.login, was.code, was.row)
    BY WasAsked
  <1>3. Ready(was) /\ was.user \in User /\ was.on \in Optional(Id) /\ was.login \in Optional(Id)
    BY WasAsked
  <1>4. there \in Steps /\ was.op \in Ops /\ was.user \in Optional(User)
        /\ was.on \in Optional(Id) /\ was.scopes \in Scopes /\ was.login \in Optional(Id)
        /\ was.code \in Optional(Code)
        /\ was.row \in Optional(Account \cup Enrollment \cup Pat)
    BY WasAsked DEF Steps
  <1>5. /\ was.at \in {"factor", "spend", "drop", "writePassword"}
        /\ \/ was.at = "factor" /\ there \in {"session", "challenge"}
           \/ was.at \in {"spend", "drop"} /\ there = "session"
           \/ was.at = "writePassword" /\ there = "drop" /\ was.on # None
    OBVIOUS
  <1> HIDE DEF was
  <1>6. q = Asks(there, was.op, was.user, was.on, was.scopes, was.login, was.code, was.row)
    BY <1>1, <1>2 DEF Asks
  <1>7. q \in RequestType
    BY <1>4, <1>6, AskedTyped
  <1>8. q.at = there /\ q.user = was.user /\ q.on = was.on /\ q.login = was.login
    BY <1>6, AskedFields
  <1>9. there = "drop" => was.on \in Id /\ was.login \in Id
    BY <1>3, <1>5 DEF Ready, Optional
  <1>10. Ready(q)
    BY <1>3, <1>8, <1>9 DEF Ready
  <1>11. Continues(was, q)
    BY <1>5, <1>8 DEF Continues
  <1> QED
    BY <1>1, <1>7, <1>10, <1>11 DEF was

LEMMA CheckContinues ==
  ASSUME TypeInv, NEW r \in Request, CheckFactor(r)
  PROVE  \E q \in RequestType : Becomes(r, q) /\ Ready(q) /\ Continues(request[r], q)
  <1> DEFINE was == request[r]
  <1>1. was.at = "factor"
    BY DEF CheckFactor
  <1>2. CASE Go(r, "session") \/ Go(r, "challenge")
    BY <1>1, <1>2, GoContinues
  <1>3. CASE ~(Go(r, "session") \/ Go(r, "challenge"))
    <2>1. PICK c \in codes[was.user].unused :
            request' = [request EXCEPT ![r] = [@ EXCEPT !.at = "spend", !.code = c]]
      BY <1>3 DEF CheckFactor
    <2>2. PICK q : q = [was EXCEPT !.at = "spend", !.code = c] /\ Becomes(r, q)
      BY <2>1 DEF Becomes
    <2>3. was = Asks(was.at, was.op, was.user, was.on, was.scopes, was.login, was.code, was.row)
      BY WasAsked
    <2>4. was.op \in Ops /\ was.user \in User /\ was.on \in Optional(Id)
          /\ was.scopes \in Scopes /\ was.login \in Optional(Id)
          /\ was.row \in Optional(Account \cup Enrollment \cup Pat)
      BY <1>1, WasAsked
    <2>5. c \in Code
      BY <2>1, <2>4 DEF TypeInv, RowTypes
    <2> HIDE DEF was
    <2>6. q = Asks("spend", was.op, was.user, was.on, was.scopes, was.login, c, was.row)
      BY <2>2, <2>3 DEF Asks
    <2>7. "spend" \in Steps /\ was.user \in Optional(User) /\ c \in Optional(Code)
      BY <2>4, <2>5 DEF Steps, Optional
    <2>8. q \in RequestType
      BY <2>4, <2>6, <2>7, AskedTyped
    <2>9. q.at = "spend" /\ q.user = was.user /\ q.login = was.login /\ q.code = c
      BY <2>6, AskedFields
    <2>10. Ready(q)
      BY <2>4, <2>5, <2>9 DEF Ready
    <2>11. Continues(was, q)
      BY <1>1, <2>1, <2>9 DEF Continues
    <2> QED
      BY <2>2, <2>8, <2>10, <2>11 DEF was
  <1> QED
    BY <1>2, <1>3

LEMMA IssueContinues ==
  ASSUME TypeInv, NEW r \in Request, IssueSession(r)
  PROVE  \E q \in RequestType : Becomes(r, q) /\ Ready(q) /\ Continues(request[r], q)
  <1>1. CASE End(r)
    BY <1>1, EndContinues
  <1>2. CASE ~End(r)
    <2> DEFINE was == request[r]
    <2>1. /\ was.at = "session" /\ was.login = None /\ NewId \in Id
          /\ request' = [request EXCEPT ![r] = [@ EXCEPT !.at = "verify", !.on = NewId,
                                                         !.login = NewId]]
      BY <1>2 DEF IssueSession, HandOut
    <2>2. PICK q : q = [was EXCEPT !.at = "verify", !.on = NewId, !.login = NewId]
                   /\ Becomes(r, q)
      BY <2>1 DEF Becomes
    <2>3. was = Asks(was.at, was.op, was.user, was.on, was.scopes, was.login, was.code, was.row)
      BY WasAsked
    <2>4. was.op \in Ops /\ was.user \in User
          /\ was.scopes \in Scopes /\ was.code \in Optional(Code)
          /\ was.row \in Optional(Account \cup Enrollment \cup Pat)
      BY <2>1, WasAsked
    <2> HIDE DEF was
    <2>6. q = Asks("verify", was.op, was.user, NewId, was.scopes, NewId, was.code, was.row)
      BY <2>2, <2>3 DEF Asks
    <2>7. "verify" \in Steps /\ was.user \in Optional(User) /\ NewId \in Optional(Id)
      BY <2>1, <2>4 DEF Steps, Optional
    <2>8. q \in RequestType
      BY <2>4, <2>6, <2>7, AskedTyped
    <2>9. q.at = "verify" /\ q.user = was.user /\ q.login = NewId /\ q.on = NewId
      BY <2>6, AskedFields
    <2>10. Ready(q)
      BY <2>1, <2>4, <2>9 DEF Ready
    <2>11. Continues(was, q)
      BY <2>1, <2>9 DEF Continues
    <2> QED
      BY <2>2, <2>8, <2>10, <2>11 DEF was
  <1> QED
    BY <1>1, <1>2

LEMMA VerifyContinues ==
  ASSUME TypeInv, NEW r \in Request, VerifySession(r)
  PROVE  \E q \in RequestType : Becomes(r, q) /\ Ready(q) /\ Continues(request[r], q)
  <1>1. CASE End(r)
    BY <1>1, EndContinues
  <1>2. CASE ~End(r)
    <2> DEFINE was == request[r]  s == session[was.on].scopes
    <2>1. /\ was.at = "verify" /\ UsableSession(was.on)
          /\ request' = [request EXCEPT ![r] = [@ EXCEPT !.at = "drop", !.scopes = s]]
      BY <1>2 DEF VerifySession
    <2>2. PICK q : q = [was EXCEPT !.at = "drop", !.scopes = s] /\ Becomes(r, q)
      BY <2>1 DEF Becomes
    <2>3. was = Asks(was.at, was.op, was.user, was.on, was.scopes, was.login, was.code, was.row)
      BY WasAsked
    <2>4. Ready(was) /\ was.op \in Ops /\ was.user \in User /\ was.code \in Optional(Code)
          /\ was.row \in Optional(Account \cup Enrollment \cup Pat)
      BY <2>1, WasAsked
    <2>5. was.on \in Id /\ was.login \in Id
      BY <2>1, <2>4 DEF Ready
    <2>6. s \in Scopes /\ session[was.on] # None
      BY <2>1, <2>5 DEF TypeInv, RowTypes, UsableSession, Optional, Session
    <2> HIDE DEF was, s
    <2>7. q = Asks("drop", was.op, was.user, was.on, s, was.login, was.code, was.row)
      BY <2>2, <2>3 DEF Asks
    <2>8. /\ "drop" \in Steps /\ was.user \in Optional(User) /\ was.on \in Optional(Id)
          /\ was.login \in Optional(Id)
      BY <2>4, <2>5 DEF Steps, Optional
    <2>9. q \in RequestType
      BY <2>4, <2>6, <2>7, <2>8, AskedTyped
    <2>10. q.at = "drop" /\ q.user = was.user /\ q.login = was.login /\ q.on = was.on
      BY <2>7, AskedFields
    <2>11. Ready(q)
      BY <2>4, <2>5, <2>10 DEF Ready
    <2>12. Continues(was, q)
      BY <2>1, <2>6, <2>10 DEF Continues
    <2> QED
      BY <2>2, <2>9, <2>11, <2>12 DEF was
  <1> QED
    BY <1>1, <1>2

LEMMA ReadTokenContinues ==
  ASSUME TypeInv, TokenInv, NEW r \in Request, ReadToken(r)
  PROVE  \E q \in RequestType : Becomes(r, q) /\ Ready(q) /\ Continues(request[r], q)
  <1>1. CASE End(r)
    BY <1>1, EndContinues
  <1>2. CASE ~End(r)
    <2> DEFINE was == request[r]  token == pat[was.on]
    <2>1. /\ was.at = "readToken"
          /\ request' = [request EXCEPT ![r] = [@ EXCEPT !.at = "writeToken", !.row = token]]
      BY <1>2 DEF ReadToken
    <2>2. PICK q : q = [was EXCEPT !.at = "writeToken", !.row = token] /\ Becomes(r, q)
      BY <2>1 DEF Becomes
    <2>3. was = Asks(was.at, was.op, was.user, was.on, was.scopes, was.login, was.code, was.row)
      BY WasAsked
    <2>4. /\ Ready(was) /\ was.op \in Ops /\ was.user \in User /\ was.scopes \in Scopes
          /\ was.login \in Optional(Id) /\ was.code \in Optional(Code)
      BY <2>1, WasAsked
    <2>5. was.on \in Id /\ token \in Pat
      BY <2>1 DEF TokenInv, TokenTypes, TokenRequest
    <2> HIDE DEF was, token
    <2>7. q = Asks("writeToken", was.op, was.user, was.on, was.scopes, was.login, was.code, token)
      BY <2>2, <2>3 DEF Asks
    <2>8. /\ "writeToken" \in Steps /\ was.user \in Optional(User) /\ was.on \in Optional(Id)
          /\ token \in Optional(Account \cup Enrollment \cup Pat)
      BY <2>4, <2>5 DEF Steps, Optional
    <2>9. q \in RequestType
      BY <2>4, <2>7, <2>8, AskedTyped
    <2>10. q.at = "writeToken" /\ q.user = was.user /\ q.row = token /\ q.on = was.on
      BY <2>7, AskedFields
    <2>11. Ready(q)
      BY <2>4, <2>5, <2>10 DEF Ready
    <2>12. Continues(was, q)
      BY <2>1, <2>10 DEF Continues
    <2> QED
      BY <2>2, <2>9, <2>11, <2>12 DEF was
  <1> QED
    BY <1>1, <1>2

LEMMA ReadFactorContinues ==
  ASSUME TypeInv, NEW r \in Request, ReadFactor(r)
  PROVE  \E q \in RequestType : Becomes(r, q) /\ Ready(q) /\ Continues(request[r], q)
  <1> DEFINE was == request[r]  u == was.user  row == enrollment[u]
  <1>1. PICK c \in {None} \cup (IF was.op \in {"disable", "regenerate"} /\ Confirmed(u)
                                THEN codes[u].unused ELSE {}) :
          request' = [request EXCEPT ![r] = [@ EXCEPT !.at = "writeFactor", !.code = c,
                                                      !.row = row]]
    BY DEF ReadFactor
  <1>2. was.at = "readFactor" /\ (was.op = "regenerate" => Confirmed(u))
    BY DEF ReadFactor
  <1>3. PICK q : q = [was EXCEPT !.at = "writeFactor", !.code = c, !.row = row] /\ Becomes(r, q)
    BY <1>1 DEF Becomes
  <1>4. was = Asks(was.at, was.op, was.user, was.on, was.scopes, was.login, was.code, was.row)
    BY WasAsked
  <1>5. /\ was.op \in Ops /\ u \in User /\ was.scopes \in Scopes
        /\ was.login \in Optional(Id) /\ was.on \in Optional(Id)
    BY <1>2, WasAsked
  <1>6. row \in Optional(Enrollment) /\ codes[u].unused \subseteq Code
    BY <1>5 DEF TypeInv, RowTypes
  <1>7. c # None => c \in codes[u].unused /\ row # None
    BY <1>1 DEF Confirmed
  <1>8. was.op = "regenerate" => row # None
    BY <1>2 DEF Confirmed
  <1>9. row = enrollment[u]
    OBVIOUS
  <1> HIDE DEF was, u, row
  <1>10. q = Asks("writeFactor", was.op, was.user, was.on, was.scopes, was.login, c, row)
    BY <1>3, <1>4 DEF Asks
  <1>11. /\ "writeFactor" \in Steps /\ u \in Optional(User) /\ c \in Optional(Code)
         /\ row \in Optional(Account \cup Enrollment \cup Pat)
    BY <1>5, <1>6, <1>7 DEF Steps, Optional
  <1>12. was.user \in Optional(User) /\ was.user \in User
    BY <1>5, <1>11 DEF u
  <1>13. q \in RequestType
    BY <1>5, <1>10, <1>11, <1>12, AskedTyped
  <1>14. q.at = "writeFactor" /\ q.op = was.op /\ q.user = was.user /\ q.row = row /\ q.code = c
    BY <1>10, AskedFields
  <1>15. Ready(q)
    BY <1>6, <1>12, <1>14 DEF Ready
  <1>16. Continues(was, q)
    BY <1>2, <1>7, <1>8, <1>9, <1>14 DEF Continues, u
  <1> QED
    BY <1>3, <1>13, <1>15, <1>16 DEF was

\* Every later step of a request.
LEMMA RequestContinues ==
  ASSUME TypeInv, TokenInv, NEW r \in Request,
         \/ CheckFactor(r) \/ SpendCode(r) \/ IssueSession(r) \/ IssueChallenge(r)
         \/ VerifySession(r) \/ DropSession(r) \/ WriteNewToken(r) \/ ReadToken(r)
         \/ WriteToken(r) \/ ReadFactor(r) \/ Enroll(r) \/ ConfirmFactor(r)
         \/ DisableOrRegenerate(r) \/ WriteAccount(r) \/ WritePassword(r)
         \/ (Register(r) /\ request[r].at = "register") \/ Abort(r)
  PROVE  \E q \in RequestType : Becomes(r, q) /\ Ready(q) /\ Continues(request[r], q)
  <1>1. CASE CheckFactor(r)
    BY <1>1, CheckContinues
  <1>2. CASE IssueSession(r)
    BY <1>2, IssueContinues
  <1>3. CASE VerifySession(r)
    BY <1>3, VerifyContinues
  <1>4. CASE ReadToken(r)
    BY <1>4, ReadTokenContinues
  <1>5. CASE ReadFactor(r)
    BY <1>5, ReadFactorContinues
  <1>6. CASE End(r)
    BY <1>6, EndContinues
  <1>7. CASE \/ SpendCode(r) \/ DropSession(r) \/ WritePassword(r)
    <2>1. \/ End(r)
          \/ request[r].at \in {"spend", "drop"} /\ Go(r, "session")
          \/ request[r].at = "writePassword" /\ Go(r, "drop") /\ request[r].on # None
      BY <1>7 DEF SpendCode, DropSession, WritePassword
    <2> QED
      BY <1>6, <2>1, GoContinues
  <1>8. CASE \/ IssueChallenge(r) \/ WriteNewToken(r) \/ WriteToken(r) \/ Enroll(r)
             \/ ConfirmFactor(r) \/ DisableOrRegenerate(r) \/ WriteAccount(r) \/ Abort(r)
    <2>1. End(r)
      BY <1>8 DEF IssueChallenge, WriteNewToken, WriteToken, Enroll, ConfirmFactor,
                  DisableOrRegenerate, WriteAccount, Abort
    <2> QED
      BY <1>6, <2>1
  <1>9. CASE Register(r) /\ request[r].at = "register"
    <2>1. request[r] # Idle
      BY <1>9, IdleIsReady
    <2>2. End(r)
      BY <1>9, <2>1 DEF Register, Start
    <2> QED
      BY <1>6, <2>2
  <1> QED
    BY <1>1, <1>2, <1>3, <1>4, <1>5, <1>7, <1>8, <1>9

LEMMA PrincipalTyped ==
  ASSUME TypeInv, NEW r \in Request, WriteAccount(r) \/ WritePassword(r) \/ Register(r)
  PROVE  principal' \in [User -> Account]
  <1> DEFINE was == request[r]  u == was.user
  <1>1. principal \in [User -> Account]
    BY DEF TypeInv, RowTypes
  <1>2. was.at # "idle" => u \in User
    BY WasAsked
  <1>3. CASE principal' = principal
    BY <1>1, <1>3
  <1>4. CASE WriteAccount(r) /\ principal' # principal
    <2>1. was.at = "writeUser" /\ principal' = Edited(u, was.row)
      BY <1>4 DEF WriteAccount
    <2>2. was.row \in Account
      BY <2>1, WasAsked DEF Ready
    <2> DEFINE a == [principal[u] EXCEPT !.status = was.row.status, !.grants = was.row.grants]
    <2>3. principal' = [principal EXCEPT ![u] = a]
      BY <2>1 DEF Edited
    <2>4. principal[u] \in Account
      BY <1>1, <1>2, <2>1
    <2> HIDE DEF was, u
    <2>5. a = [status |-> was.row.status, mustChange |-> principal[u].mustChange,
               grants |-> was.row.grants]
      <3>1. principal[u] = [status |-> principal[u].status,
                            mustChange |-> principal[u].mustChange,
                            grants |-> principal[u].grants]
        BY <2>4 DEF Account
      <3> DEFINE half == [principal[u] EXCEPT !.status = was.row.status]
      <3>2. half = [status |-> was.row.status, mustChange |-> principal[u].mustChange,
                    grants |-> principal[u].grants]
        BY <3>1
      <3>3. a = [half EXCEPT !.grants = was.row.grants]
        OBVIOUS
      <3> HIDE DEF half, a
      <3> QED
        BY <3>2, <3>3
    <2>6. a \in Account
      BY <2>2, <2>4, <2>5 DEF Account
    <2> HIDE DEF a
    <2> QED
      BY <1>1, <2>3, <2>6
  <1>5. CASE WritePassword(r) /\ principal' # principal
    <2>1. PICK forced \in BOOLEAN : principal' = [principal EXCEPT ![u].mustChange = forced]
      BY <1>5 DEF WritePassword
    <2>2. u \in User
      BY <1>2, <1>5 DEF WritePassword
    <2> HIDE DEF was, u
    <2> QED
      BY <1>1, <2>1, <2>2 DEF Account
  <1>6. CASE Register(r) /\ principal' # principal
    <2>1. principal' = [principal EXCEPT ![u].status = "active"] /\ was.at = "register"
      BY <1>6 DEF Register
    <2>2. u \in User
      BY <1>2, <2>1
    <2> HIDE DEF was, u
    <2> QED
      BY <1>1, <2>1, <2>2 DEF Account
  <1> QED
    BY <1>3, <1>4, <1>5, <1>6

LEMMA SessionTyped ==
  ASSUME TypeInv, NEW r \in Request, IssueSession(r) \/ IssueChallenge(r) \/ DropSession(r)
  PROVE  session' \in [Id -> Optional(Session)]
  <1> DEFINE was == request[r]
  <1>1. session \in [Id -> Optional(Session)]
    BY DEF TypeInv, RowTypes
  <1>2. was.at # "idle" => was.user \in User
    BY WasAsked
  <1>3. was.scopes \in Scopes /\ {} \in Scopes /\ was.login \in Optional(Id)
    BY WasAsked, IdentityAssumption
  <1>4. CASE IssueSession(r)
    <2>1. PICK login :
            /\ login = IF was.login = None THEN NewId ELSE was.login
            /\ session' = [session EXCEPT ![NewId] =
                 [user |-> was.user, login |-> login, scopes |-> was.scopes, challenge |-> FALSE]]
            /\ NewId \in Id /\ was.at = "session"
      BY <1>4 DEF IssueSession, HandOut
    <2>2. login \in Id /\ was.user \in User
      BY <1>2, <1>3, <2>1 DEF Optional
    <2> HIDE DEF was
    <2>3. [user |-> was.user, login |-> login, scopes |-> was.scopes, challenge |-> FALSE]
            \in Session
      BY <1>3, <2>2 DEF Session
    <2> QED
      BY <1>1, <2>1, <2>3 DEF Optional
  <1>5. CASE IssueChallenge(r)
    <2>1. /\ session' = [session EXCEPT ![NewId] =
                [user |-> was.user, login |-> NewId, scopes |-> {}, challenge |-> TRUE]]
          /\ NewId \in Id /\ was.at = "challenge"
      BY <1>5 DEF IssueChallenge, HandOut
    <2>2. was.user \in User
      BY <1>2, <2>1
    <2> HIDE DEF was
    <2>3. [user |-> was.user, login |-> NewId, scopes |-> {}, challenge |-> TRUE] \in Session
      BY <1>3, <2>1, <2>2 DEF Session
    <2> QED
      BY <1>1, <2>1, <2>3 DEF Optional
  <1>6. CASE DropSession(r)
    <2>1. session' = [session EXCEPT ![was.on] = None]
      BY <1>6 DEF DropSession, Dropped
    <2> HIDE DEF was
    <2> QED
      BY <1>1, <2>1 DEF Optional
  <1> QED
    BY <1>4, <1>5, <1>6

LEMMA BatchTyped ==
  ASSUME NEW n \in Id
  PROVE  Batch(n) \subseteq Code
  BY DEF Batch, Code

CodeTypes ==
    /\ enrollment \in [User -> Optional(Enrollment)]
    /\ codes \in [User -> [unused : SUBSET Code, used : SUBSET Code]]
    /\ shown \in [User -> Optional(Id)]
    /\ accepted \in [Code -> Nat]

LEMMA AcceptTyped ==
  ASSUME TypeInv, NEW c \in Code, Accept(c)
  PROVE  accepted' \in [Code -> Nat]
  BY DEF TypeInv, HistoryTypes, Accept

\* Writing the codes of one user.
LEMMA CodesTyped ==
  ASSUME TypeInv, NEW u \in User, NEW unused \in SUBSET Code, NEW used \in SUBSET Code,
         codes' = [codes EXCEPT ![u] = [unused |-> unused, used |-> used]]
  PROVE  codes' \in [User -> [unused : SUBSET Code, used : SUBSET Code]]
  BY DEF TypeInv, RowTypes

LEMMA NewBatchWrites ==
  ASSUME TypeInv, NEW u \in User, NEW keep \in BOOLEAN, NewBatch(u, keep)
  PROVE  /\ NewId \in Id /\ lastId' = NewId /\ shown' = [shown EXCEPT ![u] = NewId]
         /\ codes' = [codes EXCEPT ![u] =
               [unused |-> Batch(NewId) \cup (IF keep THEN codes[u].unused ELSE {}),
                used |-> IF keep THEN codes[u].used ELSE {}]]
         /\ codes' \in [User -> [unused : SUBSET Code, used : SUBSET Code]]
         /\ shown' \in [User -> Optional(Id)]
  <1> DEFINE unused == Batch(NewId) \cup (IF keep THEN codes[u].unused ELSE {})
             used == IF keep THEN codes[u].used ELSE {}
  <1>1. NewId \in Id /\ lastId' = NewId /\ shown' = [shown EXCEPT ![u] = NewId]
    BY DEF NewBatch, HandOut
  <1>2. codes[u] \in [unused : SUBSET Code, used : SUBSET Code]
    BY DEF TypeInv, RowTypes
  <1>3. codes' = [codes EXCEPT ![u] = [unused |-> unused, used |-> used]]
    BY DEF NewBatch
  <1>4. unused \in SUBSET Code /\ used \in SUBSET Code
    BY <1>1, <1>2, BatchTyped
  <1> HIDE DEF unused, used
  <1>7. codes' \in [User -> [unused : SUBSET Code, used : SUBSET Code]]
    BY <1>3, <1>4, CodesTyped
  <1>8. shown' \in [User -> Optional(Id)]
    BY <1>1 DEF TypeInv, HistoryTypes, Optional
  <1> QED
    BY <1>1, <1>3, <1>7, <1>8 DEF unused, used

LEMMA FactorTyped ==
  ASSUME TypeInv, NEW r \in Request,
         SpendCode(r) \/ Enroll(r) \/ ConfirmFactor(r) \/ DisableOrRegenerate(r)
  PROVE  CodeTypes'
  <1> DEFINE was == request[r]  u == was.user
  <1>1. CodeTypes
    BY DEF TypeInv, RowTypes, HistoryTypes, CodeTypes
  <1>2. u \in User /\ was.code \in Optional(Code)
    BY WasAsked DEF SpendCode, Enroll, ConfirmFactor, DisableOrRegenerate
  <1>3. codes[u] \in [unused : SUBSET Code, used : SUBSET Code]
    BY <1>1, <1>2 DEF CodeTypes
  <1>4. CASE SpendCode(r)
    <2> DEFINE c == was.code
    <2>1. c \in Code
      BY <1>4, WasAsked DEF SpendCode, Ready
    <2>2. UNCHANGED <<enrollment, shown>>
      BY <1>4 DEF SpendCode
    <2>3. \/ UNCHANGED <<codes, accepted>>
          \/ /\ codes' = [codes EXCEPT ![u] = [unused |-> codes[u].unused \ {c},
                                               used |-> codes[u].used \cup {c}]]
             /\ Accept(c)
      BY <1>4 DEF SpendCode, CodeUsed
    <2> HIDE DEF was, u, c
    <2>4. /\ codes[u].unused \ {c} \in SUBSET Code
          /\ codes[u].used \cup {c} \in SUBSET Code
      BY <1>3, <2>1
    <2>5. \/ UNCHANGED <<codes, accepted>>
          \/ /\ codes' \in [User -> [unused : SUBSET Code, used : SUBSET Code]]
             /\ accepted' \in [Code -> Nat]
      BY <1>2, <2>1, <2>3, <2>4, CodesTyped, AcceptTyped
    <2> QED
      BY <1>1, <2>2, <2>5 DEF CodeTypes
  <1>5. CASE Enroll(r)
    <2>1. UNCHANGED accepted
      BY <1>5 DEF Enroll
    <2>2. \/ UNCHANGED <<enrollment, codes, shown>>
          \/ \E keep \in BOOLEAN :
               /\ enrollment' = [enrollment EXCEPT ![u] = [batch |-> NewId, confirmed |-> FALSE]]
               /\ NewBatch(u, keep)
      BY <1>5 DEF Enroll
    <2> HIDE DEF was, u
    <2>3. ASSUME NEW keep \in BOOLEAN, NewBatch(u, keep),
                 enrollment' = [enrollment EXCEPT ![u] = [batch |-> NewId, confirmed |-> FALSE]]
          PROVE  CodeTypes'
      <3>1. /\ NewId \in Id /\ shown' \in [User -> Optional(Id)]
            /\ codes' \in [User -> [unused : SUBSET Code, used : SUBSET Code]]
        BY <1>2, <2>3, NewBatchWrites
      <3>2. enrollment' \in [User -> Optional(Enrollment)]
        BY <1>1, <2>3, <3>1 DEF CodeTypes, Optional, Enrollment
      <3> QED
        BY <1>1, <2>1, <3>1, <3>2 DEF CodeTypes
    <2> QED
      BY <1>1, <2>1, <2>2, <2>3 DEF CodeTypes
  <1>6. CASE ConfirmFactor(r)
    <2>1. UNCHANGED <<codes, shown, accepted>>
      BY <1>6 DEF ConfirmFactor, history
    <2>2. \/ UNCHANGED enrollment
          \/ enrollment[u] # None /\ enrollment' = [enrollment EXCEPT ![u].confirmed = TRUE]
      BY <1>6 DEF ConfirmFactor
    <2> HIDE DEF was, u
    <2>3. enrollment' \in [User -> Optional(Enrollment)]
      BY <1>1, <1>2, <2>2 DEF CodeTypes, Optional, Enrollment
    <2> QED
      BY <1>1, <2>1, <2>3 DEF CodeTypes
  <1>7. CASE DisableOrRegenerate(r)
    <2>1. CASE UNCHANGED <<enrollment, codes, shown, accepted>>
      BY <1>1, <2>1 DEF CodeTypes
    <2>2. CASE ~UNCHANGED <<enrollment, codes, shown, accepted>>
      <3>1. /\ IF was.op = "disable"
               THEN Unenrolled(u) /\ UNCHANGED shown
               ELSE NewBatch(u, FALSE) /\ UNCHANGED enrollment
            /\ IF was.code = None THEN UNCHANGED accepted ELSE Accept(was.code)
        BY <1>7, <2>2 DEF DisableOrRegenerate
      <3> HIDE DEF was, u
      <3>2. accepted' \in [Code -> Nat]
        BY <1>1, <1>2, <3>1, AcceptTyped DEF CodeTypes, Optional
      <3>3. CASE was.op = "disable"
        <4>1. /\ enrollment' = [enrollment EXCEPT ![u] = None] /\ UNCHANGED shown
              /\ codes' = codes \/ codes' = [codes EXCEPT ![u] = NoCodes]
          BY <1>1, <3>1, <3>3 DEF Unenrolled, CodeTypes
        <4>2. enrollment' \in [User -> Optional(Enrollment)]
          BY <1>1, <4>1 DEF CodeTypes, Optional
        <4>3. codes' \in [User -> [unused : SUBSET Code, used : SUBSET Code]]
          BY <1>1, <1>2, <4>1, CodesTyped DEF NoCodes, CodeTypes
        <4> QED
          BY <1>1, <3>2, <4>1, <4>2, <4>3 DEF CodeTypes
      <3>4. CASE was.op # "disable"
        <4>1. NewBatch(u, FALSE) /\ UNCHANGED enrollment
          BY <3>1, <3>4
        <4>2. /\ shown' \in [User -> Optional(Id)]
              /\ codes' \in [User -> [unused : SUBSET Code, used : SUBSET Code]]
          BY <1>2, <4>1, NewBatchWrites
        <4> QED
          BY <1>1, <3>2, <4>1, <4>2 DEF CodeTypes
      <3> QED
        BY <3>3, <3>4
    <2> QED
      BY <2>1, <2>2
  <1> QED
    BY <1>4, <1>5, <1>6, <1>7

LEMMA WritesTyped ==
  ASSUME TypeInv, NEW r, NEW x \in Objects, Writes(r, x)
  PROVE  raced' \subseteq Objects
  BY DEF TypeInv, HistoryTypes, Writes

LEMMA RacedTyped ==
  ASSUME TypeInv, NEW r \in Request,
         \/ SpendCode(r) \/ DropSession(r) \/ WriteToken(r) \/ Enroll(r) \/ ConfirmFactor(r)
         \/ DisableOrRegenerate(r) \/ WriteAccount(r) \/ WritePassword(r)
  PROVE  raced' \subseteq Objects
  <1> DEFINE was == request[r]  u == was.user
  <1>1. raced \subseteq Objects
    BY DEF TypeInv, HistoryTypes
  <1>2. u \in User /\ Ready(was)
    BY WasAsked DEF SpendCode, DropSession, WriteToken, Enroll, ConfirmFactor,
                    DisableOrRegenerate, WriteAccount, WritePassword
  <1>3. \/ UNCHANGED raced
        \/ Writes(r, <<"factor", u>>) \/ Writes(r, <<"account", u>>)
        \/ Writes(r, <<"password", u>>)
        \/ was.at = "drop" /\ Writes(r, <<"login", was.login>>)
        \/ was.at = "writeToken" /\ Writes(r, <<"token", was.row.origin>>)
    BY DEF SpendCode, DropSession, WriteToken, Enroll, ConfirmFactor,
           DisableOrRegenerate, WriteAccount, WritePassword
  <1>4. /\ was.at = "drop" => was.login \in Id
        /\ was.at = "writeToken" => was.row.origin \in Id
    BY <1>2 DEF Ready, Pat
  <1> HIDE DEF was, u
  <1>5. /\ <<"factor", u>> \in Objects /\ <<"account", u>> \in Objects
        /\ <<"password", u>> \in Objects
        /\ was.at = "drop" => <<"login", was.login>> \in Objects
        /\ was.at = "writeToken" => <<"token", was.row.origin>> \in Objects
    BY <1>2, <1>4 DEF Objects
  <1> QED
    BY <1>1, <1>3, <1>5, WritesTyped

LEMMA EndedTyped ==
  ASSUME TypeInv, NEW r \in Request, DropSession(r) \/ WriteToken(r)
  PROVE  ended' \subseteq {"login", "token"} \X Id
  <1> DEFINE was == request[r]
  <1>1. ended \subseteq {"login", "token"} \X Id
    BY DEF TypeInv, HistoryTypes
  <1>2. Ready(was)
    BY WasAsked
  <1>3. \/ UNCHANGED ended
        \/ was.at = "drop" /\ ended' = ended \cup {<<"login", was.login>>}
        \/ was.at = "writeToken" /\ ended' = ended \cup {<<"token", was.row.origin>>}
    BY DEF DropSession, WriteToken
  <1>4. /\ was.at = "drop" => was.login \in Id
        /\ was.at = "writeToken" => was.row.origin \in Id
    BY <1>2 DEF Ready, Pat
  <1> HIDE DEF was
  <1> QED
    BY <1>1, <1>3, <1>4

LEMMA RequestMoves ==
  ASSUME TypeInv, TokenInv, [IdNext]_vars
  PROVE  \/ UNCHANGED request
         \/ \E r \in Request, q \in RequestType :
              Becomes(r, q) /\ Ready(q) /\ (Fresh(q) \/ Continues(request[r], q))
  <1>1. ASSUME NEW r \in Request, NEW q, Start(r, q)
        PROVE  Becomes(r, q)
    BY <1>1 DEF Start, Becomes
  <1>2. ASSUME NEW r \in Request,
               \/ Login(r) \/ AnswerChallenge(r) \/ RefreshOrLogout(r)
               \/ ExchangeOrImpersonate(r) \/ IssueToken(r) \/ ChangeToken(r)
               \/ ChangeFactor(r) \/ EditAccount(r) \/ StartPassword(r)
               \/ (Register(r) /\ request[r].at # "register")
        PROVE  \E q \in RequestType : Becomes(r, q) /\ Ready(q) /\ Fresh(q)
    BY <1>1, <1>2, RequestBegins
  <1>3. ASSUME NEW r \in Request,
               \/ CheckFactor(r) \/ SpendCode(r) \/ IssueSession(r) \/ IssueChallenge(r)
               \/ VerifySession(r) \/ DropSession(r) \/ WriteNewToken(r) \/ ReadToken(r)
               \/ WriteToken(r) \/ ReadFactor(r) \/ Enroll(r) \/ ConfirmFactor(r)
               \/ DisableOrRegenerate(r) \/ WriteAccount(r) \/ WritePassword(r)
               \/ (Register(r) /\ request[r].at = "register") \/ Abort(r)
        PROVE  \E q \in RequestType : Becomes(r, q) /\ Ready(q) /\ Continues(request[r], q)
    BY <1>3, RequestContinues
  <1>4. ASSUME NEW p \in Id, TokenExpires(p)
        PROVE  UNCHANGED request
    BY <1>4 DEF TokenExpires
  <1>5. UNCHANGED vars => UNCHANGED request
    BY DEF vars
  <1> QED
    BY <1>2, <1>3, <1>4, <1>5 DEF IdNext

LEMMA StepTypeInv ==
  ASSUME TypeInv, TokenInv, TokenInv', [IdNext]_vars
  PROVE  TypeInv'
  <1>1. RequestTypes'
    <2>1. CASE UNCHANGED request
      BY <2>1 DEF TypeInv, RequestTypes, RequestType, Ready
    <2>2. ASSUME NEW r \in Request, NEW q \in RequestType, Becomes(r, q), Ready(q)
          PROVE  RequestTypes'
      <3>1. /\ request' \in [Request -> RequestType]
            /\ \A p \in Request : request'[p] = IF p = r THEN q ELSE request[p]
        BY <2>2 DEF TypeInv, RequestTypes, Becomes
      <3>2. ASSUME NEW p \in Request
            PROVE  Ready(request'[p])
        BY <2>2, <3>1 DEF TypeInv, RequestTypes
      <3> QED
        BY <3>1, <3>2 DEF RequestTypes, RequestType, Ready
    <2> QED
      BY <2>1, <2>2, RequestMoves
  <1>2. principal' \in [User -> Account]
    <2>1. \/ UNCHANGED principal
          \/ \E r \in Request : WriteAccount(r) \/ WritePassword(r) \/ Register(r)
      BY DEF IdNext, vars, rows, Login, AnswerChallenge, RefreshOrLogout,
             ExchangeOrImpersonate, ChangeFactor, EditAccount, StartPassword, IssueToken,
             CheckFactor, SpendCode, IssueSession, IssueChallenge, VerifySession,
             DropSession, ReadFactor, Enroll, ConfirmFactor, DisableOrRegenerate, Abort,
             ChangeToken, ReadToken, WriteNewToken, WriteToken, TokenExpires
    <2> QED
      BY <2>1, PrincipalTyped DEF TypeInv, RowTypes
  <1>3. session' \in [Id -> Optional(Session)]
    <2>1. \/ UNCHANGED session
          \/ \E r \in Request : IssueSession(r) \/ IssueChallenge(r) \/ DropSession(r)
      BY DEF IdNext, vars, rows, Login, AnswerChallenge, RefreshOrLogout,
             ExchangeOrImpersonate, ChangeFactor, EditAccount, StartPassword, IssueToken,
             CheckFactor, SpendCode, VerifySession, ReadFactor, Enroll, ConfirmFactor,
             DisableOrRegenerate, Abort, ChangeToken, ReadToken, WriteNewToken, WriteToken,
             TokenExpires, WriteAccount, WritePassword, Register
    <2> QED
      BY <2>1, SessionTyped DEF TypeInv, RowTypes
  <1>4. pat' \in [Id -> Optional(Pat)]
    BY DEF TokenInv, TokenTypes
  <1>5. CodeTypes'
    <2>1. ASSUME NEW r \in Request,
                 \/ Login(r) \/ AnswerChallenge(r) \/ RefreshOrLogout(r)
                 \/ ExchangeOrImpersonate(r) \/ IssueToken(r) \/ ChangeToken(r)
                 \/ ChangeFactor(r) \/ EditAccount(r) \/ StartPassword(r) \/ Register(r)
                 \/ CheckFactor(r) \/ IssueSession(r) \/ IssueChallenge(r)
                 \/ VerifySession(r) \/ DropSession(r) \/ WriteNewToken(r) \/ ReadToken(r)
                 \/ WriteToken(r) \/ ReadFactor(r) \/ WriteAccount(r) \/ WritePassword(r)
                 \/ Abort(r)
          PROVE  UNCHANGED <<enrollment, codes, shown, accepted>>
      BY <2>1 DEF rows, history, Login, AnswerChallenge, RefreshOrLogout,
             ExchangeOrImpersonate, ChangeFactor, EditAccount, StartPassword, IssueToken,
             CheckFactor, IssueSession, IssueChallenge, VerifySession, DropSession,
             ReadFactor, Abort, ChangeToken, ReadToken, WriteNewToken, WriteToken,
             WriteAccount, WritePassword, Register
    <2>2. CASE UNCHANGED <<enrollment, codes, shown, accepted>>
      BY <2>2 DEF TypeInv, RowTypes, HistoryTypes, CodeTypes
    <2>3. ASSUME NEW p \in Id, TokenExpires(p)
          PROVE  UNCHANGED <<enrollment, codes, shown, accepted>>
      BY <2>3 DEF TokenExpires, history
    <2>4. UNCHANGED vars => UNCHANGED <<enrollment, codes, shown, accepted>>
      BY DEF vars, rows, history
    <2> QED
      BY <2>1, <2>2, <2>3, <2>4, FactorTyped DEF IdNext
  <1>6. begun' \in 0..MaxRequests
    <2>1. ASSUME NEW r \in Request,
                 \/ Login(r) \/ AnswerChallenge(r) \/ RefreshOrLogout(r)
                 \/ ExchangeOrImpersonate(r) \/ IssueToken(r) \/ ChangeToken(r)
                 \/ ChangeFactor(r) \/ EditAccount(r) \/ StartPassword(r)
                 \/ (Register(r) /\ request[r].at # "register")
          PROVE  begun < MaxRequests /\ begun' = begun + 1
      <3>1. \E q \in RequestType : Start(r, q)
        BY <2>1, RequestBegins
      <3> QED
        BY <3>1 DEF Start
    <2>2. ASSUME NEW r \in Request,
                 \/ CheckFactor(r) \/ SpendCode(r) \/ IssueSession(r) \/ IssueChallenge(r)
                 \/ VerifySession(r) \/ DropSession(r) \/ WriteNewToken(r) \/ ReadToken(r)
                 \/ WriteToken(r) \/ ReadFactor(r) \/ Enroll(r) \/ ConfirmFactor(r)
                 \/ DisableOrRegenerate(r) \/ WriteAccount(r) \/ WritePassword(r)
                 \/ Abort(r)
          PROVE  UNCHANGED begun
      BY <2>2 DEF CheckFactor, SpendCode, IssueSession, IssueChallenge, VerifySession,
                  DropSession, WriteNewToken, ReadToken, WriteToken, ReadFactor, Enroll,
                  ConfirmFactor, DisableOrRegenerate, WriteAccount, WritePassword, Abort
    <2>3. ASSUME NEW r \in Request, Register(r), request[r].at = "register"
          PROVE  UNCHANGED begun
      BY <2>3, IdleIsReady DEF Register, Start
    <2>4. ASSUME NEW p \in Id, TokenExpires(p)
          PROVE  begun < MaxRequests /\ begun' = begun + 1
      BY <2>4 DEF TokenExpires
    <2>5. UNCHANGED begun \/ (begun < MaxRequests /\ begun' = begun + 1)
      BY <2>1, <2>2, <2>3, <2>4 DEF IdNext, vars
    <2> QED
      BY <2>5, IdentityAssumption DEF TypeInv, HistoryTypes
  <1>7. lastId' \in Id
    <2>1. UNCHANGED lastId \/ HandOut
      BY DEF IdNext, vars, Login, AnswerChallenge, RefreshOrLogout,
             ExchangeOrImpersonate, ChangeFactor, EditAccount, StartPassword, IssueToken,
             CheckFactor, SpendCode, IssueSession, IssueChallenge, VerifySession,
             DropSession, ReadFactor, Enroll, ConfirmFactor, DisableOrRegenerate, Abort,
             ChangeToken, ReadToken, WriteNewToken, WriteToken, TokenExpires, WriteAccount,
             WritePassword, Register, NewBatch
    <2> QED
      BY <2>1 DEF TypeInv, HistoryTypes, HandOut
  <1>8. reset' \subseteq User
    <2>1. UNCHANGED reset \/ \E r \in Request : WritePassword(r)
      BY DEF IdNext, vars, history, Login, AnswerChallenge, RefreshOrLogout,
             ExchangeOrImpersonate, ChangeFactor, EditAccount, StartPassword, IssueToken,
             CheckFactor, SpendCode, IssueSession, IssueChallenge, VerifySession,
             DropSession, ReadFactor, Enroll, ConfirmFactor, DisableOrRegenerate, Abort,
             ChangeToken, ReadToken, WriteNewToken, WriteToken, TokenExpires, WriteAccount,
             Register
    <2>2. ASSUME NEW r \in Request, WritePassword(r)
          PROVE  reset' \subseteq User
      <3>1. request[r].user \in User
        BY <2>2, WasAsked DEF WritePassword
      <3>2. reset' \subseteq reset \cup {request[r].user}
        BY <2>2 DEF WritePassword
      <3> QED
        BY <3>1, <3>2 DEF TypeInv, HistoryTypes
    <2> QED
      BY <2>1, <2>2 DEF TypeInv, HistoryTypes
  <1>9. turnedAway' \subseteq User
    <2>1. UNCHANGED turnedAway \/ \E r \in Request : AnswerChallenge(r)
      BY DEF IdNext, vars, history, Login, RefreshOrLogout,
             ExchangeOrImpersonate, ChangeFactor, EditAccount, StartPassword, IssueToken,
             CheckFactor, SpendCode, IssueSession, IssueChallenge, VerifySession,
             DropSession, ReadFactor, Enroll, ConfirmFactor, DisableOrRegenerate, Abort,
             ChangeToken, ReadToken, WriteNewToken, WriteToken, TokenExpires, WriteAccount,
             WritePassword, Register
    <2>2. ASSUME NEW r \in Request, AnswerChallenge(r)
          PROVE  turnedAway' \subseteq User
      <3>1. PICK s \in Id : session[s] # None /\ turnedAway' = turnedAway \cup {session[s].user}
        BY <2>2 DEF AnswerChallenge
      <3>2. session[s].user \in User
        BY <3>1 DEF TypeInv, RowTypes, Optional, Session
      <3> QED
        BY <3>1, <3>2 DEF TypeInv, HistoryTypes
    <2> QED
      BY <2>1, <2>2 DEF TypeInv, HistoryTypes
  <1>10. ended' \subseteq {"login", "token"} \X Id
    <2>1. UNCHANGED ended \/ \E r \in Request : DropSession(r) \/ WriteToken(r)
      BY DEF IdNext, vars, history, Login, AnswerChallenge, RefreshOrLogout,
             ExchangeOrImpersonate, ChangeFactor, EditAccount, StartPassword, IssueToken,
             CheckFactor, SpendCode, IssueSession, IssueChallenge, VerifySession,
             ReadFactor, Enroll, ConfirmFactor, DisableOrRegenerate, Abort,
             ChangeToken, ReadToken, WriteNewToken, TokenExpires, WriteAccount,
             WritePassword, Register
    <2> QED
      BY <2>1, EndedTyped DEF TypeInv, HistoryTypes
  <1>11. raced' \subseteq Objects
    <2>1. \/ UNCHANGED raced
          \/ \E r \in Request :
               \/ SpendCode(r) \/ DropSession(r) \/ WriteToken(r) \/ Enroll(r)
               \/ ConfirmFactor(r) \/ DisableOrRegenerate(r) \/ WriteAccount(r)
               \/ WritePassword(r)
      BY DEF IdNext, vars, Login, AnswerChallenge, RefreshOrLogout,
             ExchangeOrImpersonate, ChangeFactor, EditAccount, StartPassword, IssueToken,
             CheckFactor, IssueSession, IssueChallenge, VerifySession, ReadFactor, Abort,
             ChangeToken, ReadToken, WriteNewToken, TokenExpires, Register
    <2> QED
      BY <2>1, RacedTyped DEF TypeInv, HistoryTypes
  <1> QED
    BY <1>1, <1>2, <1>3, <1>4, <1>5, <1>6, <1>7, <1>8, <1>9, <1>10, <1>11
       DEF TypeInv, RowTypes, HistoryTypes, CodeTypes, Objects

LEMMA InitTypeInv ==
  ASSUME IdInit
  PROVE  TypeInv
  <1>1. PICK given \in {{}, User \ {Admin}} :
      /\ principal = [u \in User |-> [status |-> IF u \in given \cup {Admin} THEN "active"
                                                 ELSE "absent",
                                      mustChange |-> FALSE, grants |-> {}]]
      /\ session = [i \in Id |->
            IF i = 2 THEN [user |-> Admin, login |-> 2, scopes |-> {}, challenge |-> FALSE]
            ELSE IF i = 1 /\ given # {}
            THEN [user |-> CHOOSE u \in given : TRUE, login |-> 1, scopes |-> {},
                  challenge |-> FALSE]
            ELSE None]
      /\ pat = [i \in Id |->
            IF i = 1 /\ given # {}
            THEN [user |-> CHOOSE u \in given : TRUE, origin |-> 1, scopes |-> {},
                  revoked |-> FALSE, expired |-> FALSE]
            ELSE None]
      /\ enrollment = [u \in User |-> IF u \in given THEN [batch |-> 1, confirmed |-> TRUE]
                                      ELSE None]
      /\ codes = [u \in User |-> [unused |-> IF u \in given THEN Batch(1) ELSE {},
                                  used |-> {}]]
      /\ shown = [u \in User |-> IF u \in given THEN 1 ELSE None]
    BY DEF IdInit
  <1>2. /\ request = [r \in Request |-> Idle] /\ begun = 0 /\ lastId = 2
        /\ reset = {} /\ ended = {} /\ turnedAway = {} /\ raced = {}
        /\ accepted = [c \in Code |-> 0]
    BY DEF IdInit
  <1>3. 1 \in Id /\ 2 \in Id /\ {} \in Scopes /\ {} \in Grants /\ Admin \in User
    BY IdentityAssumption DEF Id
  <1>4. given # {} => (CHOOSE u \in given : TRUE) \in User
    OBVIOUS
  <1> DEFINE first == CHOOSE u \in given : TRUE
  <1> HIDE DEF first
  <1>5. principal \in [User -> Account]
    BY <1>1, <1>3 DEF Account
  <1>6. session \in [Id -> Optional(Session)]
    BY <1>1, <1>3, <1>4 DEF Optional, Session
  <1>7. pat \in [Id -> Optional(Pat)]
    BY InitTokenInv DEF TokenInv, TokenTypes
  <1>8. enrollment \in [User -> Optional(Enrollment)]
    BY <1>1, <1>3 DEF Optional, Enrollment
  <1>9. codes \in [User -> [unused : SUBSET Code, used : SUBSET Code]]
    BY <1>1, <1>3, BatchTyped
  <1>10. RequestTypes
    BY <1>2, IdleIsReady DEF RequestTypes
  <1>11. HistoryTypes
    <2>1. shown \in [User -> Optional(Id)]
      BY <1>1, <1>3 DEF Optional
    <2>2. accepted \in [Code -> Nat]
      BY <1>2
    <2> QED
      BY <1>2, <1>3, <2>1, <2>2, IdentityAssumption DEF HistoryTypes
  <1> QED
    BY <1>5, <1>6, <1>7, <1>8, <1>9, <1>10, <1>11 DEF TypeInv, RowTypes

\* Every row, request and history variable stays in its domain, and a request that is under
\* way always has at hand the row, the code and the ids its next step needs.
THEOREM IdentityTypeCorrect == IdSpec => []IdTypeOK
  <1>1. IdInit => TypeInv /\ TokenInv
    BY InitTypeInv, InitTokenInv
  <1>2. TypeInv /\ TokenInv /\ [IdNext]_vars => TypeInv' /\ TokenInv'
    BY StepTypeInv, StepTokenInv
  <1>3. TypeInv => IdTypeOK
    BY DEF TypeInv, RowTypes, RequestTypes, HistoryTypes, RequestType, IdTypeOK, Objects
  <1> QED
    BY <1>1, <1>2, <1>3, PTL DEF IdSpec

-----------------------------------------------------------------------------
(* Sessions *)

\* The steps of a request that is about a session.
SessionSteps == {"session", "verify", "drop", "writePassword"}

LiveSession(i, s) == session[s] # None /\ session[s].login = i

\* Request q has read the session of login i and is about to end or to replace it.
Holds(q, i) == q.at \in {"drop", "session", "writePassword"} /\ q.login = i

SessionRequest(q) ==
    /\ q.at \in {"factor", "spend", "challenge"} => q.login = None
    /\ q.at \in SessionSteps /\ q.login # None =>
         /\ q.login \leq lastId
         /\ q.at # "session" =>
              /\ q.on \in Id /\ q.on \leq lastId
              /\ session[q.on] # None => session[q.on].login = q.login

SessionIds ==
    /\ \A s \in Id : session[s] # None => s \leq lastId /\ session[s].login \leq lastId
    /\ \A i \in Id : <<"login", i>> \in ended => i \leq lastId

\* Of login i one session is left or none; while a request goes from the session it has
\* revoked to the next one, there is none, and nobody else is about to end or replace it.
OneOfLogin(i) ==
    /\ \A s, t \in Id : LiveSession(i, s) /\ LiveSession(i, t) => s = t
    /\ <<"login", i>> \in ended =>
          /\ \A s \in Id : ~LiveSession(i, s)
          /\ \A r \in Request : ~Holds(request[r], i)
    /\ \A r \in Request : Holds(request[r], i) =>
          IF request[r].at = "session"
          THEN /\ \A s \in Id : ~LiveSession(i, s)
               /\ \A p \in Request \ {r} : ~Holds(request[p], i)
          ELSE \A s \in Id : LiveSession(i, s) => s = request[r].on

SessionInv ==
    /\ \A r \in Request : SessionRequest(request[r])
    /\ SessionIds
    /\ \A i \in Id : Undisturbed(<<"login", i>>) => OneOfLogin(i)

LEMMA BecomesRequest ==
  ASSUME TypeInv, NEW r \in Request, NEW q, Becomes(r, q)
  PROVE  \A p \in Request : request'[p] = IF p = r THEN q ELSE request[p]
  BY DEF TypeInv, RequestTypes, Becomes

\* A request that has not held a session before only comes to hold one that is live.
Claims(was, q) ==
    \A i \in Id : Holds(q, i) =>
        /\ q.at # "session" /\ q.on \in Id
        /\ LiveSession(i, q.on) \/ (Holds(was, i) /\ was.at # "session" /\ was.on = q.on)

\* The sessions and the logins a request knows are kept by a later id.
LEMMA SessionRequestStays ==
  ASSUME TypeInv, NEW q \in RequestType, SessionRequest(q),
         lastId' \in Nat, lastId' \geq lastId,
         \A s \in Id : s \leq lastId => session'[s] \in {None, session[s]}
  PROVE  SessionRequest(q)'
  <1>1. lastId \in Nat /\ \A s \in Id : s \in Nat
    BY DEF TypeInv, HistoryTypes, Id
  <1>2. q.login # None => q.login \in Nat
    BY <1>1 DEF RequestType, Optional
  <1>3. CASE q.at \in SessionSteps /\ q.login # None
    <2>1. q.login \leq lastId
      BY <1>3 DEF SessionRequest
    <2>2. q.login \leq lastId'
      BY <1>1, <1>2, <1>3, <2>1
    <2>3. ASSUME q.at # "session"
          PROVE  /\ q.on \in Id /\ q.on \leq lastId'
                 /\ session'[q.on] # None => session'[q.on].login = q.login
      <3>1. /\ q.on \in Id /\ q.on \leq lastId
            /\ session[q.on] # None => session[q.on].login = q.login
        BY <1>3, <2>3 DEF SessionRequest
      <3>2. session'[q.on] \in {None, session[q.on]}
        BY <3>1
      <3>3. q.on \leq lastId'
        BY <1>1, <3>1
      <3> QED
        BY <3>1, <3>2, <3>3
    <2> QED
      BY <1>3, <2>2, <2>3 DEF SessionRequest, SessionSteps
  <1>4. CASE ~(q.at \in SessionSteps /\ q.login # None)
    BY <1>4 DEF SessionRequest
  <1> QED
    BY <1>3, <1>4

LEMMA QuietSessionInv ==
  ASSUME TypeInv, SessionInv, NEW r \in Request, NEW q \in RequestType, Becomes(r, q),
         SessionRequest(q), Claims(request[r], q), UNCHANGED session, lastId' \in Nat,
         lastId' \geq lastId, raced \subseteq raced',
         \A i \in Id : <<"login", i>> \in ended' <=> <<"login", i>> \in ended
  PROVE  SessionInv'
  <1>1. \A p \in Request : request'[p] = IF p = r THEN q ELSE request[p]
    BY BecomesRequest
  <1>2. lastId \in Nat /\ \A s \in Id : s \in Nat
    BY DEF TypeInv, HistoryTypes, Id
  <1>3. ASSUME NEW p \in Request
        PROVE  SessionRequest(request[p])'
    <2>1. PICK is : is = request'[p]
      OBVIOUS
    <2>2. SessionRequest(is) /\ is \in RequestType
      BY <1>1, <2>1 DEF SessionInv, TypeInv, RequestTypes
    <2>3. \A s \in Id : session'[s] \in {None, session[s]}
      OBVIOUS
    <2>4. SessionRequest(is)'
      BY <2>2, <2>3, SessionRequestStays
    <2> QED
      BY <2>1, <2>4 DEF SessionRequest
  <1>4. SessionIds'
    BY <1>2 DEF SessionInv, SessionIds, TypeInv, RowTypes, Optional, Session
  <1>5. ASSUME NEW i \in Id, Undisturbed(<<"login", i>>)'
        PROVE  OneOfLogin(i)'
    <2>1. OneOfLogin(i)
      BY <1>5 DEF Undisturbed, SessionInv
    <2>2. \A s \in Id : LiveSession(i, s)' <=> LiveSession(i, s)
      BY DEF LiveSession
    <2>3. \A p \in Request \ {r} : request'[p] = request[p]
      BY <1>1
    <2>4. Holds(q, i) => /\ q.at # "session" /\ q.on \in Id
                         /\ LiveSession(i, q.on)
                            \/ (Holds(request[r], i) /\ request[r].at # "session"
                                /\ request[r].on = q.on)
      BY DEF Claims
    <2>5. \A s, t \in Id : LiveSession(i, s) /\ LiveSession(i, t) => s = t
      BY <2>1 DEF OneOfLogin
    <2>6. Holds(q, i) => \A s \in Id : LiveSession(i, s) => s = q.on
      BY <2>1, <2>4, <2>5 DEF OneOfLogin
    <2>7. ASSUME <<"login", i>> \in ended
          PROVE  /\ \A s \in Id : ~LiveSession(i, s)
                 /\ \A p \in Request : ~Holds(request'[p], i)
      <3>1. /\ \A s \in Id : ~LiveSession(i, s)
            /\ \A p \in Request : ~Holds(request[p], i)
        BY <2>1, <2>7 DEF OneOfLogin
      <3>2. ~Holds(q, i)
        BY <2>4, <3>1
      <3> QED
        BY <1>1, <3>1, <3>2
    <2>8. ASSUME NEW p \in Request, Holds(request'[p], i)
          PROVE  IF request'[p].at = "session"
                 THEN /\ \A s \in Id : ~LiveSession(i, s)
                      /\ \A o \in Request \ {p} : ~Holds(request'[o], i)
                 ELSE \A s \in Id : LiveSession(i, s) => s = request'[p].on
      <3>1. CASE p = r
        BY <1>1, <2>4, <2>6, <2>8, <3>1
      <3>2. CASE p # r /\ request[p].at # "session"
        BY <2>1, <2>3, <2>8, <3>2 DEF OneOfLogin
      <3>3. CASE p # r /\ request[p].at = "session"
        <4>1. request'[p] = request[p]
          BY <2>3, <3>3
        <4>2. /\ \A s \in Id : ~LiveSession(i, s)
              /\ \A o \in Request \ {p} : ~Holds(request[o], i)
          BY <2>1, <2>8, <3>3, <4>1 DEF OneOfLogin
        <4>3. ~Holds(q, i)
          BY <2>4, <3>3, <4>2
        <4>4. \A o \in Request \ {p} : ~Holds(request'[o], i)
          BY <1>1, <4>2, <4>3
        <4> QED
          BY <3>3, <4>1, <4>2, <4>4
      <3> QED
        BY <3>1, <3>2, <3>3
    <2>9. <<"login", i>> \in ended' <=> <<"login", i>> \in ended
      OBVIOUS
    <2>10. \A z : Holds(z, i)' <=> Holds(z, i)
      BY DEF Holds
    <2> QED
      BY <2>2, <2>5, <2>7, <2>8, <2>9, <2>10 DEF OneOfLogin, Holds
  <1> QED
    BY <1>3, <1>4, <1>5 DEF SessionInv

LEMMA RequestsStay ==
  ASSUME TypeInv, SessionInv, NEW r \in Request, NEW q, Becomes(r, q), SessionRequest(q)',
         lastId' \in Nat, lastId' \geq lastId,
         \A s \in Id : s \leq lastId => session'[s] \in {None, session[s]}
  PROVE  \A p \in Request : SessionRequest(request[p])'
  <1> SUFFICES ASSUME NEW p \in Request
               PROVE  SessionRequest(request[p])'
    OBVIOUS
  <1>1. request'[p] = IF p = r THEN q ELSE request[p]
    BY BecomesRequest
  <1>2. CASE p = r
    BY <1>1, <1>2 DEF SessionRequest
  <1>3. CASE p # r
    <2>1. PICK was : was = request[p]
      OBVIOUS
    <2>2. SessionRequest(was) /\ was \in RequestType
      BY <2>1 DEF SessionInv, TypeInv, RequestTypes
    <2>3. SessionRequest(was)'
      BY <2>2, SessionRequestStays
    <2>4. request'[p] = was
      BY <1>1, <1>3, <2>1
    <2> QED
      BY <2>3, <2>4 DEF SessionRequest
  <1> QED
    BY <1>2, <1>3

LEMMA SessionClaims ==
  ASSUME TypeInv, SessionInv, NEW r \in Request, NEW q \in RequestType,
         \/ Fresh(q) \/ q = Idle
         \/ Continues(request[r], q) /\ request[r].at \notin {"drop", "session"}
  PROVE  SessionRequest(q) /\ Claims(request[r], q)
  <1> DEFINE was == request[r]
  <1>1. SessionRequest(was)
    BY DEF SessionInv
  <1>2. \A i \in Id : i # None
    BY IdentityAssumption
  <1>3. lastId \in Nat /\ \A s \in Id : s \in Nat
    BY DEF TypeInv, HistoryTypes, Id
  <1>4. CASE q.login = None
    BY <1>2, <1>4 DEF SessionRequest, Claims, Holds
  <1>5. CASE q.at \notin SessionSteps /\ q.at \notin {"factor", "spend", "challenge"}
    BY <1>5 DEF SessionRequest, Claims, Holds, SessionSteps
  <1>6. ASSUME q.at \in {"verify", "drop", "writePassword"}, q.on \in Id,
               session[q.on] # None, q.login = session[q.on].login
        PROVE  SessionRequest(q) /\ Claims(was, q)
    <2>1. q.on \leq lastId /\ q.login \leq lastId
      BY <1>6 DEF SessionInv, SessionIds
    <2>2. SessionRequest(q)
      BY <1>6, <2>1 DEF SessionRequest, SessionSteps
    <2>3. Claims(was, q)
      BY <1>6 DEF Claims, Holds, LiveSession
    <2> QED
      BY <2>2, <2>3
  <1>7. CASE Fresh(q)
    <2>1. \/ q.login = None
          \/ /\ q.at \in {"verify", "drop", "writePassword"}
             /\ q.on \in Id /\ session[q.on] # None /\ q.login = session[q.on].login
          \/ q.at = "writeUser"
      BY <1>7 DEF Fresh
    <2> QED
      BY <2>1, <1>4, <1>5, <1>6 DEF SessionSteps
  <1>8. CASE q = Idle
    BY <1>4, <1>8, IdleIsReady
  <1>9. CASE Continues(was, q) /\ q # Idle /\ was.at \notin {"drop", "session"}
    <2> HIDE DEF was
    <2>1. CASE was.at = "factor" /\ q.login = was.login
      <3>1. q.login = None
        BY <1>1, <2>1 DEF SessionRequest
      <3> QED
        BY <1>4, <3>1
    <2>2. CASE was.at = "spend" /\ q.login = was.login
      <3>1. q.login = None
        BY <1>1, <2>2 DEF SessionRequest
      <3> QED
        BY <1>4, <3>1
    <2>3. CASE /\ was.at = "verify" /\ q.at = "drop" /\ q.on = was.on /\ q.login = was.login
               /\ session[q.on] # None
      <3>1. CASE q.login # None
        <4>1. q.on \in Id /\ session[q.on].login = q.login
          BY <1>1, <2>3, <3>1 DEF SessionRequest, SessionSteps
        <4> QED
          BY <1>6, <2>3, <4>1 DEF was
      <3> QED
        BY <1>4, <3>1
    <2>4. CASE was.at = "writePassword" /\ q.at = "drop" /\ q.on = was.on /\ q.login = was.login
      <3>1. CASE q.login # None
        <4>1. /\ q.login \leq lastId /\ q.on \in Id /\ q.on \leq lastId
              /\ session[q.on] # None => session[q.on].login = q.login
          BY <1>1, <2>4, <3>1 DEF SessionRequest, SessionSteps
        <4>2. SessionRequest(q)
          BY <2>4, <4>1 DEF SessionRequest
        <4>3. Claims(was, q)
          BY <2>4, <4>1 DEF Claims, Holds
        <4> QED
          BY <4>2, <4>3 DEF was
      <3> QED
        BY <1>4, <3>1
    <2>5. CASE q.at \in {"writeToken", "writeFactor"}
      BY <1>5, <2>5 DEF SessionSteps
    <2> QED
      BY <1>9, <2>1, <2>2, <2>3, <2>4, <2>5 DEF Continues
  <1> QED
    BY <1>7, <1>8, <1>9

LEMMA DropSessionInv ==
  ASSUME TypeInv, SessionInv, NEW r \in Request, DropSession(r)
  PROVE  SessionInv'
  <1> DEFINE was == request[r]  login == was.login  on == was.on
  <1>1. was.at = "drop"
    BY DEF DropSession
  <1>2. on \in Id /\ login \in Id
    BY <1>1, WasAsked DEF Ready
  <1>3. SessionRequest(was) /\ login # None
    BY <1>2, IdentityAssumption DEF SessionInv
  <1>4. login \leq lastId
    BY <1>1, <1>3 DEF SessionRequest, SessionSteps
  <1>5. /\ session' = [session EXCEPT ![on] = None] /\ lastId' = lastId
        /\ Writes(r, <<"login", login>>)
        /\ \/ Go(r, "session") /\ ended' = ended
           \/ End(r) /\ ended' = ended \cup {<<"login", login>>}
    BY DEF DropSession, Dropped
  <1>6. raced \subseteq raced'
    BY <1>5, WritesOnlyAdds
  <1>7. lastId \in Nat /\ \A s \in Id : s \in Nat
    BY DEF TypeInv, HistoryTypes, Id
  <1>8. \A s \in Id : session'[s] = IF s = on THEN None ELSE session[s]
    BY <1>5 DEF TypeInv, RowTypes
  <1>9. PICK q \in RequestType :
          /\ Becomes(r, q)
          /\ \/ q.at = "session" /\ q.login = login /\ ended' = ended
             \/ q = Idle /\ ended' = ended \cup {<<"login", login>>}
    <2>1. CASE End(r) /\ ended' = ended \cup {<<"login", login>>}
      BY <2>1, IdleIsReady DEF End, Becomes
    <2>2. CASE Go(r, "session") /\ ended' = ended
      <3>1. PICK q \in RequestType : Becomes(r, q) /\ Continues(was, q)
        BY <1>1, <2>2, GoContinues
      <3>2. request'[r] = q /\ request'[r].at = "session"
        <4>1. request'[r] = [was EXCEPT !.at = "session"]
          BY <2>2 DEF Go, TypeInv, RequestTypes
        <4>2. was = Asks(was.at, was.op, was.user, was.on, was.scopes, was.login, was.code, was.row)
          BY WasAsked
        <4> HIDE DEF was
        <4>3. request'[r].at = "session"
          BY <4>1, <4>2 DEF Asks
        <4> QED
          BY <3>1, <4>3, BecomesRequest
      <3>3. q # Idle
        BY <3>2, IdleIsReady
      <3> HIDE DEF was, login, on
      <3>4. q.login = was.login
        BY <1>1, <3>1, <3>2, <3>3 DEF Continues
      <3> QED
        BY <2>2, <3>1, <3>2, <3>4 DEF login
    <2> QED
      BY <1>5, <2>1, <2>2
  <1>10. \A p \in Request : request'[p] = IF p = r THEN q ELSE request[p]
    BY <1>9, BecomesRequest
  <1>11. \A p \in Request : SessionRequest(request[p])'
    <2>1. q.at = "session" \/ q.login = None
      BY <1>9, IdleIsReady
    <2>2. q.login # None => q.login = login
      BY <1>9, IdleIsReady
    <2>3. q.login # None => q.login \leq lastId'
      BY <1>4, <1>5, <2>2
    <2>4. q.at \notin {"factor", "spend", "challenge"}
      BY <1>9, IdleIsReady
    <2> HIDE DEF was, login, on
    <2>5. SessionRequest(q)'
      BY <2>1, <2>3, <2>4 DEF SessionRequest
    <2>6. lastId' \in Nat /\ lastId' \geq lastId
      BY <1>5, <1>7
    <2>7. \A s \in Id : session'[s] \in {None, session[s]}
      BY <1>8
    <2> QED
      BY <1>9, <2>5, <2>6, <2>7, RequestsStay
  <1>12. SessionIds'
    <2>1. /\ \A s \in Id : session'[s] # None =>
               s \leq lastId' /\ session'[s].login \leq lastId'
      BY <1>5, <1>8 DEF SessionInv, SessionIds
    <2>2. \A i \in Id : <<"login", i>> \in ended' => i \leq lastId'
      BY <1>4, <1>5 DEF SessionInv, SessionIds
    <2> QED
      BY <2>1, <2>2 DEF SessionIds
  <1>13. ASSUME NEW i \in Id, Undisturbed(<<"login", i>>)'
         PROVE  OneOfLogin(i)'
    <2>1. OneOfLogin(i)
      BY <1>6, <1>13 DEF Undisturbed, SessionInv
    <2>2. \A s \in Id : LiveSession(i, s)' <=> s # on /\ LiveSession(i, s)
      BY <1>8 DEF LiveSession
    <2>3. \A s, t \in Id : LiveSession(i, s)' /\ LiveSession(i, t)' => s = t
      BY <2>1, <2>2 DEF OneOfLogin
    <2>4. Holds(was, login)
      BY <1>1 DEF Holds
    <2>5. CASE i # login
      <3>1. ~Holds(q, i)
        BY <1>2, <1>9, <2>5, IdleIsReady, IdentityAssumption DEF Holds
      <3>2. <<"login", i>> \in ended' <=> <<"login", i>> \in ended
        BY <1>5, <2>5
      <3>3. <<"login", i>> \in ended' =>
              /\ \A s \in Id : ~LiveSession(i, s)'
              /\ \A p \in Request : ~Holds(request'[p], i)
        BY <1>10, <2>1, <2>2, <3>1, <3>2 DEF OneOfLogin
      <3>4. \A p \in Request : Holds(request'[p], i) =>
              IF request'[p].at = "session"
              THEN /\ \A s \in Id : ~LiveSession(i, s)'
                   /\ \A o \in Request \ {p} : ~Holds(request'[o], i)
              ELSE \A s \in Id : LiveSession(i, s)' => s = request'[p].on
        BY <1>10, <2>1, <2>2, <3>1 DEF OneOfLogin
      <3> QED
        BY <2>3, <3>3, <3>4 DEF OneOfLogin, Holds
    <2>6. CASE i = login
      <3>1. \A s \in Id : ~LiveSession(i, s)'
        BY <1>1, <2>1, <2>2, <2>4, <2>6 DEF OneOfLogin
      <3>2. \A p \in Request \ {r} : ~Holds(request[p], i)
        <4> SUFFICES ASSUME NEW p \in Request \ {r}, Holds(request[p], i)
                     PROVE  FALSE
          OBVIOUS
        <4>1. <<"login", login>> \in Held(p)
          BY <1>3, <2>6 DEF Holds, Held
        <4>2. <<"login", login>> \in raced'
          BY <1>5, <4>1 DEF Writes
        <4> QED
          BY <1>13, <2>6, <4>2 DEF Undisturbed
      <3>3. \A p \in Request \ {r} : ~Holds(request'[p], i)
        BY <1>10, <3>2
      <3>4. CASE q = Idle
        <4>1. \A p \in Request : ~Holds(request'[p], i)
          BY <1>10, <3>3, <3>4, IdleIsReady DEF Holds
        <4> QED
          BY <2>3, <3>1, <4>1 DEF OneOfLogin, Holds
      <3>5. CASE q.at = "session" /\ q.login = login /\ ended' = ended
        <4>1. <<"login", i>> \notin ended
          BY <2>1, <2>4, <2>6 DEF OneOfLogin
        <4>2. \A p \in Request : Holds(request'[p], i) =>
                 /\ request'[p].at = "session"
                 /\ \A o \in Request \ {p} : ~Holds(request'[o], i)
          BY <1>10, <3>3, <3>5
        <4> QED
          BY <2>3, <3>1, <3>5, <4>1, <4>2 DEF OneOfLogin, Holds
      <3> QED
        BY <1>9, <3>4, <3>5
    <2> QED
      BY <2>5, <2>6
  <1> QED
    BY <1>11, <1>12, <1>13 DEF SessionInv

\* The session that is issued is the only one of its login.
LEMMA IssuedSessionInv ==
  ASSUME TypeInv, SessionInv, NEW r \in Request, NEW q \in RequestType, Becomes(r, q),
         NEW row \in Session, session' = [session EXCEPT ![NewId] = row], HandOut,
         UNCHANGED <<ended, raced>>,
         row.login = NewId \/ (request[r].at = "session" /\ request[r].login = row.login),
         q = Idle \/ (q.at = "verify" /\ q.on = NewId /\ q.login = row.login)
  PROVE  SessionInv'
  <1> DEFINE login == row.login  was == request[r]
  <1>1. /\ NewId \in Id /\ lastId' = NewId /\ lastId \in Nat /\ NewId > lastId
        /\ \A s \in Id : s \in Nat
    BY DEF TypeInv, HistoryTypes, Id, HandOut, NewId
  <1>2. login \in Id
    BY DEF Session
  <1>3. row # None
    BY RowAssumption
  <1>4. \A s \in Id : session'[s] = IF s = NewId THEN row ELSE session[s]
    BY DEF TypeInv, RowTypes
  <1>5. session[NewId] = None
    BY <1>1 DEF SessionInv, SessionIds
  <1>6. \A p \in Request : request'[p] = IF p = r THEN q ELSE request[p]
    BY BecomesRequest
  <1>7. \A p \in Request, i \in Id : Holds(request[p], i) => i \leq lastId
    <2> SUFFICES ASSUME NEW p \in Request, NEW i \in Id, Holds(request[p], i)
                 PROVE  i \leq lastId
      OBVIOUS
    <2>1. SessionRequest(request[p]) /\ request[p].login # None
      BY IdentityAssumption DEF SessionInv, Holds
    <2> QED
      BY <2>1 DEF SessionRequest, Holds, SessionSteps
  <1>8. login = NewId \/ (was.at = "session" /\ Holds(was, login) /\ login \leq lastId)
    BY <1>2, <1>7 DEF Holds
  <1>9. login \leq NewId
    BY <1>1, <1>2, <1>8
  <1>10. q = Idle \/ (q.at = "verify" /\ q.on = NewId /\ q.login = login)
    OBVIOUS
  <1> HIDE DEF login, was
  <1>11. \A i \in Id : ~Holds(q, i)
    BY <1>10, IdleIsReady DEF Holds
  <1>12. \A p \in Request : SessionRequest(request[p])'
    <2>1. SessionRequest(q)'
      BY <1>1, <1>4, <1>9, <1>10, IdleIsReady DEF SessionRequest, SessionSteps, login
    <2>2. lastId' \in Nat /\ lastId' \geq lastId
      BY <1>1
    <2>3. \A s \in Id : s \leq lastId => session'[s] \in {None, session[s]}
      BY <1>1, <1>4
    <2> QED
      BY <2>1, <2>2, <2>3, RequestsStay
  <1>13. SessionIds'
    <2>1. ASSUME NEW s \in Id, session'[s] # None
          PROVE  s \leq lastId' /\ session'[s].login \leq lastId'
      <3>1. CASE s = NewId
        BY <1>1, <1>4, <1>9, <3>1 DEF login
      <3>2. CASE s # NewId
        <4>1. session'[s] = session[s]
          BY <1>4, <3>2
        <4>2. s \leq lastId /\ session[s].login \leq lastId /\ session[s].login \in Id
          BY <2>1, <4>1 DEF SessionInv, SessionIds, TypeInv, RowTypes, Optional, Session
        <4> QED
          BY <1>1, <4>1, <4>2
      <3> QED
        BY <3>1, <3>2
    <2>2. ASSUME NEW i \in Id, <<"login", i>> \in ended'
          PROVE  i \leq lastId'
      <3>1. i \leq lastId
        BY <2>2 DEF SessionInv, SessionIds
      <3> QED
        BY <1>1, <3>1
    <2> QED
      BY <2>1, <2>2 DEF SessionIds
  <1>14. ASSUME NEW i \in Id, Undisturbed(<<"login", i>>)'
         PROVE  OneOfLogin(i)'
    <2>1. OneOfLogin(i)
      BY <1>14 DEF Undisturbed, SessionInv
    <2>2. CASE i # login
      <3>1. \A s \in Id : LiveSession(i, s)' <=> LiveSession(i, s)
        BY <1>4, <1>5, <2>2 DEF LiveSession, login
      <3>2. \A p \in Request : Holds(request'[p], i) =>
              request'[p] = request[p] /\ Holds(request[p], i)
        BY <1>6, <1>11
      <3>3. \A s, t \in Id : LiveSession(i, s)' /\ LiveSession(i, t)' => s = t
        BY <2>1, <3>1 DEF OneOfLogin
      <3>4. <<"login", i>> \in ended' =>
              /\ \A s \in Id : ~LiveSession(i, s)'
              /\ \A p \in Request : ~Holds(request'[p], i)
        BY <2>1, <3>1, <3>2 DEF OneOfLogin
      <3>5. \A p \in Request : Holds(request'[p], i) =>
              IF request'[p].at = "session"
              THEN /\ \A s \in Id : ~LiveSession(i, s)'
                   /\ \A o \in Request \ {p} : ~Holds(request'[o], i)
              ELSE \A s \in Id : LiveSession(i, s)' => s = request'[p].on
        BY <2>1, <3>1, <3>2 DEF OneOfLogin
      <3> QED
        BY <3>3, <3>4, <3>5 DEF OneOfLogin, Holds
    <2>3. CASE i = login
      <3>1. /\ \A s \in Id : ~LiveSession(i, s)
            /\ <<"login", i>> \notin ended
            /\ \A p \in Request \ {r} : ~Holds(request[p], i)
        <4>1. CASE login = NewId
          <5>1. \A s \in Id : ~LiveSession(i, s)
            BY <1>1, <2>3, <4>1 DEF SessionInv, SessionIds, LiveSession
          <5>2. <<"login", i>> \notin ended
            BY <1>1, <2>3, <4>1 DEF SessionInv, SessionIds
          <5>3. \A p \in Request : ~Holds(request[p], i)
            BY <1>1, <1>7, <2>3, <4>1
          <5> QED
            BY <5>1, <5>2, <5>3
        <4>2. CASE was.at = "session" /\ Holds(was, login)
          BY <2>1, <2>3, <4>2 DEF OneOfLogin, was
        <4> QED
          BY <1>8, <4>1, <4>2
      <3>2. \A s \in Id : LiveSession(i, s)' => s = NewId
        BY <1>4, <3>1 DEF LiveSession
      <3>3. \A p \in Request : ~Holds(request'[p], i)
        BY <1>6, <1>11, <3>1
      <3> QED
        BY <3>1, <3>2, <3>3 DEF OneOfLogin, Holds
    <2> QED
      BY <2>2, <2>3
  <1> QED
    BY <1>12, <1>13, <1>14 DEF SessionInv

LEMMA IssueStepSessionInv ==
  ASSUME TypeInv, SessionInv, NEW r \in Request, IssueSession(r) \/ IssueChallenge(r)
  PROVE  SessionInv'
  <1> DEFINE was == request[r]
  <1>1. CASE IssueSession(r)
    <2> DEFINE login == IF was.login = None THEN NewId ELSE was.login
               row == [user |-> was.user, login |-> login, scopes |-> was.scopes,
                       challenge |-> FALSE]
    <2>1. /\ was.at = "session" /\ session' = [session EXCEPT ![NewId] = row] /\ HandOut
          /\ UNCHANGED <<ended, raced>>
      BY <1>1 DEF IssueSession, history
    <2>2. row \in Session
      <3>1. was.user \in User /\ was.login \in Optional(Id) /\ was.scopes \in Scopes
        BY <2>1, WasAsked
      <3>2. login \in Id
        BY <2>1, <3>1 DEF HandOut, Optional
      <3> HIDE DEF was, login
      <3> QED
        BY <3>1, <3>2 DEF Session
    <2>3. row.login = login /\ (login = NewId \/ login = was.login)
      OBVIOUS
    <2>4. PICK q \in RequestType : Becomes(r, q) /\ Continues(was, q)
      BY <1>1, IssueContinues
    <2>5. q = Idle \/ (q.at = "verify" /\ q.on = NewId /\ q.login = login)
      BY <2>1, <2>4 DEF Continues
    <2> HIDE DEF was, login, row
    <2>6. \/ row.login = NewId
          \/ request[r].at = "session" /\ request[r].login = row.login
      BY <2>1, <2>3 DEF was
    <2>7. q = Idle \/ (q.at = "verify" /\ q.on = NewId /\ q.login = row.login)
      BY <2>3, <2>5
    <2> QED
      BY <2>1, <2>2, <2>4, <2>6, <2>7, IssuedSessionInv
  <1>2. CASE IssueChallenge(r)
    <2> DEFINE row == [user |-> was.user, login |-> NewId, scopes |-> {}, challenge |-> TRUE]
    <2>1. /\ was.at = "challenge" /\ session' = [session EXCEPT ![NewId] = row] /\ HandOut
          /\ End(r) /\ UNCHANGED <<ended, raced>>
      BY <1>2 DEF IssueChallenge, history
    <2>2. row \in Session
      <3>1. was.user \in User /\ {} \in Scopes /\ NewId \in Id
        BY <2>1, WasAsked, IdentityAssumption DEF HandOut
      <3> HIDE DEF was
      <3> QED
        BY <3>1 DEF Session
    <2>3. row.login = NewId
      OBVIOUS
    <2>4. Becomes(r, Idle) /\ Idle \in RequestType
      BY <2>1, IdleIsReady DEF End, Becomes
    <2> HIDE DEF was, row
    <2> QED
      BY <2>1, <2>2, <2>3, <2>4, IssuedSessionInv
  <1> QED
    BY <1>1, <1>2

\* A step that touches no session.
LEMMA OtherStepSessionInv ==
  ASSUME TypeInv, TokenInv, SessionInv, NEW r \in Request,
         \/ Login(r) \/ AnswerChallenge(r) \/ RefreshOrLogout(r) \/ ExchangeOrImpersonate(r)
         \/ IssueToken(r) \/ ChangeToken(r) \/ ChangeFactor(r) \/ EditAccount(r)
         \/ StartPassword(r) \/ Register(r) \/ CheckFactor(r) \/ SpendCode(r)
         \/ VerifySession(r) \/ WriteNewToken(r) \/ ReadToken(r) \/ WriteToken(r)
         \/ ReadFactor(r) \/ Enroll(r) \/ ConfirmFactor(r) \/ DisableOrRegenerate(r)
         \/ WriteAccount(r) \/ WritePassword(r) \/ Abort(r)
  PROVE  SessionInv'
  <1>1. PICK q \in RequestType :
          /\ Becomes(r, q)
          /\ \/ Fresh(q) \/ q = Idle
             \/ Continues(request[r], q) /\ request[r].at \notin {"drop", "session"}
    <2>1. ASSUME \/ Login(r) \/ AnswerChallenge(r) \/ RefreshOrLogout(r)
                 \/ ExchangeOrImpersonate(r) \/ IssueToken(r) \/ ChangeToken(r)
                 \/ ChangeFactor(r) \/ EditAccount(r) \/ StartPassword(r)
                 \/ (Register(r) /\ request[r].at # "register")
          PROVE  \E q \in RequestType : Becomes(r, q) /\ Fresh(q)
      <3>1. PICK q \in RequestType : Start(r, q) /\ Fresh(q)
        BY <2>1, RequestBegins
      <3> QED
        BY <3>1 DEF Start, Becomes
    <2>2. CASE Abort(r)
      BY <2>2, IdleIsReady DEF Abort, End, Becomes
    <2>3. ASSUME \/ CheckFactor(r) \/ SpendCode(r) \/ VerifySession(r) \/ WriteNewToken(r)
                 \/ ReadToken(r) \/ WriteToken(r) \/ ReadFactor(r) \/ Enroll(r)
                 \/ ConfirmFactor(r) \/ DisableOrRegenerate(r) \/ WriteAccount(r)
                 \/ WritePassword(r) \/ (Register(r) /\ request[r].at = "register")
          PROVE  \E q \in RequestType :
                   /\ Becomes(r, q) /\ Continues(request[r], q)
                   /\ request[r].at \notin {"drop", "session"}
      <3>1. request[r].at \notin {"drop", "session"}
        BY <2>3 DEF CheckFactor, SpendCode, VerifySession, WriteNewToken, ReadToken,
                    WriteToken, ReadFactor, Enroll, ConfirmFactor, DisableOrRegenerate,
                    WriteAccount, WritePassword
      <3>2. \E q \in RequestType : Becomes(r, q) /\ Continues(request[r], q)
        BY <2>3, RequestContinues
      <3> QED
        BY <3>1, <3>2
    <2> QED
      BY <2>1, <2>2, <2>3
  <1>2. SessionRequest(q) /\ Claims(request[r], q)
    BY <1>1, SessionClaims
  <1>3. UNCHANGED session
    BY DEF rows, Login, AnswerChallenge, RefreshOrLogout, ExchangeOrImpersonate, IssueToken,
           ChangeToken, ChangeFactor, EditAccount, StartPassword, Register, CheckFactor,
           SpendCode, VerifySession, WriteNewToken, ReadToken, WriteToken, ReadFactor,
           Enroll, ConfirmFactor, DisableOrRegenerate, WriteAccount, WritePassword, Abort
  <1>4. lastId' \in Nat /\ lastId' \geq lastId
    <2>1. lastId' = lastId \/ lastId' = NewId
      BY DEF HandOut, NewBatch, Login, AnswerChallenge, RefreshOrLogout,
             ExchangeOrImpersonate, IssueToken, ChangeToken, ChangeFactor, EditAccount,
             StartPassword, Register, CheckFactor, SpendCode, VerifySession, WriteNewToken,
             ReadToken, WriteToken, ReadFactor, Enroll, ConfirmFactor, DisableOrRegenerate,
             WriteAccount, WritePassword, Abort
    <2> QED
      BY <2>1 DEF NewId, TypeInv, HistoryTypes, Id
  <1>5. raced \subseteq raced'
    <2>1. UNCHANGED raced \/ \E x : Writes(r, x)
      BY DEF Login, AnswerChallenge, RefreshOrLogout,
             ExchangeOrImpersonate, IssueToken, ChangeToken, ChangeFactor, EditAccount,
             StartPassword, Register, CheckFactor, SpendCode, VerifySession, WriteNewToken,
             ReadToken, WriteToken, ReadFactor, Enroll, ConfirmFactor, DisableOrRegenerate,
             WriteAccount, WritePassword, Abort
    <2> QED
      BY <2>1, WritesOnlyAdds
  <1>6. \A i \in Id : <<"login", i>> \in ended' <=> <<"login", i>> \in ended
    <2>1. UNCHANGED ended \/ \E i : ended' = ended \cup {<<"token", i>>}
      BY DEF history, Login, AnswerChallenge, RefreshOrLogout,
             ExchangeOrImpersonate, IssueToken, ChangeToken, ChangeFactor, EditAccount,
             StartPassword, Register, CheckFactor, SpendCode, VerifySession, WriteNewToken,
             ReadToken, WriteToken, ReadFactor, Enroll, ConfirmFactor, DisableOrRegenerate,
             WriteAccount, WritePassword, Abort
    <2> QED
      BY <2>1
  <1> QED
    BY <1>1, <1>2, <1>3, <1>4, <1>5, <1>6, QuietSessionInv

LEMMA StepSessionInv ==
  ASSUME TypeInv, TokenInv, SessionInv, [IdNext]_vars
  PROVE  SessionInv'
  <1>1. CASE UNCHANGED <<session, request, ended, raced, lastId>>
    BY <1>1 DEF SessionInv, SessionRequest, SessionIds, OneOfLogin, LiveSession, Holds,
                Undisturbed
  <1>2. UNCHANGED vars \/ (\E p \in Id : TokenExpires(p)) =>
          UNCHANGED <<session, request, ended, raced, lastId>>
    BY DEF vars, rows, history, TokenExpires
  <1> QED
    BY <1>1, <1>2, OtherStepSessionInv, IssueStepSessionInv, DropSessionInv DEF IdNext

LEMMA InitSessionInv ==
  ASSUME IdInit
  PROVE  SessionInv
  <1>1. PICK given \in {{}, User \ {Admin}} :
         session = [i \in Id |->
            IF i = 2 THEN [user |-> Admin, login |-> 2, scopes |-> {}, challenge |-> FALSE]
            ELSE IF i = 1 /\ given # {}
            THEN [user |-> CHOOSE u \in given : TRUE, login |-> 1, scopes |-> {},
                  challenge |-> FALSE]
            ELSE None]
    BY DEF IdInit
  <1>2. request = [r \in Request |-> Idle] /\ lastId = 2 /\ ended = {}
    BY DEF IdInit
  <1>3. \A s \in Id : session[s] # None => s \in {1, 2} /\ session[s].login = s
    BY <1>1
  <1>4. \A r \in Request : SessionRequest(request[r])
    BY <1>2, IdleIsReady DEF SessionRequest
  <1>5. SessionIds
    BY <1>2, <1>3 DEF SessionIds
  <1>6. \A r \in Request, i \in Id : ~Holds(request[r], i)
    BY <1>2, IdleIsReady DEF Holds
  <1>7. \A i \in Id : OneOfLogin(i)
    BY <1>2, <1>3, <1>6 DEF OneOfLogin, LiveSession
  <1> QED
    BY <1>4, <1>5, <1>7 DEF SessionInv

\* Of a login and all its refreshes at most one session is left, and none after a logout,
\* unless two requests were about to end or to replace the same session.
THEOREM LoginHasOneSession == IdSpec => []OneSessionPerLogin
  <1>1. IdInit => TypeInv /\ TokenInv /\ SessionInv
    BY InitTypeInv, InitTokenInv, InitSessionInv
  <1>2. TypeInv /\ TokenInv /\ SessionInv /\ [IdNext]_vars =>
          TypeInv' /\ TokenInv' /\ SessionInv'
    BY StepTypeInv, StepTokenInv, StepSessionInv
  <1>3. ASSUME SessionInv
        PROVE  OneSessionPerLogin
    <2> SUFFICES ASSUME NEW i \in Id, Undisturbed(<<"login", i>>)
                 PROVE  Cardinality({s \in Id : LiveSession(i, s)})
                          \leq (IF <<"login", i>> \in ended THEN 0 ELSE 1)
      BY DEF OneSessionPerLogin, LiveSession
    <2> DEFINE live == {s \in Id : LiveSession(i, s)}
    <2>1. OneOfLogin(i)
      BY <1>3 DEF SessionInv
    <2>2. live = {} \/ \E s \in Id : live = {s}
      BY <2>1 DEF OneOfLogin
    <2>3. <<"login", i>> \in ended => live = {}
      BY <2>1 DEF OneOfLogin
    <2>4. Cardinality({}) = 0 /\ \A s \in Id : Cardinality({s}) = 1
      BY FS_EmptySet, FS_Singleton
    <2> HIDE DEF live
    <2>5. Cardinality(live) \leq (IF <<"login", i>> \in ended THEN 0 ELSE 1)
      BY <2>2, <2>3, <2>4
    <2> QED
      BY <2>5 DEF live
  <1> QED
    BY <1>1, <1>2, <1>3, PTL DEF IdSpec

-----------------------------------------------------------------------------
(* Second factors *)

CodesOf(u) == codes[u].unused \cup codes[u].used

\* What a request has read of the factor of its user stands until another one writes it.
FactorRequest(q) ==
    q.at \in {"spend", "writeFactor"} =>
      /\ q.code # None /\ Undisturbed(<<"factor", q.user>>) => q.code \in codes[q.user].unused
      /\ q.at = "writeFactor" =>
           /\ q.op = "regenerate" \/ q.code # None => q.row # None
           /\ Undisturbed(<<"factor", q.user>>) => enrollment[q.user] = q.row

\* A code belongs to one user, is as old as its batch, and is unused until it is accepted.
CodesAreFresh ==
    /\ \A u \in User : \A c \in CodesOf(u) : c[1] \leq lastId
    /\ \A u, v \in User : u # v => CodesOf(u) \cap CodesOf(v) = {}
    /\ \A c \in Code : c[1] > lastId => accepted[c] = 0
    /\ \A u \in User : Undisturbed(<<"factor", u>>) =>
          \A c \in codes[u].unused : accepted[c] = 0

FactorInv ==
    /\ CodesMatchEnrollment /\ CodesAreFresh /\ CodesAreSpentOnce
    /\ \A r \in Request : FactorRequest(request[r])

LEMMA CodesTypes ==
  ASSUME TypeInv
  PROVE  /\ \A u \in User : CodesOf(u) \subseteq Code /\ codes[u].unused \subseteq CodesOf(u)
         /\ \A c \in Code : c[1] \in Nat /\ accepted[c] \in Nat
         /\ lastId \in Nat
  <1>1. \A u \in User : codes[u].unused \subseteq Code /\ codes[u].used \subseteq Code
    BY DEF TypeInv, RowTypes
  <1>2. \A c \in Code : c[1] \in Nat /\ accepted[c] \in Nat
    BY DEF TypeInv, HistoryTypes, Code, Id
  <1> QED
    BY <1>1, <1>2 DEF CodesOf, TypeInv, HistoryTypes, Id

LEMMA QuietFactorInv ==
  ASSUME TypeInv, FactorInv, NEW r \in Request, NEW q, Becomes(r, q), FactorRequest(q),
         UNCHANGED <<enrollment, codes, shown, accepted>>, lastId' \in Nat,
         lastId' \geq lastId, raced \subseteq raced'
  PROVE  FactorInv'
  <1>1. \A p \in Request : request'[p] = IF p = r THEN q ELSE request[p]
    BY BecomesRequest
  <1>2. \A p \in Request : FactorRequest(request'[p])
    BY <1>1 DEF FactorInv
  <1>3. \A x : Undisturbed(x)' => Undisturbed(x)
    BY DEF Undisturbed
  <1>4. ASSUME NEW p \in Request
        PROVE  FactorRequest(request[p])'
    <2>1. PICK is : is = request'[p]
      OBVIOUS
    <2>2. FactorRequest(is)
      BY <1>2, <2>1
    <2>3. FactorRequest(is)'
      BY <1>3, <2>2 DEF FactorRequest
    <2> QED
      BY <2>1, <2>3 DEF FactorRequest
  <1>5. CodesMatchEnrollment'
    BY <1>3 DEF FactorInv, CodesMatchEnrollment
  <1>6. CodesAreSpentOnce'
    BY <1>3 DEF FactorInv, CodesAreSpentOnce
  <1>7. CodesAreFresh'
    <2>1. \A u \in User : \A c \in CodesOf(u) : c[1] \leq lastId'
      <3> SUFFICES ASSUME NEW u \in User, NEW c \in CodesOf(u)
                   PROVE  c[1] \leq lastId'
        OBVIOUS
      <3>1. c[1] \leq lastId
        BY DEF FactorInv, CodesAreFresh
      <3>2. c[1] \in Nat /\ lastId \in Nat
        BY CodesTypes
      <3> QED
        BY <3>1, <3>2
    <2>2. \A c \in Code : c[1] > lastId' => accepted[c] = 0
      BY CodesTypes DEF FactorInv, CodesAreFresh
    <2>3. \A u \in User : CodesOf(u)' = CodesOf(u)
      BY DEF CodesOf
    <2>4. \A u \in User : Undisturbed(<<"factor", u>>)' =>
            \A c \in codes[u].unused : accepted[c] = 0
      BY <1>3 DEF FactorInv, CodesAreFresh
    <2>5. \A u, v \in User : u # v => CodesOf(u) \cap CodesOf(v) = {}
      BY DEF FactorInv, CodesAreFresh
    <2> QED
      BY <2>1, <2>2, <2>3, <2>4, <2>5 DEF CodesAreFresh
  <1> QED
    BY <1>4, <1>5, <1>6, <1>7 DEF FactorInv

\* A request that has read the factor of u writes it.
LEMMA FactorWriteInv ==
  ASSUME TypeInv, TypeInv', FactorInv, NEW r \in Request, NEW u \in User, NEW q, Becomes(r, q),
         request[r].at \in {"spend", "writeFactor"}, request[r].user = u,
         q.at \notin {"spend", "writeFactor"}, Writes(r, <<"factor", u>>),
         lastId' \in {lastId, NewId},
         \A v \in User \ {u} : /\ codes'[v] = codes[v] /\ enrollment'[v] = enrollment[v]
                               /\ shown'[v] = shown[v],
         \A c \in CodesOf(u)' : c \in CodesOf(u) \/ (c[1] = NewId /\ lastId' = NewId),
         \A c \in codes'[u].unused :
            c \in codes[u].unused \/ (c[1] = NewId /\ lastId' = NewId),
         NEW spent \in {{}, {request[r].code}}, spent \subseteq CodesOf(u),
         accepted' = [c \in Code |-> IF c \in spent THEN accepted[c] + 1 ELSE accepted[c]],
         Undisturbed(<<"factor", u>>) =>
            /\ spent \cap codes'[u].unused = {}
            /\ CodesOf(u)' = IF enrollment'[u] = None THEN {} ELSE Batch(shown'[u])
  PROVE  FactorInv'
  <1>1. \A p \in Request : request'[p] = IF p = r THEN q ELSE request[p]
    BY BecomesRequest
  <1>2. raced \subseteq raced' /\ \A x : Undisturbed(x)' => Undisturbed(x)
    BY WritesOnlyAdds DEF Undisturbed
  <1>3. ASSUME NEW p \in Request \ {r}, request[p].at \in {"spend", "writeFactor"},
               request[p].user = u
        PROVE  ~Undisturbed(<<"factor", u>>)'
    <2>1. <<"factor", u>> \in Held(p)
      BY <1>3 DEF Held
    <2> QED
      BY <2>1 DEF Writes, Undisturbed
  <1>4. ASSUME NEW p \in Request
        PROVE  FactorRequest(request[p])'
    <2>1. CASE p = r
      BY <1>1, <2>1 DEF FactorRequest
    <2>2. CASE p # r /\ request[p].at \in {"spend", "writeFactor"}
      <3>1. PICK is : is = request[p]
        OBVIOUS
      <3>2. is = request'[p] /\ FactorRequest(is) /\ is.user \in User
        BY <1>1, <2>2, <3>1, WasAsked DEF FactorInv
      <3>3. is.user = u => ~Undisturbed(<<"factor", u>>)'
        BY <1>3, <2>2, <3>1
      <3>4. is.user # u => codes'[is.user] = codes[is.user]
                           /\ enrollment'[is.user] = enrollment[is.user]
        BY <3>2
      <3>5. FactorRequest(is)'
        BY <1>2, <3>2, <3>3, <3>4 DEF FactorRequest
      <3> QED
        BY <3>2, <3>5 DEF FactorRequest
    <2>3. CASE p # r /\ request[p].at \notin {"spend", "writeFactor"}
      BY <1>1, <2>3 DEF FactorRequest
    <2> QED
      BY <2>1, <2>2, <2>3
  <1>5. \A v \in User \ {u} : CodesOf(v)' = CodesOf(v)
    BY DEF CodesOf
  <1>6. CodesMatchEnrollment'
    <2> SUFFICES ASSUME NEW v \in User, Undisturbed(<<"factor", v>>)'
                 PROVE  CodesOf(v)' = IF enrollment'[v] = None THEN {} ELSE Batch(shown'[v])
      BY DEF CodesMatchEnrollment, CodesOf, Batch
    <2>1. Undisturbed(<<"factor", v>>)
      BY <1>2
    <2>2. CASE v = u
      BY <2>1, <2>2
    <2>3. CASE v # u
      <3>1. CodesOf(v) = IF enrollment[v] = None THEN {} ELSE Batch(shown[v])
        BY <2>1 DEF FactorInv, CodesMatchEnrollment, CodesOf
      <3>2. CodesOf(v)' = CodesOf(v)
        BY <1>5, <2>3
      <3>3. enrollment'[v] = enrollment[v] /\ shown'[v] = shown[v]
        BY <2>3
      <3> QED
        BY <3>1, <3>2, <3>3
    <2> QED
      BY <2>2, <2>3
  <1>7. /\ \A v, w \in User : v # w => CodesOf(v) \cap CodesOf(w) = {}
        /\ \A v \in User : \A c \in CodesOf(v) : c[1] \leq lastId
        /\ \A c \in Code : c[1] > lastId => accepted[c] = 0
        /\ \A v \in User : Undisturbed(<<"factor", v>>) =>
             \A c \in codes[v].unused : accepted[c] = 0
    BY DEF FactorInv, CodesAreFresh
  <1>8. /\ \A v \in User : CodesOf(v) \subseteq Code /\ codes[v].unused \subseteq CodesOf(v)
        /\ \A c \in Code : c[1] \in Nat /\ accepted[c] \in Nat
        /\ lastId \in Nat /\ lastId' \in Nat /\ lastId' \geq lastId /\ NewId > lastId
        /\ NewId \in Nat
    BY CodesTypes DEF NewId
  <1>9. \A v \in User : CodesOf(v)' \subseteq Code /\ codes'[v].unused \subseteq CodesOf(v)'
    <2>1. TypeInv'
      OBVIOUS
    <2> QED
      BY <2>1 DEF TypeInv, RowTypes, CodesOf
  <1>10. CodesAreFresh'
    <2>1. ASSUME NEW v \in User, NEW c \in CodesOf(v)'
          PROVE  c[1] \leq lastId'
      <3>1. c[1] \leq lastId \/ c[1] = lastId'
        BY <1>5, <1>7, <2>1
      <3>2. c[1] \in Nat
        BY <1>8, <1>9, <2>1
      <3> QED
        BY <1>8, <3>1, <3>2
    <2>2. ASSUME NEW v \in User \ {u}
          PROVE  CodesOf(u)' \cap CodesOf(v)' = {}
      <3> SUFFICES ASSUME NEW c \in CodesOf(u)', c \in CodesOf(v)
                   PROVE  FALSE
        BY <1>5
      <3>1. c \notin CodesOf(u)
        BY <1>7
      <3>2. c[1] = NewId
        BY <3>1
      <3>3. c[1] \leq lastId
        BY <1>7
      <3> QED
        BY <1>8, <3>2, <3>3
    <2>3. \A v, w \in User : v # w => CodesOf(v)' \cap CodesOf(w)' = {}
      <3> SUFFICES ASSUME NEW v \in User, NEW w \in User, v # w
                   PROVE  CodesOf(v)' \cap CodesOf(w)' = {}
        OBVIOUS
      <3>1. CASE v = u
        BY <2>2, <3>1
      <3>2. CASE w = u
        BY <2>2, <3>2
      <3>3. CASE v # u /\ w # u
        BY <1>5, <1>7, <3>3
      <3> QED
        BY <3>1, <3>2, <3>3
    <2>4. ASSUME NEW c \in Code, c[1] > lastId'
          PROVE  accepted'[c] = 0
      <3>1. c[1] > lastId
        BY <1>8, <2>4
      <3>2. c \notin spent
        BY <1>7, <1>8, <3>1
      <3> QED
        BY <1>7, <3>1, <3>2
    <2>5. ASSUME NEW v \in User, Undisturbed(<<"factor", v>>)', NEW c \in codes'[v].unused
          PROVE  accepted'[c] = 0
      <3>1. Undisturbed(<<"factor", v>>) /\ c \in Code
        BY <1>2, <1>9, <2>5
      <3>2. CASE v # u
        <4>1. c \in codes[v].unused /\ c \in CodesOf(v)
          BY <1>8, <2>5, <3>2
        <4>2. c \notin CodesOf(u)
          BY <1>7, <3>2, <4>1
        <4>3. accepted[c] = 0
          BY <1>7, <3>1, <4>1
        <4> QED
          BY <3>1, <4>2, <4>3
      <3>3. CASE v = u
        <4>1. c \notin spent
          BY <2>5, <3>1, <3>3
        <4>2. c \in codes[u].unused \/ c[1] = NewId
          BY <2>5, <3>3
        <4>3. accepted[c] = 0
          BY <1>7, <1>8, <3>1, <3>3, <4>2
        <4> QED
          BY <3>1, <4>1, <4>3
      <3> QED
        BY <3>2, <3>3
    <2>6. \A v \in User : Undisturbed(<<"factor", v>>)' =>
            \A c \in codes'[v].unused : accepted'[c] = 0
      BY <2>5
    <2>7. \A v \in User : \A c \in CodesOf(v)' : c[1] \leq lastId'
      BY <2>1
    <2>8. \A c \in Code : c[1] > lastId' => accepted'[c] = 0
      BY <2>4
    <2> QED
      BY <2>3, <2>6, <2>7, <2>8 DEF CodesAreFresh
  <1>11. CodesAreSpentOnce'
    <2> SUFFICES ASSUME \A v \in User : Undisturbed(<<"factor", v>>)', NEW c \in Code
                 PROVE  accepted'[c] \leq 1
      BY DEF CodesAreSpentOnce
    <2>1. \A v \in User : Undisturbed(<<"factor", v>>)
      BY <1>2
    <2>2. CASE c \notin spent
      BY <2>1, <2>2 DEF FactorInv, CodesAreSpentOnce
    <2>3. CASE c \in spent
      <3>1. c = request[r].code /\ c # None
        BY <2>3, IdentityAssumption
      <3>2. c \in codes[u].unused
        BY <2>1, <3>1 DEF FactorInv, FactorRequest
      <3>3. accepted[c] = 0
        BY <1>7, <2>1, <3>2
      <3> QED
        BY <2>3, <3>3
    <2> QED
      BY <2>2, <2>3
  <1> QED
    BY <1>4, <1>6, <1>10, <1>11 DEF FactorInv

LEMMA FactorReads ==
  ASSUME TypeInv, FactorInv, NEW r \in Request, NEW q,
         Fresh(q) \/ Continues(request[r], q)
  PROVE  FactorRequest(q)
  <1>1. CASE q.at \notin {"spend", "writeFactor"}
    BY <1>1 DEF FactorRequest
  <1>2. CASE q.at = "spend"
    <2>1. q.code \in codes[q.user].unused
      BY <1>2, IdleIsReady DEF Fresh, Continues
    <2> QED
      BY <1>2, <2>1 DEF FactorRequest
  <1>3. CASE q.at = "writeFactor"
    <2>1. /\ q.row = enrollment[q.user]
          /\ q.op = "regenerate" \/ q.code # None => q.row # None
          /\ q.code # None => q.code \in codes[q.user].unused
      BY <1>3, IdleIsReady DEF Fresh, Continues
    <2> QED
      BY <1>3, <2>1 DEF FactorRequest
  <1> QED
    BY <1>1, <1>2, <1>3

\* The steps that leave enrollments and codes alone, those included that find that they
\* have nothing to write.
LEMMA OtherStepFactorInv ==
  ASSUME TypeInv, TokenInv, FactorInv, NEW r \in Request,
         \/ Login(r) \/ AnswerChallenge(r) \/ RefreshOrLogout(r) \/ ExchangeOrImpersonate(r)
         \/ IssueToken(r) \/ ChangeToken(r) \/ ChangeFactor(r) \/ EditAccount(r)
         \/ StartPassword(r) \/ Register(r) \/ CheckFactor(r) \/ IssueSession(r)
         \/ IssueChallenge(r) \/ VerifySession(r) \/ DropSession(r) \/ WriteNewToken(r)
         \/ ReadToken(r) \/ WriteToken(r) \/ ReadFactor(r) \/ WriteAccount(r)
         \/ WritePassword(r) \/ Abort(r)
  PROVE  FactorInv'
  <1>1. PICK q \in RequestType : Becomes(r, q) /\ (Fresh(q) \/ Continues(request[r], q))
    <2>1. ASSUME \/ Login(r) \/ AnswerChallenge(r) \/ RefreshOrLogout(r)
                 \/ ExchangeOrImpersonate(r) \/ IssueToken(r) \/ ChangeToken(r)
                 \/ ChangeFactor(r) \/ EditAccount(r) \/ StartPassword(r)
                 \/ (Register(r) /\ request[r].at # "register")
          PROVE  \E q \in RequestType : Becomes(r, q) /\ Fresh(q)
      <3>1. PICK q \in RequestType : Start(r, q) /\ Fresh(q)
        BY <2>1, RequestBegins
      <3> QED
        BY <3>1 DEF Start, Becomes
    <2>2. ASSUME \/ CheckFactor(r) \/ IssueSession(r) \/ IssueChallenge(r)
                 \/ VerifySession(r) \/ DropSession(r) \/ WriteNewToken(r) \/ ReadToken(r)
                 \/ WriteToken(r) \/ ReadFactor(r) \/ WriteAccount(r) \/ WritePassword(r)
                 \/ (Register(r) /\ request[r].at = "register") \/ Abort(r)
          PROVE  \E q \in RequestType : Becomes(r, q) /\ Continues(request[r], q)
      BY <2>2, RequestContinues
    <2> QED
      BY <2>1, <2>2
  <1>2. FactorRequest(q)
    BY <1>1, FactorReads
  <1>3. UNCHANGED <<enrollment, codes, shown, accepted>>
    BY DEF rows, history, Login, AnswerChallenge, RefreshOrLogout, ExchangeOrImpersonate,
           IssueToken, ChangeToken, ChangeFactor, EditAccount, StartPassword, Register,
           CheckFactor, IssueSession, IssueChallenge, VerifySession, DropSession,
           WriteNewToken, ReadToken, WriteToken, ReadFactor, WriteAccount, WritePassword,
           Abort
  <1>4. lastId' \in Nat /\ lastId' \geq lastId
    <2>1. lastId' = lastId \/ lastId' = NewId
      BY DEF HandOut, Login, AnswerChallenge, RefreshOrLogout, ExchangeOrImpersonate,
             IssueToken, ChangeToken, ChangeFactor, EditAccount, StartPassword, Register,
             CheckFactor, IssueSession, IssueChallenge, VerifySession, DropSession,
             WriteNewToken, ReadToken, WriteToken, ReadFactor, WriteAccount, WritePassword,
             Abort
    <2> QED
      BY <2>1 DEF NewId, TypeInv, HistoryTypes, Id
  <1>5. raced \subseteq raced'
    <2>1. UNCHANGED raced \/ \E x : Writes(r, x)
      BY DEF Login, AnswerChallenge, RefreshOrLogout, ExchangeOrImpersonate,
             IssueToken, ChangeToken, ChangeFactor, EditAccount, StartPassword, Register,
             CheckFactor, IssueSession, IssueChallenge, VerifySession, DropSession,
             WriteNewToken, ReadToken, WriteToken, ReadFactor, WriteAccount, WritePassword,
             Abort
    <2> QED
      BY <2>1, WritesOnlyAdds
  <1> QED
    BY <1>1, <1>2, <1>3, <1>4, <1>5, QuietFactorInv

\* A request that ends without writing.
LEMMA EndFactorInv ==
  ASSUME TypeInv, FactorInv, NEW r \in Request, End(r),
         UNCHANGED <<enrollment, codes, shown, accepted, lastId, raced>>
  PROVE  FactorInv'
  <1>1. Becomes(r, Idle) /\ FactorRequest(Idle)
    BY IdleIsReady DEF End, Becomes, FactorRequest
  <1>2. lastId' \in Nat /\ lastId' \geq lastId
    BY DEF TypeInv, HistoryTypes, Id
  <1> QED
    BY <1>1, <1>2, QuietFactorInv

LEMMA SpendFactorInv ==
  ASSUME TypeInv, TypeInv', TokenInv, FactorInv, NEW r \in Request, SpendCode(r)
  PROVE  FactorInv'
  <1>1. request[r].at = "spend"
    BY DEF SpendCode
  <1>2. PICK u \in User, c \in Code : u = request[r].user /\ c = request[r].code
    BY <1>1, WasAsked DEF Ready
  <1>3. CASE c \notin CodesOf(u)
    BY <1>2, <1>3, EndFactorInv DEF SpendCode, CodesOf
  <1>4. CASE c \in CodesOf(u)
    <2>1. /\ codes' = CodeUsed(u, c) /\ Accept(c) /\ Go(r, "session")
          /\ Writes(r, <<"factor", u>>) /\ UNCHANGED <<enrollment, shown, lastId>>
      BY <1>2, <1>4 DEF SpendCode, CodesOf
    <2>2. PICK q \in RequestType : Becomes(r, q) /\ Continues(request[r], q)
      BY RequestContinues
    <2>3. q.at \notin {"spend", "writeFactor"}
      BY <1>1, <2>2, IdleIsReady DEF Continues
    <2>4. codes' = [codes EXCEPT ![u] = [unused |-> codes[u].unused \ {c},
                                         used |-> codes[u].used \cup {c}]]
      BY <2>1 DEF CodeUsed
    <2>5. /\ codes'[u].unused = codes[u].unused \ {c}
          /\ codes'[u].used = codes[u].used \cup {c}
          /\ \A v \in User \ {u} : codes'[v] = codes[v]
      BY <1>2, <2>4 DEF TypeInv, RowTypes
    <2>6. CodesOf(u)' = CodesOf(u)
      BY <1>4, <2>5 DEF CodesOf
    <2>7. accepted' = [z \in Code |-> IF z \in {c} THEN accepted[z] + 1 ELSE accepted[z]]
      BY <2>1 DEF Accept, TypeInv, HistoryTypes
    <2>8. Undisturbed(<<"factor", u>>) =>
            CodesOf(u)' = IF enrollment'[u] = None THEN {} ELSE Batch(shown'[u])
      BY <1>2, <2>1, <2>6 DEF FactorInv, CodesMatchEnrollment, CodesOf
    <2>9. {c} \cap codes'[u].unused = {} /\ {c} \subseteq CodesOf(u)
      BY <1>4, <2>5
    <2>10. /\ \A z \in CodesOf(u)' : z \in CodesOf(u)
           /\ \A z \in codes'[u].unused : z \in codes[u].unused
      BY <2>5, <2>6
    <2>11. {c} \in {{}, {request[r].code}} /\ request[r].user = u
           /\ request[r].at \in {"spend", "writeFactor"}
           /\ lastId' \in {lastId, NewId}
           /\ \A v \in User \ {u} : /\ codes'[v] = codes[v] /\ enrollment'[v] = enrollment[v]
                                    /\ shown'[v] = shown[v]
      BY <1>1, <1>2, <2>1, <2>5
    <2>12. Writes(r, <<"factor", u>>)
      BY <2>1
    <2> QED
      BY <1>2, <2>2, <2>3, <2>7, <2>8, <2>9, <2>10, <2>11, <2>12, FactorWriteInv
  <1> QED
    BY <1>3, <1>4

\* A batch takes the place of the codes of u.
LEMMA BatchFactorInv ==
  ASSUME TypeInv, TypeInv', FactorInv, NEW r \in Request, NEW u \in User, End(r),
         request[r].at = "writeFactor", request[r].user = u, Writes(r, <<"factor", u>>),
         NEW keep \in BOOLEAN, NewBatch(u, keep),
         \A v \in User \ {u} : enrollment'[v] = enrollment[v],
         Undisturbed(<<"factor", u>>) =>
            enrollment'[u] # None /\ (keep => enrollment[u] = None),
         NEW spent \in {{}, {request[r].code}}, spent \subseteq CodesOf(u), keep => spent = {},
         accepted' = [c \in Code |-> IF c \in spent THEN accepted[c] + 1 ELSE accepted[c]]
  PROVE  FactorInv'
  <1>1. /\ NewId \in Id /\ lastId' = NewId /\ shown' = [shown EXCEPT ![u] = NewId]
        /\ codes' = [codes EXCEPT ![u] =
               [unused |-> Batch(NewId) \cup (IF keep THEN codes[u].unused ELSE {}),
                used |-> IF keep THEN codes[u].used ELSE {}]]
    BY NewBatchWrites
  <1>2. /\ codes'[u].unused = Batch(NewId) \cup (IF keep THEN codes[u].unused ELSE {})
        /\ codes'[u].used = IF keep THEN codes[u].used ELSE {}
        /\ \A v \in User \ {u} : codes'[v] = codes[v] /\ shown'[v] = shown[v]
        /\ shown'[u] = NewId
    BY <1>1 DEF TypeInv, RowTypes, HistoryTypes
  <1>3. \A c \in Batch(NewId) : c[1] = NewId
    BY DEF Batch
  <1>4. CodesOf(u)' = Batch(NewId) \cup (IF keep THEN CodesOf(u) ELSE {})
    BY <1>2 DEF CodesOf
  <1>5. /\ \A c \in CodesOf(u)' : c \in CodesOf(u) \/ (c[1] = NewId /\ lastId' = NewId)
        /\ \A c \in codes'[u].unused :
             c \in codes[u].unused \/ (c[1] = NewId /\ lastId' = NewId)
    BY <1>1, <1>2, <1>3, <1>4
  <1>6. ASSUME Undisturbed(<<"factor", u>>)
        PROVE  /\ spent \cap codes'[u].unused = {}
               /\ CodesOf(u)' = IF enrollment'[u] = None THEN {} ELSE Batch(shown'[u])
    <2>1. keep => CodesOf(u) = {}
      BY <1>6 DEF FactorInv, CodesMatchEnrollment, CodesOf
    <2>2. CodesOf(u)' = Batch(NewId)
      BY <1>4, <2>1
    <2>3. ASSUME NEW c \in spent
          PROVE  c \notin codes'[u].unused
      <3>1. ~keep /\ c \in CodesOf(u)
        BY <2>3
      <3>2. c[1] \leq lastId
        BY <3>1 DEF FactorInv, CodesAreFresh
      <3>3. c[1] # NewId
        BY <3>1, <3>2, CodesTypes DEF NewId
      <3> QED
        BY <1>2, <1>3, <3>1, <3>3
    <2> QED
      BY <1>2, <1>6, <2>2, <2>3
  <1>7. Becomes(r, Idle) /\ Idle.at \notin {"spend", "writeFactor"}
    BY IdleIsReady DEF End, Becomes
  <1>8. \A v \in User \ {u} : /\ codes'[v] = codes[v] /\ enrollment'[v] = enrollment[v]
                              /\ shown'[v] = shown[v]
    BY <1>2
  <1>9. lastId' \in {lastId, NewId} /\ request[r].at \in {"spend", "writeFactor"}
    BY <1>1
  <1> QED
    BY <1>5, <1>6, <1>7, <1>8, <1>9, FactorWriteInv

LEMMA EnrollFactorInv ==
  ASSUME TypeInv, TypeInv', FactorInv, NEW r \in Request, Enroll(r)
  PROVE  FactorInv'
  <1>1. request[r].at = "writeFactor" /\ End(r) /\ UNCHANGED accepted
    BY DEF Enroll
  <1>2. PICK u \in User : u = request[r].user
    BY <1>1, WasAsked
  <1>3. CASE UNCHANGED <<enrollment, codes, shown, lastId, raced>>
    BY <1>1, <1>3, EndFactorInv
  <1>4. CASE ~UNCHANGED <<enrollment, codes, shown, lastId, raced>>
    <2>1. PICK row : row = request[r].row
      OBVIOUS
    <2>2. /\ (row = None /\ enrollment[u] = None) \/ row # None
          /\ enrollment' = [enrollment EXCEPT ![u] = [batch |-> NewId, confirmed |-> FALSE]]
          /\ NewBatch(u, row = None) /\ Writes(r, <<"factor", u>>)
      BY <1>2, <1>4, <2>1 DEF Enroll
    <2>3. PICK keep \in BOOLEAN : keep = (row = None)
      OBVIOUS
    <2>4. NewBatch(u, keep) /\ (keep => enrollment[u] = None)
      BY <2>2, <2>3
    <2>5. [batch |-> NewId, confirmed |-> FALSE] # None
      <3>1. NewId \in Id
        BY <2>2 DEF NewBatch, HandOut
      <3>2. [batch |-> NewId, confirmed |-> FALSE] \in Enrollment
        BY <3>1 DEF Enrollment
      <3> QED
        BY <3>2, RowAssumption
    <2>6. enrollment'[u] # None /\ \A v \in User \ {u} : enrollment'[v] = enrollment[v]
      BY <2>2, <2>5 DEF TypeInv, RowTypes
    <2>7. accepted' = [c \in Code |-> IF c \in {} THEN accepted[c] + 1 ELSE accepted[c]]
      BY <1>1 DEF TypeInv, HistoryTypes
    <2>8. {} \in {{}, {request[r].code}} /\ {} \subseteq CodesOf(u)
      OBVIOUS
    <2> QED
      BY <1>1, <1>2, <2>2, <2>4, <2>6, <2>7, <2>8, BatchFactorInv
  <1> QED
    BY <1>3, <1>4

LEMMA ConfirmFactorInv ==
  ASSUME TypeInv, TypeInv', FactorInv, NEW r \in Request, ConfirmFactor(r)
  PROVE  FactorInv'
  <1>1. /\ request[r].at = "writeFactor" /\ End(r)
        /\ UNCHANGED <<codes, shown, accepted, lastId>>
    BY DEF ConfirmFactor, history
  <1>2. PICK u \in User : u = request[r].user
    BY <1>1, WasAsked
  <1>3. CASE UNCHANGED <<enrollment, raced>>
    BY <1>1, <1>3, EndFactorInv
  <1>4. CASE ~UNCHANGED <<enrollment, raced>>
    <2>1. /\ enrollment[u] # None /\ Writes(r, <<"factor", u>>)
          /\ enrollment' = [enrollment EXCEPT ![u].confirmed = TRUE]
      BY <1>2, <1>4 DEF ConfirmFactor
    <2>2. enrollment'[u] # None /\ \A v \in User \ {u} : enrollment'[v] = enrollment[v]
      <3>1. \A v \in User \ {u} : enrollment'[v] = enrollment[v]
        BY <2>1 DEF TypeInv, RowTypes
      <3>2. enrollment[u] \in Enrollment
        BY <2>1 DEF TypeInv, RowTypes, Optional
      <3>3. enrollment'[u] = [enrollment[u] EXCEPT !.confirmed = TRUE]
        BY <2>1 DEF TypeInv, RowTypes
      <3>4. enrollment'[u] \in Enrollment
        BY <3>2, <3>3 DEF Enrollment
      <3> QED
        BY <3>1, <3>4, RowAssumption
    <2>3. CodesOf(u)' = CodesOf(u) /\ codes'[u].unused = codes[u].unused
      BY <1>1 DEF CodesOf
    <2>4. Undisturbed(<<"factor", u>>) =>
            CodesOf(u)' = IF enrollment'[u] = None THEN {} ELSE Batch(shown'[u])
      BY <1>1, <2>1, <2>2, <2>3 DEF FactorInv, CodesMatchEnrollment, CodesOf
    <2>5. accepted' = [c \in Code |-> IF c \in {} THEN accepted[c] + 1 ELSE accepted[c]]
      BY <1>1 DEF TypeInv, HistoryTypes
    <2>6. {} \in {{}, {request[r].code}} /\ {} \subseteq CodesOf(u)
      OBVIOUS
    <2>7. Becomes(r, Idle) /\ Idle.at \notin {"spend", "writeFactor"}
      BY <1>1, IdleIsReady DEF End, Becomes
    <2>8. \A v \in User \ {u} : /\ codes'[v] = codes[v] /\ enrollment'[v] = enrollment[v]
                                /\ shown'[v] = shown[v]
      BY <1>1, <2>2
    <2>9. lastId' \in {lastId, NewId} /\ request[r].at \in {"spend", "writeFactor"}
      BY <1>1
    <2>10. /\ \A c \in CodesOf(u)' : c \in CodesOf(u)
           /\ \A c \in codes'[u].unused : c \in codes[u].unused
      BY <2>3
    <2> QED
      BY <1>2, <2>1, <2>4, <2>5, <2>6, <2>7, <2>8, <2>9, <2>10, FactorWriteInv
  <1> QED
    BY <1>3, <1>4

LEMMA DisableOrRegenerateInv ==
  ASSUME TypeInv, TypeInv', FactorInv, NEW r \in Request, DisableOrRegenerate(r)
  PROVE  FactorInv'
  <1>1. /\ request[r].at = "writeFactor" /\ End(r)
        /\ request[r].op \in {"disable", "regenerate"}
    BY DEF DisableOrRegenerate
  <1>2. PICK u \in User, code \in Optional(Code) : u = request[r].user /\ code = request[r].code
    BY <1>1, WasAsked
  <1>3. CASE UNCHANGED <<enrollment, codes, shown, lastId, accepted, raced>>
    BY <1>1, <1>3, EndFactorInv
  <1>4. CASE ~UNCHANGED <<enrollment, codes, shown, lastId, accepted, raced>>
    <2>1. /\ code = None \/ code \in CodesOf(u)
          /\ IF request[r].op = "disable"
             THEN Unenrolled(u) /\ UNCHANGED <<shown, lastId>>
             ELSE NewBatch(u, FALSE) /\ UNCHANGED enrollment
          /\ IF code = None THEN UNCHANGED accepted ELSE Accept(code)
          /\ Writes(r, <<"factor", u>>)
      BY <1>2, <1>4 DEF DisableOrRegenerate, CodesOf
    <2>2. PICK spent : spent = IF code = None THEN {} ELSE {code}
      OBVIOUS
    <2>3. spent \in {{}, {request[r].code}} /\ spent \subseteq CodesOf(u)
      BY <1>2, <2>1, <2>2
    <2>4. accepted' = [c \in Code |-> IF c \in spent THEN accepted[c] + 1 ELSE accepted[c]]
      <3>1. CASE code = None
        BY <2>1, <2>2, <3>1 DEF TypeInv, HistoryTypes
      <3>2. CASE code # None
        BY <2>1, <2>2, <3>2 DEF Accept, TypeInv, HistoryTypes
      <3> QED
        BY <3>1, <3>2
    <2>5. Undisturbed(<<"factor", u>>) =>
            /\ request[r].op = "regenerate" \/ code # None => enrollment[u] # None
      BY <1>1, <1>2 DEF FactorInv, FactorRequest
    <2>6. CASE request[r].op = "regenerate"
      <3>1. NewBatch(u, FALSE) /\ UNCHANGED enrollment
        BY <2>1, <2>6
      <3>2. /\ \A v \in User \ {u} : enrollment'[v] = enrollment[v]
            /\ Undisturbed(<<"factor", u>>) => enrollment'[u] # None
        BY <2>5, <2>6, <3>1
      <3> QED
        BY <1>1, <1>2, <2>1, <2>3, <2>4, <3>1, <3>2, BatchFactorInv
    <2>7. CASE request[r].op = "disable"
      <3>1. /\ enrollment' = [enrollment EXCEPT ![u] = None]
            /\ codes' = [codes EXCEPT ![u] = IF enrollment[u] = None THEN codes[u] ELSE NoCodes]
            /\ UNCHANGED <<shown, lastId>>
        BY <2>1, <2>7 DEF Unenrolled
      <3>2. /\ enrollment'[u] = None
            /\ codes'[u] = IF enrollment[u] = None THEN codes[u] ELSE NoCodes
            /\ \A v \in User \ {u} : /\ codes'[v] = codes[v] /\ enrollment'[v] = enrollment[v]
                                     /\ shown'[v] = shown[v]
        BY <3>1 DEF TypeInv, RowTypes
      <3>3. CodesOf(u)' = IF enrollment[u] = None THEN CodesOf(u) ELSE {}
        BY <3>2 DEF CodesOf, NoCodes
      <3>4. codes'[u].unused = IF enrollment[u] = None THEN codes[u].unused ELSE {}
        BY <3>2 DEF NoCodes
      <3>5. /\ \A c \in CodesOf(u)' : c \in CodesOf(u)
            /\ \A c \in codes'[u].unused : c \in codes[u].unused
        BY <3>3, <3>4
      <3>6. ASSUME Undisturbed(<<"factor", u>>)
            PROVE  /\ spent \cap codes'[u].unused = {}
                   /\ CodesOf(u)' = IF enrollment'[u] = None THEN {} ELSE Batch(shown'[u])
        <4>1. enrollment[u] = None => CodesOf(u) = {}
          BY <3>6 DEF FactorInv, CodesMatchEnrollment, CodesOf
        <4>2. spent # {} => enrollment[u] # None
          BY <2>2, <2>5, <3>6
        <4> QED
          BY <3>2, <3>3, <3>4, <4>1, <4>2
      <3>7. Becomes(r, Idle) /\ Idle.at \notin {"spend", "writeFactor"}
        BY <1>1, IdleIsReady DEF End, Becomes
      <3>8. lastId' \in {lastId, NewId} /\ request[r].at \in {"spend", "writeFactor"}
        BY <1>1, <3>1
      <3> QED
        BY <1>2, <2>1, <2>3, <2>4, <3>2, <3>5, <3>6, <3>7, <3>8, FactorWriteInv
    <2> QED
      BY <1>1, <2>6, <2>7
  <1> QED
    BY <1>3, <1>4

LEMMA StepFactorInv ==
  ASSUME TypeInv, TypeInv', TokenInv, FactorInv, [IdNext]_vars
  PROVE  FactorInv'
  <1>1. CASE UNCHANGED <<enrollment, codes, shown, accepted, request, raced, lastId>>
    BY <1>1 DEF FactorInv, FactorRequest, CodesAreFresh, CodesMatchEnrollment,
                CodesAreSpentOnce, CodesOf, Undisturbed
  <1>2. UNCHANGED vars \/ (\E p \in Id : TokenExpires(p)) =>
          UNCHANGED <<enrollment, codes, shown, accepted, request, raced, lastId>>
    BY DEF vars, rows, history, TokenExpires
  <1> QED
    BY <1>1, <1>2, OtherStepFactorInv, SpendFactorInv, EnrollFactorInv, ConfirmFactorInv,
       DisableOrRegenerateInv DEF IdNext

LEMMA InitFactorInv ==
  ASSUME IdInit
  PROVE  FactorInv
  <1>1. PICK given \in {{}, User \ {Admin}} :
      /\ \A u, v \in given : u = v
      /\ enrollment = [u \in User |-> IF u \in given THEN [batch |-> 1, confirmed |-> TRUE]
                                      ELSE None]
      /\ codes = [u \in User |-> [unused |-> IF u \in given THEN Batch(1) ELSE {},
                                  used |-> {}]]
      /\ shown = [u \in User |-> IF u \in given THEN 1 ELSE None]
    BY DEF IdInit
  <1>2. /\ request = [r \in Request |-> Idle] /\ lastId = 2
        /\ accepted = [c \in Code |-> 0]
    BY DEF IdInit
  <1>3. \A r \in Request : FactorRequest(request[r])
    BY <1>2, IdleIsReady DEF FactorRequest
  <1>4. \A u \in User : CodesOf(u) = IF u \in given THEN Batch(1) ELSE {}
    BY <1>1 DEF CodesOf
  <1>5. [batch |-> 1, confirmed |-> TRUE] # None
    <2>1. 1 \in Id
      BY IdentityAssumption DEF Id
    <2>2. [batch |-> 1, confirmed |-> TRUE] \in Enrollment
      BY <2>1 DEF Enrollment
    <2> QED
      BY <2>2, RowAssumption
  <1>6. CodesMatchEnrollment
    BY <1>1, <1>4, <1>5 DEF CodesMatchEnrollment, CodesOf
  <1>7. CodesAreSpentOnce
    BY <1>2 DEF CodesAreSpentOnce
  <1>8. CodesAreFresh
    <2>1. \A u \in User : \A c \in CodesOf(u) : c[1] \leq lastId
      BY <1>2, <1>4 DEF Batch
    <2>2. \A u, v \in User : u # v => CodesOf(u) \cap CodesOf(v) = {}
      BY <1>1, <1>4
    <2>3. \A u \in User : codes[u].unused \subseteq Code
      BY InitTypeInv DEF TypeInv, RowTypes
    <2> QED
      BY <1>2, <2>1, <2>2, <2>3 DEF CodesAreFresh
  <1> QED
    BY <1>3, <1>6, <1>7, <1>8 DEF FactorInv

\* The recovery codes stored are those of the batch the user was shown last, and there are
\* none without an enrollment, whatever requests begin, confirm, disable and regenerate.
THEOREM StoredCodesAreThoseShown == IdSpec => []CodesMatchEnrollment
  <1>1. IdInit => TypeInv /\ TokenInv /\ FactorInv
    BY InitTypeInv, InitTokenInv, InitFactorInv
  <1>2. TypeInv /\ TokenInv /\ FactorInv /\ [IdNext]_vars =>
          TypeInv' /\ TokenInv' /\ FactorInv'
    BY StepTypeInv, StepTokenInv, StepFactorInv
  <1>3. FactorInv => CodesMatchEnrollment
    BY DEF FactorInv
  <1> QED
    BY <1>1, <1>2, <1>3, PTL DEF IdSpec

\* A recovery code is accepted once, by a login, a disabling or a regeneration, as long as
\* no request wrote a factor that another had read.
THEOREM RecoveryCodesWorkOnce == IdSpec => []CodesAreSpentOnce
  <1>1. IdInit => TypeInv /\ TokenInv /\ FactorInv
    BY InitTypeInv, InitTokenInv, InitFactorInv
  <1>2. TypeInv /\ TokenInv /\ FactorInv /\ [IdNext]_vars =>
          TypeInv' /\ TokenInv' /\ FactorInv'
    BY StepTypeInv, StepTokenInv, StepFactorInv
  <1>3. FactorInv => CodesAreSpentOnce
    BY DEF FactorInv
  <1> QED
    BY <1>1, <1>2, <1>3, PTL DEF IdSpec

-----------------------------------------------------------------------------
(* Edits of an account *)

EditInv ==
    \A r \in Request :
        /\ EditRequest(request[r])
        /\ request[r].at = "register" => request[r].op = "register"

\* What a write of the principals does to the fields an edit may change.
LEMMA PrincipalWrites ==
  ASSUME TypeInv, EditInv, NEW r \in Request, WriteAccount(r) \/ WritePassword(r) \/ Register(r)
  PROVE  \A u \in User :
           \/ /\ principal'[u].status = principal[u].status
              /\ principal'[u].grants = principal[u].grants
           \/ /\ request[r].at = "writeUser" /\ request[r].user = u
              /\ principal'[u].status = request[r].row.status
              /\ principal'[u].grants = request[r].row.grants
              /\ Writes(r, <<"account", u>>)
           \/ /\ request[r].at = "register" /\ request[r].user = u
              /\ principal[u].status = "absent" /\ principal'[u].status = "active"
              /\ principal'[u].grants = principal[u].grants
  <1> SUFFICES ASSUME NEW u \in User
               PROVE
           \/ /\ principal'[u].status = principal[u].status
              /\ principal'[u].grants = principal[u].grants
           \/ /\ request[r].at = "writeUser" /\ request[r].user = u
              /\ principal'[u].status = request[r].row.status
              /\ principal'[u].grants = request[r].row.grants
              /\ Writes(r, <<"account", u>>)
           \/ /\ request[r].at = "register" /\ request[r].user = u
              /\ principal[u].status = "absent" /\ principal'[u].status = "active"
              /\ principal'[u].grants = principal[u].grants
    OBVIOUS
  <1>1. principal \in [User -> Account] /\ principal[u] \in Account
    BY DEF TypeInv, RowTypes
  <1>2. PICK owner : owner = request[r].user
    OBVIOUS
  <1>3. CASE principal' = principal
    BY <1>3
  <1>4. CASE WriteAccount(r) /\ principal' # principal
    <2>1. PICK row : row = request[r].row
      OBVIOUS
    <2>2. /\ request[r].at = "writeUser" /\ principal' = Edited(owner, row)
          /\ Writes(r, <<"account", owner>>)
      BY <1>2, <1>4, <2>1 DEF WriteAccount
    <2>3. CASE owner = u
      <3>1. PICK a : /\ principal' = [principal EXCEPT ![u] = a]
                     /\ a = [principal[u] EXCEPT !.status = row.status, !.grants = row.grants]
        BY <2>2, <2>3 DEF Edited
      <3>2. PICK half : half = [principal[u] EXCEPT !.status = row.status]
        OBVIOUS
      <3>3. a = [half EXCEPT !.grants = row.grants]
        BY <3>1, <3>2
      <3>4. half = [status |-> row.status, mustChange |-> principal[u].mustChange,
                    grants |-> principal[u].grants]
        BY <1>1, <3>2 DEF Account
      <3>5. a = [status |-> row.status, mustChange |-> principal[u].mustChange,
                 grants |-> row.grants]
        BY <3>3, <3>4
      <3>6. principal'[u] = a
        BY <1>1, <3>1
      <3>7. principal'[u].status = row.status /\ principal'[u].grants = row.grants
        BY <3>5, <3>6
      <3> QED
        BY <1>2, <2>1, <2>2, <2>3, <3>7
    <2>4. CASE owner # u
      <3>1. principal'[u] = principal[u]
        BY <1>1, <2>2, <2>4 DEF Edited
      <3> QED
        BY <3>1
    <2> QED
      BY <2>3, <2>4
  <1>5. CASE WritePassword(r) /\ principal' # principal
    <2>1. PICK forced : principal' = [principal EXCEPT ![owner].mustChange = forced]
      BY <1>2, <1>5 DEF WritePassword
    <2>2. /\ principal'[u].status = principal[u].status
          /\ principal'[u].grants = principal[u].grants
      BY <1>1, <2>1 DEF Account
    <2> QED
      BY <2>2
  <1>6. CASE Register(r) /\ principal' # principal
    <2>1. /\ request[r].at = "register" /\ principal[owner].status = "absent"
          /\ principal' = [principal EXCEPT ![owner].status = "active"]
      BY <1>2, <1>6 DEF Register
    <2>2. /\ principal'[u].grants = principal[u].grants
          /\ owner # u => principal'[u].status = principal[u].status
          /\ owner = u => principal'[u].status = "active"
      BY <1>1, <2>1 DEF Account
    <2> QED
      BY <1>2, <2>1, <2>2
  <1> QED
    BY <1>3, <1>4, <1>5, <1>6

LEMMA StepEditInv ==
  ASSUME TypeInv, TokenInv, EditInv, [IdNext]_vars
  PROVE  EditInv'
  <1>1. raced \subseteq raced'
    <2>1. UNCHANGED raced \/ \E r \in Request : \E x : Writes(r, x)
      BY DEF IdNext, vars, Login, AnswerChallenge, RefreshOrLogout, ExchangeOrImpersonate,
             IssueToken, ChangeToken, ChangeFactor, EditAccount, StartPassword, Register,
             CheckFactor, SpendCode, IssueSession, IssueChallenge, VerifySession,
             DropSession, WriteNewToken, ReadToken, WriteToken, ReadFactor, Enroll,
             ConfirmFactor, DisableOrRegenerate, WriteAccount, WritePassword, Abort,
             TokenExpires
    <2> QED
      BY <2>1, WritesOnlyAdds
  <1>2. \A x : Undisturbed(x)' => Undisturbed(x)
    BY <1>1 DEF Undisturbed
  <1>3. \/ UNCHANGED principal
        \/ \E r \in Request : WriteAccount(r) \/ WritePassword(r) \/ Register(r)
    BY DEF IdNext, vars, rows, Login, AnswerChallenge, RefreshOrLogout,
           ExchangeOrImpersonate, ChangeFactor, EditAccount, StartPassword, IssueToken,
           CheckFactor, SpendCode, IssueSession, IssueChallenge, VerifySession,
           DropSession, ReadFactor, Enroll, ConfirmFactor, DisableOrRegenerate, Abort,
           ChangeToken, ReadToken, WriteNewToken, WriteToken, TokenExpires
  \* A request that has not moved.
  <1>4. ASSUME NEW p \in Request, request'[p] = request[p]
        PROVE  EditRequest(request[p])'
    <2>1. PICK is : is = request[p]
      OBVIOUS
    <2>2. CASE is.at = "writeUser"
      <3>1. is.user \in User /\ is.row \in Account
        BY <2>1, <2>2, WasAsked DEF Ready
      <3>2. /\ is.row.status # "absent" /\ principal[is.user].status # "absent"
            /\ Undisturbed(<<"account", is.user>>) =>
                 \A field \in {"status", "grants"} :
                   Sets(is.op, field) \/ is.row[field] = principal[is.user][field]
        BY <2>1, <2>2 DEF EditInv, EditRequest
      <3>3. CASE /\ principal'[is.user].status = principal[is.user].status
                 /\ principal'[is.user].grants = principal[is.user].grants
        <4>1. \A field \in {"status", "grants"} :
                principal'[is.user][field] = principal[is.user][field]
          BY <3>3
        <4>2. EditRequest(is)'
          BY <1>2, <2>2, <3>2, <3>3, <4>1 DEF EditRequest
        <4> QED
          BY <1>4, <2>1, <4>2 DEF EditRequest
      <3>4. ASSUME NEW r \in Request, WriteAccount(r) \/ WritePassword(r) \/ Register(r),
                   ~ /\ principal'[is.user].status = principal[is.user].status
                     /\ principal'[is.user].grants = principal[is.user].grants
            PROVE  EditRequest(request[p])'
        <4>1. /\ request[r].at = "writeUser" /\ request[r].user = is.user
              /\ principal'[is.user].status = request[r].row.status
              /\ Writes(r, <<"account", is.user>>)
          BY <3>1, <3>2, <3>4, PrincipalWrites
        <4>2. request[r].row.status # "absent"
          BY <4>1 DEF EditInv, EditRequest
        <4>3. End(r)
          BY <3>4, <4>1 DEF WriteAccount, WritePassword, Register, Start, Idle
        <4>4. p # r
          <5>1. request'[r] = Idle
            BY <4>3 DEF End, TypeInv, RequestTypes
          <5> QED
            BY <1>4, <2>1, <2>2, <5>1, IdleIsReady
        <4>5. <<"account", is.user>> \in Held(p)
          BY <2>1, <2>2 DEF Held
        <4>6. ~Undisturbed(<<"account", is.user>>)'
          BY <4>1, <4>4, <4>5 DEF Writes, Undisturbed
        <4>7. EditRequest(is)'
          BY <3>2, <4>1, <4>2, <4>6 DEF EditRequest
        <4> QED
          BY <1>4, <2>1, <4>7 DEF EditRequest
      <3> QED
        BY <1>3, <3>3, <3>4
    <2>3. CASE is.at # "writeUser"
      BY <1>4, <2>1, <2>3 DEF EditRequest
    <2> QED
      BY <2>2, <2>3
  <1>5. CASE UNCHANGED request
    BY <1>4, <1>5 DEF EditInv
  <1>6. ASSUME NEW r \in Request, NEW q \in RequestType, Becomes(r, q),
               q.at \notin {"writeUser", "register"}
        PROVE  EditInv'
    <2>1. \A p \in Request : request'[p] = IF p = r THEN q ELSE request[p]
      BY <1>6, BecomesRequest
    <2>2. \A p \in Request : EditRequest(request[p])'
      BY <1>4, <1>6, <2>1 DEF EditRequest
    <2>3. \A p \in Request : request'[p].at = "register" => request'[p].op = "register"
      BY <1>6, <2>1 DEF EditInv
    <2> QED
      BY <2>2, <2>3 DEF EditInv
  <1>7. ASSUME NEW r \in Request, NEW q \in RequestType, Becomes(r, q), Start(r, q), Fresh(q),
               UNCHANGED principal, q.at \in {"writeUser", "register"}
        PROVE  EditInv'
    <2>1. \A p \in Request : request'[p] = IF p = r THEN q ELSE request[p]
      BY <1>7, BecomesRequest
    <2>2. EditRequest(q) /\ (q.at = "register" => q.op = "register")
      BY <1>7 DEF Fresh, EditRequest
    <2>3. EditRequest(q)'
      BY <1>2, <1>7, <2>2 DEF EditRequest
    <2>4. \A p \in Request : EditRequest(request[p])'
      BY <1>4, <2>1, <2>3 DEF EditRequest
    <2>5. \A p \in Request : request'[p].at = "register" => request'[p].op = "register"
      BY <2>1, <2>2 DEF EditInv
    <2> QED
      BY <2>4, <2>5 DEF EditInv
  <1>8. ASSUME NEW r \in Request,
               \/ Login(r) \/ AnswerChallenge(r) \/ RefreshOrLogout(r)
               \/ ExchangeOrImpersonate(r) \/ IssueToken(r) \/ ChangeToken(r)
               \/ ChangeFactor(r) \/ EditAccount(r) \/ StartPassword(r)
               \/ (Register(r) /\ request[r].at # "register")
        PROVE  EditInv'
    <2>1. PICK q \in RequestType : Start(r, q) /\ Fresh(q)
      BY <1>8, RequestBegins
    <2>2. Becomes(r, q)
      BY <2>1 DEF Start, Becomes
    <2>3. UNCHANGED principal
      BY <1>8 DEF rows, Login, AnswerChallenge, RefreshOrLogout, ExchangeOrImpersonate,
                  IssueToken, ChangeToken, ChangeFactor, EditAccount, StartPassword, Register
    <2> QED
      BY <1>6, <1>7, <2>1, <2>2, <2>3
  <1>9. ASSUME NEW r \in Request,
               \/ CheckFactor(r) \/ SpendCode(r) \/ IssueSession(r) \/ IssueChallenge(r)
               \/ VerifySession(r) \/ DropSession(r) \/ WriteNewToken(r) \/ ReadToken(r)
               \/ WriteToken(r) \/ ReadFactor(r) \/ Enroll(r) \/ ConfirmFactor(r)
               \/ DisableOrRegenerate(r) \/ WriteAccount(r) \/ WritePassword(r)
               \/ (Register(r) /\ request[r].at = "register") \/ Abort(r)
        PROVE  EditInv'
    <2>1. PICK q \in RequestType : Becomes(r, q) /\ Continues(request[r], q)
      BY <1>9, RequestContinues
    <2>2. q.at \notin {"writeUser", "register"}
      BY <2>1, IdleIsReady DEF Continues
    <2> QED
      BY <1>6, <2>1, <2>2
  <1>10. UNCHANGED vars \/ (\E p \in Id : TokenExpires(p)) => UNCHANGED request
    BY DEF vars, TokenExpires
  <1> QED
    BY <1>5, <1>8, <1>9, <1>10 DEF IdNext

LEMMA StepKeepsTheRest ==
  ASSUME TypeInv, EditInv, [IdNext]_vars, NEW u \in User, NEW field \in {"status", "grants"},
         Undisturbed(<<"account", u>>), principal'[u][field] # principal[u][field]
  PROVE  \E r \in Request : request[r].user = u /\ Sets(request[r].op, field)
  <1>1. PICK r \in Request : WriteAccount(r) \/ WritePassword(r) \/ Register(r)
    <2>1. \/ UNCHANGED principal
          \/ \E r \in Request : WriteAccount(r) \/ WritePassword(r) \/ Register(r)
      BY DEF IdNext, vars, rows, Login, AnswerChallenge, RefreshOrLogout,
             ExchangeOrImpersonate, ChangeFactor, EditAccount, StartPassword, IssueToken,
             CheckFactor, SpendCode, IssueSession, IssueChallenge, VerifySession,
             DropSession, ReadFactor, Enroll, ConfirmFactor, DisableOrRegenerate, Abort,
             ChangeToken, ReadToken, WriteNewToken, WriteToken, TokenExpires
    <2> QED
      BY <2>1
  <1>2. CASE /\ principal'[u].status = principal[u].status
             /\ principal'[u].grants = principal[u].grants
    BY <1>2
  <1>3. CASE /\ request[r].at = "writeUser" /\ request[r].user = u
             /\ principal'[u].status = request[r].row.status
             /\ principal'[u].grants = request[r].row.grants
    <2>1. principal'[u][field] = request[r].row[field]
      BY <1>3
    <2>2. Sets(request[r].op, field) \/ request[r].row[field] = principal[u][field]
      BY <1>3 DEF EditInv, EditRequest
    <2> QED
      BY <1>3, <2>1, <2>2
  <1>4. CASE /\ request[r].at = "register" /\ request[r].user = u
             /\ principal'[u].grants = principal[u].grants
    <2>1. field = "status"
      BY <1>4
    <2>2. request[r].op = "register"
      BY <1>4 DEF EditInv
    <2> QED
      BY <1>4, <2>1, <2>2 DEF Sets
  <1> QED
    BY <1>1, <1>2, <1>3, <1>4, PrincipalWrites

\* Unless two edits of the account overlap, a status or a grant changes only by a request
\* that is about it: what an edit had read of the other field is what it writes back.
THEOREM EditsChangeTheirFieldAlone == IdSpec => EditsKeepTheRest
  <1>1. IdInit => TypeInv /\ TokenInv /\ EditInv
    <2> SUFFICES ASSUME IdInit
                 PROVE  TypeInv /\ TokenInv /\ EditInv
      OBVIOUS
    <2>1. EditInv
      BY IdleIsReady DEF IdInit, EditInv, EditRequest
    <2> QED
      BY <2>1, InitTypeInv, InitTokenInv
  <1>2. TypeInv /\ TokenInv /\ EditInv /\ [IdNext]_vars => TypeInv' /\ TokenInv' /\ EditInv'
    BY StepTypeInv, StepTokenInv, StepEditInv
  <1>3. TypeInv /\ TokenInv /\ EditInv /\ [IdNext]_vars =>
          [\A u \in User, field \in {"status", "grants"} :
             Undisturbed(<<"account", u>>) /\ principal'[u][field] # principal[u][field] =>
                \E r \in Request : request[r].user = u /\ Sets(request[r].op, field)]_vars
    BY StepKeepsTheRest
  <1> QED
    BY <1>1, <1>2, <1>3, PTL DEF IdSpec, EditsKeepTheRest
=============================================================================
