------------------------- MODULE CertificatesProofs -------------------------
(***************************************************************************)
(* Proofs about Certificates, for any certificates, hosts and requests and *)
(* any number of failures and crashes.                                     *)
(***************************************************************************)
EXTENDS Certificates, TLAPS

Requests == [kind : Optional(Kinds), pc : Steps \cup {"idle", "done", "failed"},
             cert : Optional(Cert), serial : Optional(Material),
             previous : Optional(Row),
             updated : BOOLEAN, before : Optional(Row) \X Optional(Material)]

\* Each kind of request has its own steps, and knows its bundle once it puts it.
StepsFit ==
    \A r \in Request :
        /\ request[r].pc \in Steps => request[r].kind \in Kinds /\ request[r].cert \in Cert
        /\ request[r].pc = "issue" => request[r].kind = "renew"
        /\ request[r].pc = "detach" => request[r].kind \in {"renew", "delete"}
        /\ request[r].pc = "detach" /\ request[r].kind = "renew"
           => request[r].serial \in Material
        /\ request[r].pc \in {"aside", "swap", "cleanup", "updateRow"}
           => /\ request[r].kind \in {"create", "replace", "renew"}
              /\ request[r].serial \in Material
        /\ request[r].pc = "deleteRow" => request[r].kind = "delete"
        /\ request[r].pc = "dropRow" => request[r].kind = "create"

\* A certificate on which requests have not overlapped has one at most.
OneRequestEach ==
    \A c \in Cert \ overlapped : \A q, r \in Busy(c) : q = r

\* No host is assigned a certificate that is being created or deleted.
GoingIsUnassigned ==
    \A c \in Cert \ overlapped : \A r \in Busy(c) :
        request[r].kind \in {"create", "delete"} => \A h \in Host : assigned[h] # c

AInv == CTypeOK /\ StepsFit /\ OneRequestEach /\ GoingIsUnassigned /\ AssignedExists

USE CertificatesAssumption

LEMMA InitIsSafe == CInit => AInv
  BY DEF CInit, AInv, CTypeOK, StepsFit, OneRequestEach, GoingIsUnassigned,
         AssignedExists, Busy, Idle, Optional, Steps, Kinds, Material, Row

LEMMA IdleIsRequest == \A pc \in Steps \cup {"idle", "done", "failed"} :
                           [Idle EXCEPT !.pc = pc] \in Requests
  BY DEF Idle, Requests, Optional

LEMMA AtAnotherStep ==
  ASSUME NEW q \in Requests, NEW pc \in Steps, NEW b \in BOOLEAN
  PROVE  [q EXCEPT !.pc = pc, !.updated = b] \in Requests
  BY DEF Requests

\* What Go does to a request: it stays on its certificate, or it ends.
LEMMA GoKeeps ==
  ASSUME NEW r \in Request, NEW there \in Steps \cup {"done", "failed"},
         request \in [Request -> Requests], Go(r, there)
  PROVE  /\ request' \in [Request -> Requests]
         /\ \A q \in Request : q # r => request'[q] = request[q]
         /\ request'[r].pc = there
         /\ \/ there \notin Steps
            \/ /\ request'[r].cert = request[r].cert
               /\ request'[r].kind = request[r].kind
               /\ request'[r].serial = request[r].serial
<1>1. CASE there \in Steps
  <2> DEFINE new == [request[r] EXCEPT !.pc = there, !.updated = @ \/ there = "commit"]
  <2>1. request' = [request EXCEPT ![r] = new]
    BY <1>1 DEF Go
  <2>2. new \in Requests
    <3>1. (request[r].updated \/ there = "commit") \in BOOLEAN
      OBVIOUS
    <3> QED BY <1>1, <3>1, AtAnotherStep
  <2>3. new.pc = there /\ new.cert = request[r].cert /\ new.kind = request[r].kind
        /\ new.serial = request[r].serial
    BY DEF Requests
  <2> HIDE DEF new
  <2> QED BY <2>1, <2>2, <2>3
<1>2. CASE there \notin Steps
  <2> DEFINE new == [Idle EXCEPT !.pc = there]
  <2>1. request' = [request EXCEPT ![r] = new]
    BY <1>2 DEF Go
  <2>2. new \in Requests
    BY IdleIsRequest
  <2>3. new.pc = there
    BY DEF Idle
  <2> HIDE DEF new
  <2> QED BY <1>2, <2>1, <2>2, <2>3
<1> QED BY <1>1, <1>2

LEMMA HandlerIsStep ==
  ASSUME NEW kind, NEW step
  PROVE  Handler(kind, step) \in {"dropMaterial", "restoreRow", "rollback", "failed"}
  BY DEF Handler
---------------------------------------------------------------------------
(* Types *)

\* Every step of a request changes its pc by Go; the others are Begin and IssueEnds.
LEMMA BeginTypes ==
  ASSUME CTypeOK, NEW r \in Request, NEW c \in Cert, NEW kind \in Kinds,
         NEW step \in Steps, NEW serial \in Optional(Material),
         Begin(r, kind, c, step, serial)
  PROVE  /\ request' \in [Request -> Requests]
         /\ overlapped' \subseteq Cert
         /\ UNCHANGED <<disk, assigned, interrupted, budgets>>
<1> DEFINE new == [kind |-> kind, pc |-> step, cert |-> c, serial |-> serial,
                   previous |-> row[c], updated |-> FALSE, before |-> <<row[c], live[c]>>]
<1>1. new \in Requests
  <2>1. row[c] \in Optional(Row) /\ live[c] \in Optional(Material)
    BY DEF CTypeOK
  <2> QED BY <2>1 DEF Requests, Optional
<1>2. request' = [request EXCEPT ![r] = new]
  BY DEF Begin
<1>3. request \in [Request -> Requests]
  BY DEF CTypeOK, Requests
<1>4. overlapped' \subseteq Cert
  BY DEF Begin, Overlaps, CTypeOK
<1> HIDE DEF new
<1> QED BY <1>1, <1>2, <1>3, <1>4 DEF Begin

LEMMA ReconcileTypes ==
  ASSUME CTypeOK, NEW hosts \in [Host -> Optional(Cert)], Reconcile(hosts)
  PROVE  /\ inForce' \in [Host -> Optional(Cert)]
         /\ loaded' \in [Cert -> Optional(Material)]
<1>1. Reads(hosts) \in [Cert -> Optional(Material)]
  BY DEF Reads, CTypeOK, Optional
<1> QED BY <1>1 DEF Reconcile, CTypeOK, nginx

LEMMA TypesAreKept ==
  ASSUME CTypeOK, StepsFit, [CNext]_vars
  PROVE  CTypeOK'
<1> USE DEF CTypeOK
<1>0. request \in [Request -> Requests]
  BY DEF Requests
<1>1. ASSUME NEW r \in Request, NEW c \in Cert, CStep(r, c)
      PROVE  CTypeOK'
  <2>issue. ASSUME Issue PROVE issued' \in Material /\ issued' \in 0..MaxIssued
    BY <2>issue DEF Issue, Material
  <2>go. ASSUME NEW there \in Steps \cup {"done", "failed"}, Go(r, there)
         PROVE  request' \in [Request -> Requests]
    BY <1>0, <2>go, GoKeeps
  <2>raise. ASSUME NEW step, Raise(r, step) PROVE request' \in [Request -> Requests]
    BY <2>raise, <2>go, HandlerIsStep DEF Raise, Steps
  <2>update. ASSUME NEW step, NEW there \in Steps \cup {"done", "failed"}, NEW new,
                    row[c] # Missing => new \in Row, Update(r, c, step, there, new)
             PROVE  CTypeOK'
    <3>1. request' \in [Request -> Requests]
      BY <2>update, <2>go, <2>raise DEF Update
    <3>2. row' \in [Cert -> Optional(Row)]
      BY <2>update DEF Update, Optional
    <3>3. inForce' \in [Host -> Optional(Cert)] /\ loaded' \in [Cert -> Optional(Material)]
      BY <2>update, ReconcileTypes DEF Update, nginx
    <3> QED BY <2>update, <3>1, <3>2, <3>3 DEF Update, disk, rest, budgets, Requests
  <2>1. ASSUME NEW provider \in {"other", "letsencrypt"}, BeginCreate(r, c, provider)
        PROVE  CTypeOK'
    <3>1. issued' \in Material /\ issued' \in 0..MaxIssued
      BY <2>1, <2>issue DEF BeginCreate
    <3>2. Begin(r, "create", c, "aside", issued')
      BY <2>1 DEF BeginCreate
    <3>3. /\ request' \in [Request -> Requests] /\ overlapped' \subseteq Cert
          /\ UNCHANGED <<disk, assigned, interrupted, budgets>>
      BY <3>1, <3>2, BeginTypes DEF Kinds, Steps, Optional
    <3>4. row' \in [Cert -> Optional(Row)]
      BY <2>1, <3>1 DEF BeginCreate, Optional, Row
    <3>5. inForce' \in [Host -> Optional(Cert)] /\ loaded' \in [Cert -> Optional(Material)]
      BY <2>1, ReconcileTypes DEF BeginCreate
    <3> QED BY <3>1, <3>3, <3>4, <3>5 DEF disk, budgets, Requests
  <2>2. CASE BeginReplace(r, c)
    <3>1. issued' \in Material /\ issued' \in 0..MaxIssued
      BY <2>2, <2>issue DEF BeginReplace
    <3>2. Begin(r, "replace", c, "updateRow", issued')
      BY <2>2 DEF BeginReplace
    <3>3. /\ request' \in [Request -> Requests] /\ overlapped' \subseteq Cert
          /\ UNCHANGED <<disk, assigned, interrupted, budgets>>
      BY <3>1, <3>2, BeginTypes DEF Kinds, Steps, Optional
    <3> QED BY <2>2, <3>1, <3>3 DEF BeginReplace, nginx, disk, budgets, Requests
  <2>3. CASE BeginRenew(r, c)
    <3>3. /\ request' \in [Request -> Requests] /\ overlapped' \subseteq Cert
          /\ UNCHANGED <<disk, assigned, interrupted, budgets>>
      BY <2>3, BeginTypes DEF BeginRenew, Kinds, Steps, Optional
    <3> QED BY <2>3, <3>3 DEF BeginRenew, nginx, disk, budgets, Requests
  <2>4. CASE BeginDelete(r, c)
    <3>3. /\ request' \in [Request -> Requests] /\ overlapped' \subseteq Cert
          /\ UNCHANGED <<disk, assigned, interrupted, budgets>>
      BY <2>4, BeginTypes DEF BeginDelete, Kinds, Steps, Optional
    <3> QED BY <2>4, <3>3 DEF BeginDelete, nginx, disk, budgets, Requests
  <2>5. CASE UpdateReplaced(r, c)
    <3> DEFINE new == [status |-> "active", provider |-> "other",
                       serial |-> request[r].serial]
    <3>1. Update(r, c, "updateRow", "aside", new)
      BY <2>5 DEF UpdateReplaced
    <3>2. new \in Row
      BY <2>5 DEF UpdateReplaced, Update, At, StepsFit, Row
    <3> HIDE DEF new
    <3> QED BY <3>1, <3>2, <2>update DEF Steps
  <2>6. CASE UpdateRenewed(r, c)
    <3> DEFINE new == [row[c] EXCEPT !.status = "active", !.serial = request[r].serial]
    <3>1. Update(r, c, "updateRow", "commit", new)
      BY <2>6 DEF UpdateRenewed
    <3>2. row[c] # Missing => new \in Row
      <4>1. request[r].serial \in Material
        BY <2>6 DEF UpdateRenewed, Update, At, StepsFit
      <4>2. row[c] # Missing => row[c] \in Row
        BY DEF Optional
      <4> QED BY <4>1, <4>2 DEF Row
    <3> HIDE DEF new
    <3> QED BY <3>1, <3>2, <2>update DEF Steps
  <2>7. CASE Activate(r, c)
    <3> DEFINE new == [row[c] EXCEPT !.status = "active"]
    <3>1. Update(r, c, "activate", "done", new)
      BY <2>7 DEF Activate
    <3>2. row[c] # Missing => new \in Row
      <4>1. row[c] # Missing => row[c] \in Row
        BY DEF Optional
      <4> QED BY <4>1 DEF Row
    <3> HIDE DEF new
    <3> QED BY <3>1, <3>2, <2>update
  <2>8. CASE DeleteRow(r, c)
    <3>1. request' \in [Request -> Requests]
      BY <2>8, <2>go, <2>raise DEF DeleteRow, Steps
    <3>2. row' \in [Cert -> Optional(Row)]
      BY <2>8 DEF DeleteRow, Optional
    <3>3. inForce' \in [Host -> Optional(Cert)] /\ loaded' \in [Cert -> Optional(Material)]
      BY <2>8, ReconcileTypes DEF DeleteRow, nginx
    <3> QED BY <2>8, <3>1, <3>2, <3>3 DEF DeleteRow, disk, rest, budgets, Requests
  <2>9. CASE IssueEnds(r, c)
    <3>1. issued' \in Material /\ issued' \in 0..MaxIssued
      BY <2>9, <2>issue DEF IssueEnds
    <3> DEFINE new == [request[r] EXCEPT !.pc = "detach", !.serial = issued',
                                         !.previous = row[c]]
    <3>2. new \in Requests
      <4>1. request[r] \in Requests /\ row[c] \in Optional(Row)
        BY <1>0
      <4> QED BY <3>1, <4>1 DEF Requests, Steps, Optional
    <3>3. request' = [request EXCEPT ![r] = new]
      BY <2>9 DEF IssueEnds
    <3> HIDE DEF new
    <3>4. request' \in [Request -> Requests]
      BY <1>0, <3>2, <3>3
    <3> QED BY <2>9, <3>1, <3>4 DEF IssueEnds, disk, nginx, budgets, Requests
  <2>10. CASE Detach(r, c)
    <3>1. request' \in [Request -> Requests]
      BY <2>10, <2>go DEF Detach, Steps
    <3>2. live' \in [Cert -> Optional(Material)] /\ quarantine' \in [Request -> [Cert -> Optional(Material)]]
      BY <2>10 DEF Detach, Optional
    <3> QED BY <2>10, <3>1, <3>2 DEF Detach, nginx, rest, budgets, Requests
  <2>11. CASE PutAside(r, c)
    <3>1. request' \in [Request -> Requests]
      BY <2>11, <2>go DEF PutAside, Steps
    <3>2. live' \in [Cert -> Optional(Material)] /\ backup' \in [Cert -> Optional(Material)]
      BY <2>11 DEF PutAside, Optional
    <3> QED BY <2>11, <3>1, <3>2 DEF PutAside, nginx, rest, budgets, Requests
  <2>12. CASE PutSwap(r, c)
    <3>1. request' \in [Request -> Requests]
      BY <2>12, <2>go, <2>raise DEF PutSwap, Steps
    <3>2. live' \in [Cert -> Optional(Material)]
      BY <2>12 DEF PutSwap, At, StepsFit, Optional
    <3> QED BY <2>12, <3>1, <3>2 DEF PutSwap, nginx, rest, budgets, Requests
  <2>13. CASE PutCleanup(r, c)
    <3>1. AfterPut(request[r].kind) \in Steps \cup {"done", "failed"}
      BY <2>13 DEF PutCleanup, At, StepsFit, AfterPut, Steps
    <3>2. request' \in [Request -> Requests]
      BY <2>13, <3>1, <2>go DEF PutCleanup
    <3>3. backup' \in [Cert -> Optional(Material)]
      BY <2>13 DEF PutCleanup, Optional
    <3> QED BY <2>13, <3>2, <3>3 DEF PutCleanup, nginx, rest, budgets, Requests
  <2>14. CASE CommitDetach(r, c)
    <3>1. request' \in [Request -> Requests]
      BY <2>14, <2>go DEF CommitDetach
    <3>2. quarantine' \in [Request -> [Cert -> Optional(Material)]]
      BY <2>14 DEF CommitDetach, Optional
    <3> QED BY <2>14, <3>1, <3>2 DEF CommitDetach, nginx, rest, budgets, Requests
  <2>15. CASE DropMaterial(r, c)
    <3>1. request' \in [Request -> Requests]
      BY <2>15, <2>go DEF DropMaterial, Steps
    <3>2. live' \in [Cert -> Optional(Material)]
      BY <2>15 DEF DropMaterial, Optional
    <3> QED BY <2>15, <3>1, <3>2 DEF DropMaterial, nginx, rest, budgets, Requests
  <2>16. CASE DropRow(r, c)
    <3>1. request' \in [Request -> Requests]
      BY <2>16, <2>go DEF DropRow
    <3>2. row' \in [Cert -> Optional(Row)]
      BY <2>16 DEF DropRow, Optional
    <3>3. inForce' \in [Host -> Optional(Cert)] /\ loaded' \in [Cert -> Optional(Material)]
      BY <2>16, ReconcileTypes DEF DropRow, nginx
    <3> QED BY <2>16, <3>1, <3>2, <3>3 DEF DropRow, disk, rest, budgets, Requests
  <2>17. CASE RollbackDetach(r, c)
    <3>1. request' \in [Request -> Requests]
      BY <2>17, <2>go DEF RollbackDetach, Steps
    <3>2. live' \in [Cert -> Optional(Material)] /\ quarantine' \in [Request -> [Cert -> Optional(Material)]]
      <4>1. quarantine[r] \in [Cert -> Optional(Material)] /\ Missing \in Optional(Material)
        BY DEF Optional
      <4>2. quarantine[r][c] \in Optional(Material)
        BY <4>1
      <4>3. live' \in {live, [live EXCEPT ![c] = quarantine[r][c]]}
            /\ quarantine' \in {quarantine, [quarantine EXCEPT ![r][c] = Missing]}
        BY <2>17 DEF RollbackDetach
      <4>4. [quarantine EXCEPT ![r][c] = Missing] \in [Request -> [Cert -> Optional(Material)]]
        BY <4>1
      <4> QED BY <4>2, <4>3, <4>4
    <3> QED BY <2>17, <3>1, <3>2 DEF RollbackDetach, nginx, rest, budgets, Requests
  <2>18. CASE RestoreRow(r, c)
    <3>1. request' \in [Request -> Requests]
      BY <2>18, <2>go DEF RestoreRow
    <3>2. row' \in [Cert -> Optional(Row)]
      BY <2>18 DEF RestoreRow, Optional
    <3>3. inForce' \in [Host -> Optional(Cert)] /\ loaded' \in [Cert -> Optional(Material)]
      BY <2>18, ReconcileTypes DEF RestoreRow, nginx
    <3> QED BY <2>18, <3>1, <3>2, <3>3 DEF RestoreRow, disk, rest, budgets, Requests
  <2>19. CASE Fails(r, c)
    <3>1. request' \in [Request -> Requests]
      BY <2>19, <2>raise DEF Fails
    <3>2. live' \in [Cert -> Optional(Material)] /\ backup' \in [Cert -> Optional(Material)]
      BY <2>19 DEF Fails, Optional
    <3>3. faults' \in 0..MaxFaults
      BY <2>19 DEF Fails
    <3> QED BY <2>19, <3>1, <3>2, <3>3 DEF Fails, nginx, Requests
  <2> QED BY <1>1, <2>1, <2>2, <2>3, <2>4, <2>5, <2>6, <2>7, <2>8, <2>9, <2>10, <2>11,
             <2>12, <2>13, <2>14, <2>15, <2>16, <2>17, <2>18, <2>19 DEF CStep
<1>2. ASSUME NEW h \in Host, NEW c \in Optional(Cert), Assign(h, c)
      PROVE  CTypeOK'
  <2>1. assigned' \in [Host -> Optional(Cert)] /\ overlapped' \subseteq Cert
    BY <1>2 DEF Assign, Overlaps, Optional
  <2>2. inForce' \in [Host -> Optional(Cert)] /\ loaded' \in [Cert -> Optional(Material)]
    BY <1>2, <2>1, ReconcileTypes DEF Assign
  <2> QED BY <1>2, <2>1, <2>2 DEF Assign, disk, budgets
<1>3. CASE Crash
  <2>1. request' \in [Request -> Requests]
    <3>1. Idle \in Requests
      BY DEF Idle, Requests, Optional
    <3> QED BY <1>3, <3>1 DEF Crash
  <2>2. interrupted' \subseteq Kinds \X Cert
    BY <1>3 DEF Crash, StepsFit
  <2>3. loaded' \in [Cert -> Optional(Material)]
    BY <1>3 DEF Crash, Reads, Optional
  <2>4. quarantine' \in [Request -> [Cert -> Optional(Material)]] /\ crashes' \in 0..MaxCrashes
    BY <1>3 DEF Crash, Optional
  <2> QED BY <1>3, <2>1, <2>2, <2>3, <2>4 DEF Crash, Requests
<1>4. CASE UNCHANGED vars
  BY <1>4 DEF vars, disk, nginx, budgets
<1> QED BY <1>1, <1>2, <1>3, <1>4 DEF CNext

---------------------------------------------------------------------------
(* Steps and requests *)

\* A step of a request that is under way: it goes to another step, or ends.
Continues(r) ==
    /\ UNCHANGED <<assigned, overlapped>>
    /\ request[r].pc \in Steps
    /\ \A q \in Request : q # r => request'[q] = request[q]
    /\ \/ request'[r].pc \notin Steps
       \/ /\ request'[r].cert = request[r].cert
          /\ request'[r].kind = request[r].kind

GoesOn(r, c) ==
    \/ UpdateReplaced(r, c) \/ UpdateRenewed(r, c) \/ Activate(r, c) \/ DeleteRow(r, c)
    \/ IssueEnds(r, c) \/ Detach(r, c) \/ PutAside(r, c) \/ PutSwap(r, c) \/ PutCleanup(r, c)
    \/ CommitDetach(r, c)
    \/ DropMaterial(r, c) \/ DropRow(r, c) \/ RollbackDetach(r, c) \/ RestoreRow(r, c)
    \/ Fails(r, c)

\* Where a request can be after a step of its own.
LEMMA StepsContinue ==
  ASSUME CTypeOK, StepsFit, NEW r \in Request, NEW c \in Cert, GoesOn(r, c)
  PROVE  Continues(r) /\ StepsFit' /\ request[r].cert = c
<1>0. request \in [Request -> Requests]
  BY DEF CTypeOK, Requests
<1>1. ASSUME NEW there \in Steps \cup {"done", "failed"}, Go(r, there),
             request[r].pc \in Steps, request[r].cert = c, UNCHANGED <<assigned, overlapped>>,
             there \notin {"issue", "detach"},
             there \in {"aside", "swap", "cleanup", "updateRow"}
               => /\ request[r].kind \in {"create", "replace", "renew"}
                  /\ request[r].serial \in Material,
             there = "deleteRow" => request[r].kind = "delete",
             there = "dropRow" => request[r].kind = "create"
      PROVE  Continues(r) /\ StepsFit' /\ request[r].cert = c
  <2>1. /\ request' \in [Request -> Requests]
        /\ \A q \in Request : q # r => request'[q] = request[q]
        /\ request'[r].pc = there
        /\ \/ there \notin Steps
           \/ /\ request'[r].cert = request[r].cert
              /\ request'[r].kind = request[r].kind
              /\ request'[r].serial = request[r].serial
    BY <1>0, <1>1, GoKeeps
  <2>2. Continues(r)
    BY <1>1, <2>1 DEF Continues
  <2>3. StepsFit'
    BY <1>1, <2>1 DEF StepsFit, Steps
  <2> QED BY <1>1, <2>2, <2>3
<1>2. ASSUME NEW step, Raise(r, step), request[r].pc \in Steps, request[r].cert = c,
             UNCHANGED <<assigned, overlapped>>
      PROVE  Continues(r) /\ StepsFit' /\ request[r].cert = c
  BY <1>1, <1>2, HandlerIsStep DEF Raise, Steps
<1>3. ASSUME NEW step \in Steps, NEW there \in {"aside", "commit", "done"}, NEW new,
             there = "aside" => /\ request[r].kind \in {"create", "replace", "renew"}
                                /\ request[r].serial \in Material,
             Update(r, c, step, there, new)
      PROVE  Continues(r) /\ StepsFit' /\ request[r].cert = c
  <2>1. request[r].pc \in Steps /\ request[r].cert = c /\ UNCHANGED <<assigned, overlapped>>
    BY <1>3 DEF Update, At, rest
  <2>2. Go(r, there) \/ Raise(r, step)
    BY <1>3 DEF Update
  <2> QED BY <1>1, <1>2, <1>3, <2>1, <2>2 DEF Steps
<1>4. CASE UpdateReplaced(r, c)
  BY <1>3, <1>4 DEF UpdateReplaced, Update, At, StepsFit, Steps
<1>5. CASE UpdateRenewed(r, c)
  BY <1>3, <1>5 DEF UpdateRenewed, Steps
<1>6. CASE Activate(r, c)
  BY <1>3, <1>6 DEF Activate, Steps
<1>7. CASE DeleteRow(r, c)
  BY <1>1, <1>2, <1>7 DEF DeleteRow, At, rest, Steps
<1>8. CASE IssueEnds(r, c)
  <2> DEFINE new == [request[r] EXCEPT !.pc = "detach", !.serial = issued',
                                       !.previous = row[c]]
  <2>1. request[r] \in Requests /\ request[r].kind = "renew" /\ request[r].pc = "issue"
        /\ request[r].cert = c
    BY <1>0, <1>8 DEF IssueEnds, At, StepsFit
  <2>2. new.pc = "detach" /\ new.kind = "renew" /\ new.serial = issued' /\ new.cert = c
    BY <2>1 DEF Requests
  <2>3. request' = [request EXCEPT ![r] = new]
    BY <1>8 DEF IssueEnds
  <2>4. issued' \in Material
    BY <1>8 DEF IssueEnds, Issue, Material, CTypeOK
  <2>5. request'[r] = new /\ \A q \in Request : q # r => request'[q] = request[q]
    BY <1>0, <2>3
  <2> HIDE DEF new
  <2> QED BY <1>8, <2>1, <2>2, <2>4, <2>5 DEF IssueEnds, Continues, StepsFit, Steps, Kinds
<1>9. CASE Detach(r, c)
  BY <1>1, <1>9 DEF Detach, At, StepsFit, rest, Steps
<1>10. CASE PutAside(r, c)
  BY <1>1, <1>10 DEF PutAside, At, StepsFit, rest, Steps
<1>11. CASE PutSwap(r, c)
  BY <1>1, <1>2, <1>11 DEF PutSwap, At, StepsFit, rest, Steps
<1>12. CASE PutCleanup(r, c)
  BY <1>1, <1>12 DEF PutCleanup, At, StepsFit, AfterPut, rest, Steps
<1>13. CASE CommitDetach(r, c)
  BY <1>1, <1>13 DEF CommitDetach, At, rest, Steps
<1>14. CASE DropMaterial(r, c)
  BY <1>1, <1>14 DEF DropMaterial, At, rest, Steps
<1>15. CASE DropRow(r, c)
  BY <1>1, <1>15 DEF DropRow, At, rest, Steps
<1>16. CASE RollbackDetach(r, c)
  BY <1>1, <1>16 DEF RollbackDetach, At, rest, Steps
<1>17. CASE RestoreRow(r, c)
  BY <1>1, <1>17 DEF RestoreRow, At, rest, Steps
<1>18. CASE Fails(r, c)
  BY <1>2, <1>18 DEF Fails, CertificatesAssumption
<1> QED BY <1>4, <1>5, <1>6, <1>7, <1>8, <1>9, <1>10, <1>11, <1>12, <1>13, <1>14, <1>15,
           <1>16, <1>17, <1>18 DEF GoesOn

\* A request begins.
LEMMA BeginsOn ==
  ASSUME CTypeOK, StepsFit, NEW r \in Request, NEW c \in Cert, NEW kind \in Kinds,
         NEW step \in Steps, NEW serial, Begin(r, kind, c, step, serial)
  PROVE  /\ UNCHANGED assigned /\ request[r].pc \notin Steps
         /\ \A q \in Request : q # r => request'[q] = request[q]
         /\ request'[r].pc = step /\ request'[r].kind = kind
         /\ request'[r].cert = c /\ request'[r].serial = serial
         /\ overlapped' = IF Busy(c) = {} THEN overlapped ELSE overlapped \cup {c}
  BY DEF Begin, Overlaps, CTypeOK, Steps

\* A row disappears in two steps only, both of a request that began with it.
LEMMA RowsDisappear ==
  ASSUME CTypeOK, StepsFit, NEW r \in Request, NEW c \in Cert, GoesOn(r, c),
         NEW d \in Cert, row[d] # Missing, row'[d] = Missing
  PROVE  d = c /\ request[r].kind \in {"create", "delete"}
<1>1. Missing \notin Row
  BY CertificatesAssumption
<1>2. request[r].cert = c
  BY StepsContinue
<1>3. row \in [Cert -> Optional(Row)] /\ request[r].pc \in Steps
  BY StepsContinue DEF CTypeOK, Continues
<1>4. ASSUME NEW step, NEW there, NEW new, row[c] # Missing => new \in Row,
             Update(r, c, step, there, new)
      PROVE  FALSE
  BY <1>1, <1>3, <1>4 DEF Update
<1>5. CASE UpdateReplaced(r, c)
  <2>1. [status |-> "active", provider |-> "other", serial |-> request[r].serial] \in Row
    BY <1>5 DEF UpdateReplaced, Update, At, StepsFit, Row
  <2> QED BY <1>4, <1>5, <2>1 DEF UpdateReplaced
<1>6. CASE UpdateRenewed(r, c)
  <2>1. request[r].serial \in Material /\ (row[c] # Missing => row[c] \in Row)
    BY <1>3, <1>6 DEF UpdateRenewed, Update, At, StepsFit, Optional
  <2>2. row[c] # Missing
        => [row[c] EXCEPT !.status = "active", !.serial = request[r].serial] \in Row
    BY <2>1 DEF Row
  <2> QED BY <1>4, <1>6, <2>2 DEF UpdateRenewed
<1>7. CASE Activate(r, c)
  <2>1. row[c] # Missing => [row[c] EXCEPT !.status = "active"] \in Row
    BY <1>3 DEF Row, Optional
  <2> QED BY <1>4, <1>7, <2>1 DEF Activate
<1>8. CASE RestoreRow(r, c)
  BY <1>3, <1>8 DEF RestoreRow
<1>9. CASE DeleteRow(r, c)
  BY <1>3, <1>9 DEF DeleteRow, At, StepsFit
<1>10. CASE DropRow(r, c)
  BY <1>3, <1>10 DEF DropRow, At, StepsFit
<1>11. CASE UNCHANGED row
  BY <1>11
<1> QED BY <1>5, <1>6, <1>7, <1>8, <1>9, <1>10, <1>11 DEF GoesOn, IssueEnds, Detach, PutAside,
           PutSwap, PutCleanup, CommitDetach, DropMaterial, RollbackDetach, Fails

---------------------------------------------------------------------------
(* The invariant *)

LEMMA InvariantIsKept ==
  ASSUME AInv, [CNext]_vars
  PROVE  AInv'
<1> USE DEF AInv
<1>0. CTypeOK'
  BY TypesAreKept
<1>r. request \in [Request -> Requests] /\ assigned \in [Host -> Optional(Cert)]
      /\ row \in [Cert -> Optional(Row)]
  BY DEF CTypeOK, Requests
<1>1. ASSUME NEW r \in Request, NEW c \in Cert, GoesOn(r, c)
      PROVE  AInv'
  <2>1. Continues(r) /\ StepsFit' /\ request[r].cert = c
    BY <1>1, StepsContinue
  <2>2. \A d \in Cert : \A q \in Busy(d)' : q \in Busy(d) /\ request'[q].kind = request[q].kind
    BY <2>1 DEF Continues, Busy
  <2>3. OneRequestEach' /\ GoingIsUnassigned'
    BY <2>1, <2>2 DEF OneRequestEach, GoingIsUnassigned, Continues
  <2>4. ASSUME NEW h \in Host, assigned[h] \in Cert \ overlapped, row'[assigned[h]] = Missing
        PROVE  FALSE
    <3>1. row[assigned[h]] # Missing
      BY <2>4 DEF AssignedExists
    <3>2. assigned[h] = c /\ request[r].kind \in {"create", "delete"}
      BY <1>1, <2>4, <3>1, RowsDisappear
    <3>3. r \in Busy(c)
      BY <2>1 DEF Busy, Continues
    <3> QED BY <2>4, <3>2, <3>3 DEF GoingIsUnassigned
  <2>5. AssignedExists'
    BY <2>1, <2>4 DEF AssignedExists, Continues
  <2> QED BY <1>0, <2>1, <2>3, <2>5
<1>2. ASSUME NEW r \in Request, NEW c \in Cert, NEW kind \in Kinds, NEW step \in Steps,
             NEW serial, Begin(r, kind, c, step, serial),
             step = "issue" => kind = "renew",
             step = "detach" => kind = "delete",
             step \in {"aside", "updateRow"}
               => kind \in {"create", "replace", "renew"} /\ serial \in Material,
             step \notin {"swap", "cleanup", "deleteRow", "dropRow"},
             kind \in {"create", "delete"} /\ c \notin overlapped
               => \A h \in Host : assigned[h] # c,
             \A d \in Cert : row[d] # Missing => row'[d] # Missing
      PROVE  AInv'
  <2>1. /\ UNCHANGED assigned /\ request[r].pc \notin Steps
        /\ \A q \in Request : q # r => request'[q] = request[q]
        /\ request'[r].pc = step /\ request'[r].kind = kind
        /\ request'[r].cert = c /\ request'[r].serial = serial
        /\ overlapped' = IF Busy(c) = {} THEN overlapped ELSE overlapped \cup {c}
    BY <1>2, BeginsOn
  <2>2. StepsFit'
    BY <1>2, <2>1 DEF StepsFit
  <2>3. /\ \A d \in Cert \ {c} : Busy(d)' \subseteq Busy(d)
        /\ Busy(c)' \subseteq Busy(c) \cup {r}
        /\ \A d \in Cert : r \notin Busy(d)
        /\ c \notin overlapped' => Busy(c) = {}
        /\ overlapped \subseteq overlapped'
    BY <2>1 DEF Busy
  <2>4. OneRequestEach'
    BY <2>3 DEF OneRequestEach
  <2>5. GoingIsUnassigned'
    <3> SUFFICES ASSUME NEW d \in Cert, d \notin overlapped', NEW q \in Busy(d)',
                        request'[q].kind \in {"create", "delete"}, NEW h \in Host
                 PROVE  assigned[h] # d
      BY <2>1 DEF GoingIsUnassigned
    <3>1. CASE q = r
      BY <1>2, <2>1, <2>3, <3>1 DEF Busy
    <3>2. CASE q # r
      <4>1. q \in Busy(d) /\ request'[q] = request[q] /\ d \notin overlapped
        BY <2>1, <2>3, <3>2 DEF Busy
      <4> QED BY <4>1 DEF GoingIsUnassigned
    <3> QED BY <3>1, <3>2
  <2>6. AssignedExists'
    BY <1>2, <2>1, <2>3 DEF AssignedExists
  <2> QED BY <1>0, <2>2, <2>4, <2>5, <2>6
<1>3. ASSUME NEW r \in Request, NEW c \in Cert, NEW provider \in {"other", "letsencrypt"},
             BeginCreate(r, c, provider)
      PROVE  AInv'
  <2>1. Begin(r, "create", c, "aside", issued') /\ issued' \in Material
    BY <1>3 DEF BeginCreate, Issue, Material, CTypeOK
  <2>2. c \notin overlapped => \A h \in Host : assigned[h] # c
    BY <1>3 DEF BeginCreate, AssignedExists
  <2>3. \A d \in Cert : row[d] # Missing => row'[d] # Missing
    BY <1>3, <1>r DEF BeginCreate
  <2> QED BY <1>2, <2>1, <2>2, <2>3 DEF Kinds, Steps
<1>4. ASSUME NEW r \in Request, NEW c \in Cert, BeginReplace(r, c)
      PROVE  AInv'
  <2>1. Begin(r, "replace", c, "updateRow", issued') /\ issued' \in Material /\ UNCHANGED row
    BY <1>4 DEF BeginReplace, Issue, Material, CTypeOK
  <2> QED BY <1>2, <2>1 DEF Kinds, Steps
<1>5. ASSUME NEW r \in Request, NEW c \in Cert, BeginRenew(r, c)
      PROVE  AInv'
  BY <1>2, <1>5 DEF BeginRenew, Kinds, Steps
<1>6. ASSUME NEW r \in Request, NEW c \in Cert, BeginDelete(r, c)
      PROVE  AInv'
  BY <1>2, <1>6 DEF BeginDelete, Kinds, Steps
<1>7. ASSUME NEW h \in Host, NEW c \in Optional(Cert), Assign(h, c)
      PROVE  AInv'
  <2>1. /\ assigned' = [assigned EXCEPT ![h] = c] /\ UNCHANGED <<row, request>>
        /\ c # Missing => row[c] # Missing
        /\ overlapped \subseteq overlapped'
        /\ c \in Cert \ overlapped' => Busy(c) = {}
    BY <1>7, CertificatesAssumption DEF Assign, Overlaps, Optional
  <2>2. \A d \in Cert : Busy(d)' = Busy(d)
    BY <2>1 DEF Busy
  <2>3. StepsFit' /\ OneRequestEach'
    BY <2>1, <2>2 DEF StepsFit, OneRequestEach
  <2>4. GoingIsUnassigned'
    BY <1>r, <2>1, <2>2 DEF GoingIsUnassigned
  <2>5. AssignedExists'
    BY <1>r, <2>1, CertificatesAssumption DEF AssignedExists, Optional
  <2> QED BY <1>0, <2>3, <2>4, <2>5
<1>8. CASE Crash
  <2>1. \A d \in Cert : Busy(d)' = {}
    BY <1>8 DEF Crash, Busy, Idle, Steps
  <2>2. StepsFit'
    BY <1>8 DEF Crash, StepsFit, Idle, Steps
  <2>3. UNCHANGED <<assigned, overlapped, row>>
    BY <1>8 DEF Crash
  <2> QED BY <1>0, <2>1, <2>2, <2>3
          DEF OneRequestEach, GoingIsUnassigned, AssignedExists
<1>9. CASE UNCHANGED vars
  BY <1>0, <1>9 DEF vars, StepsFit, OneRequestEach, GoingIsUnassigned, AssignedExists, Busy
<1> QED BY <1>1, <1>3, <1>4, <1>5, <1>6, <1>7, <1>8, <1>9 DEF CNext, CStep, GoesOn

\* Rows, directories and requests keep their types.
THEOREM CertificatesTypeCorrect == CSpec => []CTypeOK
<1>1. AInv => CTypeOK
  BY DEF AInv
<1> QED BY <1>1, InitIsSafe, InvariantIsKept, PTL DEF CSpec

\* No host is assigned a certificate that is gone, by any number of requests,
\* failures and crashes, unless an assignment raced one of them: delete() refuses
\* while the certificate is assigned, and create() undoes only what nobody uses.
THEOREM AssignedCertificatesExist == CSpec => []AssignedExists
<1>1. AInv => AssignedExists
  BY DEF AInv
<1> QED BY <1>1, InitIsSafe, InvariantIsKept, PTL DEF CSpec

---------------------------------------------------------------------------
(* Rows and their material *)

\* Row b and material m, as a request may find them.
Found(c, b, m) ==
    /\ b = Missing => m = Missing
    /\ b # Missing /\ b.status = "active" /\ ~Interrupted(c, Kinds \ {"create"})
       => m = b.serial

\* An old backup is left by a crash alone.
NoBackup(c) == ~Interrupted(c, Kinds) => backup[c] = Missing

\* Nobody is at work on c.
Settled(c) ==
    /\ Found(c, row[c], live[c]) /\ NoBackup(c)
    /\ \A r \in Request : quarantine[r][c] = Missing

\* What a request for a new certificate has done, for each of its steps.
Creating(r, c) ==
    LET q == request[r] IN
    /\ q.pc \in {"aside", "swap", "cleanup", "activate", "dropMaterial", "dropRow"}
    /\ q.before = <<Missing, Missing>> /\ quarantine[r][c] = Missing
    /\ row[c] # Missing /\ row[c].status = "pending" /\ row[c].serial = q.serial
    /\ q.pc \in {"aside", "swap", "dropRow"} => live[c] = Missing
    /\ q.pc = "swap" => backup[c] = Missing
    /\ q.pc \in {"cleanup", "activate"} => live[c] = q.serial
    /\ NoBackup(c)

\* A bundle for a certificate that exists: its old material is kept as the backup.
Replacing(r, c) ==
    LET q == request[r] IN
    /\ q.pc \in {"updateRow", "aside", "swap", "cleanup", "restoreRow"}
    /\ q.before[1] = q.previous /\ q.previous # Missing
    /\ quarantine[r][c] = Missing
    /\ row[c] # Missing
    /\ q.pc = "updateRow" => row[c] = q.previous
    /\ q.pc \in {"aside", "swap", "cleanup"} => row[c].status = "active" /\ row[c].serial = q.serial
    /\ q.pc \in {"updateRow", "aside", "restoreRow"} => live[c] = q.before[2] /\ NoBackup(c)
    /\ q.pc = "swap" => live[c] = Missing /\ backup[c] = q.before[2]
    /\ q.pc = "cleanup" => live[c] = q.serial

\* A renewal: its old material is in its quarantine.
Renewing(r, c) ==
    LET q == request[r] IN
    /\ q.pc \in {"issue", "detach", "aside", "swap", "cleanup", "updateRow", "commit",
                 "dropMaterial", "rollback", "restoreRow"}
    /\ q.before[1] = q.previous /\ q.previous # Missing
    /\ row[c] # Missing /\ NoBackup(c)
    /\ ~q.updated => row[c] = q.previous
    /\ q.updated => q.pc \in {"commit", "dropMaterial", "rollback", "restoreRow"}
    /\ q.pc \in {"issue", "detach", "restoreRow"}
       => live[c] = q.before[2] /\ quarantine[r][c] = Missing
    /\ q.pc \notin {"issue", "detach", "restoreRow"} => quarantine[r][c] = q.before[2]
    /\ q.pc \in {"aside", "swap", "rollback"} => live[c] = Missing
    /\ q.pc = "swap" => backup[c] = Missing
    /\ q.pc \in {"cleanup", "updateRow", "commit"} => live[c] = q.serial
    /\ q.pc = "commit" => row[c].status = "active" /\ row[c].serial = q.serial

\* A deletion: likewise.
Deleting(r, c) ==
    LET q == request[r] IN
    /\ q.pc \in {"detach", "deleteRow", "commit", "rollback"}
    /\ NoBackup(c)
    /\ q.pc # "commit" => row[c] = q.before[1] /\ ~q.updated
    /\ q.pc = "detach" => live[c] = q.before[2] /\ quarantine[r][c] = Missing
    /\ q.pc # "detach" => live[c] = Missing
    /\ q.pc \in {"deleteRow", "rollback"} => quarantine[r][c] = q.before[2]
    /\ q.pc = "commit" => row[c] = Missing

UnderWay(r, c) ==
    /\ Found(c, request[r].before[1], request[r].before[2])
    /\ \A q \in Request \ {r} : quarantine[q][c] = Missing
    /\ request[r].kind = "create" => Creating(r, c)
    /\ request[r].kind = "replace" => Replacing(r, c)
    /\ request[r].kind = "renew" => Renewing(r, c)
    /\ request[r].kind = "delete" => Deleting(r, c)

MaterialInv ==
    \A c \in Cert \ overlapped :
        /\ Busy(c) = {} => Settled(c)
        /\ \A r \in Busy(c) : UnderWay(r, c)

\* What Go does to each field of a request.
LEMMA GoFields ==
  ASSUME NEW r \in Request, NEW there \in Steps \cup {"done", "failed"},
         request \in [Request -> Requests], Go(r, there)
  PROVE  /\ request'[r].pc = there
         /\ there \in Steps =>
              /\ request'[r].cert = request[r].cert /\ request'[r].kind = request[r].kind
              /\ request'[r].serial = request[r].serial
              /\ request'[r].previous = request[r].previous
              /\ request'[r].before = request[r].before
              /\ request'[r].updated = (request[r].updated \/ there = "commit")
<1>1. CASE there \in Steps
  <2> DEFINE new == [request[r] EXCEPT !.pc = there, !.updated = @ \/ there = "commit"]
  <2>1. request'[r] = new
    BY <1>1 DEF Go
  <2>2. /\ new.pc = there /\ new.cert = request[r].cert /\ new.kind = request[r].kind
        /\ new.serial = request[r].serial /\ new.previous = request[r].previous
        /\ new.before = request[r].before
        /\ new.updated = (request[r].updated \/ there = "commit")
    BY DEF Requests
  <2> HIDE DEF new
  <2> QED BY <2>1, <2>2
<1>2. CASE there \notin Steps
  BY <1>2, GoKeeps
<1> QED BY <1>1, <1>2

\* A step of a request on c touches no other certificate.
LEMMA StepsAreLocal ==
  ASSUME CTypeOK, StepsFit, NEW r \in Request, NEW c \in Cert, GoesOn(r, c),
         NEW d \in Cert \ {c}
  PROVE  /\ row'[d] = row[d] /\ live'[d] = live[d] /\ backup'[d] = backup[d]
         /\ \A q \in Request : quarantine'[q][d] = quarantine[q][d]
         /\ UNCHANGED interrupted
<1> USE DEF CTypeOK, disk, rest, budgets
<1>1. CASE UpdateReplaced(r, c)
  BY <1>1 DEF UpdateReplaced, Update
<1>2. CASE UpdateRenewed(r, c)
  BY <1>2 DEF UpdateRenewed, Update
<1>3. CASE Activate(r, c)
  BY <1>3 DEF Activate, Update
<1>4. CASE DeleteRow(r, c)
  BY <1>4 DEF DeleteRow
<1>5. CASE IssueEnds(r, c)
  BY <1>5 DEF IssueEnds
<1>6. CASE Detach(r, c)
  BY <1>6 DEF Detach
<1>7. CASE PutAside(r, c)
  BY <1>7 DEF PutAside
<1>8. CASE PutSwap(r, c)
  BY <1>8 DEF PutSwap
<1>9. CASE PutCleanup(r, c)
  BY <1>9 DEF PutCleanup
<1>10. CASE CommitDetach(r, c)
  BY <1>10 DEF CommitDetach
<1>11. CASE DropMaterial(r, c)
  BY <1>11 DEF DropMaterial
<1>12. CASE DropRow(r, c)
  BY <1>12 DEF DropRow
<1>13. CASE RollbackDetach(r, c)
  BY <1>13 DEF RollbackDetach
<1>14. CASE RestoreRow(r, c)
  BY <1>14 DEF RestoreRow
<1>15. CASE Fails(r, c)
  BY <1>15 DEF Fails
<1> QED BY <1>1, <1>2, <1>3, <1>4, <1>5, <1>6, <1>7, <1>8, <1>9, <1>10, <1>11, <1>12, <1>13,
           <1>14, <1>15 DEF GoesOn

\* After its step request r is where the invariant says, or has left c settled; if it
\* failed, c is as r found it.
LeavesSound(r, c) ==
    /\ request'[r].pc \in Steps => UnderWay(r, c)'
    /\ request'[r].pc \notin Steps => Settled(c)'
    /\ request'[r].pc = "failed" => <<row'[c], live'[c]>> = request[r].before

LEMMA RowStepIsSound ==
  ASSUME CTypeOK, StepsFit, NEW r \in Request, NEW c \in Cert, UnderWay(r, c),
         UpdateReplaced(r, c) \/ UpdateRenewed(r, c) \/ Activate(r, c) \/ DeleteRow(r, c)
         \/ DropRow(r, c) \/ RestoreRow(r, c)
  PROVE  LeavesSound(r, c)
<1> USE DEF disk, rest
<1>r. /\ request \in [Request -> Requests]
      /\ row \in [Cert -> Optional(Row)] /\ Missing \notin Row
      /\ request[r].before \in Optional(Row) \X Optional(Material)
  BY DEF CTypeOK, Requests
<1>1. CASE UpdateReplaced(r, c)
  <2>1. /\ request[r].pc = "updateRow" /\ request[r].kind = "replace"
        /\ row[c] # Missing
    BY <1>1 DEF UpdateReplaced, Update, At, UnderWay, Replacing
  <2>2. /\ row' = [row EXCEPT ![c] = [status |-> "active", provider |-> "other",
                                      serial |-> request[r].serial]]
        /\ Go(r, "aside") /\ UNCHANGED <<disk, rest>>
    BY <1>1, <2>1 DEF UpdateReplaced, Update
  <2>3. [status |-> "active", provider |-> "other", serial |-> request[r].serial] # Missing
    BY <1>r, <2>1 DEF StepsFit, Row
  <2> QED BY <1>r, <2>1, <2>2, <2>3, GoFields
          DEF LeavesSound, UnderWay, Replacing, Found, NoBackup, Interrupted, Steps
<1>2. CASE UpdateRenewed(r, c)
  <2> DEFINE new == [row[c] EXCEPT !.status = "active", !.serial = request[r].serial]
  <2>1. /\ request[r].pc = "updateRow" /\ request[r].kind = "renew"
        /\ row[c] # Missing
    BY <1>2 DEF UpdateRenewed, Update, At, UnderWay, Renewing
  <2>2. row' = [row EXCEPT ![c] = new] /\ Go(r, "commit") /\ UNCHANGED <<disk, rest>>
    BY <1>2, <2>1 DEF UpdateRenewed, Update
  <2>3. row[c] \in Row /\ request[r].serial \in Material
    BY <1>r, <2>1 DEF StepsFit, Optional
  <2>4. new \in Row /\ new.status = "active" /\ new.serial = request[r].serial
    BY <2>3 DEF Row
  <2> HIDE DEF new
  <2> QED BY <1>r, <2>1, <2>2, <2>4, GoFields
          DEF LeavesSound, UnderWay, Renewing, Found, NoBackup, Interrupted, Steps
<1>3. CASE Activate(r, c)
  <2> DEFINE new == [row[c] EXCEPT !.status = "active"]
  <2>1. request[r].pc = "activate" /\ request[r].kind = "create" /\ row[c] # Missing
    BY <1>3 DEF Activate, Update, At, UnderWay, Creating, Replacing, Renewing, Deleting,
                StepsFit, Steps, Kinds
  <2>2. row' = [row EXCEPT ![c] = new] /\ Go(r, "done") /\ UNCHANGED <<disk, rest>>
    BY <1>3, <2>1 DEF Activate, Update
  <2>3. row[c] \in Row
    BY <1>r, <2>1 DEF Optional
  <2>4. new \in Row /\ new.serial = row[c].serial
    BY <2>3 DEF Row
  <2> HIDE DEF new
  <2> QED BY <1>r, <2>1, <2>2, <2>4, GoFields
          DEF LeavesSound, UnderWay, Creating, Settled, Found, NoBackup, Interrupted, Steps
<1>4. CASE DeleteRow(r, c)
  <2>1. request[r].pc = "deleteRow" /\ request[r].kind = "delete"
    BY <1>4 DEF DeleteRow, At, StepsFit
  <2>2. CASE row[c] # Missing
    <3>1. row' = [row EXCEPT ![c] = Missing] /\ Go(r, "commit") /\ UNCHANGED <<disk, rest>>
      BY <1>4, <2>2 DEF DeleteRow
    <3> QED BY <1>r, <2>1, <3>1, GoFields
            DEF LeavesSound, UnderWay, Deleting, Found, NoBackup, Interrupted, Steps
  <2>3. CASE row[c] = Missing
    <3>1. Go(r, "rollback") /\ UNCHANGED <<row, disk, rest>>
      BY <1>4, <2>1, <2>3 DEF DeleteRow, Raise, Handler
    <3>2. /\ request'[r].pc = "rollback" /\ request'[r].kind = "delete"
          /\ request'[r].before = request[r].before
          /\ request'[r].updated = request[r].updated
      BY <1>r, <2>1, <3>1, GoFields DEF Steps, CTypeOK, Requests
    <3> QED BY <2>1, <3>1, <3>2
            DEF LeavesSound, UnderWay, Deleting, Found, NoBackup, Interrupted, Steps
  <2> QED BY <2>2, <2>3
<1>5. CASE DropRow(r, c)
  <2>1. request[r].pc = "dropRow" /\ request[r].kind = "create" /\ row[c] # Missing
    BY <1>5 DEF DropRow, At, StepsFit, UnderWay, Creating
  <2>2. row' = [row EXCEPT ![c] = Missing] /\ Go(r, "failed") /\ UNCHANGED <<disk, rest>>
    BY <1>5, <2>1 DEF DropRow
  <2> QED BY <1>r, <2>1, <2>2, GoFields
          DEF LeavesSound, UnderWay, Creating, Settled, Found, NoBackup, Interrupted, Steps
<1>6. CASE RestoreRow(r, c)
  <2>1. /\ request[r].pc = "restoreRow" /\ request[r].kind \in {"replace", "renew"}
        /\ row[c] # Missing /\ request[r].previous # Missing
        /\ request[r].before[1] = request[r].previous
    BY <1>6 DEF RestoreRow, At, StepsFit, UnderWay, Creating, Replacing, Renewing, Deleting,
                Steps, Kinds
  <2>2. /\ row' = [row EXCEPT ![c] = request[r].previous] /\ Go(r, "failed")
        /\ UNCHANGED <<disk, rest>>
    BY <1>6, <2>1 DEF RestoreRow
  <2>3. /\ live[c] = request[r].before[2] /\ NoBackup(c) /\ quarantine[r][c] = Missing
        /\ row'[c] = request[r].before[1]
    BY <1>r, <2>1, <2>2 DEF UnderWay, Replacing, Renewing
  <2> QED BY <1>r, <2>1, <2>2, <2>3, GoFields
          DEF LeavesSound, UnderWay, Settled, Found, NoBackup, Interrupted, Steps
<1> QED BY <1>1, <1>2, <1>3, <1>4, <1>5, <1>6

LEMMA DirectoryStepIsSound ==
  ASSUME CTypeOK, StepsFit, NEW r \in Request, NEW c \in Cert, UnderWay(r, c),
         Detach(r, c) \/ PutAside(r, c) \/ PutSwap(r, c) \/ PutCleanup(r, c)
         \/ CommitDetach(r, c) \/ DropMaterial(r, c) \/ RollbackDetach(r, c)
  PROVE  LeavesSound(r, c)
<1> USE DEF rest
<1>r. /\ request \in [Request -> Requests]
      /\ live \in [Cert -> Optional(Material)] /\ backup \in [Cert -> Optional(Material)]
      /\ quarantine \in [Request -> [Cert -> Optional(Material)]]
      /\ request[r].updated \in BOOLEAN
      /\ request[r].before = <<request[r].before[1], request[r].before[2]>>
  BY DEF CTypeOK, Requests
\* The fields of the request after its step, when it does not end.
<1>go. ASSUME NEW there \in Steps \ {"commit"}, Go(r, there)
       PROVE  /\ request'[r].pc = there /\ request'[r].kind = request[r].kind
              /\ request'[r].serial = request[r].serial
              /\ request'[r].previous = request[r].previous
              /\ request'[r].before = request[r].before
              /\ request'[r].updated = request[r].updated
  BY <1>r, <1>go, GoFields
<1>end. ASSUME NEW there \in {"done", "failed"}, Go(r, there)
        PROVE  request'[r].pc = there
  BY <1>r, <1>end, GoFields
<1> HIDE DEF Go
<1>1. CASE Detach(r, c)
  <2>1. request[r].pc = "detach" /\ request[r].kind \in {"renew", "delete"}
    BY <1>1 DEF Detach, At, StepsFit
  <2>2. /\ live'[c] = Missing /\ quarantine'[r][c] = live[c] /\ UNCHANGED <<row, backup, rest>>
        /\ \A q \in Request \ {r} : quarantine'[q][c] = quarantine[q][c]
    BY <1>r, <1>1 DEF Detach
  <2>3. CASE request[r].kind = "renew"
    <3>1. Go(r, "aside")
      BY <1>1, <2>3 DEF Detach
    <3> QED BY <1>go, <2>1, <2>2, <2>3, <3>1
            DEF LeavesSound, UnderWay, Renewing, Found, NoBackup, Interrupted, Steps
  <2>4. CASE request[r].kind = "delete"
    <3>1. Go(r, "deleteRow")
      BY <1>1, <2>4 DEF Detach
    <3> QED BY <1>go, <2>1, <2>2, <2>4, <3>1
            DEF LeavesSound, UnderWay, Deleting, Found, NoBackup, Interrupted, Steps
  <2> QED BY <2>1, <2>3, <2>4
<1>2. CASE PutAside(r, c)
  <2>1. request[r].pc = "aside" /\ request[r].kind \in {"create", "replace", "renew"}
    BY <1>2 DEF PutAside, At, StepsFit
  <2>2. /\ live'[c] = Missing /\ backup'[c] = live[c] /\ UNCHANGED <<row, quarantine, rest>>
        /\ Go(r, "swap")
    BY <1>r, <1>2 DEF PutAside
  <2>3. /\ request'[r].pc = "swap" /\ request'[r].kind = request[r].kind
        /\ request'[r].serial = request[r].serial
        /\ request'[r].previous = request[r].previous
        /\ request'[r].before = request[r].before
        /\ request'[r].updated = request[r].updated
    BY <1>go, <2>2 DEF Steps
  <2> QED BY <2>1, <2>2, <2>3
          DEF LeavesSound, UnderWay, Creating, Replacing, Renewing, Found, NoBackup,
              Interrupted, Steps
<1>3. CASE PutSwap(r, c)
  <2>1. /\ request[r].pc = "swap" /\ request[r].kind \in {"create", "replace", "renew"}
        /\ live[c] = Missing
    BY <1>3 DEF PutSwap, At, StepsFit, UnderWay, Creating, Replacing, Renewing
  <2>2. /\ live'[c] = request[r].serial /\ UNCHANGED <<row, backup, quarantine, rest>>
        /\ Go(r, "cleanup")
    BY <1>r, <1>3, <2>1 DEF PutSwap
  <2>3. /\ request'[r].pc = "cleanup" /\ request'[r].kind = request[r].kind
        /\ request'[r].serial = request[r].serial
        /\ request'[r].previous = request[r].previous
        /\ request'[r].before = request[r].before
        /\ request'[r].updated = request[r].updated
    BY <1>go, <2>2 DEF Steps
  <2> QED BY <2>1, <2>2, <2>3
          DEF LeavesSound, UnderWay, Creating, Replacing, Renewing, Found, NoBackup,
              Interrupted, Steps
<1>4. CASE PutCleanup(r, c)
  <2>1. request[r].pc = "cleanup" /\ request[r].kind \in {"create", "replace", "renew"}
    BY <1>4 DEF PutCleanup, At, StepsFit
  <2>2. /\ backup'[c] = Missing /\ UNCHANGED <<row, live, quarantine, rest>>
        /\ Go(r, AfterPut(request[r].kind))
    BY <1>r, <1>4 DEF PutCleanup
  <2>3. CASE request[r].kind = "create"
    <3>1. Go(r, "activate")
      BY <2>2, <2>3 DEF AfterPut
    <3> QED BY <1>go, <2>1, <2>2, <2>3, <3>1
            DEF LeavesSound, UnderWay, Creating, Found, NoBackup, Interrupted, Steps
  <2>4. CASE request[r].kind = "replace"
    <3>1. Go(r, "done")
      BY <2>2, <2>4 DEF AfterPut
    <3> QED BY <1>end, <2>1, <2>2, <2>4, <3>1
            DEF LeavesSound, UnderWay, Replacing, Settled, Found, NoBackup, Interrupted, Steps
  <2>5. CASE request[r].kind = "renew"
    <3>1. Go(r, "updateRow")
      BY <2>2, <2>5 DEF AfterPut
    <3> QED BY <1>go, <2>1, <2>2, <2>5, <3>1
            DEF LeavesSound, UnderWay, Renewing, Found, NoBackup, Interrupted, Steps
  <2> QED BY <2>1, <2>3, <2>4, <2>5
<1>5. CASE CommitDetach(r, c)
  <2>1. request[r].pc = "commit" /\ request[r].kind \in {"renew", "delete"}
    BY <1>5 DEF CommitDetach, At, StepsFit, UnderWay, Creating, Replacing, Steps, Kinds
  <2>2. /\ quarantine'[r][c] = Missing /\ UNCHANGED <<row, live, backup, rest>>
        /\ \A q \in Request \ {r} : quarantine'[q][c] = quarantine[q][c]
        /\ Go(r, "done")
    BY <1>r, <1>5 DEF CommitDetach
  <2>3. request'[r].pc = "done"
    BY <1>end, <2>2
  <2> QED BY <2>1, <2>2, <2>3
          DEF LeavesSound, UnderWay, Renewing, Deleting, Settled, Found, NoBackup,
              Interrupted, Steps
<1>6. CASE DropMaterial(r, c)
  <2>1. request[r].pc = "dropMaterial" /\ request[r].kind \in {"create", "renew"}
    BY <1>6 DEF DropMaterial, At, StepsFit, UnderWay, Replacing, Deleting, Steps, Kinds
  <2>2. live'[c] = Missing /\ UNCHANGED <<row, backup, quarantine, rest>>
    BY <1>r, <1>6 DEF DropMaterial
  <2>3. CASE request[r].kind = "create"
    <3>1. Go(r, "dropRow")
      BY <1>6, <2>3 DEF DropMaterial
    <3> QED BY <1>go, <2>1, <2>2, <2>3, <3>1
            DEF LeavesSound, UnderWay, Creating, Found, NoBackup, Interrupted, Steps
  <2>4. CASE request[r].kind = "renew"
    <3>1. Go(r, "rollback")
      BY <1>6, <2>4 DEF DropMaterial
    <3>2. /\ request'[r].pc = "rollback" /\ request'[r].kind = "renew"
          /\ request'[r].previous = request[r].previous
          /\ request'[r].before = request[r].before
          /\ request'[r].updated = request[r].updated
      BY <1>go, <2>4, <3>1 DEF Steps
    <3> QED BY <2>1, <2>2, <2>4, <3>2
            DEF LeavesSound, UnderWay, Renewing, Found, NoBackup, Interrupted, Steps
  <2> QED BY <2>1, <2>3, <2>4
<1>7. CASE RollbackDetach(r, c)
  <2>1. /\ request[r].pc = "rollback" /\ request[r].kind \in {"renew", "delete"}
        /\ live[c] = Missing /\ quarantine[r][c] = request[r].before[2]
    BY <1>7 DEF RollbackDetach, At, StepsFit, UnderWay, Creating, Replacing, Renewing,
                Deleting, Steps, Kinds
  <2>2. /\ live'[c] = request[r].before[2] /\ quarantine'[r][c] = Missing
        /\ UNCHANGED <<row, backup, rest>>
        /\ \A q \in Request \ {r} : quarantine'[q][c] = quarantine[q][c]
        /\ Go(r, IF request[r].updated THEN "restoreRow" ELSE "failed")
    BY <1>r, <1>7, <2>1 DEF RollbackDetach
  <2>3. CASE request[r].updated
    <3>1. Go(r, "restoreRow") /\ request[r].kind = "renew"
      BY <2>1, <2>2, <2>3 DEF UnderWay, Deleting
    <3>2. /\ request'[r].pc = "restoreRow" /\ request'[r].kind = "renew"
          /\ request'[r].previous = request[r].previous
          /\ request'[r].before = request[r].before
          /\ request'[r].updated = request[r].updated
      BY <1>go, <3>1 DEF Steps
    <3> QED BY <2>1, <2>2, <2>3, <3>1, <3>2
            DEF LeavesSound, UnderWay, Renewing, Found, NoBackup, Interrupted, Steps
  <2>4. CASE ~request[r].updated
    <3>1. request'[r].pc = "failed"
      BY <1>end, <2>2, <2>4
    <3>2. row[c] = request[r].before[1]
      BY <2>1, <2>4 DEF UnderWay, Renewing, Deleting
    <3>3. Settled(c)'
      BY <2>1, <2>2, <3>2
         DEF UnderWay, Renewing, Deleting, Settled, Found, NoBackup, Interrupted
    <3> QED BY <1>r, <2>2, <3>1, <3>2, <3>3 DEF LeavesSound, Steps
  <2> QED BY <2>3, <2>4
<1> QED BY <1>1, <1>2, <1>3, <1>4, <1>5, <1>6, <1>7

LEMMA IssueIsSound ==
  ASSUME CTypeOK, StepsFit, NEW r \in Request, NEW c \in Cert, UnderWay(r, c),
         IssueEnds(r, c)
  PROVE  LeavesSound(r, c)
<1> DEFINE new == [request[r] EXCEPT !.pc = "detach", !.serial = issued',
                                     !.previous = row[c]]
<1>1. request[r] \in Requests /\ request[r].pc = "issue" /\ request[r].kind = "renew"
  BY DEF IssueEnds, At, StepsFit, CTypeOK, Requests
<1>2. /\ new.pc = "detach" /\ new.kind = "renew" /\ new.previous = row[c]
      /\ new.before = request[r].before /\ new.updated = request[r].updated
  BY <1>1 DEF Requests
<1>3. request'[r] = new
  BY <1>1 DEF IssueEnds, CTypeOK, Requests
<1>4. UNCHANGED <<row, live, backup, quarantine, interrupted>>
  BY DEF IssueEnds, disk
<1> HIDE DEF new
<1> QED BY <1>1, <1>2, <1>3, <1>4
        DEF LeavesSound, UnderWay, Renewing, Found, NoBackup, Interrupted, Steps

\* A step that raises before it has an effect.
LEMMA FailureIsSound ==
  ASSUME CTypeOK, StepsFit, NEW r \in Request, NEW c \in Cert, UnderWay(r, c),
         MayFail \subseteq WritesAndMoves, Fails(r, c)
  PROVE  LeavesSound(r, c)
<1> DEFINE q == request[r]
           there == Handler(q.kind, q.pc)
<1>r. /\ request \in [Request -> Requests] /\ q.updated \in BOOLEAN
      /\ live \in [Cert -> Optional(Material)] /\ backup \in [Cert -> Optional(Material)]
      /\ q.before = <<q.before[1], q.before[2]>>
      /\ q.pc \in WritesAndMoves /\ q.kind \in Kinds
  BY DEF CTypeOK, Requests, Fails, StepsFit, WritesAndMoves, Steps
<1>1. UNCHANGED <<row, quarantine, interrupted>>
  BY DEF Fails
<1>2. /\ request'[r].pc = there
      /\ there \in Steps =>
           /\ request'[r].kind = q.kind /\ request'[r].serial = q.serial
           /\ request'[r].previous = q.previous /\ request'[r].before = q.before
           /\ request'[r].updated = q.updated
  BY <1>r, GoFields, HandlerIsStep DEF Fails, Raise, Steps
<1>3. CASE q.pc \in {"issue", "detach"}
  <2>1. there = "failed" /\ q.kind \in {"renew", "delete"} /\ UNCHANGED <<live, backup>>
    BY <1>3 DEF Handler, StepsFit, Fails
  <2>2. /\ <<row[c], live[c]>> = q.before /\ quarantine[r][c] = Missing /\ NoBackup(c)
    BY <1>r, <1>3, <2>1 DEF UnderWay, Renewing, Deleting
  <2> QED BY <1>r, <1>1, <1>2, <2>1, <2>2
          DEF LeavesSound, UnderWay, Settled, Found, NoBackup, Interrupted, Steps
<1>4. CASE q.pc = "updateRow"
  <2>1. q.kind \in {"replace", "renew"} /\ UNCHANGED <<live, backup>>
    BY <1>4 DEF StepsFit, Fails, UnderWay, Creating
  <2>2. CASE q.kind = "replace"
    <3>1. there = "failed"
      BY <1>4, <2>2 DEF Handler
    <3>2. <<row[c], live[c]>> = q.before /\ quarantine[r][c] = Missing /\ NoBackup(c)
      BY <1>r, <1>4, <2>2 DEF UnderWay, Replacing
    <3> QED BY <1>r, <1>1, <1>2, <2>1, <3>1, <3>2
            DEF LeavesSound, UnderWay, Settled, Found, NoBackup, Interrupted, Steps
  <2>3. CASE q.kind = "renew"
    <3>1. there = "dropMaterial"
      BY <1>4, <2>3 DEF Handler
    <3> QED BY <1>1, <1>2, <1>4, <2>1, <2>3, <3>1
            DEF LeavesSound, UnderWay, Renewing, Found, NoBackup, Interrupted, Steps
  <2> QED BY <2>1, <2>2, <2>3
<1>5. CASE q.pc \in {"aside", "activate"}
  <2>1. q.kind \in {"create", "replace", "renew"} /\ UNCHANGED <<live, backup>>
    BY <1>r, <1>5 DEF Kinds, Fails, UnderWay, Deleting
  <2>2. CASE q.kind = "create"
    <3>1. there = "dropMaterial"
      BY <1>5, <2>2 DEF Handler
    <3> QED BY <1>1, <1>2, <1>5, <2>1, <2>2, <3>1
            DEF LeavesSound, UnderWay, Creating, Found, NoBackup, Interrupted, Steps
  <2>3. CASE q.kind = "replace"
    <3>1. there = "restoreRow" /\ q.pc = "aside"
      BY <1>5, <2>3 DEF Handler, UnderWay, Replacing
    <3> QED BY <1>1, <1>2, <1>5, <2>1, <2>3, <3>1
            DEF LeavesSound, UnderWay, Replacing, Found, NoBackup, Interrupted, Steps
  <2>4. CASE q.kind = "renew"
    <3>1. there = "dropMaterial" /\ q.pc = "aside"
      BY <1>5, <2>4 DEF Handler, UnderWay, Renewing
    <3> QED BY <1>1, <1>2, <1>5, <2>1, <2>4, <3>1
            DEF LeavesSound, UnderWay, Renewing, Found, NoBackup, Interrupted, Steps
  <2> QED BY <2>1, <2>2, <2>3, <2>4
<1>6. CASE q.pc = "swap"
  <2>1. q.kind \in {"create", "replace", "renew"} /\ live[c] = Missing
    BY <1>6 DEF StepsFit, UnderWay, Creating, Replacing, Renewing
  <2>2. live'[c] = backup[c] /\ backup'[c] = Missing
    BY <1>r, <1>6, <2>1 DEF Fails
  <2>3. CASE q.kind = "create"
    <3>1. there = "dropMaterial"
      BY <1>6, <2>3 DEF Handler
    <3> QED BY <1>1, <1>2, <1>6, <2>2, <2>3, <3>1
            DEF LeavesSound, UnderWay, Creating, Found, NoBackup, Interrupted, Steps
  <2>4. CASE q.kind = "replace"
    <3>1. there = "restoreRow"
      BY <1>6, <2>4 DEF Handler
    <3> QED BY <1>1, <1>2, <1>6, <2>2, <2>4, <3>1
            DEF LeavesSound, UnderWay, Replacing, Found, NoBackup, Interrupted, Steps
  <2>5. CASE q.kind = "renew"
    <3>1. there = "dropMaterial"
      BY <1>6, <2>5 DEF Handler
    <3> QED BY <1>1, <1>2, <1>6, <2>2, <2>5, <3>1
            DEF LeavesSound, UnderWay, Renewing, Found, NoBackup, Interrupted, Steps
  <2> QED BY <2>1, <2>3, <2>4, <2>5
<1>7. CASE q.pc = "deleteRow"
  <2>1. q.kind = "delete" /\ UNCHANGED <<live, backup>> /\ there = "rollback"
    BY <1>7 DEF StepsFit, Fails, Handler
  <2> QED BY <1>1, <1>2, <1>7, <2>1
          DEF LeavesSound, UnderWay, Deleting, Found, NoBackup, Interrupted, Steps
<1> QED BY <1>r, <1>3, <1>4, <1>5, <1>6, <1>7 DEF WritesAndMoves

LEMMA StepIsSound ==
  ASSUME CTypeOK, StepsFit, NEW r \in Request, NEW c \in Cert, UnderWay(r, c),
         MayFail \subseteq WritesAndMoves, GoesOn(r, c)
  PROVE  LeavesSound(r, c)
  BY RowStepIsSound, DirectoryStepIsSound, IssueIsSound, FailureIsSound DEF GoesOn

\* Nothing is known of c but its row, its material and its requests.
LEMMA Undisturbed ==
  ASSUME NEW d \in Cert, row'[d] = row[d], live'[d] = live[d], backup'[d] = backup[d],
         \A q \in Request : quarantine'[q][d] = quarantine[q][d], UNCHANGED interrupted
  PROVE  /\ Settled(d) => Settled(d)'
         /\ \A q \in Request :
               request'[q] = request[q] /\ UnderWay(q, d) => UnderWay(q, d)'
<1>1. Settled(d) => Settled(d)'
  BY DEF Settled, Found, NoBackup, Interrupted
<1>2. ASSUME NEW q \in Request, request'[q] = request[q], UnderWay(q, d)
      PROVE  UnderWay(q, d)'
  <2>1. NoBackup(d)' = NoBackup(d)
    BY DEF NoBackup, Interrupted
  <2>2. /\ Found(d, request[q].before[1], request[q].before[2])'
        /\ \A p \in Request \ {q} : quarantine'[p][d] = Missing
    BY <1>2 DEF UnderWay, Found, Interrupted
  <2>3. request[q].kind = "create" => Creating(q, d)'
    BY <1>2, <2>1 DEF UnderWay, Creating
  <2>4. request[q].kind = "replace" => Replacing(q, d)'
    BY <1>2, <2>1 DEF UnderWay, Replacing
  <2>5. request[q].kind = "renew" => Renewing(q, d)'
    BY <1>2, <2>1 DEF UnderWay, Renewing
  <2>6. request[q].kind = "delete" => Deleting(q, d)'
    BY <1>2, <2>1 DEF UnderWay, Deleting
  <2> QED BY <1>2, <2>2, <2>3, <2>4, <2>5, <2>6 DEF UnderWay
<1> QED BY <1>1, <1>2

\* What a crash finds half done, it leaves recorded as interrupted.
LEMMA CrashSettles ==
  ASSUME CTypeOK, StepsFit, MaterialInv, Crash, NEW c \in Cert \ overlapped
  PROVE  Settled(c)'
<1>1. UNCHANGED <<row, live, backup>> /\ \A r \in Request : quarantine'[r][c] = Missing
  BY DEF Crash
<1>2. \A kinds : Interrupted(c, kinds) => Interrupted(c, kinds)'
  BY DEF Crash, Interrupted
<1>3. CASE Busy(c) = {}
  BY <1>1, <1>2, <1>3 DEF MaterialInv, Settled, Found, NoBackup
<1>4. ASSUME NEW r \in Busy(c) PROVE Settled(c)'
  <2>1. /\ UnderWay(r, c) /\ r \in Request /\ request[r].pc \in Steps /\ request[r].cert = c
        /\ request[r].kind \in Kinds
    BY DEF MaterialInv, Busy, StepsFit
  <2>2. CASE request[r].pc = "issue"
    <3>1. /\ request[r].kind = "renew" /\ row[c] = request[r].before[1]
          /\ live[c] = request[r].before[2] /\ NoBackup(c)
      BY <2>1, <2>2 DEF StepsFit, UnderWay, Renewing
    <3> QED BY <1>1, <1>2, <2>1, <3>1 DEF UnderWay, Settled, Found, NoBackup
  <2>3. CASE request[r].pc # "issue"
    <3>1. <<request[r].kind, c>> \in interrupted'
      BY <2>1, <2>3 DEF Crash
    <3>2. /\ Interrupted(c, Kinds)'
          /\ request[r].kind # "create" => Interrupted(c, Kinds \ {"create"})'
      BY <2>1, <3>1 DEF Interrupted
    <3>3. CASE request[r].kind = "create"
      BY <1>1, <2>1, <3>2, <3>3 DEF UnderWay, Creating, Settled, Found, NoBackup
    <3>4. CASE request[r].kind # "create"
      <4>1. row[c] = Missing => live[c] = Missing
        BY <2>1, <3>4 DEF UnderWay, Replacing, Renewing, Deleting, Found, Kinds
      <4> QED BY <1>1, <3>2, <3>4, <4>1 DEF Settled, Found, NoBackup
    <3> QED BY <3>3, <3>4
  <2> QED BY <2>2, <2>3
<1> QED BY <1>3, <1>4

LEMMA MaterialIsKept ==
  ASSUME AInv, MaterialInv, MayFail \subseteq WritesAndMoves, [CNext]_vars
  PROVE  MaterialInv'
<1> USE DEF AInv
<1>1. ASSUME NEW r \in Request, NEW c \in Cert, GoesOn(r, c)
      PROVE  MaterialInv'
  <2>1. Continues(r) /\ request[r].cert = c
    BY <1>1, StepsContinue
  <2> SUFFICES ASSUME NEW d \in Cert, d \notin overlapped
               PROVE  /\ Busy(d)' = {} => Settled(d)'
                      /\ \A q \in Busy(d)' : UnderWay(q, d)'
    BY <2>1 DEF MaterialInv, Continues
  <2>2. CASE d = c
    <3>1. Busy(c) = {r} /\ UnderWay(r, c)
      BY <2>1, <2>2 DEF Continues, Busy, OneRequestEach, MaterialInv
    <3>2. LeavesSound(r, c)
      BY <1>1, <3>1, StepIsSound
    <3>3. Busy(c)' = IF request'[r].pc \in Steps THEN {r} ELSE {}
      <4>1. \A q \in Request : q # r => q \notin Busy(c)'
        BY <2>1, <3>1 DEF Continues, Busy
      <4>2. r \in Busy(c)' <=> request'[r].pc \in Steps
        BY <2>1 DEF Continues, Busy
      <4> QED BY <4>1, <4>2 DEF Busy
    <3> QED BY <2>2, <3>2, <3>3 DEF LeavesSound
  <2>3. CASE d # c
    <3>1. /\ row'[d] = row[d] /\ live'[d] = live[d] /\ backup'[d] = backup[d]
          /\ \A q \in Request : quarantine'[q][d] = quarantine[q][d]
          /\ UNCHANGED interrupted
      BY <1>1, <2>3, StepsAreLocal
    <3>2. Busy(d)' = Busy(d) /\ \A q \in Busy(d) : q \in Request /\ request'[q] = request[q]
      BY <2>1, <2>3 DEF Continues, Busy
    <3> QED BY <3>1, <3>2, Undisturbed DEF MaterialInv
  <2> QED BY <2>2, <2>3
\* What the requests that begin have in common.
<1>2. ASSUME NEW r \in Request, NEW c \in Cert, NEW kind \in Kinds, NEW step \in Steps,
             NEW serial, Begin(r, kind, c, step, serial),
             \A d \in Cert \ {c} : row'[d] = row[d],
             c \notin overlapped' /\ Settled(c) => UnderWay(r, c)'
      PROVE  MaterialInv'
  <2>1. /\ request[r].pc \notin Steps
        /\ \A q \in Request : q # r => request'[q] = request[q]
        /\ request'[r].pc = step /\ request'[r].cert = c
        /\ overlapped' = IF Busy(c) = {} THEN overlapped ELSE overlapped \cup {c}
        /\ UNCHANGED <<live, backup, quarantine, interrupted>>
    BY <1>2, BeginsOn DEF Begin, disk
  <2> SUFFICES ASSUME NEW d \in Cert, d \notin overlapped'
               PROVE  /\ Busy(d)' = {} => Settled(d)'
                      /\ \A q \in Busy(d)' : UnderWay(q, d)'
    BY DEF MaterialInv
  <2>2. d \notin overlapped
    BY <2>1
  <2>3. CASE d = c
    <3>1. Busy(c) = {} /\ Busy(c)' = {r}
      BY <2>1, <2>3 DEF Busy
    <3> QED BY <1>2, <2>2, <2>3, <3>1 DEF MaterialInv
  <2>4. CASE d # c
    <3>1. Busy(d)' = Busy(d) /\ \A q \in Busy(d) : q \in Request /\ request'[q] = request[q]
      BY <2>1, <2>4 DEF Busy
    <3>2. row'[d] = row[d]
      BY <1>2, <2>4
    <3> QED BY <2>1, <2>2, <3>1, <3>2, Undisturbed DEF MaterialInv
  <2> QED BY <2>3, <2>4
\* A request as Begin leaves it.
<1>f. ASSUME NEW r \in Request, NEW c \in Cert, NEW kind, NEW step, NEW serial,
             Begin(r, kind, c, step, serial)
      PROVE  /\ request'[r].kind = kind /\ request'[r].pc = step
             /\ request'[r].serial = serial /\ request'[r].previous = row[c]
             /\ ~request'[r].updated /\ request'[r].before = <<row[c], live[c]>>
             /\ request'[r].before[1] = row[c] /\ request'[r].before[2] = live[c]
             /\ UNCHANGED <<live, backup, quarantine, interrupted>>
  BY <1>f DEF Begin, CTypeOK, disk
<1>3. ASSUME NEW r \in Request, NEW c \in Cert, NEW provider \in {"other", "letsencrypt"},
             BeginCreate(r, c, provider)
      PROVE  MaterialInv'
  <2> DEFINE new == [status |-> "pending", provider |-> provider, serial |-> issued']
  <2>1. Begin(r, "create", c, "aside", issued') /\ issued' \in Material
    BY <1>3 DEF BeginCreate, Issue, Material, CTypeOK
  <2>2. row[c] = Missing /\ row' = [row EXCEPT ![c] = new]
    BY <1>3 DEF BeginCreate
  <2>3. new \in Row /\ new.status = "pending" /\ new.serial = issued'
    BY <2>1 DEF Row
  <2>4. row'[c] = new /\ new # Missing /\ \A d \in Cert \ {c} : row'[d] = row[d]
    BY <2>2, <2>3 DEF CTypeOK
  <2> HIDE DEF new
  <2>5. Settled(c) => UnderWay(r, c)'
    <3>1. ASSUME Settled(c) PROVE live[c] = Missing
      BY <2>2, <3>1 DEF Settled, Found
    <3>2. /\ request'[r].kind = "create" /\ request'[r].pc = "aside"
          /\ request'[r].serial = issued' /\ request'[r].before = <<row[c], live[c]>>
          /\ request'[r].before[1] = row[c] /\ request'[r].before[2] = live[c]
          /\ UNCHANGED <<live, backup, quarantine, interrupted>>
      BY <1>f, <2>1
    <3> QED BY <2>2, <2>3, <2>4, <3>1, <3>2
            DEF Settled, UnderWay, Creating, Found, NoBackup, Interrupted
  <2> QED BY <1>2, <2>1, <2>4, <2>5 DEF Kinds, Steps
<1>4. ASSUME NEW r \in Request, NEW c \in Cert, BeginReplace(r, c)
      PROVE  MaterialInv'
  <2>1. Begin(r, "replace", c, "updateRow", issued') /\ row[c] # Missing /\ UNCHANGED row
    BY <1>4 DEF BeginReplace
  <2>2. Settled(c) => UnderWay(r, c)'
    <3>1. /\ request'[r].kind = "replace" /\ request'[r].pc = "updateRow"
          /\ request'[r].previous = row[c] /\ ~request'[r].updated
          /\ request'[r].before[1] = row[c] /\ request'[r].before[2] = live[c]
          /\ UNCHANGED <<live, backup, quarantine, interrupted>>
      BY <1>f, <2>1
    <3> QED BY <2>1, <3>1 DEF Settled, UnderWay, Replacing, Found, NoBackup, Interrupted
  <2> QED BY <1>2, <2>1, <2>2 DEF Kinds, Steps
<1>5. ASSUME NEW r \in Request, NEW c \in Cert, BeginRenew(r, c)
      PROVE  MaterialInv'
  <2>1. Begin(r, "renew", c, "issue", Missing) /\ row[c] # Missing /\ UNCHANGED row
    BY <1>5 DEF BeginRenew
  <2>2. Settled(c) => UnderWay(r, c)'
    <3>1. /\ request'[r].kind = "renew" /\ request'[r].pc = "issue"
          /\ request'[r].previous = row[c] /\ ~request'[r].updated
          /\ request'[r].before[1] = row[c] /\ request'[r].before[2] = live[c]
          /\ UNCHANGED <<live, backup, quarantine, interrupted>>
      BY <1>f, <2>1
    <3> QED BY <2>1, <3>1 DEF Settled, UnderWay, Renewing, Found, NoBackup, Interrupted
  <2> QED BY <1>2, <2>1, <2>2 DEF Kinds, Steps
<1>6. ASSUME NEW r \in Request, NEW c \in Cert, BeginDelete(r, c)
      PROVE  MaterialInv'
  <2>1. Begin(r, "delete", c, "detach", Missing) /\ UNCHANGED row
    BY <1>6 DEF BeginDelete
  <2>2. Settled(c) => UnderWay(r, c)'
    <3>1. /\ request'[r].kind = "delete" /\ request'[r].pc = "detach"
          /\ request'[r].previous = row[c] /\ ~request'[r].updated
          /\ request'[r].before[1] = row[c] /\ request'[r].before[2] = live[c]
          /\ UNCHANGED <<live, backup, quarantine, interrupted>>
      BY <1>f, <2>1
    <3> QED BY <2>1, <3>1 DEF Settled, UnderWay, Deleting, Found, NoBackup, Interrupted
  <2> QED BY <1>2, <2>1, <2>2 DEF Kinds, Steps
<1>7. ASSUME NEW h \in Host, NEW c \in Optional(Cert), Assign(h, c)
      PROVE  MaterialInv'
  <2>1. /\ UNCHANGED <<row, live, backup, quarantine, interrupted, request>>
        /\ overlapped \subseteq overlapped'
    BY <1>7 DEF Assign, Overlaps, disk
  <2>2. \A d \in Cert : Busy(d)' = Busy(d)
    BY <2>1 DEF Busy
  <2>3. \A d \in Cert : \A q \in Busy(d) : q \in Request
    BY DEF Busy
  <2>4. ASSUME NEW d \in Cert \ overlapped'
        PROVE  /\ Busy(d)' = {} => Settled(d)'
               /\ \A q \in Busy(d)' : UnderWay(q, d)'
    BY <2>1, <2>2, <2>3, Undisturbed DEF MaterialInv
  <2> QED BY <2>4 DEF MaterialInv
<1>8. CASE Crash
  <2>1. \A d \in Cert : Busy(d)' = {}
    BY <1>8 DEF Crash, Busy, Idle, Steps
  <2>2. UNCHANGED overlapped
    BY <1>8 DEF Crash
  <2> QED BY <1>8, <2>1, <2>2, CrashSettles DEF MaterialInv
<1>9. CASE UNCHANGED vars
  <2>1. UNCHANGED <<row, live, backup, quarantine, interrupted, request, overlapped>>
    BY <1>9 DEF vars, disk
  <2>2. \A d \in Cert : Busy(d)' = Busy(d) /\ Busy(d) \subseteq Request
    BY <2>1 DEF Busy
  <2> QED BY <2>1, <2>2, Undisturbed DEF MaterialInv
<1> QED BY <1>1, <1>3, <1>4, <1>5, <1>6, <1>7, <1>8, <1>9 DEF CNext, CStep, GoesOn

LEMMA NothingIsThereYet == CInit => MaterialInv
  BY DEF CInit, MaterialInv, Settled, Found, NoBackup, Busy, Idle, Steps

\* An active certificate has the material that its row describes, whatever else is
\* being created and whichever writes and moves fail, for any number of them.
THEOREM ActiveCertificatesHaveMaterial ==
  ASSUME MayFail \subseteq WritesAndMoves
  PROVE  CSpec => []ActiveHasMaterial
<1>1. MaterialInv => ActiveHasMaterial
  <2> SUFFICES ASSUME MaterialInv, NEW c \in Cert \ overlapped,
                      row[c] # Missing, row[c].status = "active",
                      \A r \in Busy(c) : request[r].kind = "create",
                      ~Interrupted(c, Kinds \ {"create"})
               PROVE  live[c] = row[c].serial
    BY DEF ActiveHasMaterial
  <2>1. Busy(c) = {}
    BY DEF MaterialInv, UnderWay, Creating
  <2> QED BY <2>1 DEF MaterialInv, Settled, Found
<1> QED BY <1>1, InitIsSafe, NothingIsThereYet, InvariantIsKept, MaterialIsKept, PTL DEF CSpec

\* A certificate on which nobody is at work, and that no crash has cut off, keeps no
\* key in a backup or a quarantine, nor one without a row.
THEOREM NoKeysAreLeftBehind ==
  ASSUME MayFail \subseteq WritesAndMoves
  PROVE  CSpec => []NoKeyLeftBehind
<1>1. MaterialInv => NoKeyLeftBehind
  BY DEF MaterialInv, NoKeyLeftBehind, Settled, Found, NoBackup
<1> QED BY <1>1, InitIsSafe, NothingIsThereYet, InvariantIsKept, MaterialIsKept, PTL DEF CSpec

\* A request that fails at a write or a move has undone what it did before it: the row
\* and the material are those it began with.
THEOREM FailedRequestsChangeNothing ==
  ASSUME MayFail \subseteq WritesAndMoves
  PROVE  CSpec => FailedChangesNothing
<1> DEFINE Undone(r) ==
      LET c == request[r].cert
      IN  /\ request[r].pc \in Steps /\ request'[r].pc = "failed"
          /\ c \notin overlapped
          => <<row'[c], live'[c]>> = request[r].before
<1>1. AInv /\ MaterialInv /\ [CNext]_vars => \A q \in Request : Undone(q)
  <2> SUFFICES ASSUME AInv, MaterialInv, [CNext]_vars, NEW q \in Request,
                      request[q].pc \in Steps, request'[q].pc = "failed",
                      request[q].cert \notin overlapped
               PROVE  <<row'[request[q].cert], live'[request[q].cert]>> = request[q].before
    OBVIOUS
  <2> USE DEF AInv
  <2>1. ASSUME NEW r \in Request, NEW c \in Cert, GoesOn(r, c)
        PROVE  Undone(q)
    <3>1. Continues(r) /\ request[r].cert = c
      BY <2>1, StepsContinue
    <3>2. q = r
      BY <3>1 DEF Continues, Steps
    <3>3. UnderWay(r, c)
      BY <3>1, <3>2 DEF MaterialInv, Busy
    <3>4. LeavesSound(r, c)
      BY <2>1, <3>3, StepIsSound
    <3> QED BY <3>1, <3>2, <3>4 DEF LeavesSound
  <2>2. ASSUME NEW r \in Request, NEW c \in Cert, NEW kind \in Kinds, NEW step \in Steps,
               NEW serial, Begin(r, kind, c, step, serial)
        PROVE  FALSE
    <3>1. r = q \/ request'[q] = request[q]
      BY <2>2, BeginsOn
    <3> QED BY <2>2, <3>1, BeginsOn DEF Steps
  <2>3. ~ \E r \in Request, c \in Cert :
            \/ \E provider \in {"other", "letsencrypt"} : BeginCreate(r, c, provider)
            \/ BeginReplace(r, c) \/ BeginRenew(r, c) \/ BeginDelete(r, c)
    BY <2>2 DEF BeginCreate, BeginReplace, BeginRenew, BeginDelete, Kinds, Steps
  <2>4. request' # request /\ ~Crash
    BY DEF Crash, Idle, Steps
  <2> QED BY <2>1, <2>3, <2>4 DEF CNext, CStep, GoesOn, Assign, vars
<1>2. AInv /\ MaterialInv /\ [CNext]_vars =>
        [\A r \in Request :
            LET c == request[r].cert
            IN  /\ request[r].pc \in Steps /\ request'[r].pc = "failed"
                /\ c \notin overlapped
                => <<row'[c], live'[c]>> = request[r].before]_vars
  BY <1>1
<1> QED BY <1>2, InitIsSafe, NothingIsThereYet, InvariantIsKept, MaterialIsKept, PTL
        DEF CSpec, FailedChangesNothing
=============================================================================
