-------------------------- MODULE ReconcilerProofs --------------------------
(***************************************************************************)
(* Theorems about Reconciler: what is in force was validated, for any      *)
(* number of processes, threads and generations; one process implements    *)
(* LastKnownGood, and its Nginx runs what ACTIVE names.                    *)
(***************************************************************************)
EXTENDS Reconciler, TLAPS

-----------------------------------------------------------------------------
(* The inductive invariant *)

\* What a thread carries from one step to the next: a generation to stage, a
\* predecessor that was in force once, and, from activate() on, a candidate
\* that the validator has accepted.
ThreadsCarryValidated ==
    \A w \in Worker :
        /\ pc[w] \notin {"idle", "done"} => files[w] \in Generation
        /\ previous[w] \in Maybe(validated)
        /\ pc[w] \in {"activate", "publish", "reload"} => files[w] \in validated

\* Reconciler._lock is owned by exactly the thread that is inside it.
LockOwnedInside ==
    \A w \in Worker : pc[w] \in Critical <=> lock[ProcOf[w]] = w

RInv ==
    /\ RTypeOK
    /\ OnlyValidatedIsServed
    /\ ThreadsCarryValidated
    /\ LockOwnedInside

\* Initially nothing is in force and nobody runs.
LEMMA InitRInv == RInit => RInv
  BY ConstantsOK DEF RInit, RInv, RTypeOK, OnlyValidatedIsServed,
     ThreadsCarryValidated, LockOwnedInside, Maybe, Critical, Steps, Phases,
     Outcomes

\* A controller hands rendered files to a thread.
LEMMA StartThreadRInv ==
  ASSUME RInv, NEW w \in Worker, NEW g \in Generation, StartThread(w, g)
  PROVE  RInv'
  <1> USE DEF StartThread, RInv, diskVars, history
  <1>1. RTypeOK'
    BY DEF RTypeOK, Maybe, Steps
  <1>2. OnlyValidatedIsServed'
    BY DEF OnlyValidatedIsServed, Maybe
  <1>3. ThreadsCarryValidated'
    BY DEF ThreadsCarryValidated, RTypeOK, Maybe
  <1>4. LockOwnedInside'
    BY DEF LockOwnedInside, RTypeOK, Critical, Steps
  <1> QED
    BY <1>1, <1>2, <1>3, <1>4

\* Every step of a running thread, from its lock to its return.
LEMMA ThreadStepRInv ==
  ASSUME RInv, NEW w \in Worker, ThreadStep(w)
  PROVE  RInv'
  <1> USE ConstantsOK DEF RInv, RTypeOK, OnlyValidatedIsServed,
          ThreadsCarryValidated, LockOwnedInside, Maybe, Critical, Steps,
          Outcomes, Goto, Finish, Fault, diskVars, history
  <1>1. CASE Begin(w)
    <2>1. RTypeOK'
      BY <1>1 DEF Begin
    <2>2. OnlyValidatedIsServed'
      BY <1>1 DEF Begin
    <2>3. ThreadsCarryValidated'
      BY <1>1 DEF Begin
    <2>4. LockOwnedInside'
      BY <1>1 DEF Begin
    <2> QED
      BY <2>1, <2>2, <2>3, <2>4
  <1>2. CASE Stage(w)
    <2>1. RTypeOK'
      BY <1>2 DEF Stage
    <2>2. OnlyValidatedIsServed'
      BY <1>2 DEF Stage
    <2>3. ThreadsCarryValidated'
      BY <1>2 DEF Stage
    <2>4. LockOwnedInside'
      BY <1>2 DEF Stage
    <2> QED
      BY <2>1, <2>2, <2>3, <2>4
  <1>3. CASE Install(w)
    <2>1. RTypeOK'
      BY <1>3 DEF Install
    <2>2. OnlyValidatedIsServed'
      BY <1>3 DEF Install
    <2>3. ThreadsCarryValidated'
      BY <1>3 DEF Install
    <2>4. LockOwnedInside'
      BY <1>3 DEF Install
    <2> QED
      BY <2>1, <2>2, <2>3, <2>4
  <1>4. CASE Validate(w)
    <2>1. RTypeOK'
      BY <1>4 DEF Validate
    <2>2. OnlyValidatedIsServed'
      BY <1>4 DEF Validate
    <2>3. ThreadsCarryValidated'
      BY <1>4 DEF Validate
    <2>4. LockOwnedInside'
      BY <1>4 DEF Validate
    <2> QED
      BY <2>1, <2>2, <2>3, <2>4
  <1>5. CASE ValidateFails(w)
    <2>1. RTypeOK'
      BY <1>5 DEF ValidateFails
    <2>2. OnlyValidatedIsServed'
      BY <1>5 DEF ValidateFails
    <2>3. ThreadsCarryValidated'
      BY <1>5 DEF ValidateFails
    <2>4. LockOwnedInside'
      BY <1>5 DEF ValidateFails
    <2> QED
      BY <2>1, <2>2, <2>3, <2>4
  <1>6. CASE Activate(w)
    <2>1. RTypeOK'
      BY <1>6 DEF Activate
    <2>2. OnlyValidatedIsServed'
      BY <1>6 DEF Activate
    <2>3. ThreadsCarryValidated'
      BY <1>6 DEF Activate
    <2>4. LockOwnedInside'
      BY <1>6 DEF Activate
    <2> QED
      BY <2>1, <2>2, <2>3, <2>4
  <1>7. CASE Publish(w)
    <2>1. RTypeOK'
      BY <1>7 DEF Publish
    <2>2. OnlyValidatedIsServed'
      BY <1>7 DEF Publish
    <2>3. ThreadsCarryValidated'
      BY <1>7 DEF Publish
    <2>4. LockOwnedInside'
      BY <1>7 DEF Publish
    <2> QED
      BY <2>1, <2>2, <2>3, <2>4
  <1>8. CASE Reload(w)
    <2>1. RTypeOK'
      BY <1>8 DEF Reload
    <2>2. OnlyValidatedIsServed'
      BY <1>8 DEF Reload
    <2>3. ThreadsCarryValidated'
      BY <1>8 DEF Reload
    <2>4. LockOwnedInside'
      BY <1>8 DEF Reload
    <2> QED
      BY <2>1, <2>2, <2>3, <2>4
  <1>9. CASE ReloaderFails(w)
    <2>1. RTypeOK'
      BY <1>9 DEF ReloaderFails
    <2>2. OnlyValidatedIsServed'
      BY <1>9 DEF ReloaderFails
    <2>3. ThreadsCarryValidated'
      BY <1>9 DEF ReloaderFails
    <2>4. LockOwnedInside'
      BY <1>9 DEF ReloaderFails
    <2> QED
      BY <2>1, <2>2, <2>3, <2>4
  <1>10. CASE Rollback(w)
    <2>1. RTypeOK'
      BY <1>10 DEF Rollback
    <2>2. OnlyValidatedIsServed'
      BY <1>10 DEF Rollback
    <2>3. ThreadsCarryValidated'
      BY <1>10 DEF Rollback
    <2>4. LockOwnedInside'
      BY <1>10 DEF Rollback
    <2> QED
      BY <2>1, <2>2, <2>3, <2>4
  <1>11. CASE Republish(w)
    <2>1. RTypeOK'
      BY <1>11 DEF Republish
    <2>2. OnlyValidatedIsServed'
      BY <1>11 DEF Republish
    <2>3. ThreadsCarryValidated'
      BY <1>11 DEF Republish
    <2>4. LockOwnedInside'
      BY <1>11 DEF Republish
    <2> QED
      BY <2>1, <2>2, <2>3, <2>4
  <1>12. CASE Rereload(w)
    <2>1. RTypeOK'
      BY <1>12 DEF Rereload
    <2>2. OnlyValidatedIsServed'
      BY <1>12 DEF Rereload
    <2>3. ThreadsCarryValidated'
      BY <1>12 DEF Rereload
    <2>4. LockOwnedInside'
      BY <1>12 DEF Rereload
    <2> QED
      BY <2>1, <2>2, <2>3, <2>4
  <1>13. CASE RollbackFails(w)
    <2>1. RTypeOK'
      BY <1>13 DEF RollbackFails
    <2>2. OnlyValidatedIsServed'
      BY <1>13 DEF RollbackFails
    <2>3. ThreadsCarryValidated'
      BY <1>13 DEF RollbackFails
    <2>4. LockOwnedInside'
      BY <1>13 DEF RollbackFails
    <2> QED
      BY <2>1, <2>2, <2>3, <2>4
  <1>14. CASE WriteFails(w)
    <2>1. RTypeOK'
      BY <1>14 DEF WriteFails
    <2>2. OnlyValidatedIsServed'
      BY <1>14 DEF WriteFails
    <2>3. ThreadsCarryValidated'
      BY <1>14 DEF WriteFails
    <2>4. LockOwnedInside'
      BY <1>14 DEF WriteFails
    <2> QED
      BY <2>1, <2>2, <2>3, <2>4
  <1>15. CASE RestoreFails(w)
    <2>1. RTypeOK'
      BY <1>15 DEF RestoreFails
    <2>2. OnlyValidatedIsServed'
      BY <1>15 DEF RestoreFails
    <2>3. ThreadsCarryValidated'
      BY <1>15 DEF RestoreFails
    <2>4. LockOwnedInside'
      BY <1>15 DEF RestoreFails
    <2> QED
      BY <2>1, <2>2, <2>3, <2>4
  <1> QED
    BY <1>1, <1>2, <1>3, <1>4, <1>5, <1>6, <1>7, <1>8, <1>9, <1>10, <1>11,
       <1>12, <1>13, <1>14, <1>15 DEF ThreadStep

\* The coroutine collects the result.
LEMMA CollectRInv ==
  ASSUME RInv, NEW w \in Worker, Collect(w)
  PROVE  RInv'
  <1> USE DEF Collect, Goto, RInv, diskVars, history
  <1>1. RTypeOK'
    BY DEF RTypeOK, Maybe, Steps, Outcomes
  <1>2. OnlyValidatedIsServed'
    BY DEF OnlyValidatedIsServed, Maybe
  <1>3. ThreadsCarryValidated'
    BY DEF ThreadsCarryValidated, RTypeOK, Maybe
  <1>4. LockOwnedInside'
    BY DEF LockOwnedInside, RTypeOK, Critical, Steps
  <1> QED
    BY <1>1, <1>2, <1>3, <1>4

\* The container boots, starts Nginx on `current`, and serves.
LEMMA PhaseRInv ==
  ASSUME RInv, NEW p \in Process, Boot(p) \/ StartNginx(p) \/ Serve(p)
  PROVE  RInv'
  <1> USE DEF Boot, StartNginx, Serve, RInv, threadVars, diskVars, history
  <1>1. RTypeOK'
    BY DEF RTypeOK, Phases
  <1>2. OnlyValidatedIsServed'
    BY DEF OnlyValidatedIsServed, RTypeOK
  <1>3. ThreadsCarryValidated'
    BY DEF ThreadsCarryValidated
  <1>4. LockOwnedInside'
    BY DEF LockOwnedInside
  <1> QED
    BY <1>1, <1>2, <1>3, <1>4

\* The container stops, in whatever state its threads are.
LEMMA StopRInv ==
  ASSUME RInv, NEW p \in Process, Stop(p), crashes' \in 0..MaxCrashes
  PROVE  RInv'
  <1> USE ConstantsOK DEF Stop, Forget, RInv, diskVars, history
  <1>1. RTypeOK'
    BY DEF RTypeOK, Maybe, Phases, Steps, Outcomes
  <1>2. OnlyValidatedIsServed'
    BY DEF OnlyValidatedIsServed, RTypeOK, Maybe
  <1>3. ThreadsCarryValidated'
    BY DEF ThreadsCarryValidated, RTypeOK, Maybe
  <1>4. LockOwnedInside'
    BY DEF LockOwnedInside, RTypeOK, Critical, Steps
  <1> QED
    BY <1>1, <1>2, <1>3, <1>4

LEMMA CrashRInv ==
  ASSUME RInv, NEW p \in Process, Crash(p)
  PROVE  RInv'
  <1>1. crashes' \in 0..MaxCrashes
    BY ConstantsOK DEF Crash, RInv, RTypeOK
  <1> QED
    BY <1>1, StopRInv DEF Crash

LEMMA StutterRInv ==
  ASSUME RInv, UNCHANGED rVars
  PROVE  RInv'
  BY DEF RInv, RTypeOK, OnlyValidatedIsServed, ThreadsCarryValidated,
     LockOwnedInside, rVars, threadVars, diskVars, history

\* RInv is inductive.
LEMMA RInvInvariant == RSpec => []RInv
  <1>1. RInv /\ [RNext]_rVars => RInv'
    <2> SUFFICES ASSUME RInv, [RNext]_rVars
                 PROVE  RInv'
      OBVIOUS
    <2>1. CASE \E w \in Worker, g \in Generation : StartThread(w, g)
      BY <2>1, StartThreadRInv
    <2>2. CASE \E w \in Worker : ThreadStep(w)
      BY <2>2, ThreadStepRInv
    <2>3. CASE \E w \in Worker : Collect(w)
      BY <2>3, CollectRInv
    <2>4. CASE \E p \in Process : Boot(p) \/ StartNginx(p) \/ Serve(p)
      BY <2>4, PhaseRInv
    <2>5. CASE \E p \in Process : Crash(p)
      BY <2>5, CrashRInv
    <2>6. CASE UNCHANGED rVars
      BY <2>6, StutterRInv
    <2> QED
      BY <2>1, <2>2, <2>3, <2>4, <2>5, <2>6 DEF RNext
  <1> QED
    BY <1>1, InitRInv, PTL DEF RSpec

\* Every variable keeps its type.
THEOREM ReconcilerTypeCorrect == RSpec => []RTypeOK
  BY RInvInvariant, PTL DEF RInv

\* With any number of processes, threads, generations, failures and crashes,
\* what ACTIVE names, what `current` links and what any Nginx has loaded has
\* passed `nginx -t` (Reconciler.reconcile).
THEOREM ServedWasValidated == RSpec => []OnlyValidatedIsServed
  BY RInvInvariant, PTL DEF RInv

-----------------------------------------------------------------------------
(***************************************************************************)
(* Refinement.  While reconciliations exclude each other, the one that is  *)
(* under way knows its predecessor: before activate() it is what ACTIVE    *)
(* names, and from then on ACTIVE names the candidate, another generation. *)
(***************************************************************************)
Exclusive ==
    \A t, u \in Worker : (pc[t] \in Critical /\ pc[u] \in Critical) => t = u

MoveKnown ==
    \A w \in Worker :
        /\ pc[w] \in {"stage", "install", "validate", "activate"} =>
              previous[w] = active /\ files[w] # active
        /\ Unsettled(w) => active = files[w] /\ previous[w] # files[w]

\* The predecessor of the move that is under way is what an undo restores.
LEMMA FallbackIsPrevious ==
  ASSUME Exclusive
  PROVE  /\ \A w \in Worker : Unsettled(w) => Fallback = previous[w]
         /\ (\A w \in Worker : ~Unsettled(w)) => Fallback = active
  <1>1. \A t, u \in Worker : Unsettled(t) /\ Unsettled(u) => t = u
    BY DEF Exclusive, Unsettled, Critical, Steps
  <1> QED
    BY <1>1 DEF Fallback

LEMMA FallbackIsPreviousNext ==
  ASSUME Exclusive'
  PROVE  /\ \A w \in Worker : Unsettled(w)' => Fallback' = previous'[w]
         /\ (\A w \in Worker : ~Unsettled(w)') => Fallback' = active'
  <1>1. \A t, u \in Worker : Unsettled(t)' /\ Unsettled(u)' => t = u
    BY DEF Exclusive, Unsettled, Critical, Steps
  <1> QED
    BY <1>1 DEF Fallback

\* No thread enters or leaves its unsettled part, and ACTIVE stays.
LEMMA SameFallback ==
  ASSUME Exclusive, Exclusive', UNCHANGED active,
         \A w \in Worker : Unsettled(w)' <=> Unsettled(w),
         \A w \in Worker : Unsettled(w) => previous'[w] = previous[w]
  PROVE  Fallback' = Fallback
  <1>1. CASE \E w \in Worker : Unsettled(w)
    BY <1>1, FallbackIsPrevious, FallbackIsPreviousNext
  <1>2. CASE \A w \in Worker : ~Unsettled(w)
    BY <1>2, FallbackIsPrevious, FallbackIsPreviousNext
  <1> QED
    BY <1>1, <1>2

\* The steps that move nothing.
LEMMA SettledStepsStutter ==
  ASSUME Exclusive, Exclusive', UNCHANGED <<active, validated>>,
         \A w \in Worker : Unsettled(w)' <=> Unsettled(w),
         \A w \in Worker : Unsettled(w) => previous'[w] = previous[w]
  PROVE  UNCHANGED LKG!vars
  BY SameFallback DEF LKG!vars

LEMMA ThreadStepMoves ==
  ASSUME RInv, Exclusive, Exclusive', MoveKnown, NEW w \in Worker, ThreadStep(w)
  PROVE  MoveKnown' /\ [LKG!Next]_(LKG!vars)
  <1> USE DEF Unsettled, Goto, Finish, Fault, diskVars, history
  <1>0. /\ pc \in [Worker -> Steps] /\ files \in [Worker -> Maybe(Generation)]
        /\ previous \in [Worker -> Maybe(Generation)]
        /\ pc[w] \in Critical => \A u \in Worker : pc[u] \in Critical => u = w
    BY DEF RInv, RTypeOK, Exclusive
  <1>1. CASE Begin(w)
    <2>1. MoveKnown'
      BY <1>0, <1>1 DEF Begin, MoveKnown, Critical, Steps, Exclusive
    <2>2. UNCHANGED LKG!vars
      BY <1>0, <1>1, SettledStepsStutter DEF Begin, Critical, Steps
    <2> QED
      BY <2>1, <2>2
  <1>2. CASE Stage(w)
    <2>1. MoveKnown'
      BY <1>0, <1>2 DEF Stage, MoveKnown, Critical, Steps, Exclusive
    <2>2. UNCHANGED LKG!vars
      BY <1>0, <1>2, SettledStepsStutter DEF Stage, Critical, Steps
    <2> QED
      BY <2>1, <2>2
  <1>3. CASE Install(w)
    <2>1. MoveKnown'
      BY <1>0, <1>3 DEF Install, MoveKnown, Critical, Steps, Exclusive
    <2>2. UNCHANGED LKG!vars
      BY <1>0, <1>3, SettledStepsStutter DEF Install, Critical, Steps
    <2> QED
      BY <2>1, <2>2
  <1>4. CASE Validate(w)
    <2>1. MoveKnown'
      BY <1>0, <1>4 DEF Validate, MoveKnown, Critical, Steps, Exclusive
    <2>2. Fallback = active /\ Fallback' = active
      BY <1>0, <1>4, FallbackIsPrevious, FallbackIsPreviousNext
         DEF Validate, Critical, Steps
    <2>3. files[w] \in Generation
      BY <1>4 DEF Validate, RInv, ThreadsCarryValidated
    <2>4. LKG!Approve(files[w])
      BY <1>4, <2>2 DEF Validate, LKG!Approve
    <2> QED
      BY <2>1, <2>3, <2>4 DEF LKG!Next
  <1>5. CASE ValidateFails(w)
    <2>1. MoveKnown'
      BY <1>0, <1>5 DEF ValidateFails, MoveKnown, Critical, Steps, Exclusive
    <2>2. UNCHANGED LKG!vars
      BY <1>0, <1>5, SettledStepsStutter DEF ValidateFails, Critical, Steps
    <2> QED
      BY <2>1, <2>2
  <1>6. CASE Activate(w)
    <2>1. MoveKnown'
      BY <1>0, <1>6 DEF Activate, MoveKnown, Critical, Steps, Exclusive
    <2>2. Fallback = active /\ Fallback' = previous[w] /\ previous[w] = active
      BY <1>0, <1>6, FallbackIsPrevious, FallbackIsPreviousNext
         DEF Activate, MoveKnown, Critical, Steps
    <2>3. files[w] \in Generation /\ files[w] \in validated
      BY <1>6 DEF Activate, RInv, ThreadsCarryValidated
    <2>4. LKG!Advance(files[w])
      BY <1>6, <2>2, <2>3 DEF Activate, LKG!Advance
    <2> QED
      BY <2>1, <2>3, <2>4 DEF LKG!Next
  <1>7. CASE Publish(w)
    <2>1. MoveKnown'
      BY <1>0, <1>7 DEF Publish, MoveKnown, Critical, Steps, Exclusive
    <2>2. CASE Unsettled(w)'
      <3>1. UNCHANGED LKG!vars
        BY <1>0, <1>7, <2>2, SettledStepsStutter DEF Publish, Critical, Steps
      <3> QED
        BY <2>1, <3>1
    <2>3. CASE ~Unsettled(w)'
      <3>1. Fallback = previous[w] /\ Fallback' = active /\ active # previous[w]
        BY <1>0, <1>7, <2>3, FallbackIsPrevious, FallbackIsPreviousNext
           DEF Publish, MoveKnown, Critical, Steps
      <3>2. LKG!Settle
        BY <1>7, <3>1 DEF Publish, LKG!Settle
      <3> QED
        BY <2>1, <3>2 DEF LKG!Next
    <2> QED
      BY <2>2, <2>3
  <1>8. CASE Reload(w)
    <2>1. MoveKnown'
      BY <1>0, <1>8 DEF Reload, MoveKnown, Critical, Steps, Exclusive
    <2>2. Fallback = previous[w] /\ Fallback' = active /\ active # previous[w]
      BY <1>0, <1>8, FallbackIsPrevious, FallbackIsPreviousNext
         DEF Reload, MoveKnown, Critical, Steps
    <2>3. LKG!Settle
      BY <1>8, <2>2 DEF Reload, LKG!Settle
    <2> QED
      BY <2>1, <2>3 DEF LKG!Next
  <1>9. CASE ReloaderFails(w)
    <2>1. MoveKnown'
      BY <1>0, <1>9 DEF ReloaderFails, MoveKnown, Critical, Steps, Exclusive
    <2>2. UNCHANGED LKG!vars
      BY <1>0, <1>9, SettledStepsStutter DEF ReloaderFails, Critical, Steps
    <2> QED
      BY <2>1, <2>2
  <1>10. CASE Rollback(w)
    <2>1. MoveKnown'
      BY <1>0, <1>10 DEF Rollback, MoveKnown, Critical, Steps, Exclusive
    <2>2. Fallback = previous[w] /\ Fallback' = previous[w] /\ active # previous[w]
      BY <1>0, <1>10, FallbackIsPrevious, FallbackIsPreviousNext
         DEF Rollback, MoveKnown, Critical, Steps
    <2>3. LKG!Undo
      BY <1>10, <2>2 DEF Rollback, LKG!Undo
    <2> QED
      BY <2>1, <2>3 DEF LKG!Next
  <1>11. CASE Republish(w)
    <2>1. MoveKnown'
      BY <1>0, <1>11 DEF Republish, MoveKnown, Critical, Steps, Exclusive
    <2>2. UNCHANGED LKG!vars
      BY <1>0, <1>11, SettledStepsStutter DEF Republish, Critical, Steps
    <2> QED
      BY <2>1, <2>2
  <1>12. CASE Rereload(w)
    <2>1. MoveKnown'
      BY <1>0, <1>12 DEF Rereload, MoveKnown, Critical, Steps, Exclusive
    <2>2. UNCHANGED LKG!vars
      BY <1>0, <1>12, SettledStepsStutter DEF Rereload, Critical, Steps
    <2> QED
      BY <2>1, <2>2
  <1>13. CASE RollbackFails(w)
    <2>1. MoveKnown'
      BY <1>0, <1>13 DEF RollbackFails, MoveKnown, Critical, Steps, Exclusive
    <2>2. UNCHANGED LKG!vars
      BY <1>0, <1>13, SettledStepsStutter DEF RollbackFails, Critical, Steps
    <2> QED
      BY <2>1, <2>2
  <1>14. CASE WriteFails(w)
    <2>1. MoveKnown'
      BY <1>0, <1>14 DEF WriteFails, MoveKnown, Critical, Steps, Exclusive
    <2>2. UNCHANGED LKG!vars
      BY <1>0, <1>14, SettledStepsStutter DEF WriteFails, Critical, Steps
    <2> QED
      BY <2>1, <2>2
  <1>15. CASE RestoreFails(w)
    <2>1. MoveKnown'
      BY <1>0, <1>15 DEF RestoreFails, MoveKnown, Critical, Steps, Exclusive
    <2>2. Fallback = previous[w] /\ Fallback' = active /\ active # previous[w]
      BY <1>0, <1>15, FallbackIsPrevious, FallbackIsPreviousNext
         DEF RestoreFails, MoveKnown, Critical, Steps
    <2>3. LKG!Settle
      BY <1>15, <2>2 DEF RestoreFails, LKG!Settle
    <2> QED
      BY <2>1, <2>3 DEF LKG!Next
  <1> QED
    BY <1>1, <1>2, <1>3, <1>4, <1>5, <1>6, <1>7, <1>8, <1>9, <1>10, <1>11,
       <1>12, <1>13, <1>14, <1>15 DEF ThreadStep

\* Starting a thread, collecting its result and the phases of a process.
LEMMA QuietStepMoves ==
  ASSUME RInv, Exclusive, Exclusive', MoveKnown,
         \/ \E w \in Worker, g \in Generation : StartThread(w, g)
         \/ \E w \in Worker : Collect(w)
         \/ \E p \in Process : Boot(p) \/ StartNginx(p) \/ Serve(p)
  PROVE  MoveKnown' /\ UNCHANGED LKG!vars
  <1>1. pc \in [Worker -> Steps] /\ files \in [Worker -> Maybe(Generation)]
        /\ previous \in [Worker -> Maybe(Generation)]
    BY DEF RInv, RTypeOK
  <1>2. CASE \E w \in Worker, g \in Generation : StartThread(w, g)
    <2>1. MoveKnown'
      BY <1>1, <1>2 DEF StartThread, MoveKnown, Unsettled, diskVars, history
    <2>2. UNCHANGED LKG!vars
      BY <1>1, <1>2, SettledStepsStutter DEF StartThread, Unsettled, diskVars, history
    <2> QED
      BY <2>1, <2>2
  <1>3. CASE \E w \in Worker : Collect(w)
    <2>1. MoveKnown'
      BY <1>1, <1>3 DEF Collect, Goto, MoveKnown, Unsettled, diskVars, history
    <2>2. UNCHANGED LKG!vars
      BY <1>1, <1>3, SettledStepsStutter DEF Collect, Goto, Unsettled, diskVars, history
    <2> QED
      BY <2>1, <2>2
  <1>4. CASE \E p \in Process : Boot(p) \/ StartNginx(p) \/ Serve(p)
    <2> USE DEF Boot, StartNginx, Serve, threadVars, diskVars, history
    <2>1. MoveKnown'
      BY <1>4 DEF MoveKnown, Unsettled
    <2>2. UNCHANGED LKG!vars
      BY <1>4, SettledStepsStutter DEF Unsettled
    <2> QED
      BY <2>1, <2>2
  <1> QED
    BY <1>2, <1>3, <1>4

\* A crash in the middle of a move makes it final: ACTIVE is what counts.
LEMMA StopMoves ==
  ASSUME RInv, Exclusive, Exclusive', MoveKnown, NEW p \in Process, Stop(p)
  PROVE  MoveKnown' /\ [LKG!Next]_(LKG!vars)
  <1> USE DEF Stop, Forget, Unsettled, diskVars, history
  <1>1. pc \in [Worker -> Steps]
    BY DEF RInv, RTypeOK
  <1>2. MoveKnown'
    BY <1>1 DEF MoveKnown
  <1>3. CASE \E w \in Worker : Unsettled(w) /\ ProcOf[w] = p
    <2>1. PICK w \in Worker : Unsettled(w) /\ ProcOf[w] = p
      BY <1>3
    <2>2. \A u \in Worker : Unsettled(u) => u = w
      BY <2>1 DEF Exclusive, Critical, Steps
    <2>3. \A u \in Worker : ~Unsettled(u)'
      BY <2>1, <2>2
    <2>4. Fallback = previous[w] /\ Fallback' = active /\ active # previous[w]
      BY <2>1, <2>3, FallbackIsPrevious, FallbackIsPreviousNext DEF MoveKnown
    <2>5. LKG!Settle
      BY <2>4 DEF LKG!Settle
    <2> QED
      BY <1>2, <2>5 DEF LKG!Next
  <1>4. CASE \A w \in Worker : Unsettled(w) => ProcOf[w] # p
    <2>1. UNCHANGED LKG!vars
      BY <1>4, SettledStepsStutter
    <2> QED
      BY <1>2, <2>1
  <1> QED
    BY <1>3, <1>4

LEMMA StutterMoves ==
  ASSUME Exclusive, Exclusive', MoveKnown, UNCHANGED rVars
  PROVE  MoveKnown' /\ UNCHANGED LKG!vars
  <1> USE DEF rVars, threadVars, diskVars, history
  <1>1. MoveKnown'
    BY DEF MoveKnown, Unsettled
  <1>2. UNCHANGED LKG!vars
    BY SettledStepsStutter DEF Unsettled
  <1> QED
    BY <1>1, <1>2

LEMMA InitMoves == RInit => MoveKnown /\ LKG!Init
  <1> SUFFICES ASSUME RInit PROVE MoveKnown /\ LKG!Init
    OBVIOUS
  <1>1. \A w \in Worker : ~Unsettled(w) /\ pc[w] = "idle"
    BY DEF RInit, Unsettled
  <1>2. Fallback = active
    BY <1>1 DEF Fallback
  <1> QED
    BY <1>1, <1>2 DEF RInit, MoveKnown, LKG!Init

\* The lock of the only process makes its reconciliations exclude each other.
LEMMA OneLockExcludes ==
  ASSUME \A p, q \in Process : p = q, RInv
  PROVE  Exclusive
  BY ConstantsOK DEF RInv, RTypeOK, LockOwnedInside, Exclusive

\* A single control-plane process implements LastKnownGood: ACTIVE advances
\* to validated generations only, one move at a time, and a failed reload
\* restores exactly what was in force, whatever fails and however often the
\* process crashes (Reconciler.reconcile).
THEOREM OneProcessImplementsLastKnownGood ==
  ASSUME \A p, q \in Process : p = q
  PROVE  RSpec => ImplementsLastKnownGood
  <1>1. RInv /\ RInv' /\ MoveKnown /\ [RNext]_rVars
          => MoveKnown' /\ [LKG!Next]_(LKG!vars)
    <2> SUFFICES ASSUME RInv, RInv', MoveKnown, [RNext]_rVars
                 PROVE  MoveKnown' /\ [LKG!Next]_(LKG!vars)
      OBVIOUS
    <2>1. Exclusive
      BY OneLockExcludes
    <2>2. Exclusive'
      BY ConstantsOK DEF RInv, RTypeOK, LockOwnedInside, Exclusive
    <2>3. CASE \E w \in Worker : ThreadStep(w)
      BY <2>1, <2>2, <2>3, ThreadStepMoves
    <2>4. CASE \/ \E w \in Worker, g \in Generation : StartThread(w, g)
               \/ \E w \in Worker : Collect(w)
               \/ \E p \in Process : Boot(p) \/ StartNginx(p) \/ Serve(p)
      BY <2>1, <2>2, <2>4, QuietStepMoves
    <2>5. CASE \E p \in Process : Crash(p)
      BY <2>1, <2>2, <2>5, StopMoves DEF Crash
    <2>6. CASE UNCHANGED rVars
      BY <2>1, <2>2, <2>6, StutterMoves
    <2> QED
      BY <2>3, <2>4, <2>5, <2>6 DEF RNext
  <1> QED
    BY <1>1, InitMoves, RInvInvariant, PTL
    DEF RSpec, ImplementsLastKnownGood, LKG!Spec
-----------------------------------------------------------------------------
(***************************************************************************)
(* What Nginx runs.  A thread that is inside the lock knows what its       *)
(* process's Nginx still runs, its predecessor, and where `current` points *)
(* meanwhile.  Only a crash, or a rollback that fails as well, makes it    *)
(* wrong: the first is excluded by the property, the second by a bound of  *)
(* one failure.                                                            *)
(***************************************************************************)

\* A rollback that is still publishing has already rewritten ACTIVE.
UndoKnown ==
    \A w \in Worker : pc[w] \in {"republish", "rereload"} =>
        active = previous[w] /\ previous[w] # files[w]

\* Threads do not survive their process.
ThreadsNeedProcess ==
    \A w \in Worker : pc[w] # "idle" => phase[ProcOf[w]] # "down"

NginxIsUp(p) == phase[p] \in {"starting", "serving"}
Runs(p, g)   == NginxIsUp(p) => nginx[p] = g

\* Nobody is inside the lock: the three agree.
SettledParts ==
    (\A w \in Worker : pc[w] \notin Critical) =>
        current = active /\ \A p \in Process : Runs(p, active)

\* The thread w is inside the lock.
MovingParts(w) ==
    pc[w] \in Critical =>
        /\ \A p \in Process : Runs(p, previous[w])
        /\ pc[w] \in {"stage", "install", "validate", "activate", "publish",
                      "rereload"} => current = previous[w]
        /\ pc[w] = "reload" =>
              current = files[w] /\ phase[ProcOf[w]] # "preparing"
        /\ pc[w] = "rollback" /\ previous[w] = NoGeneration =>
              current = NoGeneration
        /\ pc[w] \in {"rollback", "republish", "rereload"} =>
              faults = MaxFaults

NginxFollows ==
    crashes = 0 =>
        /\ \A p \in Process : NginxIsUp(p) => nginx[p] # NoGeneration
        /\ SettledParts
        /\ \A w \in Worker : MovingParts(w)

LEMMA NginxFollowsServes ==
  ASSUME NginxFollows
  PROVE  SettledServesActive
  BY DEF NginxFollows, SettledParts, SettledServesActive, Runs, NginxIsUp

LEMMA ThreadStepUndo ==
  ASSUME RInv, Exclusive, MoveKnown, UndoKnown, NEW w \in Worker, ThreadStep(w)
  PROVE  UndoKnown'
  <1> USE DEF Unsettled, Goto, Finish, diskVars, history, UndoKnown
  <1>0. /\ pc \in [Worker -> Steps] /\ files \in [Worker -> Maybe(Generation)]
        /\ previous \in [Worker -> Maybe(Generation)]
        /\ pc[w] \in Critical => \A u \in Worker : pc[u] \in Critical => u = w
    BY DEF RInv, RTypeOK, Exclusive
  <1>1. CASE Begin(w)
    BY <1>0, <1>1 DEF Begin
  <1>2. CASE Stage(w) \/ Install(w) \/ Validate(w) \/ ValidateFails(w)
             \/ WriteFails(w)
    BY <1>0, <1>2 DEF Stage, Install, Validate, ValidateFails, WriteFails
  <1>3. CASE Activate(w)
    BY <1>0, <1>3 DEF Activate, Critical, Steps
  <1>4. CASE Publish(w) \/ Reload(w) \/ ReloaderFails(w)
    BY <1>0, <1>4 DEF Publish, Reload, ReloaderFails
  <1>5. CASE Rollback(w)
    BY <1>0, <1>5 DEF Rollback, MoveKnown, Critical, Steps
  <1>6. CASE Republish(w) \/ Rereload(w) \/ RollbackFails(w) \/ RestoreFails(w)
    BY <1>0, <1>6 DEF Republish, Rereload, RollbackFails, RestoreFails
  <1> QED
    BY <1>1, <1>2, <1>3, <1>4, <1>5, <1>6 DEF ThreadStep

LEMMA QuietStepUndo ==
  ASSUME RInv, UndoKnown,
         \/ \E w \in Worker, g \in Generation : StartThread(w, g)
         \/ \E w \in Worker : Collect(w)
         \/ \E p \in Process : Boot(p) \/ StartNginx(p) \/ Serve(p)
         \/ \E p \in Process : Stop(p)
         \/ UNCHANGED rVars
  PROVE  UndoKnown'
  <1> USE DEF UndoKnown, RInv, RTypeOK, diskVars, history, threadVars
  <1>1. CASE \E w \in Worker, g \in Generation : StartThread(w, g)
    BY <1>1 DEF StartThread
  <1>2. CASE \E w \in Worker : Collect(w)
    BY <1>2 DEF Collect, Goto
  <1>3. CASE \E p \in Process : Boot(p) \/ StartNginx(p) \/ Serve(p)
    BY <1>3 DEF Boot, StartNginx, Serve
  <1>4. CASE \E p \in Process : Stop(p)
    BY <1>4 DEF Stop, Forget
  <1>5. CASE UNCHANGED rVars
    BY <1>5 DEF rVars
  <1> QED
    BY <1>1, <1>2, <1>3, <1>4, <1>5

\* While one thread moves, nobody else is inside the lock of the process.
LEMMA OthersStayOut ==
  ASSUME \A p, q \in Process : p = q, RInv, NEW w \in Worker, ThreadStep(w)
  PROVE  \A u \in Worker \ {w} : pc[u] \notin Critical /\ pc'[u] = pc[u]
  <1> USE DEF RInv, RTypeOK, Goto, Finish
  <1>1. \A u \in Worker \ {w} : pc'[u] = pc[u]
    BY DEF ThreadStep, Begin, Stage, Install, Validate, ValidateFails, Activate,
       Publish, Reload, ReloaderFails, Rollback, Republish, Rereload,
       RollbackFails, WriteFails, RestoreFails
  <1>2. CASE pc[w] \in Critical
    BY <1>1, <1>2, OneLockExcludes DEF Exclusive
  <1>3. CASE pc[w] \notin Critical
    <2>1. Begin(w)
      BY <1>3 DEF ThreadStep, Stage, Install, Validate, ValidateFails, Activate,
         Publish, Reload, ReloaderFails, Rollback, Republish, Rereload,
         RollbackFails, WriteFails, RestoreFails, Critical, Steps
    <2>2. lock[ProcOf[w]] = NoWorker /\ \A u \in Worker : ProcOf[u] = ProcOf[w]
      BY <2>1, ConstantsOK DEF Begin
    <2>3. \A u \in Worker : pc[u] \notin Critical
      BY <2>2, ConstantsOK DEF LockOwnedInside
    <2> QED
      BY <1>1, <2>3
  <1> QED
    BY <1>2, <1>3

LEMMA ThreadStepFollows ==
  ASSUME \A p, q \in Process : p = q, MaxFaults \leq 1, RInv, MoveKnown,
         UndoKnown, ThreadsNeedProcess, NginxFollows, NEW w \in Worker,
         ThreadStep(w)
  PROVE  NginxFollows'
  <1> USE DEF Goto, Finish, diskVars, history, Runs, NginxIsUp
  <1>1. /\ \A u \in Worker \ {w} : pc[u] \notin Critical
        /\ \A u \in Worker \ {w} : pc'[u] \notin Critical
    BY OthersStayOut
  <1>2. /\ pc \in [Worker -> Steps] /\ files \in [Worker -> Maybe(Generation)]
        /\ previous \in [Worker -> Maybe(Generation)]
        /\ nginx \in [Process -> Maybe(Generation)]
        /\ phase \in [Process -> Phases]
        /\ faults \in 0..MaxFaults /\ MaxFaults \in Nat
        /\ ProcOf[w] \in Process /\ \A p \in Process : p = ProcOf[w]
        /\ NoGeneration \notin Generation
    BY ConstantsOK DEF RInv, RTypeOK
  <1>3. UNCHANGED <<phase, crashes>>
    BY DEF ThreadStep, Begin, Stage, Install, Validate, ValidateFails, Activate,
       Publish, Reload, ReloaderFails, Rollback, Republish, Rereload,
       RollbackFails, WriteFails, RestoreFails
  <1> SUFFICES ASSUME crashes = 0
               PROVE  /\ \A p \in Process : NginxIsUp(p) => nginx'[p] # NoGeneration
                      /\ pc'[w] \notin Critical =>
                            /\ current' = active'
                            /\ \A p \in Process : NginxIsUp(p) => nginx'[p] = active'
                      /\ MovingParts(w)'
    BY <1>1, <1>3 DEF NginxFollows, SettledParts, MovingParts
  <1>4. /\ \A p \in Process : NginxIsUp(p) => nginx[p] # NoGeneration
        /\ pc[w] \notin Critical =>
              /\ current = active
              /\ \A p \in Process : NginxIsUp(p) => nginx[p] = active
        /\ MovingParts(w)
    BY <1>1 DEF NginxFollows, SettledParts
  <1>5. CASE Begin(w)
    BY <1>2, <1>3, <1>4, <1>5 DEF Begin, MovingParts, Critical, Steps
  <1>6. CASE Stage(w) \/ Install(w) \/ Validate(w) \/ ValidateFails(w)
             \/ WriteFails(w)
    BY <1>2, <1>3, <1>4, <1>6
    DEF Stage, Install, Validate, ValidateFails, WriteFails, MovingParts,
        Critical, Steps, MoveKnown
  <1>7. CASE Activate(w)
    BY <1>2, <1>3, <1>4, <1>7 DEF Activate, MovingParts, Critical, Steps
  <1>8. CASE Publish(w)
    BY <1>2, <1>3, <1>4, <1>8
    DEF Publish, MovingParts, Critical, Steps, MoveKnown, Unsettled
  <1>9. CASE Reload(w)
    <2>1. current = files[w] /\ active = files[w] /\ files[w] # NoGeneration
      BY <1>2, <1>4, <1>9
      DEF Reload, MovingParts, Critical, Steps, MoveKnown, Unsettled, RInv,
          ThreadsCarryValidated
    <2> QED
      BY <1>2, <1>3, <1>9, <2>1 DEF Reload, MovingParts, Critical, Steps
  <1>10. CASE ReloaderFails(w)
    <2>1. faults' = MaxFaults
      BY <1>2, <1>10 DEF ReloaderFails, Fault
    <2>2. phase[ProcOf[w]] # "down"
      BY <1>10 DEF ReloaderFails, ThreadsNeedProcess
    <2>3. previous[w] = NoGeneration => current = NoGeneration
      BY <1>2, <1>4, <1>10, <2>2
      DEF ReloaderFails, MovingParts, Critical, Steps, Phases
    <2> QED
      BY <1>2, <1>3, <1>4, <1>10, <2>1, <2>3
      DEF ReloaderFails, MovingParts, Critical, Steps
  <1>11. CASE Rollback(w)
    BY <1>2, <1>3, <1>4, <1>11 DEF Rollback, MovingParts, Critical, Steps
  <1>12. CASE Republish(w)
    BY <1>2, <1>3, <1>4, <1>12
    DEF Republish, MovingParts, Critical, Steps, UndoKnown
  <1>13. CASE Rereload(w)
    BY <1>2, <1>3, <1>4, <1>13
    DEF Rereload, MovingParts, Critical, Steps, UndoKnown
  <1>14. CASE RollbackFails(w) \/ RestoreFails(w)
    <2>1. faults = MaxFaults
      BY <1>4, <1>14
      DEF RollbackFails, RestoreFails, MovingParts, Critical, Steps
    <2> QED
      BY <1>2, <1>14, <2>1 DEF RollbackFails, RestoreFails, Fault
  <1> QED
    BY <1>5, <1>6, <1>7, <1>8, <1>9, <1>10, <1>11, <1>12, <1>13, <1>14
    DEF ThreadStep

LEMMA StartThreadFollows ==
  ASSUME RInv, NginxFollows, NEW w \in Worker, NEW g \in Generation,
         StartThread(w, g)
  PROVE  NginxFollows'
  <1> USE DEF StartThread, diskVars, history, RInv, RTypeOK, Runs, NginxIsUp
  <1>1. \A u \in Worker : (pc'[u] \in Critical <=> pc[u] \in Critical)
    BY DEF Critical
  <1>2. \A u \in Worker : pc[u] \in Critical =>
                             pc'[u] = pc[u] /\ files'[u] = files[u]
    BY DEF Critical
  <1> QED
    BY <1>1, <1>2 DEF NginxFollows, SettledParts, MovingParts

LEMMA CollectFollows ==
  ASSUME RInv, NginxFollows, NEW w \in Worker, Collect(w)
  PROVE  NginxFollows'
  <1> USE DEF Collect, Goto, diskVars, history, RInv, RTypeOK, Runs, NginxIsUp
  <1>1. \A u \in Worker : (pc'[u] \in Critical <=> pc[u] \in Critical)
    BY DEF Critical
  <1>2. \A u \in Worker : pc[u] \in Critical =>
            pc'[u] = pc[u] /\ files'[u] = files[u] /\ previous'[u] = previous[u]
    BY DEF Critical
  <1> QED
    BY <1>1, <1>2 DEF NginxFollows, SettledParts, MovingParts

\* Nginx is started on `current`, while no thread runs.
LEMMA PhaseFollows ==
  ASSUME \A p, q \in Process : p = q, RInv, ThreadsNeedProcess, NginxFollows,
         NEW p \in Process, Boot(p) \/ StartNginx(p) \/ Serve(p)
  PROVE  NginxFollows'
  <1> USE ConstantsOK
      DEF diskVars, history, threadVars, RInv, RTypeOK, Runs, NginxIsUp, Phases
  <1>1. CASE Boot(p)
    <2>1. \A u \in Worker : pc[u] \notin Critical
      BY <1>1 DEF Boot, ThreadsNeedProcess, Critical
    <2> QED
      BY <1>1, <2>1 DEF Boot, NginxFollows, SettledParts, MovingParts
  <1>2. CASE StartNginx(p)
    <2>1. \A u \in Worker : pc[u] \notin Critical
      BY <1>2 DEF StartNginx, ThreadsIdle, Critical
    <2> QED
      BY <1>2, <2>1 DEF StartNginx, NginxFollows, SettledParts, MovingParts
  <1>3. CASE Serve(p)
    BY <1>3 DEF Serve, NginxFollows, SettledParts, MovingParts
  <1> QED
    BY <1>1, <1>2, <1>3

\* A process that ends outside the lock leaves everything settled.
LEMMA StopFollows ==
  ASSUME \A p, q \in Process : p = q, RInv, NginxFollows, NEW p \in Process,
         Stop(p), crashes' = crashes,
         \A w \in Worker : ProcOf[w] = p => pc[w] \notin Critical
  PROVE  NginxFollows'
  <1> USE ConstantsOK DEF Stop, Forget, diskVars, history, RInv, RTypeOK
  <1>1. \A w \in Worker : pc[w] \notin Critical /\ pc'[w] \notin Critical
    BY DEF Critical
  <1>2. \A q \in Process : ~NginxIsUp(q)'
    BY DEF NginxIsUp
  <1> QED
    BY <1>1, <1>2 DEF NginxFollows, SettledParts, MovingParts, Runs

LEMMA ThreadsNeedProcessKept ==
  ASSUME RInv, ThreadsNeedProcess,
         \/ \E w \in Worker, g \in Generation :
               phase[ProcOf[w]] # "down" /\ StartThread(w, g)
         \/ \E w \in Worker : ThreadStep(w)
         \/ \E w \in Worker : Collect(w)
         \/ \E p \in Process : Boot(p) \/ StartNginx(p) \/ Serve(p)
         \/ \E p \in Process : Stop(p)
         \/ UNCHANGED rVars
  PROVE  ThreadsNeedProcess'
  <1> USE ConstantsOK
      DEF ThreadsNeedProcess, RInv, RTypeOK, Phases, Goto, Finish, threadVars
  <1>1. CASE \E w \in Worker, g \in Generation :
                phase[ProcOf[w]] # "down" /\ StartThread(w, g)
    BY <1>1 DEF StartThread
  <1>2. CASE \E w \in Worker : ThreadStep(w)
    BY <1>2
    DEF ThreadStep, Begin, Stage, Install, Validate, ValidateFails, Activate,
        Publish, Reload, ReloaderFails, Rollback, Republish, Rereload,
        RollbackFails, WriteFails, RestoreFails
  <1>3. CASE \E w \in Worker : Collect(w)
    BY <1>3 DEF Collect
  <1>4. CASE \E p \in Process : Boot(p) \/ StartNginx(p) \/ Serve(p)
    BY <1>4 DEF Boot, StartNginx, Serve
  <1>5. CASE \E p \in Process : Stop(p)
    BY <1>5 DEF Stop, Forget
  <1>6. CASE UNCHANGED rVars
    BY <1>6 DEF rVars
  <1> QED
    BY <1>1, <1>2, <1>3, <1>4, <1>5, <1>6

\* A crash ends the promise: it may leave ACTIVE ahead of `current`.
LEMMA CrashFollows ==
  ASSUME RInv, NEW p \in Process, Crash(p)
  PROVE  NginxFollows'
  BY ConstantsOK DEF Crash, RInv, RTypeOK, NginxFollows

LEMMA StutterFollows ==
  ASSUME NginxFollows, UNCHANGED rVars
  PROVE  NginxFollows'
  BY DEF NginxFollows, SettledParts, MovingParts, Runs, NginxIsUp, rVars,
     threadVars, diskVars, history

LEMMA InitFollows ==
  RInit => UndoKnown /\ ThreadsNeedProcess /\ NginxFollows
  BY DEF RInit, UndoKnown, ThreadsNeedProcess, NginxFollows, SettledParts,
     MovingParts, Runs, NginxIsUp, Critical

\* With one control-plane process, whatever single command or publication
\* fails: as long as it has not crashed, what ACTIVE names is what `current`
\* links and what its Nginx runs whenever no reconciliation is under way
\* (Reconciler.reconcile, its rollback included).
THEOREM SettledActiveIsServed ==
  ASSUME \A p, q \in Process : p = q, MaxFaults \leq 1
  PROVE  RSpec => []SettledServesActive
  <1> DEFINE I == MoveKnown /\ UndoKnown /\ ThreadsNeedProcess /\ NginxFollows
  <1>1. RInv /\ RInv' /\ I /\ [RNext]_rVars => I'
    <2> SUFFICES ASSUME RInv, RInv', I, [RNext]_rVars
                 PROVE  I'
      OBVIOUS
    <2>1. Exclusive
      BY OneLockExcludes
    <2>2. Exclusive'
      BY ConstantsOK DEF RInv, RTypeOK, LockOwnedInside, Exclusive
    <2>3. CASE \E w \in Worker : ThreadStep(w)
      BY <2>1, <2>2, <2>3, ThreadStepMoves, ThreadStepUndo, ThreadStepFollows,
         ThreadsNeedProcessKept
    <2>4. CASE \E w \in Worker, g \in Generation :
                  phase[ProcOf[w]] # "down" /\ StartThread(w, g)
      BY <2>1, <2>2, <2>4, QuietStepMoves, QuietStepUndo, StartThreadFollows,
         ThreadsNeedProcessKept
    <2>5. CASE \E w \in Worker : Collect(w)
      BY <2>1, <2>2, <2>5, QuietStepMoves, QuietStepUndo, CollectFollows,
         ThreadsNeedProcessKept
    <2>6. CASE \E p \in Process : Boot(p) \/ StartNginx(p) \/ Serve(p)
      BY <2>1, <2>2, <2>6, QuietStepMoves, QuietStepUndo, PhaseFollows,
         ThreadsNeedProcessKept
    <2>7. CASE \E p \in Process : Crash(p)
      <3>1. \E p \in Process : Stop(p)
        BY <2>7 DEF Crash
      <3> QED
        BY <2>1, <2>2, <2>7, <3>1, StopMoves, QuietStepUndo, CrashFollows,
           ThreadsNeedProcessKept
    <2>8. CASE UNCHANGED rVars
      BY <2>1, <2>2, <2>8, StutterMoves, QuietStepUndo, StutterFollows,
         ThreadsNeedProcessKept
    <2> QED
      BY <2>3, <2>4, <2>5, <2>6, <2>7, <2>8 DEF RNext
  <1>2. RInit => I
    BY InitMoves, InitFollows
  <1>3. I => SettledServesActive
    BY NginxFollowsServes
  <1> QED
    BY <1>1, <1>2, <1>3, RInvInvariant, PTL DEF RSpec

-----------------------------------------------------------------------------
(***************************************************************************)
(* What a result says.  A reconciliation that reports success has put its  *)
(* candidate in force; one that reports a failure has not, unless the      *)
(* predecessor could not be restored, and until then what an undo restores *)
(* is what it has been all along.                                          *)
(***************************************************************************)
LEMMA ThreadStepResult ==
  ASSUME RInv, MoveKnown, UndoKnown, NEW w \in Worker, outcome[w] = "none",
         ThreadStep(w)
  PROVE  /\ Succeeded(w)' => active' = files[w]
         /\ outcome'[w] = "failed" =>
               active' # files[w] \/ files[w] \in abandoned'
  <1> USE DEF Succeeded, Unsettled, Goto, Finish, diskVars, history, MoveKnown,
          UndoKnown, RInv, RTypeOK
  <1>1. CASE Begin(w)
    BY <1>1 DEF Begin
  <1>2. CASE Stage(w) \/ Install(w) \/ Validate(w) \/ ValidateFails(w)
             \/ WriteFails(w)
    BY <1>2 DEF Stage, Install, Validate, ValidateFails, WriteFails
  <1>3. CASE Activate(w) \/ Publish(w) \/ Reload(w) \/ ReloaderFails(w)
    BY <1>3 DEF Activate, Publish, Reload, ReloaderFails
  <1>4. CASE Rollback(w) \/ Republish(w) \/ Rereload(w) \/ RollbackFails(w)
    BY <1>4 DEF Rollback, Republish, Rereload, RollbackFails
  <1>5. CASE RestoreFails(w)
    BY <1>5 DEF RestoreFails
  <1> QED
    BY <1>1, <1>2, <1>3, <1>4, <1>5 DEF ThreadStep

LEMMA ThreadStepFallback ==
  ASSUME RInv, Exclusive, Exclusive', MoveKnown, NEW w \in Worker,
         outcome[w] = "none", ThreadStep(w)
  PROVE  Succeeded(w)' \/ Fallback' = Fallback \/ Fallback' \in abandoned'
  <1> USE DEF Unsettled, Goto, Finish, diskVars, history
  <1>0. /\ pc \in [Worker -> Steps] /\ outcome \in [Worker -> Outcomes]
        /\ previous \in [Worker -> Maybe(Generation)]
        /\ pc[w] \in Critical => \A u \in Worker : pc[u] \in Critical => u = w
    BY DEF RInv, RTypeOK, Exclusive
  <1>1. CASE Begin(w) \/ Stage(w) \/ Install(w) \/ Validate(w)
             \/ ValidateFails(w) \/ Republish(w) \/ Rereload(w)
             \/ RollbackFails(w) \/ ReloaderFails(w) \/ WriteFails(w)
    <2>1. /\ active' = active
          /\ \A u \in Worker : Unsettled(u)' <=> Unsettled(u)
          /\ \A u \in Worker : Unsettled(u) => previous'[u] = previous[u]
      BY <1>0, <1>1 DEF Begin, Stage, Install, Validate, ValidateFails,
         Republish, Rereload, RollbackFails, ReloaderFails, WriteFails
    <2> QED
      BY <2>1, SameFallback
  <1>2. CASE Activate(w)
    <2>1. Fallback = active
      BY <1>0, <1>2, FallbackIsPrevious DEF Activate, Critical, Steps
    <2>2. Fallback' = previous[w]
      BY <1>0, <1>2, FallbackIsPreviousNext DEF Activate
    <2> QED
      BY <1>2, <2>1, <2>2 DEF Activate, MoveKnown
  <1>3. CASE Publish(w) \/ Reload(w)
    <2>1. CASE pc'[w] = "reload"
      <3>1. /\ active' = active
            /\ \A u \in Worker : Unsettled(u)' <=> Unsettled(u)
            /\ \A u \in Worker : Unsettled(u) => previous'[u] = previous[u]
        BY <1>0, <1>3, <2>1 DEF Publish, Reload
      <3> QED
        BY <3>1, SameFallback
    <2>2. CASE pc'[w] # "reload"
      BY <1>0, <1>3, <2>2 DEF Publish, Reload, Succeeded
    <2> QED
      BY <2>1, <2>2
  <1>4. CASE Rollback(w)
    <2>1. Fallback = previous[w]
      BY <1>0, <1>4, FallbackIsPrevious DEF Rollback
    <2>2. \A u \in Worker : ~Unsettled(u)'
      BY <1>0, <1>4 DEF Rollback, Critical, Steps
    <2>3. Fallback' = active'
      BY <2>2, FallbackIsPreviousNext
    <2> QED
      BY <1>4, <2>1, <2>3 DEF Rollback
  <1>5. CASE RestoreFails(w)
    <2>1. \A u \in Worker : ~Unsettled(u)'
      BY <1>0, <1>5 DEF RestoreFails, Critical, Steps
    <2>2. Fallback' = active'
      BY <2>1, FallbackIsPreviousNext
    <2>3. active = files[w]
      BY <1>5 DEF RestoreFails, MoveKnown
    <2> QED
      BY <1>5, <2>2, <2>3 DEF RestoreFails
  <1> QED
    BY <1>1, <1>2, <1>3, <1>4, <1>5 DEF ThreadStep
=============================================================================
