----------------------- MODULE RuntimeControllerProofs -----------------------
(***************************************************************************)
(* Theorems about RuntimeController, for any number of processes, tasks,   *)
(* parts and commits.  Where the asyncio lock or the lease serializes the  *)
(* reconciliations, they exclude each other, the control plane implements  *)
(* LastKnownGood, what is reported as applied contains the request's own   *)
(* write, and the database follows the disk.  The Nginx of a single        *)
(* control plane runs what ACTIVE names.                                   *)
(***************************************************************************)
EXTENDS RuntimeController, ReconcilerProofs, SequenceTheorems

-----------------------------------------------------------------------------
(* The steps of the controller as steps of Reconciler *)

\* The bounds of the faults and the crashes are Reconciler's own.
StopsAnyhow(p) == Stop(p) /\ crashes' \in 0..MaxCrashes

ReconcilerStep ==
    \/ \E w \in Worker : ThreadStep(w)
    \/ \E w \in Worker, g \in Generation : StartThread(w, g)
    \/ \E w \in Worker : Collect(w)
    \/ \E p \in Process : Boot(p) \/ StartNginx(p) \/ Serve(p)
    \/ \E p \in Process : StopsAnyhow(p)
    \/ UNCHANGED rVars

LEMMA StepIsReconcilerStep ==
  ASSUME TypeOK, [Next]_vars
  PROVE  ReconcilerStep
  <1> USE ConstantsOK DEF ReconcilerStep
  <1>0. /\ rendered \in [Worker -> Generation]
        /\ crashes \in 0..MaxCrashes
    BY DEF TypeOK, RTypeOK
  <1>1. ASSUME NEW t \in Worker, NEW i \in Part, Commit(t, i)
        PROVE  ReconcilerStep
    BY <1>1 DEF Commit
  <1>2. ASSUME NEW t \in Worker, Reconcile(t) \/ BootReconcile(t)
        PROVE  ReconcilerStep
    BY <1>2 DEF Reconcile, BootReconcile
  <1>3. ASSUME NEW t \in Worker, TaskStep(t)
        PROVE  ReconcilerStep
    <2>1. CASE ReadPart(t) \/ TakeLock(t) \/ PersistRecord(t)
               \/ PersistActivate(t) \/ PersistAttempt(t)
      BY <2>1 DEF ReadPart, TakeLock, PersistRecord, PersistActivate,
         PersistAttempt
    <2>2. CASE AcquireLease(t)
      BY <1>0, <2>2 DEF AcquireLease
    <2>3. CASE LeaseRefused(t)
      BY <1>0, <2>3 DEF LeaseRefused, StopsAnyhow
    <2>4. CASE RunThread(t)
      BY <2>4 DEF RunThread
    <2>5. CASE ReleaseLease(t)
      BY <1>0, <2>5 DEF ReleaseLease, StopsAnyhow
    <2>6. CASE RenderFails(t)
      BY <1>0, <2>6 DEF RenderFails, StopsAnyhow
    <2> QED
      BY <1>3, <2>1, <2>2, <2>3, <2>4, <2>5, <2>6 DEF TaskStep
  <1>4. ASSUME NEW p \in Process, ProcessStep(p) \/ ProcessCrashes(p)
        PROVE  ReconcilerStep
    BY <1>0, <1>4 DEF ProcessStep, ProcessBoots, NextPhase, NginxCannotStart,
       ProcessCrashes, Crash, StopsAnyhow
  <1>5. CASE LeaseExpires
    BY <1>5 DEF LeaseExpires
  <1>6. CASE UNCHANGED vars
    BY <1>6 DEF vars
  <1> QED
    BY <1>1, <1>2, <1>3, <1>4, <1>5, <1>6 DEF Next

LEMMA ReconcilerStepRInv ==
  ASSUME RInv, ReconcilerStep
  PROVE  RInv'
  BY ThreadStepRInv, StartThreadRInv, CollectRInv, PhaseRInv, StopRInv,
     StutterRInv DEF ReconcilerStep, StopsAnyhow

LEMMA ReconcilerStepMoves ==
  ASSUME RInv, Exclusive, Exclusive', MoveKnown, ReconcilerStep
  PROVE  MoveKnown' /\ [LKG!Next]_(LKG!vars)
  BY ThreadStepMoves, QuietStepMoves, StopMoves, StutterMoves
     DEF ReconcilerStep, StopsAnyhow

-----------------------------------------------------------------------------
(* Types *)

\* The part of TypeOK that is about the controller's own variables.
CTypeOK ==
    /\ desired \in Generation
    /\ tpc \in [Worker -> TaskSteps]
    /\ rendered \in [Worker -> Generation]
    /\ reading \in [Worker -> 1..NParts + 1]
    /\ wrote \in [Worker -> [part : Part, version : Version]]
    /\ ended \in [Worker -> {"none", "applied", "raised"}]
    /\ attempt \in [Worker -> BOOLEAN]
    /\ queue \in [Process -> Seq(Worker)]
    /\ applying \in [Process -> BOOLEAN]
    /\ booted \in [Process -> BOOLEAN]
    /\ lease \in Process \cup {Free, Stale}
    /\ rows \in [Generation -> {"absent", "active", "failed"}]
    /\ dbActive \in SUBSET Generation

LEMMA BlankTypes ==
  /\ Blank \in Generation
  /\ NoWrite \in [part : Part, version : Version]
  /\ 1 \in 1..NParts + 1
  BY ControllerConstantsOK DEF Blank, NoWrite, Part, Version

LEMMA InitCTypeOK == Init => CTypeOK
  BY BlankTypes DEF Init, CTypeOK, NoWrite, TaskSteps

\* The coroutine lets go of the asyncio lock that it holds.
LEMMA LeaveReconcileTypes ==
  ASSUME CTypeOK, NEW t \in Worker, queue[ProcOf[t]] # <<>>,
         NEW how \in {"applied", "raised"}, LeaveReconcile(t, how),
         booted' \in [Process -> BOOLEAN],
         lease' \in Process \cup {Free, Stale}
  PROVE  CTypeOK'
  <1>1. ProcOf[t] \in Process
    BY ConstantsOK
  <1>2. Tail(queue[ProcOf[t]]) \in Seq(Worker)
    BY <1>1, HeadTailProperties DEF CTypeOK
  <1>3. queue' \in [Process -> Seq(Worker)]
    BY <1>1, <1>2 DEF CTypeOK, LeaveReconcile, TaskEnds
  <1>4. rendered' \in [Worker -> Generation] /\ wrote' \in [Worker -> [part : Part, version : Version]]
    BY BlankTypes DEF CTypeOK, LeaveReconcile, TaskEnds
  <1> QED
    BY <1>1, <1>3, <1>4, BlankTypes
    DEF CTypeOK, LeaveReconcile, TaskEnds, TaskSteps, dbVars

LEMMA ProcessEndsTypes ==
  ASSUME CTypeOK, NEW p \in Process, ProcessEnds(p),
         lease' \in Process \cup {Free, Stale}
  PROVE  CTypeOK'
  <1>1. queue' \in [Process -> Seq(Worker)]
    BY EmptySeq DEF CTypeOK, ProcessEnds
  <1>2. rendered' \in [Worker -> Generation] /\ wrote' \in [Worker -> [part : Part, version : Version]]
    BY BlankTypes DEF CTypeOK, ProcessEnds, TaskForgets
  <1> QED
    BY <1>1, <1>2, BlankTypes
    DEF CTypeOK, ProcessEnds, TaskForgets, TaskSteps, dbVars

-----------------------------------------------------------------------------
(* The inductive invariant *)

\* Every task that wants or has the asyncio lock is in its queue, and the
\* one that has it is at the head.
QueueIsSound ==
    \A t \in Worker :
        LET q == queue[ProcOf[t]] IN
        /\ tpc[t] \in Holding \cup {"lock"} => \E i \in 1..Len(q) : q[i] = t
        /\ tpc[t] \in Holding => q[1] = t

\* A thread runs only while its coroutine awaits it.
ThreadsAreAwaited ==
    \A t \in Worker : pc[t] \notin {"idle", "done"} => tpc[t] = "thread"

CInv == RInv /\ CTypeOK /\ QueueIsSound /\ ThreadsAreAwaited

\* Only the task at the head of its process's queue is past the lock.
LEMMA OneHolder ==
  ASSUME QueueIsSound, NEW t \in Worker, NEW u \in Worker,
         tpc[t] \in Holding, tpc[u] \in Holding, ProcOf[t] = ProcOf[u]
  PROVE  t = u
  BY DEF QueueIsSound

LEMMA HolderIsQueued ==
  ASSUME CTypeOK, QueueIsSound, NEW t \in Worker, tpc[t] \in Holding
  PROVE  queue[ProcOf[t]] # <<>>
  <1>1. \E i \in 1..Len(queue[ProcOf[t]]) : queue[ProcOf[t]][i] = t
    BY DEF QueueIsSound
  <1> QED
    BY <1>1, EmptySeq

\* Leaving the lock keeps the others in the queue.
LEMMA LeaveReconcileQueue ==
  ASSUME CTypeOK, QueueIsSound, NEW t \in Worker, tpc[t] \in Holding,
         NEW how \in {"applied", "raised"}, LeaveReconcile(t, how)
  PROVE  QueueIsSound'
  <1> DEFINE p == ProcOf[t]
             q == queue[p]
  <1>1. /\ p \in Process /\ q \in Seq(Worker) /\ q # <<>> /\ q[1] = t
        /\ Len(q) \in Nat
    BY ConstantsOK, HolderIsQueued, LenProperties DEF CTypeOK, QueueIsSound
  <1>2. queue' = [queue EXCEPT ![p] = Tail(q)] /\ tpc' = [tpc EXCEPT ![t] = "idle"]
    BY DEF LeaveReconcile, TaskEnds
  <1>3. Len(Tail(q)) = Len(q) - 1 /\ \A i \in 1..Len(Tail(q)) : Tail(q)[i] = q[i + 1]
    BY <1>1, HeadTailProperties
  <1> SUFFICES ASSUME NEW u \in Worker, tpc'[u] \in Holding \cup {"lock"}
               PROVE  /\ \E i \in 1..Len(queue'[ProcOf[u]]) : queue'[ProcOf[u]][i] = u
                      /\ tpc'[u] \in Holding => queue'[ProcOf[u]][1] = u
    BY DEF QueueIsSound
  <1>4. u # t /\ tpc'[u] = tpc[u]
    BY <1>2 DEF CTypeOK, Holding, TaskSteps
  <1>5. CASE ProcOf[u] # p
    BY <1>1, <1>2, <1>4, <1>5, ConstantsOK DEF QueueIsSound, CTypeOK
  <1>6. CASE ProcOf[u] = p
    <2>1. PICK i \in 1..Len(q) : q[i] = u
      BY <1>4, <1>6 DEF QueueIsSound
    <2>2. i - 1 \in 1..Len(Tail(q)) /\ Tail(q)[i - 1] = u
      BY <1>1, <1>3, <1>4, <2>1
    <2>3. tpc[u] \notin Holding
      BY <1>1, <1>4, <1>6 DEF QueueIsSound
    <2> QED
      BY <1>1, <1>2, <1>4, <1>6, <2>2, <2>3 DEF CTypeOK
  <1> QED
    BY <1>5, <1>6

\* A process that ends leaves the queues of the others alone.
LEMMA ProcessEndsQueue ==
  ASSUME CTypeOK, QueueIsSound, NEW p \in Process, ProcessEnds(p)
  PROVE  QueueIsSound'
  BY ConstantsOK
  DEF CTypeOK, QueueIsSound, ProcessEnds, TaskForgets, Holding, TaskSteps

\* Queueing up behind the others.
LEMMA AppendQueue ==
  ASSUME CTypeOK, QueueIsSound, NEW t \in Worker, tpc[t] = "render",
         tpc' = [tpc EXCEPT ![t] = "lock"],
         queue' = [queue EXCEPT ![ProcOf[t]] = Append(@, t)]
  PROVE  QueueIsSound'
  <1> DEFINE p == ProcOf[t]
             q == queue[p]
  <1>1. p \in Process /\ q \in Seq(Worker) /\ Len(q) \in Nat
    BY ConstantsOK, LenProperties DEF CTypeOK
  <1>2. /\ Len(Append(q, t)) = Len(q) + 1
        /\ \A i \in 1..Len(q) : Append(q, t)[i] = q[i]
        /\ Append(q, t)[Len(q) + 1] = t
    BY <1>1, AppendProperties
  <1>3. queue' = [queue EXCEPT ![p] = Append(q, t)]
    OBVIOUS
  <1>4. queue'[p] = Append(q, t)
    BY <1>1, <1>3 DEF CTypeOK
  <1> SUFFICES ASSUME NEW u \in Worker, tpc'[u] \in Holding \cup {"lock"}
               PROVE  /\ \E i \in 1..Len(queue'[ProcOf[u]]) : queue'[ProcOf[u]][i] = u
                      /\ tpc'[u] \in Holding => queue'[ProcOf[u]][1] = u
    BY DEF QueueIsSound
  <1>5. CASE u = t
    <2>1. tpc'[u] \notin Holding
      BY <1>5 DEF CTypeOK, Holding
    <2> QED
      BY <1>1, <1>2, <1>4, <1>5, <2>1
  <1>6. CASE u # t /\ ProcOf[u] = p
    <2>1. tpc'[u] = tpc[u]
      BY <1>6 DEF CTypeOK
    <2>2. PICK i \in 1..Len(q) : q[i] = u
      BY <1>6, <2>1 DEF QueueIsSound
    <2>3. i \in 1..Len(Append(q, t)) /\ 1 \in 1..Len(q)
      BY <1>1, <1>2, <2>2
    <2>4. \E j \in 1..Len(queue'[ProcOf[u]]) : queue'[ProcOf[u]][j] = u
      BY <1>2, <1>4, <1>6, <2>2, <2>3
    <2>5. tpc[u] \in Holding => q[1] = u
      BY <1>6 DEF QueueIsSound
    <2> QED
      BY <1>2, <1>4, <1>6, <2>1, <2>3, <2>4, <2>5
  <1>7. CASE u # t /\ ProcOf[u] # p
    BY <1>1, <1>3, <1>7, ConstantsOK DEF QueueIsSound, CTypeOK
  <1> QED
    BY <1>5, <1>6, <1>7

\* Steps that move one task and leave the queues alone.
LEMMA SameQueue ==
  ASSUME CTypeOK, QueueIsSound, UNCHANGED queue, NEW t \in Worker,
         NEW there \in TaskSteps, tpc' = [tpc EXCEPT ![t] = there],
         there \in Holding =>
            \/ tpc[t] \in Holding
            \/ tpc[t] = "lock" /\ Head(queue[ProcOf[t]]) = t,
         there # "lock"
  PROVE  QueueIsSound'
  BY DEF CTypeOK, QueueIsSound

-----------------------------------------------------------------------------
(* Every step preserves it *)

LEMMA StartsKeep ==
  ASSUME CInv, NEW t \in Worker,
         \/ \E i \in Part : Commit(t, i)
         \/ Reconcile(t)
         \/ BootReconcile(t)
  PROVE  CTypeOK' /\ QueueIsSound' /\ ThreadsAreAwaited'
  <1> USE DEF CInv
  <1>1. /\ tpc[t] = "idle" /\ tpc' = [tpc EXCEPT ![t] = "render"]
        /\ UNCHANGED <<queue, pc, rendered, reading, applying, booted, lease,
                       rows, dbActive>>
        /\ ended' = [ended EXCEPT ![t] = "none"]
        /\ attempt' = [attempt EXCEPT ![t] = FALSE]
    BY DEF Commit, Reconcile, BootReconcile, Start, Await, dbVars, rVars,
       threadVars
  <1>2. /\ desired' \in Generation
        /\ wrote' \in [Worker -> [part : Part, version : Version]]
    <2>1. CASE \E i \in Part : Commit(t, i)
      <3>1. PICK i \in Part : Commit(t, i)
        BY <2>1
      <3>2. desired[i] + 1 \in Version
        BY <3>1, ControllerConstantsOK DEF Commit, CTypeOK, Version
      <3> QED
        BY <3>1, <3>2, ControllerConstantsOK DEF Commit, Start, CTypeOK
    <2>2. CASE Reconcile(t) \/ BootReconcile(t)
      <3>1. desired' = desired /\ wrote' = [wrote EXCEPT ![t] = NoWrite]
        BY <2>2 DEF Reconcile, BootReconcile, Start
      <3> QED
        BY <3>1, BlankTypes DEF CTypeOK
    <2> QED
      BY <2>1, <2>2
  <1>3. CTypeOK'
    BY <1>1, <1>2 DEF CTypeOK, TaskSteps
  <1>4. QueueIsSound'
    BY <1>1, SameQueue DEF TaskSteps, Holding
  <1>5. ThreadsAreAwaited'
    BY <1>1 DEF ThreadsAreAwaited, CTypeOK
  <1> QED
    BY <1>3, <1>4, <1>5

LEMMA ReadPartKeeps ==
  ASSUME CInv, NEW t \in Worker, ReadPart(t)
  PROVE  CTypeOK' /\ QueueIsSound' /\ ThreadsAreAwaited'
  <1> USE DEF CInv
  <1>1. CTypeOK'
    <2>0. ProcOf[t] \in Process
      BY ConstantsOK
    <2>1. reading[t] \in Part
      BY ControllerConstantsOK DEF ReadPart, CTypeOK, Part
    <2>2. rendered' \in [Worker -> Generation]
      BY <2>1, ControllerConstantsOK DEF ReadPart, Seen, CTypeOK
    <2>3. reading' \in [Worker -> 1..NParts + 1]
      BY <2>1, ControllerConstantsOK DEF ReadPart, CTypeOK, Part
    <2>4. queue' \in [Process -> Seq(Worker)]
      <3>1. Append(queue[ProcOf[t]], t) \in Seq(Worker)
        BY <2>0, AppendProperties DEF CTypeOK
      <3>2. \/ UNCHANGED queue
            \/ queue' = [queue EXCEPT ![ProcOf[t]] = Append(queue[ProcOf[t]], t)]
        BY DEF ReadPart
      <3> QED
        BY <2>0, <3>1, <3>2 DEF CTypeOK
    <2> QED
      BY <2>0, <2>1, <2>2, <2>3, <2>4 DEF ReadPart, CTypeOK, TaskSteps, dbVars
  <1>2. QueueIsSound'
    BY AppendQueue DEF ReadPart, QueueIsSound
  <1>3. ThreadsAreAwaited'
    BY DEF ReadPart, ThreadsAreAwaited, CTypeOK, rVars, threadVars
  <1> QED
    BY <1>1, <1>2, <1>3

LEMMA TakeLockKeeps ==
  ASSUME CInv, NEW t \in Worker, TakeLock(t)
  PROVE  CTypeOK' /\ QueueIsSound' /\ ThreadsAreAwaited'
  <1> USE DEF CInv, TakeLock, Await
  <1>1. CTypeOK'
    BY DEF CTypeOK, TaskSteps, dbVars
  <1>2. QueueIsSound'
    BY SameQueue DEF TaskSteps, Holding
  <1>3. ThreadsAreAwaited'
    BY DEF ThreadsAreAwaited, CTypeOK, rVars, threadVars
  <1> QED
    BY <1>1, <1>2, <1>3

LEMMA AcquireLeaseKeeps ==
  ASSUME CInv, NEW t \in Worker, AcquireLease(t)
  PROVE  CTypeOK' /\ QueueIsSound' /\ ThreadsAreAwaited'
  <1> USE DEF CInv, AcquireLease, Await
  <1>1. CTypeOK'
    BY ConstantsOK DEF CTypeOK, TaskSteps, dbVars
  <1>2. QueueIsSound'
    BY SameQueue DEF TaskSteps, Holding
  <1>3. ThreadsAreAwaited'
    BY DEF ThreadsAreAwaited, CTypeOK, StartThread, RInv, RTypeOK
  <1> QED
    BY <1>1, <1>2, <1>3

\* A process that ends, however, together with its threads.
LEMMA ProcessEndsKeeps ==
  ASSUME CInv, NEW p \in Process, Stop(p), ProcessEnds(p),
         lease' \in Process \cup {Free, Stale}
  PROVE  CTypeOK' /\ QueueIsSound' /\ ThreadsAreAwaited'
  <1> USE DEF CInv
  <1>1. CTypeOK'
    BY ProcessEndsTypes
  <1>2. QueueIsSound'
    BY ProcessEndsQueue
  <1>3. ThreadsAreAwaited'
    BY DEF ThreadsAreAwaited, ProcessEnds, TaskForgets, Stop, Forget
  <1> QED
    BY <1>1, <1>2, <1>3

\* render() is left before the coroutine waits for anything.
LEMMA RenderFailsKeeps ==
  ASSUME CInv, NEW t \in Worker, RenderFails(t)
  PROVE  CTypeOK' /\ QueueIsSound' /\ ThreadsAreAwaited'
  <1> USE DEF CInv, RenderFails
  <1>1. CASE TaskEnds(t, "raised")
             /\ UNCHANGED <<rVars, queue, applying, booted, lease>>
    <2>1. CTypeOK'
      BY <1>1, BlankTypes DEF CTypeOK, TaskEnds, TaskSteps, dbVars
    <2>2. QueueIsSound'
      BY <1>1, SameQueue DEF TaskEnds, TaskSteps, Holding
    <2>3. ThreadsAreAwaited'
      BY <1>1 DEF ThreadsAreAwaited, CTypeOK, TaskEnds, rVars, threadVars
    <2> QED
      BY <2>1, <2>2, <2>3
  <1>2. CASE Stop(ProcOf[t]) /\ ProcessEnds(ProcOf[t]) /\ UNCHANGED lease
    BY <1>2, ProcessEndsKeeps, ConstantsOK DEF CTypeOK
  <1> QED
    BY <1>1, <1>2

LEMMA LeaveReconcileKeeps ==
  ASSUME CInv, NEW t \in Worker, tpc[t] \in Holding,
         NEW how \in {"applied", "raised"}, LeaveReconcile(t, how),
         booted' \in [Process -> BOOLEAN],
         lease' \in Process \cup {Free, Stale}
  PROVE  CTypeOK' /\ QueueIsSound'
  <1> USE DEF CInv
  <1>1. CTypeOK'
    BY HolderIsQueued, LeaveReconcileTypes
  <1>2. QueueIsSound'
    BY LeaveReconcileQueue
  <1> QED
    BY <1>1, <1>2

LEMMA LeaseRefusedKeeps ==
  ASSUME CInv, NEW t \in Worker, LeaseRefused(t)
  PROVE  CTypeOK' /\ QueueIsSound' /\ ThreadsAreAwaited'
  <1> USE DEF CInv, LeaseRefused
  <1>1. tpc[t] \in Holding /\ lease' \in Process \cup {Free, Stale}
    BY DEF Holding, TaskSteps, CTypeOK
  <1>2. CASE LeaveReconcile(t, "raised") /\ UNCHANGED <<rVars, booted>>
    <2>1. CTypeOK' /\ QueueIsSound'
      BY <1>1, <1>2, LeaveReconcileKeeps DEF CTypeOK
    <2>2. ThreadsAreAwaited'
      BY <1>2 DEF ThreadsAreAwaited, CTypeOK, LeaveReconcile, TaskEnds, rVars, threadVars
    <2> QED
      BY <2>1, <2>2
  <1>3. CASE Stop(ProcOf[t]) /\ ProcessEnds(ProcOf[t])
    BY <1>1, <1>3, ProcessEndsKeeps, ConstantsOK
  <1> QED
    BY <1>2, <1>3

LEMMA RunThreadKeeps ==
  ASSUME CInv, NEW t \in Worker, RunThread(t)
  PROVE  CTypeOK' /\ QueueIsSound' /\ ThreadsAreAwaited'
  <1> USE DEF CInv, RunThread, cVars, taskVars, dbVars
  <1>1. CTypeOK'
    BY DEF CTypeOK
  <1>2. QueueIsSound'
    BY DEF QueueIsSound
  <1>3. \A u \in Worker \ {t} : pc'[u] = pc[u]
    BY DEF ThreadStep, Begin, Stage, Install, Validate, ValidateFails, Activate,
       Publish, Reload, ReloaderFails, Rollback, Republish, Rereload,
       RollbackFails, WriteFails, RestoreFails, Goto, Finish, RInv, RTypeOK
  <1>4. ThreadsAreAwaited'
    BY <1>3 DEF ThreadsAreAwaited
  <1> QED
    BY <1>1, <1>2, <1>4

LEMMA PersistKeeps ==
  ASSUME CInv, NEW t \in Worker,
         PersistRecord(t) \/ PersistActivate(t) \/ PersistAttempt(t)
  PROVE  CTypeOK' /\ QueueIsSound' /\ ThreadsAreAwaited'
  <1> USE DEF CInv, PersistRecord, PersistActivate, PersistAttempt, Await
  <1>1. CTypeOK'
    <2>1. rendered[t] \in Generation
      BY DEF CTypeOK
    <2>2. tpc' \in [Worker -> TaskSteps]
      BY DEF CTypeOK, TaskSteps
    <2>3. attempt' \in [Worker -> BOOLEAN]
      BY DEF CTypeOK
    <2>4. /\ rows' \in [Generation -> {"absent", "active", "failed"}]
          /\ dbActive' \in SUBSET Generation
      BY <2>1 DEF CTypeOK, dbVars
    <2> QED
      BY <2>2, <2>3, <2>4 DEF CTypeOK
  <1>2. QueueIsSound'
    BY SameQueue DEF TaskSteps, Holding
  <1>3. ThreadsAreAwaited'
    BY DEF ThreadsAreAwaited, CTypeOK, rVars, threadVars
  <1> QED
    BY <1>1, <1>2, <1>3

LEMMA ReleaseLeaseKeeps ==
  ASSUME CInv, NEW t \in Worker, ReleaseLease(t)
  PROVE  CTypeOK' /\ QueueIsSound' /\ ThreadsAreAwaited'
  <1> USE DEF CInv, ReleaseLease
  <1>1. /\ tpc[t] \in Holding /\ lease' \in Process \cup {Free, Stale}
        /\ ProcOf[t] \in Process
    BY ConstantsOK DEF Holding, TaskSteps, CTypeOK
  <1>2. ASSUME NEW how \in {"applied", "raised"}, LeaveReconcile(t, how),
               booted' = [booted EXCEPT ![ProcOf[t]] = phase[ProcOf[t]] # "serving"],
               Collect(t)
        PROVE  CTypeOK' /\ QueueIsSound' /\ ThreadsAreAwaited'
    <2>1. booted' \in [Process -> BOOLEAN]
      BY <1>2 DEF CTypeOK
    <2>2. CTypeOK' /\ QueueIsSound'
      BY <1>1, <1>2, <2>1, LeaveReconcileKeeps
    <2>3. ThreadsAreAwaited'
      BY <1>2 DEF ThreadsAreAwaited, CTypeOK, LeaveReconcile, TaskEnds, Collect, Goto,
         RInv, RTypeOK
    <2> QED
      BY <2>2, <2>3
  <1>3. CASE Stop(ProcOf[t]) /\ ProcessEnds(ProcOf[t])
    BY <1>1, <1>3, ProcessEndsKeeps
  <1> QED
    BY <1>2, <1>3

LEMMA ProcessKeeps ==
  ASSUME CInv, NEW p \in Process, ProcessStep(p) \/ ProcessCrashes(p)
  PROVE  CTypeOK' /\ QueueIsSound' /\ ThreadsAreAwaited'
  <1> USE DEF CInv
  <1>1. CASE ProcessBoots(p) \/ NextPhase(p)
    <2> USE DEF ProcessBoots, NextPhase, Boot, StartNginx, Serve, cVars,
            taskVars, dbVars, threadVars
    <2>1. CTypeOK'
      BY <1>1 DEF CTypeOK
    <2>2. QueueIsSound' /\ ThreadsAreAwaited'
      BY <1>1 DEF QueueIsSound, ThreadsAreAwaited
    <2> QED
      BY <2>1, <2>2
  <1>2. CASE NginxCannotStart(p) \/ ProcessCrashes(p)
    <2>1. Stop(p) /\ ProcessEnds(p) /\ lease' \in Process \cup {Free, Stale}
      BY <1>2 DEF NginxCannotStart, ProcessCrashes, Crash, CTypeOK
    <2> QED
      BY <2>1, ProcessEndsKeeps
  <1> QED
    BY <1>1, <1>2 DEF ProcessStep

LEMMA LeaseExpiresKeeps ==
  ASSUME CInv, LeaseExpires \/ UNCHANGED vars
  PROVE  CTypeOK' /\ QueueIsSound' /\ ThreadsAreAwaited'
  <1> USE DEF CInv, LeaseExpires, vars, cVars, rVars, taskVars, dbVars,
          threadVars
  <1>1. CTypeOK'
    BY DEF CTypeOK
  <1>2. QueueIsSound' /\ ThreadsAreAwaited'
    BY DEF QueueIsSound, ThreadsAreAwaited
  <1> QED
    BY <1>1, <1>2

LEMMA InitCInv == Init => CInv
  <1> SUFFICES ASSUME Init PROVE CInv
    OBVIOUS
  <1>1. QueueIsSound /\ ThreadsAreAwaited
    BY DEF Init, RInit, QueueIsSound, ThreadsAreAwaited, Holding
  <1> QED
    BY <1>1, InitRInv, InitCTypeOK DEF Init, CInv

LEMMA StepCInv ==
  ASSUME CInv, [Next]_vars
  PROVE  CInv'
  <1>1. TypeOK
    BY DEF CInv, RInv, CTypeOK, TypeOK
  <1>2. RInv'
    BY <1>1, StepIsReconcilerStep, ReconcilerStepRInv DEF CInv
  <1>3. CTypeOK' /\ QueueIsSound' /\ ThreadsAreAwaited'
    <2>1. CASE \E t \in Worker : \/ \E i \in Part : Commit(t, i)
                                 \/ Reconcile(t) \/ BootReconcile(t)
      BY <2>1, StartsKeep
    <2>2. CASE \E t \in Worker : TaskStep(t)
      BY <2>2, ReadPartKeeps, RenderFailsKeeps, TakeLockKeeps, AcquireLeaseKeeps,
         LeaseRefusedKeeps, RunThreadKeeps, PersistKeeps, ReleaseLeaseKeeps
         DEF TaskStep
    <2>3. CASE \E p \in Process : ProcessStep(p) \/ ProcessCrashes(p)
      BY <2>3, ProcessKeeps
    <2>4. CASE LeaseExpires \/ UNCHANGED vars
      BY <2>4, LeaseExpiresKeeps
    <2> QED
      BY <2>1, <2>2, <2>3, <2>4 DEF Next
  <1> QED
    BY <1>2, <1>3 DEF CInv

LEMMA CInvInvariant == Spec => []CInv
  <1>1. CInv /\ [Next]_vars => CInv'
    BY StepCInv
  <1> QED
    BY <1>1, InitCInv, PTL DEF Spec

\* Every variable of the controller keeps its type.
THEOREM ControllerTypeCorrect == Spec => []TypeOK
  <1>1. CInv => TypeOK
    BY DEF CInv, RInv, CTypeOK, TypeOK
  <1> QED
    BY <1>1, CInvInvariant, PTL

\* Under the controller, too, only what passed `nginx -t` is in force.
THEOREM ControllerServesValidated == Spec => []OnlyValidatedIsServed
  <1>1. CInv => OnlyValidatedIsServed
    BY DEF CInv, RInv
  <1> QED
    BY <1>1, CInvInvariant, PTL

-----------------------------------------------------------------------------
(***************************************************************************)
(* The lease.  QueueIsSound makes the tasks of one process exclude each    *)
(* other; between processes it is the lease row, provided that it does not *)
(* expire under a reconciliation that is still running.                    *)
(***************************************************************************)
LeaseIsSound ==
    \A t \in Worker : tpc[t] \in Leased => lease = ProcOf[t]

LEMMA StepLeaseIsSound ==
  ASSUME ~SlowHolders, CInv, LeaseIsSound, [Next]_vars
  PROVE  LeaseIsSound'
  <1> USE DEF LeaseIsSound
  <1>1. /\ tpc \in [Worker -> TaskSteps] /\ ProcOf \in [Worker -> Process]
        /\ Free \notin Process /\ Stale \notin Process
    BY ConstantsOK, ControllerConstantsOK DEF CInv, CTypeOK
  <1>2. ASSUME NEW t \in Worker, \/ \E i \in Part : Commit(t, i)
                                \/ Reconcile(t) \/ BootReconcile(t)
        PROVE  LeaseIsSound'
    <2>1. tpc' = [tpc EXCEPT ![t] = "render"] /\ UNCHANGED lease
      BY <1>2 DEF Commit, Reconcile, BootReconcile, Start, Await
    <2> QED
      BY <1>1, <2>1 DEF Leased, Holding
  <1>3. ASSUME NEW t \in Worker, ReadPart(t) \/ TakeLock(t) \/ RunThread(t)
                                \/ PersistRecord(t) \/ PersistActivate(t)
                                \/ PersistAttempt(t)
        PROVE  LeaseIsSound'
    BY <1>1, <1>3
    DEF ReadPart, TakeLock, RunThread, PersistRecord, PersistActivate,
        PersistAttempt, Await, cVars, taskVars, Leased, Holding, TaskSteps
  <1>4. ASSUME NEW t \in Worker, AcquireLease(t)
        PROVE  LeaseIsSound'
    <2>1. \A u \in Worker : tpc[u] \in Leased => ProcOf[u] = ProcOf[t]
      BY <1>1, <1>4 DEF AcquireLease
    <2> QED
      BY <1>1, <1>4, <2>1 DEF AcquireLease, Await
  <1>5. ASSUME NEW p \in Process, ProcessEnds(p), UNCHANGED lease
        PROVE  LeaseIsSound'
    BY <1>1, <1>5 DEF ProcessEnds, TaskForgets, Leased, Holding
  <1>5a. ASSUME NEW t \in Worker, RenderFails(t)
         PROVE  LeaseIsSound'
    <2>1. CASE TaskEnds(t, "raised") /\ UNCHANGED lease
      BY <1>1, <2>1 DEF TaskEnds, Leased, Holding
    <2>2. CASE ProcessEnds(ProcOf[t]) /\ UNCHANGED lease
      BY <1>1, <1>5, <2>2
    <2> QED
      BY <1>5a, <2>1, <2>2 DEF RenderFails
  <1>6. ASSUME NEW t \in Worker, LeaseRefused(t)
        PROVE  LeaseIsSound'
    <2>1. CASE LeaveReconcile(t, "raised")
      BY <1>1, <1>6, <2>1 DEF LeaseRefused, LeaveReconcile, TaskEnds, Leased, Holding
    <2>2. CASE ProcessEnds(ProcOf[t])
      BY <1>1, <1>5, <1>6, <2>2 DEF LeaseRefused
    <2> QED
      BY <1>6, <2>1, <2>2 DEF LeaseRefused
  <1>7. ASSUME NEW t \in Worker, ReleaseLease(t)
        PROVE  LeaseIsSound'
    <2>1. \A u \in Worker \ {t} : tpc[u] \in Leased => ProcOf[u] # ProcOf[t]
      BY <1>7, OneHolder DEF ReleaseLease, CInv, Leased, Holding, TaskSteps
    <2>2. lease = ProcOf[t]
      BY <1>1, <1>7 DEF ReleaseLease, Leased, Holding, TaskSteps
    <2>3. \A u \in Worker \ {t} : tpc[u] \notin Leased
      BY <1>1, <2>1, <2>2
    <2>4. CASE tpc' = [tpc EXCEPT ![t] = "idle"]
      BY <1>1, <2>3, <2>4 DEF Leased, Holding
    <2>5. CASE tpc' = TaskForgets(ProcOf[t], tpc, "idle")
      BY <1>1, <2>3, <2>5 DEF TaskForgets, Leased, Holding
    <2> QED
      BY <1>7, <2>4, <2>5 DEF ReleaseLease, LeaveReconcile, TaskEnds, ProcessEnds
  <1>8. ASSUME NEW p \in Process, ProcessStep(p)
        PROVE  LeaseIsSound'
    <2>1. CASE ProcessBoots(p) \/ NextPhase(p)
      BY <2>1 DEF ProcessBoots, NextPhase, cVars, taskVars
    <2>2. CASE NginxCannotStart(p)
      BY <1>5, <2>2 DEF NginxCannotStart
    <2> QED
      BY <1>8, <2>1, <2>2 DEF ProcessStep
  <1>9. ASSUME NEW p \in Process, ProcessCrashes(p)
        PROVE  LeaseIsSound'
    BY <1>1, <1>9
    DEF ProcessCrashes, ProcessEnds, TaskForgets, Leased, Holding
  <1>10. CASE LeaseExpires
    BY <1>1, <1>10 DEF LeaseExpires, taskVars
  <1>11. CASE UNCHANGED vars
    BY <1>11 DEF vars, cVars, taskVars
  <1> QED
    BY <1>2, <1>3, <1>4, <1>6, <1>7, <1>8, <1>9, <1>10, <1>11, <1>5a
    DEF Next, TaskStep

LEMMA LeaseIsSoundInvariant ==
  ASSUME ~SlowHolders
  PROVE  Spec => [](CInv /\ LeaseIsSound)
  <1>1. Init => LeaseIsSound
    BY DEF Init, LeaseIsSound, Leased, Holding
  <1>2. CInv /\ LeaseIsSound /\ [Next]_vars => LeaseIsSound'
    BY StepLeaseIsSound
  <1> QED
    BY <1>1, <1>2, CInvInvariant, PTL DEF Spec

-----------------------------------------------------------------------------
(***************************************************************************)
(* A task and its thread.  A thread belongs to a task that has acquired    *)
(* the lease; it works on what the task has rendered, its result waits     *)
(* until the task has recorded it, and neither survives its process.       *)
(***************************************************************************)
TaskAndThread ==
    \A t \in Worker :
        /\ tpc[t] # "idle" => phase[ProcOf[t]] # "down"
        /\ tpc[t] \notin Leased => pc[t] = "idle"
        /\ tpc[t] \in {"activate", "attempt", "release"} => pc[t] = "done"
        /\ tpc[t] = "activate" => Succeeded(t)
        /\ outcome[t] # "none" <=> pc[t] = "done"
        /\ pc[t] # "idle" => files[t] = rendered[t]

\* A process that is booting has one task, and none once it has succeeded.
BootsAlone ==
    /\ \A t, u \in Worker :
          (/\ ProcOf[t] = ProcOf[u] /\ phase[ProcOf[t]] # "serving"
           /\ tpc[t] # "idle" /\ tpc[u] # "idle") => t = u
    /\ \A p \in Process : booted[p] =>
          phase[p] \in {"preparing", "starting"} /\ TasksIdle(p)

\* What the steps of the thread leave to the coroutine.
LEMMA ThreadStepFrame ==
  ASSUME RInv, NEW w \in Worker, ThreadStep(w)
  PROVE  /\ UNCHANGED <<phase, files, crashes>>
         /\ abandoned \subseteq abandoned'
         /\ pc[w] \notin {"idle", "done"} /\ pc'[w] # "idle"
         /\ \A u \in Worker \ {w} : /\ pc'[u] = pc[u]
                                    /\ outcome'[u] = outcome[u]
                                    /\ previous'[u] = previous[u]
         /\ outcome[w] = "none" =>
               (outcome'[w] # "none" <=> pc'[w] = "done")
  <1> USE DEF RInv, RTypeOK, Goto, Finish
  <1>1. CASE Begin(w)
    BY <1>1 DEF Begin, history
  <1>2. CASE Stage(w) \/ Install(w) \/ Validate(w) \/ ValidateFails(w)
             \/ WriteFails(w)
    BY <1>2
    DEF Stage, Install, Validate, ValidateFails, WriteFails, diskVars, history
  <1>3. CASE Activate(w) \/ Publish(w) \/ Reload(w) \/ ReloaderFails(w)
    BY <1>3 DEF Activate, Publish, Reload, ReloaderFails, diskVars, history
  <1>4. CASE Rollback(w) \/ Republish(w) \/ Rereload(w) \/ RollbackFails(w)
             \/ RestoreFails(w)
    BY <1>4
    DEF Rollback, Republish, Rereload, RollbackFails, RestoreFails, diskVars,
        history
  <1> QED
    BY <1>1, <1>2, <1>3, <1>4 DEF ThreadStep

LEMMA EndCoupled ==
  ASSUME CInv, TaskAndThread, BootsAlone, NEW p \in Process, Stop(p),
         ProcessEnds(p)
  PROVE  TaskAndThread' /\ BootsAlone'
  <1> USE ConstantsOK DEF CInv, CTypeOK, RInv, RTypeOK
  <1>1. /\ \A t \in Worker : ProcOf[t] = p =>
              /\ tpc'[t] = "idle" /\ pc'[t] = "idle" /\ outcome'[t] = "none"
        /\ \A t \in Worker : ProcOf[t] # p =>
              /\ tpc'[t] = tpc[t] /\ pc'[t] = pc[t] /\ outcome'[t] = outcome[t]
              /\ files'[t] = files[t] /\ rendered'[t] = rendered[t]
        /\ phase'[p] = "down" /\ booted'[p] = FALSE
        /\ \A q \in Process \ {p} : phase'[q] = phase[q] /\ booted'[q] = booted[q]
    BY DEF Stop, Forget, ProcessEnds, TaskForgets
  <1>2. TaskAndThread'
    <2> SUFFICES ASSUME NEW t \in Worker
                 PROVE  /\ tpc'[t] # "idle" => phase'[ProcOf[t]] # "down"
                        /\ tpc'[t] \notin Leased => pc'[t] = "idle"
                        /\ tpc'[t] \in {"activate", "attempt", "release"} => pc'[t] = "done"
                        /\ tpc'[t] = "activate" => Succeeded(t)'
                        /\ outcome'[t] # "none" <=> pc'[t] = "done"
                        /\ pc'[t] # "idle" => files'[t] = rendered'[t]
      BY DEF TaskAndThread
    <2>1. CASE ProcOf[t] = p
      BY <1>1, <2>1
    <2>2. CASE ProcOf[t] # p
      BY <1>1, <2>2 DEF TaskAndThread, Succeeded
    <2> QED
      BY <2>1, <2>2
  <1>3. BootsAlone'
    BY <1>1 DEF BootsAlone, TasksIdle
  <1> QED
    BY <1>2, <1>3

LEMMA StartsCoupled ==
  ASSUME CInv, TaskAndThread, BootsAlone, NEW t \in Worker,
         \/ \E i \in Part : Commit(t, i)
         \/ Reconcile(t)
         \/ BootReconcile(t)
  PROVE  TaskAndThread' /\ BootsAlone'
  <1> USE ConstantsOK DEF CInv, CTypeOK, RInv, RTypeOK
  <1>1. /\ tpc[t] = "idle" /\ tpc' = [tpc EXCEPT ![t] = "render"]
        /\ UNCHANGED <<phase, pc, outcome, files, rendered, booted>>
        /\ \/ phase[ProcOf[t]] = "serving"
           \/ /\ phase[ProcOf[t]] \in {"preparing", "starting"}
              /\ ~booted[ProcOf[t]] /\ TasksIdle(ProcOf[t])
    BY DEF Commit, Reconcile, BootReconcile, Start, Await, rVars, threadVars
  <1>2. TaskAndThread'
    BY <1>1 DEF TaskAndThread, Succeeded, Leased, Holding
  <1>3. BootsAlone'
    BY <1>1 DEF BootsAlone, TasksIdle
  <1> QED
    BY <1>2, <1>3

\* A task that is under way keeps its process booting.
LEMMA SameBoots ==
  ASSUME BootsAlone, NEW t \in Worker, tpc[t] # "idle",
         UNCHANGED <<phase, booted>>,
         \A u \in Worker \ {t} : tpc'[u] = tpc[u]
  PROVE  BootsAlone'
  <1>1. \A u \in Worker : tpc'[u] # "idle" => tpc[u] # "idle"
    OBVIOUS
  <1>2. \A p \in Process : TasksIdle(p) => TasksIdle(p)'
    BY <1>1 DEF TasksIdle
  <1> QED
    BY <1>1, <1>2 DEF BootsAlone

\* Steps of a task that is under way and stays so.
LEMMA MovesCoupled ==
  ASSUME CInv, TaskAndThread, BootsAlone, NEW t \in Worker,
         \/ ReadPart(t) \/ TakeLock(t) \/ AcquireLease(t) \/ RunThread(t)
         \/ PersistRecord(t) \/ PersistActivate(t) \/ PersistAttempt(t)
  PROVE  TaskAndThread' /\ BootsAlone'
  <1> USE ConstantsOK DEF CInv, CTypeOK, RInv, RTypeOK, Await
  <1>1. CASE ReadPart(t) \/ TakeLock(t)
    <2>1. /\ tpc[t] \notin Leased /\ tpc'[t] \notin Leased /\ tpc[t] # "idle"
          /\ UNCHANGED <<phase, pc, outcome, files, booted>>
          /\ \A u \in Worker \ {t} : tpc'[u] = tpc[u] /\ rendered'[u] = rendered[u]
      BY <1>1 DEF ReadPart, TakeLock, rVars, threadVars, Leased, Holding
    <2>2. tpc'[t] # "idle" /\ tpc'[t] # "activate"
          /\ tpc'[t] \notin {"activate", "attempt", "release"}
      BY <1>1 DEF ReadPart, TakeLock
    <2>3. TaskAndThread'
      BY <2>1, <2>2 DEF TaskAndThread, Succeeded
    <2>4. BootsAlone'
      BY <2>1, SameBoots
    <2> QED
      BY <2>3, <2>4
  <1>2. CASE AcquireLease(t)
    <2>1. /\ tpc[t] = "lease" /\ tpc' = [tpc EXCEPT ![t] = "thread"]
          /\ pc[t] = "idle" /\ pc' = [pc EXCEPT ![t] = "begin"]
          /\ files' = [files EXCEPT ![t] = rendered[t]]
          /\ UNCHANGED <<phase, outcome, rendered, booted>>
      BY <1>2 DEF AcquireLease, StartThread
    <2>2. TaskAndThread'
      BY <2>1 DEF TaskAndThread, Succeeded, Leased, Holding, TaskSteps, Maybe
    <2>3. BootsAlone'
      BY <2>1, SameBoots
    <2> QED
      BY <2>2, <2>3
  <1>3. CASE RunThread(t)
    <2>1. /\ tpc[t] = "thread" /\ UNCHANGED <<tpc, rendered, booted, phase, files>>
          /\ pc[t] # "done" /\ pc'[t] # "idle" /\ pc[t] # "idle"
          /\ outcome[t] = "none" =>
                (outcome'[t] # "none" <=> pc'[t] = "done")
          /\ \A u \in Worker \ {t} : pc'[u] = pc[u] /\ outcome'[u] = outcome[u]
      BY <1>3, ThreadStepFrame DEF RunThread, cVars, taskVars
    <2>2. TaskAndThread'
      BY <2>1 DEF TaskAndThread, Succeeded, Leased, Holding, TaskSteps
    <2>3. BootsAlone'
      BY <2>1, SameBoots
    <2> QED
      BY <2>2, <2>3
  <1>4. CASE PersistRecord(t) \/ PersistActivate(t) \/ PersistAttempt(t)
    <2>1. /\ tpc[t] \in Leased /\ tpc'[t] \in {"activate", "attempt", "release"}
          /\ tpc'[t] = "activate" => Succeeded(t)
          /\ pc[t] = "done"
          /\ UNCHANGED <<phase, pc, outcome, files, rendered, booted>>
          /\ \A u \in Worker \ {t} : tpc'[u] = tpc[u]
      BY <1>4 DEF PersistRecord, PersistActivate, PersistAttempt, Leased,
         Holding, TaskSteps, rVars, threadVars, TaskAndThread
    <2>2. tpc'[t] \in Leased /\ tpc'[t] # "idle" /\ tpc[t] # "idle"
      BY <2>1 DEF Leased, Holding, TaskSteps
    <2>3. TaskAndThread'
      BY <2>1, <2>2 DEF TaskAndThread, Succeeded
    <2>4. BootsAlone'
      BY <2>1, <2>2, SameBoots
    <2> QED
      BY <2>3, <2>4
  <1> QED
    BY <1>1, <1>2, <1>3, <1>4

LEMMA LeavesCoupled ==
  ASSUME CInv, TaskAndThread, BootsAlone, NEW t \in Worker,
         RenderFails(t) \/ LeaseRefused(t) \/ ReleaseLease(t)
  PROVE  TaskAndThread' /\ BootsAlone'
  <1> USE ConstantsOK DEF CInv, CTypeOK, RInv, RTypeOK
  <1>1. CASE Stop(ProcOf[t]) /\ ProcessEnds(ProcOf[t])
    BY <1>1, EndCoupled
  <1>2. CASE (RenderFails(t) \/ LeaseRefused(t)) /\ TaskEnds(t, "raised")
             /\ UNCHANGED <<rVars, booted>>
    <2>1. /\ tpc[t] \in {"render", "lease"} /\ tpc' = [tpc EXCEPT ![t] = "idle"]
          /\ UNCHANGED <<phase, pc, outcome, files, booted>>
          /\ \A u \in Worker \ {t} : rendered'[u] = rendered[u]
      BY <1>2 DEF RenderFails, LeaseRefused, TaskEnds, rVars, threadVars
    <2>2. pc[t] = "idle"
      BY <2>1 DEF TaskAndThread, Leased, Holding
    <2>3. TaskAndThread'
      BY <2>1, <2>2 DEF TaskAndThread, Succeeded, Leased, Holding
    <2>4. BootsAlone'
      BY <2>1 DEF BootsAlone, TasksIdle
    <2> QED
      BY <2>3, <2>4
  <1>3. CASE /\ ReleaseLease(t) /\ Collect(t)
             /\ booted' = [booted EXCEPT ![ProcOf[t]] =
                              phase[ProcOf[t]] # "serving"]
             /\ \E how \in {"applied", "raised"} : LeaveReconcile(t, how)
    <2>1. /\ tpc[t] = "release" /\ tpc' = [tpc EXCEPT ![t] = "idle"]
          /\ pc' = [pc EXCEPT ![t] = "idle"]
          /\ outcome' = [outcome EXCEPT ![t] = "none"]
          /\ UNCHANGED phase
          /\ \A u \in Worker \ {t} : rendered'[u] = rendered[u] /\ files'[u] = files[u]
      BY <1>3 DEF ReleaseLease, LeaveReconcile, TaskEnds, Collect, Goto
    <2>2. TaskAndThread'
      BY <2>1 DEF TaskAndThread, Succeeded, Leased, Holding
    <2>3. phase[ProcOf[t]] # "down"
      BY <2>1 DEF TaskAndThread
    <2>4. BootsAlone'
      BY <1>3, <2>1, <2>3 DEF BootsAlone, TasksIdle, Phases
    <2> QED
      BY <2>2, <2>4
  <1> QED
    BY <1>1, <1>2, <1>3
    DEF RenderFails, LeaseRefused, ReleaseLease, LeaveReconcile

LEMMA ProcessCoupled ==
  ASSUME CInv, TaskAndThread, BootsAlone,
         \/ \E p \in Process : ProcessStep(p) \/ ProcessCrashes(p)
         \/ LeaseExpires
         \/ UNCHANGED vars
  PROVE  TaskAndThread' /\ BootsAlone'
  <1> USE ConstantsOK
      DEF CInv, CTypeOK, RInv, RTypeOK, rVars, cVars, taskVars, threadVars
  <1>1. ASSUME NEW p \in Process, ProcessBoots(p) \/ NextPhase(p)
        PROVE  TaskAndThread' /\ BootsAlone'
    <2>1. /\ UNCHANGED <<tpc, pc, outcome, files, rendered>>
          /\ \A q \in Process \ {p} : phase'[q] = phase[q] /\ booted'[q] = booted[q]
          /\ phase'[p] # "down" /\ TasksIdle(p) /\ booted'[p] = FALSE
      BY <1>1 DEF ProcessBoots, NextPhase, Boot, StartNginx, Serve, BootsAlone,
         TasksIdle, TaskAndThread
    <2>2. TaskAndThread'
      BY <2>1 DEF TaskAndThread, Succeeded
    <2>3. \A q \in Process : TasksIdle(q)' <=> TasksIdle(q)
      BY <2>1 DEF TasksIdle
    <2>4. ASSUME NEW q \in Process, booted'[q]
          PROVE  phase'[q] \in {"preparing", "starting"} /\ TasksIdle(q)'
      BY <2>1, <2>3, <2>4 DEF BootsAlone
    <2>5. ASSUME NEW t \in Worker, NEW u \in Worker, ProcOf[t] = ProcOf[u],
                 phase'[ProcOf[t]] # "serving", tpc'[t] # "idle",
                 tpc'[u] # "idle"
          PROVE  t = u
      <3>1. ProcOf[t] # p /\ ProcOf[t] \in Process
        BY <2>1, <2>5 DEF TasksIdle
      <3> QED
        BY <2>1, <2>5, <3>1 DEF BootsAlone
    <2>6. BootsAlone'
      BY <2>4, <2>5 DEF BootsAlone
    <2> QED
      BY <2>2, <2>6
  <1>2. ASSUME NEW p \in Process, NginxCannotStart(p) \/ ProcessCrashes(p)
        PROVE  TaskAndThread' /\ BootsAlone'
    BY <1>2, EndCoupled DEF NginxCannotStart, ProcessCrashes, Crash
  <1>3. CASE LeaseExpires \/ UNCHANGED vars
    BY <1>3 DEF LeaseExpires, vars, TaskAndThread, Succeeded, BootsAlone,
       TasksIdle
  <1> QED
    BY <1>1, <1>2, <1>3 DEF ProcessStep

LEMMA CoupledInvariant == Spec => [](CInv /\ TaskAndThread /\ BootsAlone)
  <1>1. Init => TaskAndThread /\ BootsAlone
    BY DEF Init, RInit, TaskAndThread, BootsAlone, Leased, Holding
  <1>2. CInv /\ TaskAndThread /\ BootsAlone /\ [Next]_vars
          => TaskAndThread' /\ BootsAlone'
    BY StartsCoupled, MovesCoupled, LeavesCoupled, ProcessCoupled
    DEF Next, TaskStep
  <1> QED
    BY <1>1, <1>2, CInvInvariant, PTL DEF Spec

-----------------------------------------------------------------------------
(***************************************************************************)
(* What Nginx runs, under the controller.  A process also goes down        *)
(* without crashing, when its boot reconciliation is refused or fails; no  *)
(* thread of it is inside the lock then.                                   *)
(***************************************************************************)

\* The process of a task that is not awaiting its thread has no other thread.
LEMMA HolderIsAlone ==
  ASSUME CInv, NEW t \in Worker, tpc[t] \in Holding \ {"thread"}
  PROVE  \A u \in Worker : ProcOf[u] = ProcOf[t] => pc[u] \notin Critical
  <1> SUFFICES ASSUME NEW u \in Worker, ProcOf[u] = ProcOf[t],
                      pc[u] \in Critical
               PROVE  FALSE
    OBVIOUS
  <1>1. tpc[u] = "thread"
    BY DEF CInv, ThreadsAreAwaited, Critical
  <1>2. u = t
    BY <1>1, OneHolder DEF CInv, Holding, TaskSteps
  <1> QED
    BY <1>1, <1>2

LEMMA StepFollows ==
  ASSUME \A p, q \in Process : p = q, MaxFaults \leq 1, CInv, CInv',
         TaskAndThread, BootsAlone, MoveKnown, UndoKnown, ThreadsNeedProcess,
         NginxFollows, [Next]_vars
  PROVE  MoveKnown' /\ UndoKnown' /\ ThreadsNeedProcess' /\ NginxFollows'
  <1>0. /\ RInv /\ RInv' /\ Exclusive
        /\ rendered \in [Worker -> Generation] /\ ProcOf \in [Worker -> Process]
    BY OneLockExcludes, ConstantsOK DEF CInv, CTypeOK
  <1>1. Exclusive'
    BY <1>0, ConstantsOK DEF RInv, RTypeOK, LockOwnedInside, Exclusive
  <1>2. CASE \E t \in Worker : AcquireLease(t)
    <2>1. PICK t \in Worker : AcquireLease(t)
      BY <1>2
    <2>2. phase[ProcOf[t]] # "down" /\ StartThread(t, rendered[t])
      BY <2>1 DEF AcquireLease, Await, TaskAndThread
    <2> QED
      BY <1>0, <1>1, <2>2, QuietStepMoves, QuietStepUndo, StartThreadFollows,
         ThreadsNeedProcessKept
  <1>3. CASE \E t \in Worker : ThreadStep(t)
    BY <1>0, <1>1, <1>3, ThreadStepMoves, ThreadStepUndo, ThreadStepFollows,
       ThreadsNeedProcessKept
  <1>4. CASE \E t \in Worker : Collect(t)
    BY <1>0, <1>1, <1>4, QuietStepMoves, QuietStepUndo, CollectFollows,
       ThreadsNeedProcessKept
  <1>5. CASE \E p \in Process : Boot(p) \/ StartNginx(p) \/ Serve(p)
    BY <1>0, <1>1, <1>5, QuietStepMoves, QuietStepUndo, PhaseFollows,
       ThreadsNeedProcessKept
  <1>6. CASE \E p \in Process : Crash(p)
    <2>1. \E p \in Process : Stop(p)
      BY <1>6 DEF Crash
    <2> QED
      BY <1>0, <1>1, <1>6, <2>1, StopMoves, QuietStepUndo, CrashFollows,
         ThreadsNeedProcessKept
  <1>7. CASE \E p \in Process :
                /\ Stop(p) /\ crashes' = crashes
                /\ \A w \in Worker : ProcOf[w] = p => pc[w] \notin Critical
    BY <1>0, <1>1, <1>7, StopMoves, QuietStepUndo, StopFollows,
       ThreadsNeedProcessKept
  <1>8. CASE UNCHANGED rVars
    BY <1>0, <1>1, <1>8, StutterMoves, QuietStepUndo, StutterFollows,
       ThreadsNeedProcessKept
  <1>9. ASSUME NEW t \in Worker, LeaseRefused(t)
        PROVE  \/ UNCHANGED rVars
               \/ /\ Stop(ProcOf[t]) /\ crashes' = crashes
                  /\ \A w \in Worker : ProcOf[w] = ProcOf[t] => pc[w] \notin Critical
    BY <1>9, HolderIsAlone DEF LeaseRefused, Holding, TaskSteps
  <1>10. ASSUME NEW t \in Worker, ReleaseLease(t)
         PROVE  \/ Collect(t)
                \/ /\ Stop(ProcOf[t]) /\ crashes' = crashes
                   /\ \A w \in Worker : ProcOf[w] = ProcOf[t] => pc[w] \notin Critical
    BY <1>10, HolderIsAlone DEF ReleaseLease, Holding, TaskSteps
  <1>11. ASSUME NEW p \in Process, NginxCannotStart(p)
         PROVE  /\ Stop(p) /\ crashes' = crashes
                /\ \A w \in Worker : ProcOf[w] = p => pc[w] \notin Critical
    <2>1. \A w \in Worker : ProcOf[w] = p => pc[w] = "idle"
      BY <1>11 DEF NginxCannotStart, BootsAlone, TasksIdle, TaskAndThread,
         Leased, Holding
    <2> QED
      BY <1>11, <2>1 DEF NginxCannotStart, Critical
  <1>11a. ASSUME NEW t \in Worker, RenderFails(t)
         PROVE  \/ UNCHANGED rVars
                \/ /\ Stop(ProcOf[t]) /\ crashes' = crashes
                   /\ \A w \in Worker : ProcOf[w] = ProcOf[t] => pc[w] \notin Critical
    <2>1. CASE phase[ProcOf[t]] = "serving"
      BY <1>11a, <2>1 DEF RenderFails
    <2>2. CASE phase[ProcOf[t]] # "serving"
      <3>1. \A w \in Worker : ProcOf[w] = ProcOf[t] => tpc[w] \notin Leased
        BY <1>11a, <2>2 DEF RenderFails, BootsAlone, Leased, Holding
      <3>2. \A w \in Worker : ProcOf[w] = ProcOf[t] => pc[w] \notin Critical
        BY <3>1 DEF TaskAndThread, Critical
      <3> QED
        BY <1>11a, <2>2, <3>2 DEF RenderFails
    <2> QED
      BY <2>1, <2>2
  <1>12. CASE \E t \in Worker : TaskStep(t)
    <2>1. PICK t \in Worker : TaskStep(t)
      BY <1>12
    <2>2. CASE ReadPart(t) \/ TakeLock(t) \/ PersistRecord(t)
               \/ PersistActivate(t) \/ PersistAttempt(t)
      BY <1>8, <2>2 DEF ReadPart, TakeLock, PersistRecord, PersistActivate,
         PersistAttempt
    <2>3. CASE AcquireLease(t)
      BY <1>2, <2>3
    <2>4. CASE LeaseRefused(t)
      BY <1>0, <1>7, <1>8, <1>9, <2>4
    <2>5. CASE RunThread(t)
      BY <1>3, <2>5 DEF RunThread
    <2>6. CASE ReleaseLease(t)
      BY <1>0, <1>4, <1>7, <1>10, <2>6
    <2>7. CASE RenderFails(t)
      BY <1>0, <1>7, <1>8, <1>11a, <2>7
    <2> QED
      BY <2>1, <2>2, <2>3, <2>4, <2>5, <2>6, <2>7 DEF TaskStep
  <1>13. CASE \E p \in Process : ProcessStep(p) \/ ProcessCrashes(p)
    BY <1>5, <1>6, <1>7, <1>11, <1>13
    DEF ProcessStep, ProcessBoots, NextPhase, ProcessCrashes
  <1>14. CASE \E t \in Worker : \/ \E i \in Part : Commit(t, i)
                                \/ Reconcile(t) \/ BootReconcile(t)
    BY <1>8, <1>14 DEF Commit, Reconcile, BootReconcile
  <1>15. CASE LeaseExpires \/ UNCHANGED vars
    BY <1>8, <1>15 DEF LeaseExpires, vars
  <1> QED
    BY <1>12, <1>13, <1>14, <1>15 DEF Next

\* With one control plane, whatever single command or publication fails: as
\* long as it has not crashed, whenever none of its reconciliations is under
\* way, what ACTIVE names is what `current` links and what Nginx runs, also
\* after a boot that failed or was refused the lease.
THEOREM ControllerServesSettled ==
  ASSUME \A p, q \in Process : p = q, MaxFaults \leq 1
  PROVE  Spec => []SettledServesActive
  <1> DEFINE C == CInv /\ TaskAndThread /\ BootsAlone
             I == MoveKnown /\ UndoKnown /\ ThreadsNeedProcess /\ NginxFollows
  <1>1. C /\ C' /\ I /\ [Next]_vars => I'
    BY StepFollows
  <1>2. Init => I
    BY InitMoves, InitFollows DEF Init
  <1>3. I => SettledServesActive
    BY NginxFollowsServes
  <1>4. Spec => []C
    BY CoupledInvariant
  <1> HIDE DEF C, I
  <1> QED
    BY <1>1, <1>2, <1>3, <1>4, PTL DEF Spec

-----------------------------------------------------------------------------
(***************************************************************************)
(* A task's own write.  Versions only grow, so what render() reads of a    *)
(* part after the commit contains it, however the reads interleave with    *)
(* other commits.                                                          *)
(***************************************************************************)
OwnWriteIsRead ==
    \A t \in Worker :
        LET i == wrote[t].part
            v == wrote[t].version
        IN  /\ tpc[t] = "idle" => reading[t] = 1
            /\ tpc[t] # "idle" => v \leq desired[i]
            /\ \/ tpc[t] = "render" /\ i < reading[t]
               \/ tpc[t] \in Holding \cup {"lock"}
               => v \leq rendered[t][i]

\* The counts that the inequalities are about are natural numbers.
LEMMA CountsAreNat ==
  ASSUME CInv
  PROVE  /\ \A t \in Worker : /\ wrote[t].part \in Part
                              /\ wrote[t].version \in Nat
                              /\ reading[t] \in Nat
                              /\ \A i \in Part : rendered[t][i] \in Nat
         /\ \A i \in Part : desired[i] \in Nat
         /\ \A i \in Part : i \in Nat /\ 1 \leq i /\ i \leq NParts
         /\ NParts \in Nat \ {0} /\ 1 \in Part
  BY ControllerConstantsOK DEF CInv, CTypeOK, Part, Version

\* Steps of one task, with the tables as they are.
LEMMA SameOwnWrite ==
  ASSUME CInv, OwnWriteIsRead, UNCHANGED <<desired, wrote>>, NEW t \in Worker,
         \A u \in Worker \ {t} : /\ tpc'[u] = tpc[u]
                                 /\ reading'[u] = reading[u]
                                 /\ rendered'[u] = rendered[u],
         tpc[t] \in Holding \cup {"lock"}, tpc'[t] \in Holding,
         rendered'[t] = rendered[t]
  PROVE  OwnWriteIsRead'
  BY DEF OwnWriteIsRead, Holding, TaskSteps

\* A task that is over, or never was, has written nothing.
LEMMA EndOwnWrite ==
  ASSUME CInv, OwnWriteIsRead, UNCHANGED desired, NEW S \in SUBSET Worker,
         \A u \in Worker \ S : /\ tpc'[u] = tpc[u]
                               /\ reading'[u] = reading[u]
                               /\ rendered'[u] = rendered[u]
                               /\ wrote'[u] = wrote[u],
         \A u \in S : tpc'[u] = "idle" /\ reading'[u] = 1
  PROVE  OwnWriteIsRead'
  BY DEF OwnWriteIsRead, Holding

LEMMA ReadPartOwnWrite ==
  ASSUME CInv, OwnWriteIsRead, NEW t \in Worker, ReadPart(t)
  PROVE  OwnWriteIsRead'
  <1> USE CountsAreNat
  <1>1. PICK i \in Nat : i = reading[t]
    OBVIOUS
  <1>2. PICK w \in Part : w = wrote[t].part
    OBVIOUS
  <1>3. /\ UNCHANGED <<desired, wrote>>
        /\ tpc[t] = "render" /\ reading'[t] = i + 1
        /\ \/ i < NParts /\ tpc'[t] = "render"
           \/ i = NParts /\ tpc'[t] = "lock"
        /\ \A u \in Worker \ {t} : /\ tpc'[u] = tpc[u]
                                   /\ reading'[u] = reading[u]
                                   /\ rendered'[u] = rendered[u]
    BY <1>1 DEF ReadPart, CInv, CTypeOK
  <1>4. i \in Part
    BY <1>1, <1>3, ControllerConstantsOK DEF CInv, CTypeOK, Part
  <1>5. rendered'[t] = [rendered[t] EXCEPT ![i] = desired[i]]
    BY <1>1 DEF ReadPart, Seen, CInv, CTypeOK
  <1>6. rendered[t] \in [Part -> Version]
    BY ControllerConstantsOK DEF CInv, CTypeOK
  <1>7. /\ rendered'[t][i] = desired[i]
        /\ w # i => rendered'[t][w] = rendered[t][w]
    BY <1>4, <1>5, <1>6
  <1>8. wrote[t].version \leq desired[w] /\ (w < i => wrote[t].version \leq rendered[t][w])
    BY <1>1, <1>2, <1>3 DEF OwnWriteIsRead
  <1>9. w < i + 1 => wrote[t].version \leq rendered'[t][w]
    BY <1>7, <1>8
  <1>10. ASSUME NEW u \in Worker, u # t
         PROVE  LET j == wrote'[u].part
                    v == wrote'[u].version
                IN  /\ tpc'[u] = "idle" => reading'[u] = 1
                    /\ tpc'[u] # "idle" => v \leq desired'[j]
                    /\ \/ tpc'[u] = "render" /\ j < reading'[u]
                       \/ tpc'[u] \in Holding \cup {"lock"}
                       => v \leq rendered'[u][j]
    BY <1>3, <1>10 DEF OwnWriteIsRead
  <1>11. LET j == wrote'[t].part
             v == wrote'[t].version
         IN  /\ tpc'[t] = "idle" => reading'[t] = 1
             /\ tpc'[t] # "idle" => v \leq desired'[j]
             /\ \/ tpc'[t] = "render" /\ j < reading'[t]
                \/ tpc'[t] \in Holding \cup {"lock"}
                => v \leq rendered'[t][j]
    BY <1>2, <1>3, <1>8, <1>9 DEF Holding
  <1> QED
    BY <1>10, <1>11 DEF OwnWriteIsRead

LEMMA StartsOwnWrite ==
  ASSUME CInv, OwnWriteIsRead, NEW t \in Worker,
         \/ \E i \in Part : Commit(t, i)
         \/ Reconcile(t)
         \/ BootReconcile(t)
  PROVE  OwnWriteIsRead'
  <1> USE CountsAreNat
  <1>1. PICK w : /\ w.part \in Part /\ w.version \in Nat
                 /\ wrote'[t] = w
                 /\ w.version \leq desired'[w.part]
                 /\ \A i \in Part : desired[i] \leq desired'[i]
                 /\ Start(t, w)
    <2>1. CASE \E i \in Part : Commit(t, i)
      <3>1. PICK i \in Part : Commit(t, i)
        BY <2>1
      <3>2. /\ desired'[i] = desired[i] + 1
            /\ \A j \in Part : desired[j] \leq desired'[j]
        BY <3>1, ControllerConstantsOK DEF Commit, CInv, CTypeOK
      <3>3. WITNESS [part |-> i, version |-> desired[i] + 1]
      <3> QED
        BY <3>1, <3>2 DEF Commit, Start, CInv, CTypeOK
    <2>2. CASE Reconcile(t) \/ BootReconcile(t)
      <3>1. UNCHANGED desired /\ Start(t, NoWrite)
        BY <2>2 DEF Reconcile, BootReconcile
      <3>2. wrote'[t] = NoWrite /\ NoWrite.part = 1 /\ NoWrite.version = 0
        BY <3>1 DEF Start, NoWrite, CInv, CTypeOK
      <3> QED
        BY <3>1, <3>2
    <2> QED
      BY <2>1, <2>2
  <1>2. /\ tpc[t] = "idle" /\ tpc'[t] = "render" /\ reading'[t] = 1
        /\ UNCHANGED rendered
        /\ \A u \in Worker \ {t} : /\ tpc'[u] = tpc[u]
                                   /\ reading'[u] = reading[u]
                                   /\ wrote'[u] = wrote[u]
    BY <1>1 DEF Start, Await, OwnWriteIsRead, CInv, CTypeOK
  <1>3. ASSUME NEW u \in Worker, u # t
        PROVE  LET j == wrote'[u].part
                   v == wrote'[u].version
               IN  /\ tpc'[u] = "idle" => reading'[u] = 1
                   /\ tpc'[u] # "idle" => v \leq desired'[j]
                   /\ \/ tpc'[u] = "render" /\ j < reading'[u]
                      \/ tpc'[u] \in Holding \cup {"lock"}
                      => v \leq rendered'[u][j]
    <2>1. PICK j \in Part : j = wrote[u].part
      OBVIOUS
    <2>2. PICK v \in Nat : v = wrote[u].version
      OBVIOUS
    <2>3. tpc[u] # "idle" => v \leq desired'[j]
      <3>1. desired[j] \leq desired'[j] /\ desired[j] \in Nat
        BY <1>1
      <3>2. desired'[j] \in Nat
        BY StartsKeep, ControllerConstantsOK DEF CTypeOK, Version
      <3>3. tpc[u] # "idle" => v \leq desired[j]
        BY <2>1, <2>2 DEF OwnWriteIsRead
      <3> QED
        BY <3>1, <3>2, <3>3
    <2> QED
      BY <1>2, <1>3, <2>1, <2>2, <2>3 DEF OwnWriteIsRead
  <1>4. LET j == wrote'[t].part
            v == wrote'[t].version
        IN  /\ tpc'[t] = "idle" => reading'[t] = 1
            /\ tpc'[t] # "idle" => v \leq desired'[j]
            /\ \/ tpc'[t] = "render" /\ j < reading'[t]
               \/ tpc'[t] \in Holding \cup {"lock"}
               => v \leq rendered'[t][j]
    BY <1>1, <1>2 DEF Holding
  <1> QED
    BY <1>3, <1>4 DEF OwnWriteIsRead

LEMMA StepOwnWrite ==
  ASSUME CInv, OwnWriteIsRead, [Next]_vars
  PROVE  OwnWriteIsRead'
  <1> USE ConstantsOK DEF CInv, CTypeOK
  <1>1. ASSUME NEW t \in Worker,
               \/ \E i \in Part : Commit(t, i)
               \/ Reconcile(t) \/ BootReconcile(t)
        PROVE  OwnWriteIsRead'
    BY <1>1, StartsOwnWrite
  <1>2. ASSUME NEW t \in Worker,
               \/ TakeLock(t) \/ AcquireLease(t) \/ PersistRecord(t)
               \/ PersistActivate(t) \/ PersistAttempt(t) \/ RunThread(t)
        PROVE  OwnWriteIsRead'
    <2>1. /\ UNCHANGED <<desired, wrote, reading, rendered>>
          /\ tpc[t] \in Holding \cup {"lock"} /\ tpc'[t] \in Holding
          /\ \A u \in Worker \ {t} : tpc'[u] = tpc[u]
      BY <1>2 DEF TakeLock, AcquireLease, PersistRecord, PersistActivate,
         PersistAttempt, RunThread, Await, cVars, taskVars, Holding, TaskSteps
    <2> QED
      BY <2>1, SameOwnWrite
  <1>3. ASSUME NEW p \in Process, ProcessEnds(p)
        PROVE  OwnWriteIsRead'
    <2>1. PICK S \in SUBSET Worker : S = {t \in Worker : ProcOf[t] = p}
      OBVIOUS
    <2>2. /\ UNCHANGED desired
          /\ \A u \in Worker \ S : /\ tpc'[u] = tpc[u]
                                   /\ reading'[u] = reading[u]
                                   /\ rendered'[u] = rendered[u]
                                   /\ wrote'[u] = wrote[u]
          /\ \A u \in S : tpc'[u] = "idle" /\ reading'[u] = 1
      BY <1>3, <2>1 DEF ProcessEnds, TaskForgets
    <2> QED
      BY <2>2, EndOwnWrite
  <1>4. ASSUME NEW t \in Worker, NEW how, TaskEnds(t, how)
        PROVE  OwnWriteIsRead'
    <2>1. PICK S \in SUBSET Worker : S = {t}
      OBVIOUS
    <2>2. /\ UNCHANGED desired
          /\ \A u \in Worker \ S : /\ tpc'[u] = tpc[u]
                                   /\ reading'[u] = reading[u]
                                   /\ rendered'[u] = rendered[u]
                                   /\ wrote'[u] = wrote[u]
          /\ \A u \in S : tpc'[u] = "idle" /\ reading'[u] = 1
      BY <1>4, <2>1 DEF TaskEnds
    <2> QED
      BY <2>2, EndOwnWrite
  <1>5. ASSUME NEW t \in Worker,
               RenderFails(t) \/ LeaseRefused(t) \/ ReleaseLease(t)
        PROVE  OwnWriteIsRead'
    BY <1>3, <1>4, <1>5
    DEF RenderFails, LeaseRefused, ReleaseLease, LeaveReconcile
  <1>6. ASSUME NEW t \in Worker, TaskStep(t)
        PROVE  OwnWriteIsRead'
    BY <1>2, <1>5, <1>6, ReadPartOwnWrite DEF TaskStep
  <1>7. ASSUME NEW p \in Process, ProcessStep(p) \/ ProcessCrashes(p)
        PROVE  OwnWriteIsRead'
    <2>1. CASE NginxCannotStart(p) \/ ProcessCrashes(p)
      BY <1>3, <2>1 DEF NginxCannotStart, ProcessCrashes
    <2>2. CASE ProcessBoots(p) \/ NextPhase(p)
      BY <2>2 DEF ProcessBoots, NextPhase, OwnWriteIsRead, cVars, taskVars
    <2> QED
      BY <1>7, <2>1, <2>2 DEF ProcessStep
  <1>8. CASE LeaseExpires \/ UNCHANGED vars
    BY <1>8 DEF LeaseExpires, vars, cVars, taskVars, OwnWriteIsRead
  <1> QED
    BY <1>1, <1>6, <1>7, <1>8 DEF Next

-----------------------------------------------------------------------------
(***************************************************************************)
(* One leased reconciliation at a time.  The asyncio lock alone gives it   *)
(* to a single process, the lease to any number of them, provided that it  *)
(* does not expire under its holder.                                       *)
(***************************************************************************)
LeasedExclude ==
    \A t, u \in Worker : (tpc[t] \in Leased /\ tpc[u] \in Leased) => t = u

Serialized == ~SlowHolders \/ \A p, q \in Process : p = q

LEMMA LeasedExcludeInvariant ==
  ASSUME Serialized
  PROVE  Spec => []LeasedExclude
  <1>1. CASE ~SlowHolders
    <2>1. CInv /\ LeaseIsSound => LeasedExclude
      <3> SUFFICES ASSUME CInv, LeaseIsSound, NEW t \in Worker,
                          NEW u \in Worker, tpc[t] \in Leased, tpc[u] \in Leased
                   PROVE  t = u
        BY DEF LeasedExclude
      <3>1. ProcOf[t] = ProcOf[u]
        BY DEF LeaseIsSound
      <3> QED
        BY <3>1, OneHolder DEF CInv, Leased
    <2> QED
      BY <1>1, <2>1, LeaseIsSoundInvariant, PTL
  <1>2. CASE \A p, q \in Process : p = q
    <2>1. CInv => LeasedExclude
      BY <1>2, OneHolder, ConstantsOK DEF CInv, Leased, LeasedExclude
    <2> QED
      BY <2>1, CInvInvariant, PTL
  <1> QED
    BY <1>1, <1>2 DEF Serialized

\* A thread that is inside Reconciler._lock belongs to a leased task.
LEMMA LeasedThreadsExclude ==
  ASSUME CInv, LeasedExclude
  PROVE  Exclusive
  BY DEF CInv, ThreadsAreAwaited, LeasedExclude, Exclusive, Critical, Leased,
     Holding, TaskSteps

\* At most one thread of all control planes reconciles, across crashes,
\* restarts and expired leases (TableRuntimeController.reconcile,
\* LeaseStore): of a single control plane always, of several as long as no
\* reconciliation outlives the TTL of its lease.
THEOREM ReconcilersExcludeEachOther ==
  ASSUME Serialized
  PROVE  Spec => []OneReconcilerAtATime
  <1>1. CInv /\ LeasedExclude => OneReconcilerAtATime
    BY LeasedThreadsExclude DEF Exclusive, OneReconcilerAtATime
  <1> QED
    BY <1>1, CInvInvariant, LeasedExcludeInvariant, PTL

\* Then any number of control planes that share a runtime root implements
\* LastKnownGood, as a single one does.
THEOREM ControllerImplementsLastKnownGood ==
  ASSUME Serialized
  PROVE  Spec => ImplementsLastKnownGood
  <1> DEFINE I == CInv /\ OneReconcilerAtATime
  <1>1. Init => MoveKnown /\ LKG!Init
    BY InitMoves DEF Init
  <1>2. I /\ I' /\ MoveKnown /\ [Next]_vars
          => MoveKnown' /\ [LKG!Next]_(LKG!vars)
    <2> SUFFICES ASSUME I, I', MoveKnown, [Next]_vars
                 PROVE  MoveKnown' /\ [LKG!Next]_(LKG!vars)
      OBVIOUS
    <2>1. Exclusive /\ Exclusive'
      BY DEF Exclusive, OneReconcilerAtATime
    <2>2. ReconcilerStep
      BY StepIsReconcilerStep DEF CInv, RInv, CTypeOK, TypeOK
    <2> QED
      BY <2>1, <2>2, ReconcilerStepMoves DEF CInv
  <1> QED
    BY <1>1, <1>2, CInvInvariant, ReconcilersExcludeEachOther, PTL
    DEF Spec, ImplementsLastKnownGood, LKG!Spec

\* Until a task has left the lock: a success is in force, a failure is not,
\* or it was abandoned in ACTIVE.
ResultsAreTrue ==
    \A t \in Worker :
        /\ Succeeded(t) => active = rendered[t]
        /\ outcome[t] = "failed" =>
              active # rendered[t] \/ rendered[t] \in abandoned

\* A task that runs its thread has no result yet, and nobody else has one.
LEMMA RunnerHasNoResult ==
  ASSUME CInv, TaskAndThread, LeasedExclude, NEW t \in Worker, RunThread(t)
  PROVE  \A u \in Worker :
            /\ outcome[u] = "none" /\ ~Succeeded(u)
            /\ u # t => tpc[u] \notin Leased
  <1>1. tpc[t] \in Leased /\ pc[t] # "done"
    BY ThreadStepFrame DEF RunThread, CInv, Leased, Holding, TaskSteps
  <1>2. \A u \in Worker : u # t => tpc[u] \notin Leased
    BY <1>1 DEF LeasedExclude
  <1>3. \A u \in Worker : pc[u] # "done"
    BY <1>1, <1>2 DEF TaskAndThread
  <1> QED
    BY <1>2, <1>3 DEF TaskAndThread, Succeeded

LEMMA SameResults ==
  ASSUME ResultsAreTrue, UNCHANGED <<active, abandoned>>,
         \A u \in Worker :
            \/ outcome'[u] = "none"
            \/ outcome'[u] = outcome[u] /\ rendered'[u] = rendered[u]
  PROVE  ResultsAreTrue'
  BY DEF ResultsAreTrue, Succeeded

LEMMA StepResults ==
  ASSUME CInv, TaskAndThread, LeasedExclude, MoveKnown, UndoKnown,
         ResultsAreTrue, [Next]_vars
  PROVE  ResultsAreTrue'
  <1> USE ConstantsOK DEF CInv, CTypeOK, RInv, RTypeOK
  <1>1. ASSUME NEW t \in Worker, RunThread(t)
        PROVE  ResultsAreTrue'
    <2>1. \A u \in Worker : outcome[u] = "none"
      BY <1>1, RunnerHasNoResult
    <2>2. /\ \A u \in Worker \ {t} : outcome'[u] = "none"
          /\ UNCHANGED <<files, rendered>> /\ files[t] = rendered[t]
      BY <1>1, <2>1, ThreadStepFrame
      DEF RunThread, cVars, taskVars, TaskAndThread
    <2>3. /\ Succeeded(t)' => active' = files[t]
          /\ outcome'[t] = "failed" =>
                active' # files[t] \/ files[t] \in abandoned'
      BY <1>1, <2>1, ThreadStepResult DEF RunThread
    <2> QED
      BY <2>2, <2>3 DEF ResultsAreTrue, Succeeded
  <1>2. ASSUME NEW t \in Worker,
               \/ \E i \in Part : Commit(t, i)
               \/ Reconcile(t) \/ BootReconcile(t)
               \/ TakeLock(t) \/ AcquireLease(t)
               \/ PersistRecord(t) \/ PersistActivate(t) \/ PersistAttempt(t)
        PROVE  ResultsAreTrue'
    <2>1. UNCHANGED <<active, abandoned, outcome, rendered>>
      BY <1>2
      DEF Commit, Reconcile, BootReconcile, Start, TakeLock, AcquireLease,
          StartThread, PersistRecord, PersistActivate, PersistAttempt, rVars,
          threadVars, diskVars, history
    <2> QED
      BY <2>1, SameResults
  <1>3. ASSUME NEW t \in Worker, ReadPart(t)
        PROVE  ResultsAreTrue'
    <2>1. outcome[t] = "none"
      BY <1>3 DEF ReadPart, TaskAndThread, Leased, Holding
    <2>2. /\ UNCHANGED <<active, abandoned, outcome>>
          /\ \A u \in Worker \ {t} : rendered'[u] = rendered[u]
      BY <1>3 DEF ReadPart, rVars, threadVars, diskVars, history
    <2> QED
      BY <2>1, <2>2, SameResults
  <1>4. ASSUME NEW p \in Process, Stop(p), ProcessEnds(p)
        PROVE  ResultsAreTrue'
    <2>1. /\ UNCHANGED <<active, abandoned>>
          /\ \A u \in Worker :
                \/ outcome'[u] = "none"
                \/ outcome'[u] = outcome[u] /\ rendered'[u] = rendered[u]
      BY <1>4 DEF Stop, Forget, ProcessEnds, TaskForgets, diskVars, history
    <2> QED
      BY <2>1, SameResults
  <1>5. ASSUME NEW t \in Worker, RenderFails(t) \/ LeaseRefused(t)
        PROVE  ResultsAreTrue'
    <2>1. CASE TaskEnds(t, "raised") /\ UNCHANGED rVars
      <3>1. outcome[t] = "none"
        BY <1>5 DEF RenderFails, LeaseRefused, TaskAndThread, Leased, Holding
      <3>2. /\ UNCHANGED <<active, abandoned, outcome>>
            /\ \A u \in Worker \ {t} : rendered'[u] = rendered[u]
        BY <2>1 DEF TaskEnds, rVars, threadVars, diskVars, history
      <3> QED
        BY <3>1, <3>2, SameResults
    <2> QED
      BY <1>4, <1>5, <2>1 DEF RenderFails, LeaseRefused, LeaveReconcile
  <1>6. ASSUME NEW t \in Worker, ReleaseLease(t)
        PROVE  ResultsAreTrue'
    <2>1. CASE Collect(t) /\ \E how \in {"applied", "raised"} : LeaveReconcile(t, how)
      <3>1. /\ UNCHANGED <<active, abandoned>> /\ outcome'[t] = "none"
            /\ \A u \in Worker \ {t} : /\ outcome'[u] = outcome[u]
                                       /\ rendered'[u] = rendered[u]
        BY <2>1 DEF Collect, LeaveReconcile, TaskEnds, diskVars, history
      <3> QED
        BY <3>1, SameResults
    <2> QED
      BY <1>4, <1>6, <2>1 DEF ReleaseLease
  <1>7. ASSUME NEW t \in Worker, TaskStep(t)
        PROVE  ResultsAreTrue'
    BY <1>1, <1>2, <1>3, <1>5, <1>6, <1>7 DEF TaskStep
  <1>8. ASSUME NEW p \in Process, ProcessStep(p) \/ ProcessCrashes(p)
        PROVE  ResultsAreTrue'
    <2>1. CASE NginxCannotStart(p) \/ ProcessCrashes(p)
      BY <1>4, <2>1 DEF NginxCannotStart, ProcessCrashes, Crash
    <2>2. CASE ProcessBoots(p) \/ NextPhase(p)
      <3>1. UNCHANGED <<active, abandoned, outcome, rendered>>
        BY <2>2 DEF ProcessBoots, NextPhase, Boot, StartNginx, Serve, cVars,
           taskVars, threadVars, diskVars, history
      <3> QED
        BY <3>1, SameResults
    <2> QED
      BY <1>8, <2>1, <2>2 DEF ProcessStep
  <1>9. CASE LeaseExpires \/ UNCHANGED vars
    <2>1. UNCHANGED <<active, abandoned, outcome, rendered>>
      BY <1>9 DEF LeaseExpires, vars, rVars, cVars, taskVars, threadVars,
         diskVars, history
    <2> QED
      BY <2>1, SameResults
  <1> QED
    BY <1>2, <1>7, <1>8, <1>9 DEF Next

LEMMA ReconcilerStepUndo ==
  ASSUME RInv, Exclusive, MoveKnown, UndoKnown, ReconcilerStep
  PROVE  UndoKnown'
  BY ThreadStepUndo, QuietStepUndo DEF ReconcilerStep, StopsAnyhow

\* Everything that is known of a task and of the move that is under way.
TaskInv ==
    CInv /\ TaskAndThread /\ BootsAlone /\ LeasedExclude /\ OwnWriteIsRead

KnownInv == MoveKnown /\ UndoKnown /\ ResultsAreTrue

LEMMA TaskInvInvariant ==
  ASSUME Serialized
  PROVE  Spec => []TaskInv
  <1>1. Init => OwnWriteIsRead
    BY ControllerConstantsOK
    DEF Init, OwnWriteIsRead, Blank, Part, Version, Holding
  <1>2. CInv /\ OwnWriteIsRead /\ [Next]_vars => OwnWriteIsRead'
    BY StepOwnWrite
  <1> QED
    BY <1>1, <1>2, CoupledInvariant, LeasedExcludeInvariant, PTL
    DEF Spec, TaskInv

LEMMA InitKnown == Init => KnownInv
  BY InitMoves, InitFollows
  DEF Init, RInit, KnownInv, ResultsAreTrue, Succeeded

LEMMA StepKnown ==
  ASSUME TaskInv, TaskInv', KnownInv, [Next]_vars
  PROVE  KnownInv'
  <1>1. Exclusive
    BY LeasedThreadsExclude DEF TaskInv
  <1>2. Exclusive'
    BY DEF TaskInv, CInv, ThreadsAreAwaited, LeasedExclude, Exclusive, Critical,
       Leased, Holding, TaskSteps
  <1>3. ReconcilerStep
    BY StepIsReconcilerStep DEF TaskInv, CInv, RInv, CTypeOK, TypeOK
  <1>4. MoveKnown' /\ UndoKnown'
    BY <1>1, <1>2, <1>3, ReconcilerStepMoves, ReconcilerStepUndo
    DEF TaskInv, KnownInv, CInv
  <1>5. ResultsAreTrue'
    BY StepResults DEF TaskInv, KnownInv
  <1> QED
    BY <1>4, <1>5 DEF KnownInv

LEMMA KnownInvariant ==
  ASSUME Serialized
  PROVE  Spec => [](TaskInv /\ KnownInv)
  BY InitKnown, StepKnown, TaskInvInvariant, PTL DEF Spec

\* A reconciliation that is reported as applied has put a configuration in
\* force that contains the change its request committed, whatever was
\* committed, rendered and reconciled while it waited for the locks
\* (TableRuntimeController.reconcile): for a single control plane even when
\* it outlives its lease, for several as long as none does.
THEOREM AppliedContainsOwnWrite ==
  ASSUME Serialized
  PROVE  Spec => []AppliedIncludesOwnWrite
  <1>1. TaskInv /\ KnownInv => AppliedIncludesOwnWrite
    <2> SUFFICES ASSUME TaskInv, KnownInv, NEW t \in Worker,
                        tpc[t] \in {"activate", "attempt", "release"},
                        Succeeded(t)
                 PROVE  /\ active # NoGeneration
                        /\ active[wrote[t].part] >= wrote[t].version
      BY DEF AppliedIncludesOwnWrite
    <2>1. active = rendered[t] /\ rendered[t] \in Generation
      BY DEF KnownInv, ResultsAreTrue, TaskInv, CInv, CTypeOK
    <2>2. wrote[t].version \leq rendered[t][wrote[t].part]
      BY DEF TaskInv, OwnWriteIsRead, Holding, TaskSteps
    <2>3. /\ wrote[t].version \in Nat
          /\ rendered[t][wrote[t].part] \in Nat
      BY CountsAreNat DEF TaskInv
    <2>4. active[wrote[t].part] >= wrote[t].version
      BY <2>1, <2>2, <2>3
    <2> QED
      BY <2>1, <2>4, ConstantsOK
  <1> QED
    BY <1>1, KnownInvariant, PTL

-----------------------------------------------------------------------------
(***************************************************************************)
(* The database.  Its active generation is the one an undo would restore,  *)
(* except while a success waits to be recorded, and except after a process *)
(* went down in between: that process owes the reconciliation it performs  *)
(* while it boots, which records even what it finds unchanged.             *)
(***************************************************************************)
Owes(p) == phase[p] # "serving" /\ ~booted[p]

AwaitsRecord(t) == tpc[t] \in {"thread", "activate"} /\ Succeeded(t)
HasRecorded(t)  == tpc[t] \in {"attempt", "release"} /\ Succeeded(t)

Recorded ==
    /\ \/ \E p \in Process : Owes(p)
       \/ \E t \in Worker : AwaitsRecord(t)
       \/ Fallback \in abandoned
       \/ dbActive = {Fallback}
    /\ \A t \in Worker : HasRecorded(t) => dbActive = {active}

\* Without a thread inside the lock, an undo has nothing to restore.
LEMMA NothingToUndo ==
  ASSUME CInv, LeasedExclude, \A t \in Worker : tpc[t] # "thread" \/ pc[t] = "done"
  PROVE  Fallback = active
  <1>1. \A t \in Worker : ~Unsettled(t)
    BY DEF CInv, ThreadsAreAwaited, Unsettled
  <1> QED
    BY <1>1, LeasedThreadsExclude, FallbackIsPrevious

LEMMA NothingToUndoNext ==
  ASSUME CInv', LeasedExclude',
         \A t \in Worker : tpc'[t] # "thread" \/ pc'[t] = "done"
  PROVE  Fallback' = active'
  <1>1. \A t \in Worker : ~Unsettled(t)'
    BY DEF CInv, ThreadsAreAwaited, Unsettled
  <1>2. Exclusive'
    BY DEF CInv, ThreadsAreAwaited, LeasedExclude, Exclusive, Critical,
       Leased, Holding, TaskSteps
  <1> QED
    BY <1>1, <1>2, FallbackIsPreviousNext

\* Steps that touch neither the database nor what it records.
LEMMA SameRecorded ==
  ASSUME Recorded, UNCHANGED <<active, abandoned, dbActive>>,
         Fallback' = Fallback,
         \A p \in Process : Owes(p) => \E q \in Process : Owes(q)',
         \A t \in Worker : AwaitsRecord(t) => AwaitsRecord(t)',
         \A t \in Worker : HasRecorded(t)' => HasRecorded(t)
  PROVE  Recorded'
  BY DEF Recorded

\* A process that goes down owes a reconciliation.
LEMMA EndRecorded ==
  ASSUME CInv, Recorded, NEW p \in Process, Stop(p), ProcessEnds(p)
  PROVE  Recorded'
  <1> USE ConstantsOK DEF CInv, CTypeOK, RInv, RTypeOK
  <1>1. Owes(p)'
    BY DEF Owes, Stop, ProcessEnds
  <1>2. UNCHANGED <<active, dbActive>>
    BY DEF Stop, ProcessEnds, dbVars, diskVars, history
  <1>3. \A t \in Worker : HasRecorded(t)' => HasRecorded(t)
    BY DEF HasRecorded, Succeeded, Stop, Forget, ProcessEnds, TaskForgets
  <1> QED
    BY <1>1, <1>2, <1>3 DEF Recorded

\* The thread of the only leased task runs.
LEMMA RunThreadRecorded ==
  ASSUME TaskInv, TaskInv', KnownInv, Recorded, NEW t \in Worker, RunThread(t)
  PROVE  Recorded'
  <1> USE DEF TaskInv, KnownInv
  <1>1. \A u \in Worker : /\ outcome[u] = "none" /\ ~Succeeded(u)
                          /\ u # t => tpc[u] \notin Leased
    BY RunnerHasNoResult
  <1>2. /\ UNCHANGED <<tpc, dbActive, booted, phase>> /\ tpc[t] = "thread"
        /\ abandoned \subseteq abandoned'
    BY ThreadStepFrame DEF RunThread, cVars, taskVars, dbVars, CInv
  <1>3. \A u \in Worker : ~HasRecorded(u)'
    BY <1>1, <1>2 DEF HasRecorded, Leased, Holding, TaskSteps
  <1>4. Exclusive /\ Exclusive'
    BY LeasedThreadsExclude
    DEF CInv, ThreadsAreAwaited, LeasedExclude, Exclusive, Critical, Leased,
        Holding, TaskSteps
  <1>5. Succeeded(t)' \/ Fallback' = Fallback \/ Fallback' \in abandoned'
    BY <1>1, <1>4, ThreadStepFallback DEF RunThread, CInv
  <1>6. CASE Succeeded(t)'
    BY <1>2, <1>3, <1>6 DEF Recorded, AwaitsRecord
  <1>7. CASE Fallback' = Fallback
    BY <1>1, <1>2, <1>3, <1>7 DEF Recorded, AwaitsRecord, Owes
  <1>8. CASE Fallback' \in abandoned'
    BY <1>3, <1>8 DEF Recorded
  <1> QED
    BY <1>5, <1>6, <1>7, <1>8

\* Recording a failure leaves the active generation alone: it is another one.
LEMMA PersistRecorded ==
  ASSUME TaskInv, TaskInv', KnownInv, Recorded, NEW t \in Worker,
         PersistRecord(t) \/ PersistActivate(t) \/ PersistAttempt(t)
  PROVE  Recorded'
  <1> USE DEF TaskInv, KnownInv, CInv, CTypeOK
  <1>1. /\ UNCHANGED <<phase, booted, active, abandoned, pc, outcome>>
        /\ tpc[t] \in Leased /\ pc[t] = "done" /\ tpc'[t] # "thread"
        /\ \A u \in Worker \ {t} : tpc'[u] = tpc[u]
    BY DEF PersistRecord, PersistActivate, PersistAttempt, Await, TaskAndThread,
       rVars, threadVars, diskVars, history, Leased, Holding, TaskSteps
  <1>2. \A u \in Worker \ {t} : tpc[u] \notin Leased /\ tpc'[u] \notin Leased
    BY <1>1 DEF LeasedExclude
  <1>3. Fallback = active /\ Fallback' = active
    <2>1. /\ \A u \in Worker : tpc[u] # "thread" \/ pc[u] = "done"
          /\ \A u \in Worker : tpc'[u] # "thread" \/ pc'[u] = "done"
      BY <1>1, <1>2 DEF Leased, Holding, TaskSteps
    <2> QED
      BY <1>1, <2>1, NothingToUndo, NothingToUndoNext
  <1>4. /\ \A u \in Worker \ {t} : ~AwaitsRecord(u) /\ ~HasRecorded(u)'
        /\ \A p \in Process : Owes(p)' <=> Owes(p)
    BY <1>1, <1>2 DEF AwaitsRecord, HasRecorded, Leased, Holding, TaskSteps, Owes
  <1>5. CASE PersistRecord(t)
    <2>1. CASE Succeeded(t)
      <3>1. AwaitsRecord(t)' /\ ~HasRecorded(t)'
        BY <1>1, <1>5, <2>1
        DEF PersistRecord, AwaitsRecord, HasRecorded, Succeeded
      <3> QED
        BY <1>4, <3>1 DEF Recorded
    <2>2. CASE ~Succeeded(t)
      <3>1. outcome[t] = "failed"
        BY <1>1, <2>2 DEF TaskAndThread, Succeeded, RInv, RTypeOK, Outcomes
      <3>2. active # rendered[t] \/ active \in abandoned
        BY <3>1 DEF ResultsAreTrue
      <3>3. dbActive' = dbActive \ {rendered[t]}
        BY <1>5 DEF PersistRecord
      <3>4. ~AwaitsRecord(t) /\ ~HasRecorded(t)'
        BY <1>1, <2>2 DEF AwaitsRecord, HasRecorded, Succeeded
      <3> QED
        BY <1>1, <1>3, <1>4, <3>2, <3>3, <3>4 DEF Recorded
    <2> QED
      BY <2>1, <2>2
  <1>6. CASE PersistActivate(t)
    <2>1. dbActive' = {rendered[t]} /\ Succeeded(t)
      BY <1>6 DEF PersistActivate, Await, TaskAndThread
    <2>2. active = rendered[t]
      BY <2>1 DEF ResultsAreTrue
    <2> QED
      BY <1>1, <1>3, <2>1, <2>2 DEF Recorded
  <1>7. CASE PersistAttempt(t)
    <2>1. /\ dbActive' = dbActive
          /\ ~AwaitsRecord(t) /\ (HasRecorded(t)' => HasRecorded(t))
      BY <1>1, <1>7
      DEF PersistAttempt, Await, AwaitsRecord, HasRecorded, Succeeded, dbVars
    <2> QED
      BY <1>1, <1>3, <1>4, <2>1 DEF Recorded
  <1> QED
    BY <1>5, <1>6, <1>7

\* A task that leaves after a success leaves an exact record behind; a boot
\* that failed takes its process down.
LEMMA ReleaseRecorded ==
  ASSUME TaskInv, TaskInv', KnownInv, Recorded, NEW t \in Worker,
         ReleaseLease(t)
  PROVE  Recorded'
  <1> USE ConstantsOK DEF TaskInv, KnownInv, CInv, CTypeOK
  <1>1. tpc[t] = "release" /\ pc[t] = "done"
    BY DEF ReleaseLease, TaskAndThread
  <1>2. \A u \in Worker \ {t} : tpc[u] \notin Leased
    BY <1>1 DEF LeasedExclude, Leased, Holding, TaskSteps
  <1>3. CASE Stop(ProcOf[t]) /\ ProcessEnds(ProcOf[t])
    BY <1>3, EndRecorded
  <1>4. CASE /\ Collect(t) /\ \E how \in {"applied", "raised"} : LeaveReconcile(t, how)
             /\ booted' = [booted EXCEPT ![ProcOf[t]] =
                              phase[ProcOf[t]] # "serving"]
             /\ phase[ProcOf[t]] = "serving" \/ Succeeded(t)
    <2>1. /\ UNCHANGED <<active, abandoned, dbActive, phase>>
          /\ tpc' = [tpc EXCEPT ![t] = "idle"]
      BY <1>4 DEF Collect, LeaveReconcile, TaskEnds, diskVars, history, dbVars
    <2>2. \A u \in Worker : tpc[u] # "thread" /\ tpc'[u] \notin Leased
      BY <1>1, <1>2, <2>1 DEF Leased, Holding, TaskSteps
    <2>3. Fallback = active /\ Fallback' = active
      BY <2>1, <2>2, NothingToUndo, NothingToUndoNext DEF Leased, Holding, TaskSteps
    <2>4. \A u \in Worker : ~HasRecorded(u)' /\ ~AwaitsRecord(u)
      BY <1>1, <1>2, <2>2
      DEF HasRecorded, AwaitsRecord, Leased, Holding, TaskSteps
    <2>5. CASE Succeeded(t)
      <3>1. dbActive = {active}
        BY <1>1, <2>5 DEF Recorded, HasRecorded
      <3> QED
        BY <2>1, <2>3, <2>4, <3>1 DEF Recorded
    <2>6. CASE phase[ProcOf[t]] = "serving"
      <3>1. \A p \in Process : Owes(p) => Owes(p)'
        BY <1>4, <2>1, <2>6 DEF Owes
      <3> QED
        BY <2>1, <2>3, <2>4, <3>1 DEF Recorded
    <2> QED
      BY <1>4, <2>5, <2>6
  <1> QED
    BY <1>3, <1>4 DEF ReleaseLease

LEMMA QuietFallback ==
  ASSUME TaskInv, TaskInv', KnownInv,
         \/ \E t \in Worker, g \in Generation : StartThread(t, g)
         \/ \E p \in Process : Boot(p) \/ StartNginx(p) \/ Serve(p)
         \/ UNCHANGED rVars
  PROVE  Fallback' = Fallback
  <1>1. RInv /\ MoveKnown /\ Exclusive /\ Exclusive'
    BY LeasedThreadsExclude
    DEF TaskInv, KnownInv, CInv, ThreadsAreAwaited, LeasedExclude, Exclusive,
        Critical, Leased, Holding, TaskSteps
  <1>2. UNCHANGED LKG!vars
    BY <1>1, QuietStepMoves, StutterMoves
  <1> QED
    BY <1>2 DEF LKG!vars

\* Steps that leave disk and database, and every result, as they are.
LEMMA QuietRecorded ==
  ASSUME TaskInv, TaskInv', KnownInv, Recorded, UNCHANGED <<outcome, dbVars>>,
         \/ \E t \in Worker, g \in Generation : StartThread(t, g)
         \/ \E p \in Process : Boot(p) \/ StartNginx(p) \/ Serve(p)
         \/ UNCHANGED rVars,
         \A p \in Process : Owes(p) => Owes(p)',
         \A t \in Worker : tpc'[t] = tpc[t] \/ outcome[t] = "none"
  PROVE  Recorded'
  <1>1. UNCHANGED <<active, abandoned>>
    BY DEF StartThread, Boot, StartNginx, Serve, rVars, diskVars, history
  <1>2. Fallback' = Fallback
    BY QuietFallback
  <1>3. \A t \in Worker : /\ AwaitsRecord(t) => AwaitsRecord(t)'
                          /\ HasRecorded(t)' => HasRecorded(t)
    BY DEF AwaitsRecord, HasRecorded, Succeeded
  <1> QED
    BY <1>1, <1>2, <1>3, SameRecorded DEF dbVars

LEMMA TaskRecorded ==
  ASSUME TaskInv, TaskInv', KnownInv, Recorded, NEW t \in Worker,
         \/ \E i \in Part : Commit(t, i)
         \/ Reconcile(t) \/ BootReconcile(t) \/ TaskStep(t)
  PROVE  Recorded'
  <1> USE ConstantsOK DEF TaskInv, CInv, CTypeOK, RInv, RTypeOK
  <1>1. CASE \/ \E i \in Part : Commit(t, i)
             \/ Reconcile(t) \/ BootReconcile(t) \/ ReadPart(t) \/ TakeLock(t)
    <2>1. /\ UNCHANGED <<rVars, dbVars, booted>>
          /\ tpc[t] \notin Leased
          /\ \A u \in Worker \ {t} : tpc'[u] = tpc[u]
      BY <1>1
      DEF Commit, Reconcile, BootReconcile, Start, ReadPart, TakeLock, Await,
          Leased, Holding
    <2>2. outcome[t] = "none"
      BY <2>1 DEF TaskAndThread
    <2>3. UNCHANGED <<phase, outcome>>
      BY <2>1 DEF rVars, threadVars
    <2> QED
      BY <2>1, <2>2, <2>3, QuietRecorded DEF Owes
  <1>2. CASE AcquireLease(t)
    <2>1. /\ UNCHANGED <<phase, outcome, dbVars, booted>>
          /\ tpc[t] = "lease" /\ StartThread(t, rendered[t])
          /\ \A u \in Worker \ {t} : tpc'[u] = tpc[u]
      BY <1>2 DEF AcquireLease, StartThread, Await
    <2>2. outcome[t] = "none"
      BY <2>1 DEF TaskAndThread, Leased
    <2> QED
      BY <2>1, <2>2, QuietRecorded DEF Owes
  <1>3. CASE RenderFails(t) \/ LeaseRefused(t)
    <2>1. CASE Stop(ProcOf[t]) /\ ProcessEnds(ProcOf[t])
      BY <2>1, EndRecorded
    <2>2. CASE TaskEnds(t, "raised") /\ UNCHANGED <<rVars, booted>>
      <3>1. outcome[t] = "none"
        BY <1>3 DEF RenderFails, LeaseRefused, TaskAndThread, Leased, Holding
      <3>2. /\ UNCHANGED <<phase, outcome, dbVars>>
            /\ \A u \in Worker \ {t} : tpc'[u] = tpc[u]
        BY <2>2 DEF TaskEnds, rVars, threadVars
      <3> QED
        BY <2>2, <3>1, <3>2, QuietRecorded DEF Owes
    <2> QED
      BY <1>3, <2>1, <2>2 DEF RenderFails, LeaseRefused, LeaveReconcile
  <1> QED
    BY <1>1, <1>2, <1>3, RunThreadRecorded, PersistRecorded, ReleaseRecorded
    DEF TaskStep

LEMMA StepRecorded ==
  ASSUME TaskInv, TaskInv', KnownInv, Recorded, [Next]_vars
  PROVE  Recorded'
  <1>1. CASE \E t \in Worker : \/ \E i \in Part : Commit(t, i)
                               \/ Reconcile(t) \/ BootReconcile(t)
                               \/ TaskStep(t)
    BY <1>1, TaskRecorded
  <1>2. ASSUME NEW p \in Process, ProcessBoots(p) \/ NextPhase(p)
        PROVE  Recorded'
    <2> USE DEF TaskInv, CInv, CTypeOK, RInv, RTypeOK
    <2>1. /\ UNCHANGED <<outcome, dbVars, tpc>>
          /\ Boot(p) \/ StartNginx(p) \/ Serve(p)
      BY <1>2 DEF ProcessBoots, NextPhase, Boot, StartNginx, Serve, cVars,
         taskVars, threadVars
    <2>2. \A q \in Process : Owes(q) => Owes(q)'
      BY <1>2 DEF Owes, ProcessBoots, NextPhase, Boot, StartNginx, Serve, cVars
    <2> QED
      BY <2>1, <2>2, QuietRecorded
  <1>3. ASSUME NEW p \in Process, NginxCannotStart(p) \/ ProcessCrashes(p)
        PROVE  Recorded'
    BY <1>3, EndRecorded
    DEF NginxCannotStart, ProcessCrashes, Crash, TaskInv
  <1>4. CASE LeaseExpires \/ UNCHANGED vars
    <2>1. UNCHANGED <<rVars, dbVars, tpc, booted>>
      BY <1>4 DEF LeaseExpires, vars, cVars, taskVars
    <2>2. UNCHANGED <<phase, outcome>>
      BY <2>1 DEF rVars, threadVars
    <2> QED
      BY <2>1, <2>2, QuietRecorded DEF Owes
  <1> QED
    BY <1>1, <1>2, <1>3, <1>4 DEF Next, ProcessStep

\* When every control plane serves and none reconciles, the generation that
\* the database calls active is the one that ACTIVE names: after any number
\* of failures, refused leases and crashes, also of the process that had
\* published and not yet recorded (TableRuntimeController._persist,
\* GenerationStore.record and activate).  Without a single control plane
\* there is nobody to record anything.
THEOREM DatabaseFollowsDisk ==
  ASSUME Serialized, Process # {}
  PROVE  Spec => []DatabaseAgreesWithDisk
  <1>1. Init => Recorded
    BY DEF Init, RInit, Recorded, Owes, HasRecorded
  <1>2. TaskInv /\ TaskInv' /\ KnownInv /\ Recorded /\ [Next]_vars => Recorded'
    BY StepRecorded
  <1>3. TaskInv /\ KnownInv /\ Recorded => DatabaseAgreesWithDisk
    <2> SUFFICES ASSUME TaskInv, KnownInv, Recorded,
                        \A p \in Process : phase[p] = "serving" /\ TasksIdle(p),
                        active \notin abandoned
                 PROVE  dbActive = {active}
      BY DEF DatabaseAgreesWithDisk
    <2>1. \A t \in Worker : tpc[t] = "idle"
      BY ConstantsOK DEF TasksIdle
    <2>2. Fallback = active
      BY <2>1, NothingToUndo DEF TaskInv
    <2> QED
      BY <2>1, <2>2 DEF Recorded, Owes, AwaitsRecord
  <1> QED
    BY <1>1, <1>2, <1>3, KnownInvariant, PTL DEF Spec
=============================================================================
