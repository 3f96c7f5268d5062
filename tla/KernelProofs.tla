---------------------------- MODULE KernelProofs ----------------------------
(***************************************************************************)
(* Proofs about module Kernel, for every set of Works, requests, engines,  *)
(* capacities and bounds.                                                  *)
(***************************************************************************)
EXTENDS KernelProperties, WorkStoreProofs, SetSums, TLAPS

(***************************************************************************)
(* A selection that does not fail returns a position of the inventory.     *)
(***************************************************************************)
LEMMA SelectionInRange ==
    ASSUME NEW req, SelectEngine(req, Inventory).failure = ""
    PROVE  SelectEngine(req, Inventory).engine \in DOMAIN Inventory
<1> DEFINE C == Candidates(req, Inventory)
<1>1. SelectionFailure(req, Inventory) = ""
    BY DEF SelectEngine
<1>2. C # {}
    BY <1>1 DEF SelectionFailure
<1>3. C \subseteq DOMAIN Inventory
    BY DEF Candidates, Effortful, Exact, Allowed, Capable, OfType
<1>4. DOMAIN Inventory \subseteq Nat
    BY KernelAssumption
<1>5. \E i \in C : \A j \in C : i <= j
    <2> HIDE DEF C
    <2> QED BY <1>2, <1>3, <1>4, LeastElement
<1>6. Front(C) \in C
    <2> HIDE DEF C
    <2> QED BY <1>5 DEF Front
<1>7. SelectEngine(req, Inventory).engine = Front(C)
    BY <1>1 DEF SelectEngine
<1>8. QED
    BY <1>3, <1>6, <1>7

(***************************************************************************)
(* Types.                                                                  *)
(***************************************************************************)
LEMMA InitType == Init => TypeOK
<1> SUFFICES ASSUME Init PROVE TypeOK
    OBVIOUS
<1>1. StoreTypeOK
    BY NoRowType DEF Init, StoreInit, StoreTypeOK
<1>2. ipc \in IpcStates
    BY KernelAssumption DEF Init, IpcIdle, IpcStates
<1>3. sched \in SchedStates
    BY StoreAssumption, KernelAssumption DEF Init, SchedLoop, SchedStates
<1>4. task \in [WorkIds -> [AttemptNumbers -> TaskPcs]]
    BY DEF Init, NoTasks, TaskPcs
<1>5. QED
    BY <1>1, <1>2, <1>3, <1>4, StoreAssumption, KernelAssumption
    DEF Init, TypeOK, NothingUsed
-----------------------------------------------------------------------------
(***************************************************************************)
(* What one step of the Kernel does to one Work, and which thread does it. *)
(***************************************************************************)
InsertedBy(w) ==
    /\ ipc.pc = "insert" /\ ipc.w = w /\ ipc' = IpcIdle
    /\ RowInserted(w, ipc.req)

BegunBy(w) ==
    /\ sched.pc = "begin" /\ sched.w = w
    /\ sched' = [sched EXCEPT !.pc = "launch", !.n = work[w].attempt_count + 1]
    /\ task' = task
    /\ ~Reached(work[w].req.deadline, now)
    /\ \E e \in DOMAIN Inventory : RowBegan(w, e, now)

\* A commit: at a restart, by the scheduler, or by the task of the attempt.
EndedBy(w) ==
    /\ \E a \in AttemptStates :
        /\ RowEnded(w, a, now)
        /\ a = "SUCCEEDED" => \E n \in AttemptNumbers : task[w][n] = "commit"
        /\ a = "CANCELLED" => \E n \in AttemptNumbers : task[w][n] = "cancelled"
        /\ a = "TIMED_OUT" => \E n \in AttemptNumbers : task[w][n] = "timed_out"
    /\ \/ task' = NoTasks /\ sched' = SchedLoop
       \/ sched.pc = "launch" /\ sched.w = w /\ sched' = SchedLoop /\ task' = task
       \/ \E n \in AttemptNumbers :
            /\ task[w][n] \in OwningPcs
            /\ task' = [task EXCEPT ![w][n] = "release"] /\ sched' = sched

RowMove(w) ==
    RowSame(w) \/ RowRefused(w) \/ RowCancelled(w) \/ RowAcknowledged(w)

RowStep(w) == RowMove(w) \/ InsertedBy(w) \/ BegunBy(w) \/ EndedBy(w)

LEMMA OwnerCommittable ==
    ASSUME KernelInv, NEW w \in WorkIds, NEW n \in AttemptNumbers, Owns(w, n)
    PROVE  Committable(w) /\ work[w].attempt_count = n
<1>1. work[w].state = "RUNNING" /\ work[w].attempt_count = n
    BY DEF KernelInv, AttemptOwnership
<1>2. work[w].req \in Requests
    BY <1>1 DEF KernelInv, RowsWellFormed
<1>3. attempts[w][n].state = "RUNNING"
    <2>1. n > 0
        BY StoreAssumption DEF AttemptNumbers
    <2>2. LedgerOf(w)
        BY DEF KernelInv, AttemptLedger
    <2>3. QED
        BY <1>1, <2>1, <2>2 DEF LedgerOf
<1>4. QED
    BY <1>1, <1>2, <1>3 DEF Committable

\* At a restart every RUNNING row has its last attempt RUNNING.
LEMMA RunningCommittable ==
    ASSUME KernelInv, NEW w \in WorkIds, work[w].state = "RUNNING"
    PROVE  Committable(w)
<1> DEFINE c == work[w].attempt_count
<1>1. c \in 0 .. MaxAttempts
    BY DEF KernelInv, TypeOK, StoreTypeOK, WorkRows
<1>2. LedgerOf(w)
    BY DEF KernelInv, AttemptLedger
<1>3. c # 0
    BY <1>2 DEF LedgerOf
<1>4. c \in AttemptNumbers /\ c > 0
    BY <1>1, <1>3, StoreAssumption DEF AttemptNumbers
<1>5. attempts[w][c].state = "RUNNING"
    BY <1>2, <1>4 DEF LedgerOf
<1>6. work[w].req \in Requests
    BY DEF KernelInv, RowsWellFormed
<1>7. QED
    BY <1>4, <1>5, <1>6 DEF Committable

\* The time stamps of a step are integers.
LEMMA NowType == KernelInv => now \in Int /\ sched.now \in Int /\ ipc.at \in Int
BY KernelAssumption DEF KernelInv, TypeOK, IpcStates, SchedStates

LEMMA StartRows ==
    ASSUME KernelInv, Start
    PROVE  StoreTypeOK' /\ \A w \in WorkIds : RowStep(w)
<1>1. now \in Int
    BY NowType
<1>2. StoreTypeOK /\ RecoverInterrupted(now) /\ task' = NoTasks /\ sched' = SchedLoop
    BY DEF KernelInv, TypeOK, Start
<1>3. \A w \in WorkIds : work[w].state = "RUNNING" => Committable(w)
    BY RunningCommittable
<1>4. /\ StoreTypeOK'
      /\ \A w \in WorkIds : IF work[w].state = "RUNNING"
                            THEN RowEnded(w, "INTERRUPTED", now) ELSE RowSame(w)
    BY <1>1, <1>2, <1>3, RecoverStep
<1>5. "INTERRUPTED" \in AttemptStates
    BY DEF AttemptStates
<1>6. QED
    BY <1>2, <1>4, <1>5 DEF RowStep, RowMove, EndedBy

\* A step that leaves the tables alone.
LEMMA QuietRows ==
    ASSUME KernelInv, UNCHANGED storeVars
    PROVE  StoreTypeOK' /\ \A w \in WorkIds : RowStep(w)
BY DEF KernelInv, TypeOK, StoreTypeOK, storeVars, RowStep, RowMove, RowSame

LEMMA IpcRows ==
    ASSUME KernelInv,
           SubmitInsert \/ (\E w \in WorkIds : Cancel(w) \/ Acknowledge(w))
    PROVE  StoreTypeOK' /\ \A w \in WorkIds : RowStep(w)
<1>1. StoreTypeOK
    BY DEF KernelInv, TypeOK
<1>2. CASE SubmitInsert
    <2>1. /\ ipc.pc = "insert" /\ ipc' = IpcIdle
          /\ InsertWork(ipc.w, ipc.req, ipc.at)
        BY <1>2 DEF SubmitInsert
    <2>2. /\ ipc.w \in WorkIds /\ ipc.req \in Requests
          /\ work[ipc.w].state = "ABSENT" /\ ipc.at \in Int
        BY <2>1, NowType DEF KernelInv, IpcWellFormed
    <2>3. /\ StoreTypeOK' /\ RowInserted(ipc.w, ipc.req)
          /\ \A v \in WorkIds \ {ipc.w} : RowSame(v)
        BY <1>1, <2>1, <2>2, InsertWorkStep
    <2>4. QED
        BY <2>1, <2>2, <2>3 DEF RowStep, RowMove, InsertedBy
<1>3. ASSUME NEW w \in WorkIds, Cancel(w)
      PROVE  StoreTypeOK' /\ \A v \in WorkIds : RowStep(v)
    <2>1. CancelWork(w)
        BY <1>3 DEF Cancel
    <2>2. QED
        BY <1>1, <2>1, CancelWorkStep DEF RowStep, RowMove
<1>4. ASSUME NEW w \in WorkIds, Acknowledge(w)
      PROVE  StoreTypeOK' /\ \A v \in WorkIds : RowStep(v)
    <2>1. AcknowledgeWork(w)
        BY <1>4 DEF Acknowledge
    <2>2. QED
        BY <1>1, <2>1, AcknowledgeWorkStep DEF RowStep, RowMove
<1>5. QED
    BY <1>2, <1>3, <1>4

\* The codes the scheduler refuses a Work with.
LEMMA RefusalType == \A w, t : Refusal(w, t) \in FailureCodes
<1>1. \A r : SelectEngine(r, Inventory).failure \in FailureCodes
    BY DEF SelectEngine, SelectionFailure, FailureCodes
<1>2. QED
    BY <1>1 DEF Refusal, Selection, FailureCodes

LEMMA SchedulerRows ==
    ASSUME KernelInv,
           \/ SchedulerSweep \/ SchedulerRefuse \/ SchedulerTooLate
           \/ SchedulerBegin \/ SchedulerLaunchFails
    PROVE  StoreTypeOK' /\ \A w \in WorkIds : RowStep(w)
<1>1. StoreTypeOK /\ now \in Int
    BY NowType DEF KernelInv, TypeOK
<1>2. CASE SchedulerSweep
    <2>1. ExpireQueuedDeadlines(now)
        BY <1>2 DEF SchedulerSweep
    <2>2. QED
        BY <1>1, <2>1, ExpireStep DEF RowStep, RowMove
<1>3. CASE SchedulerRefuse
    <2>1. sched.w \in WorkIds /\ FailQueued(sched.w, Refusal(sched.w, sched.now))
        BY <1>3 DEF SchedulerRefuse, Scheduling, KernelInv, SchedWellFormed
    <2>2. QED
        BY <1>1, <2>1, RefusalType, FailQueuedStep DEF RowStep, RowMove
<1>4. CASE SchedulerTooLate
    <2>1. sched.w \in WorkIds /\ FailQueued(sched.w, "DEADLINE_EXPIRED")
        BY <1>4 DEF SchedulerTooLate, Scheduling, KernelInv, SchedWellFormed
    <2>2. "DEADLINE_EXPIRED" \in FailureCodes
        BY DEF FailureCodes
    <2>3. QED
        BY <1>1, <2>1, <2>2, FailQueuedStep DEF RowStep, RowMove
<1>5. CASE SchedulerBegin
    <2> DEFINE w == sched.w
               e == Selection(w).engine
    <2>1. /\ sched.pc = "begin" /\ w \in WorkIds
          /\ Selection(w).failure = "" /\ BeginAttempt(w, e, now)
          /\ sched' = [sched EXCEPT !.pc = "launch", !.n = work[w].attempt_count + 1]
          /\ task' = task /\ ~Reached(work[w].req.deadline, now)
        BY <1>5 DEF SchedulerBegin, Scheduling, KernelInv, SchedWellFormed
    <2>2. e \in DOMAIN Inventory /\ e \in Nat
        BY <2>1, SelectionInRange, KernelAssumption DEF Selection
    <2>3. work[w].attempt_count < MaxAttempts
        <3>1. work[w].state = "QUEUED"
            BY <2>1 DEF BeginAttempt, CanBegin
        <3>2. /\ work[w].req \in Requests
              /\ work[w].attempt_count < work[w].req.max_attempts
              /\ work[w].attempt_count \in 0 .. MaxAttempts
            BY <2>1, <3>1 DEF KernelInv, RowsWellFormed, BudgetRespected, TypeOK,
                              StoreTypeOK, WorkRows
        <3>3. work[w].req.max_attempts \in 1 .. MaxAttempts
            BY <3>2, StoreAssumption DEF ValidRequest
        <3>4. QED
            BY <3>2, <3>3, StoreAssumption
    <2> HIDE DEF e, w
    <2>4. /\ StoreTypeOK' /\ RowBegan(w, e, now)
          /\ \A v \in WorkIds \ {w} : RowSame(v)
        BY <1>1, <2>1, <2>2, <2>3, BeginAttemptStep
    <2>5. BegunBy(w)
        BY <2>1, <2>2, <2>4 DEF BegunBy, w
    <2>6. QED
        BY <2>4, <2>5 DEF RowStep, RowMove
<1>6. CASE SchedulerLaunchFails
    <2> DEFINE w == sched.w
    <2>1. /\ sched.pc = "launch" /\ w \in WorkIds /\ sched.n \in AttemptNumbers
          /\ FinishRetryableFailure(w, sched.n, "FAILED", now)
          /\ sched' = SchedLoop /\ task' = task
        BY <1>6 DEF SchedulerLaunchFails, Scheduling, KernelInv, SchedWellFormed
    <2>2. Committable(w) /\ work[w].attempt_count = sched.n
        BY <2>1, OwnerCommittable DEF Owns
    <2>3. /\ StoreTypeOK' /\ RowEnded(w, "FAILED", now)
          /\ \A v \in WorkIds \ {w} : RowSame(v)
        BY <1>1, <2>1, <2>2, FinishRetryableFailureStep
    <2>4. EndedBy(w)
        BY <2>1, <2>3 DEF EndedBy, AttemptStates
    <2>5. QED
        BY <2>3, <2>4 DEF RowStep, RowMove
<1>7. QED
    BY <1>2, <1>3, <1>4, <1>5, <1>6

\* A commit of a task, as the rows see it.
LEMMA TaskCommitRows ==
    ASSUME KernelInv, NEW w \in WorkIds, NEW n \in AttemptNumbers,
           task[w][n] \in OwningPcs, Goto(w, n, "release"), sched' = sched,
           \/ FinishSuccess(w, n, now) /\ task[w][n] = "commit"
           \/ FinishCancelled(w, n, now) /\ task[w][n] = "cancelled"
           \/ FinishRetryableFailure(w, n, "TIMED_OUT", now) /\ task[w][n] = "timed_out"
           \/ FinishRetryableFailure(w, n, "FAILED", now)
    PROVE  StoreTypeOK' /\ \A v \in WorkIds : RowStep(v)
<1>1. StoreTypeOK /\ now \in Int
    BY NowType DEF KernelInv, TypeOK
<1>2. Committable(w) /\ work[w].attempt_count = n
    BY OwnerCommittable DEF Owns
<1>3. \E a \in {"SUCCEEDED", "CANCELLED", "TIMED_OUT", "FAILED"} :
        /\ StoreTypeOK' /\ RowEnded(w, a, now)
        /\ a = "SUCCEEDED" => task[w][n] = "commit"
        /\ a = "CANCELLED" => task[w][n] = "cancelled"
        /\ a = "TIMED_OUT" => task[w][n] = "timed_out"
        /\ \A v \in WorkIds \ {w} : RowSame(v)
    <2>1. CASE FinishSuccess(w, n, now) /\ task[w][n] = "commit"
        BY <1>1, <1>2, <2>1, FinishSuccessStep
    <2>2. CASE FinishCancelled(w, n, now) /\ task[w][n] = "cancelled"
        BY <1>1, <1>2, <2>2, FinishCancelledStep
    <2>3. CASE FinishRetryableFailure(w, n, "TIMED_OUT", now) /\ task[w][n] = "timed_out"
        BY <1>1, <1>2, <2>3, FinishRetryableFailureStep
    <2>4. CASE FinishRetryableFailure(w, n, "FAILED", now)
        BY <1>1, <1>2, <2>4, FinishRetryableFailureStep
    <2>5. QED
        BY <2>1, <2>2, <2>3, <2>4
<1>4. EndedBy(w)
    BY <1>3 DEF EndedBy, AttemptStates, Goto
<1>5. QED
    BY <1>3, <1>4 DEF RowStep, RowMove

LEMMA TaskRows ==
    ASSUME KernelInv, NEW w \in WorkIds, NEW n \in AttemptNumbers,
           TaskStep(w, n) \/ WorkerReplies(w, n)
    PROVE  StoreTypeOK' /\ \A v \in WorkIds : RowStep(v)
<1>1. CASE \/ TaskFinishSuccess(w, n) \/ TaskFinishCancelled(w, n)
           \/ TaskFinishTimedOut(w, n) \/ TaskFinishFailed(w, n)
    BY <1>1, TaskCommitRows
    DEF TaskFinishSuccess, TaskFinishCancelled, TaskFinishTimedOut, TaskFinishFailed,
        TaskAt, OwningPcs, taskFrame
<1>2. CASE TaskHandleError(w, n)
    <2>1. task[w][n] \in OwningPcs /\ Goto(w, n, "release") /\ sched' = sched
        BY <1>2 DEF TaskHandleError, TaskAt, OwningPcs, taskFrame
    <2>2. UNCHANGED storeVars \/ FinishRetryableFailure(w, n, "FAILED", now)
        BY <1>2 DEF TaskHandleError
    <2>3. QED
        BY <2>1, <2>2, QuietRows, TaskCommitRows
<1>3. CASE UNCHANGED storeVars
    BY <1>3, QuietRows
<1>4. QED
    BY <1>1, <1>2, <1>3
    DEF TaskStep, WorkerReplies, TaskSeesStop, TaskReadInput, TaskReadInputFails,
        WorkerStopped, WorkerCancelled, WorkerTimedOut, TaskRecheckCancel,
        TaskWriteResult, TaskWriteResultFails, TaskStoreError, TaskAbandon, TaskRelease

LEMMA NextRows ==
    ASSUME KernelInv, [Next]_vars
    PROVE  StoreTypeOK' /\ \A w \in WorkIds : RowStep(w)
<1>1. CASE UNCHANGED storeVars
    BY <1>1, QuietRows
<1>2. CASE ProcessStep
    BY <1>1, <1>2, StartRows DEF ProcessStep, RequestStop, Shutdown, Crash, Tick
<1>3. CASE IpcStep
    BY <1>1, <1>3, IpcRows DEF IpcStep, SubmitInsertFails, RemoveInput, RemoveResult
<1>4. CASE SchedulerStep
    BY <1>1, <1>4, SchedulerRows
    DEF SchedulerStep, SchedulerExit, SchedulerPick, SchedulerBlocked, SchedulerReserve,
        SchedulerLostRace, SchedulerLaunch
<1>5. CASE \E w \in WorkIds : ClientStep(w)
    BY <1>1, <1>5, IpcRows DEF ClientStep, SubmitWriteInput
<1>6. CASE \E w \in WorkIds, n \in AttemptNumbers : TaskStep(w, n) \/ WorkerReplies(w, n)
    BY <1>6, TaskRows
<1>7. CASE UNCHANGED vars
    BY <1>1, <1>7 DEF vars, storeVars
<1>8. QED
    BY <1>2, <1>3, <1>4, <1>5, <1>6, <1>7 DEF Next
-----------------------------------------------------------------------------
(***************************************************************************)
(* The invariants of one Work and its attempts follow from its step alone. *)
(***************************************************************************)
RowInv(w) ==
    /\ Typed(w)
    /\ LedgerOf(w)
    /\ work[w].state # "ABSENT" =>
        /\ work[w].req \in Requests
        /\ work[w].attempt_count <= work[w].req.max_attempts
        /\ work[w].state = "QUEUED" => work[w].attempt_count < work[w].req.max_attempts
    /\ work[w].acknowledged => work[w].state = "SUCCEEDED"
    /\ \A n \in AttemptNumbers :
        n <= work[w].attempt_count => attempts[w][n].engine \in DOMAIN Inventory
    /\ work[w].cancel_requested => work[w].state \in {"RUNNING", "CANCELLED", "SUCCEEDED"}

LEMMA RowInvOfKernel ==
    KernelInv => \A w \in WorkIds : RowInv(w)
BY DEF KernelInv, RowInv, Typed, TypeOK, StoreTypeOK, AttemptLedger, RowsWellFormed,
       BudgetRespected, CancellationKept

\* Steps that change neither the attempts nor their number.
LEMMA RowMoveInv ==
    ASSUME NEW w \in WorkIds, RowInv(w), Typed(w)', RowMove(w)
    PROVE  RowInv(w)'
<1>1. CASE RowSame(w)
    BY <1>1 DEF RowSame, RowInv, LedgerOf
<1>2. CASE RowRefused(w)
    BY <1>2 DEF RowRefused, Quiet, Frame, RowInv, LedgerOf, Typed, WorkRows
<1>3. CASE RowCancelled(w)
    BY <1>3 DEF RowCancelled, Quiet, Frame, RowInv, LedgerOf, Typed, WorkRows
<1>4. CASE RowAcknowledged(w)
    BY <1>4 DEF RowAcknowledged, Quiet, Frame, RowInv, LedgerOf, Typed, WorkRows
<1>5. QED
    BY <1>1, <1>2, <1>3, <1>4 DEF RowMove

LEMMA RowInsertedInv ==
    ASSUME NEW w \in WorkIds, NEW req \in Requests, RowInv(w), Typed(w)',
           RowInserted(w, req)
    PROVE  RowInv(w)'
<1>1. work[w].attempt_count = 0
    BY DEF RowInv, RowInserted, LedgerOf, Typed, WorkRows
<1>2. req.max_attempts \in 1 .. MaxAttempts
    BY StoreAssumption DEF ValidRequest
<1>3. LedgerOf(w)'
    BY <1>1 DEF RowInv, RowInserted, LedgerOf
<1>4. QED
    BY <1>2, <1>3, StoreAssumption DEF RowInv, RowInserted, AttemptNumbers

LEMMA RowBegunInv ==
    ASSUME NEW w \in WorkIds, NEW e \in DOMAIN Inventory, NEW t, RowInv(w), Typed(w)',
           RowBegan(w, e, t)
    PROVE  RowInv(w)'
<1> DEFINE c == work[w].attempt_count
<1>1. c \in 0 .. MaxAttempts /\ work[w].req \in Requests /\ c < work[w].req.max_attempts
    BY DEF RowInv, RowBegan, Typed, WorkRows
<1>2. work[w].req.max_attempts \in 1 .. MaxAttempts
    BY <1>1, StoreAssumption DEF ValidRequest
<1>3. c + 1 \in AttemptNumbers /\ c + 1 <= work[w].req.max_attempts
    BY <1>1, <1>2, StoreAssumption DEF AttemptNumbers
<1>4. /\ attempts'[w][c + 1].state = "RUNNING"
      /\ attempts'[w][c + 1].engine = e
      /\ \A n \in AttemptNumbers \ {c + 1} : attempts'[w][n] = attempts[w][n]
    BY <1>3 DEF RowInv, RowBegan, Typed
<1>5. work'[w].state = "RUNNING" /\ work'[w].attempt_count = c + 1 /\ work'[w].req = work[w].req
    BY DEF RowBegan, Frame
<1>6. LedgerOf(w)'
    <2>1. \A n \in AttemptNumbers :
            /\ attempts'[w][n].state = "ABSENT" <=> n > c + 1
            /\ n < c + 1 => attempts'[w][n].state \in Retryable
        <3> SUFFICES ASSUME NEW n \in AttemptNumbers
                     PROVE  /\ attempts'[w][n].state = "ABSENT" <=> n > c + 1
                            /\ n < c + 1 => attempts'[w][n].state \in Retryable
            OBVIOUS
        <3>1. n \in Nat /\ n >= 1 /\ c \in Nat
            BY <1>1, StoreAssumption DEF AttemptNumbers
        <3>2. CASE n = c + 1
            BY <1>4, <3>1, <3>2
        <3>3. CASE n > c + 1
            BY <1>4, <3>1, <3>3 DEF RowInv, LedgerOf
        <3>4. CASE n < c
            BY <1>4, <3>1, <3>4 DEF RowInv, LedgerOf, Retryable
        <3>5. CASE n = c
            <4>1. attempts[w][c].state \in AttemptStates
                BY <3>5 DEF RowInv, Typed, AttemptRows
            <4>2. /\ attempts[w][c].state # "ABSENT" /\ attempts[w][c].state # "RUNNING"
                  /\ attempts[w][c].state # "SUCCEEDED" /\ attempts[w][c].state # "CANCELLED"
                BY <3>1, <3>5 DEF RowInv, LedgerOf, RowBegan
            <4>3. QED
                BY <1>4, <3>1, <3>5, <4>1, <4>2 DEF AttemptStates, Retryable
        <3>6. QED
            BY <3>1, <3>2, <3>3, <3>4, <3>5
    <2>2. QED
        BY <1>1, <1>4, <1>5, <2>1 DEF LedgerOf
<1>7. \A n \in AttemptNumbers : n <= c + 1 => attempts'[w][n].engine \in DOMAIN Inventory
    BY <1>1, <1>4, StoreAssumption DEF RowInv, AttemptNumbers
<1>8. QED
    BY <1>1, <1>3, <1>5, <1>6, <1>7 DEF RowInv, RowBegan

LEMMA RowEndedInv ==
    ASSUME NEW w \in WorkIds, NEW a \in AttemptStates, NEW t, RowInv(w), Typed(w)',
           RowEnded(w, a, t)
    PROVE  RowInv(w)'
<1> DEFINE c == work[w].attempt_count
<1>1. c \in 0 .. MaxAttempts /\ work[w].req \in Requests /\ c <= work[w].req.max_attempts
    BY DEF RowInv, RowEnded, Typed, WorkRows
<1>2. c # 0
    BY DEF RowInv, RowEnded, LedgerOf
<1>3. c \in AttemptNumbers /\ c > 0
    BY <1>1, <1>2, StoreAssumption DEF AttemptNumbers
<1>4. /\ attempts'[w][c].state = a
      /\ attempts'[w][c].engine = attempts[w][c].engine
      /\ \A n \in AttemptNumbers \ {c} : attempts'[w][n] = attempts[w][n]
    BY <1>3 DEF RowInv, RowEnded, Typed, AttemptRows
<1>5. work'[w].attempt_count = c /\ work'[w].req = work[w].req
    BY DEF RowEnded, Frame
<1>6. LedgerOf(w)'
    <2>1. a # "ABSENT" /\ a # "RUNNING"
        BY DEF RowEnded, Ending
    <2>2. \A n \in AttemptNumbers :
            /\ attempts'[w][n].state = "ABSENT" <=> n > c
            /\ n < c => attempts'[w][n].state \in Retryable
        <3> SUFFICES ASSUME NEW n \in AttemptNumbers
                     PROVE  /\ attempts'[w][n].state = "ABSENT" <=> n > c
                            /\ n < c => attempts'[w][n].state \in Retryable
            OBVIOUS
        <3>1. n \in Int /\ c \in Int
            BY <1>1, StoreAssumption DEF AttemptNumbers
        <3>2. CASE n = c
            BY <1>4, <2>1, <3>1, <3>2
        <3>3. CASE n # c
            BY <1>4, <3>1, <3>3 DEF RowInv, LedgerOf
        <3>4. QED
            BY <3>2, <3>3
    <2>3. /\ work'[w].state # "ABSENT" /\ work'[w].state # "RUNNING"
          /\ work'[w].state = "SUCCEEDED" <=> a = "SUCCEEDED"
          /\ a = "CANCELLED" => work'[w].state = "CANCELLED"
        BY DEF RowEnded, Ending
    <2> HIDE DEF c
    <2>4. \A n \in AttemptNumbers :
            /\ attempts'[w][n].state = "ABSENT" <=> n > work'[w].attempt_count
            /\ n < work'[w].attempt_count => attempts'[w][n].state \in Retryable
        BY <1>5, <2>2
    <2>5. attempts'[w][work'[w].attempt_count].state = a /\ work'[w].attempt_count # 0
        BY <1>2, <1>4, <1>5
    <2>6. QED
        BY <2>1, <2>3, <2>4, <2>5 DEF LedgerOf
<1>7. \A n \in AttemptNumbers : n <= c => attempts'[w][n].engine \in DOMAIN Inventory
    BY <1>3, <1>4 DEF RowInv
<1>8. QED
    BY <1>1, <1>5, <1>6, <1>7 DEF RowInv, RowEnded

LEMMA NextRowInv ==
    ASSUME KernelInv, [Next]_vars
    PROVE  \A w \in WorkIds : RowInv(w)'
<1> SUFFICES ASSUME NEW w \in WorkIds PROVE RowInv(w)'
    OBVIOUS
<1>1. RowInv(w)
    BY RowInvOfKernel
<1>2. Typed(w)' /\ RowStep(w)
    BY NextRows DEF StoreTypeOK, Typed
<1>3. CASE RowMove(w)
    BY <1>1, <1>2, <1>3, RowMoveInv
<1>4. CASE InsertedBy(w)
    <2>1. ipc.req \in Requests /\ RowInserted(w, ipc.req)
        BY <1>4 DEF InsertedBy, KernelInv, IpcWellFormed
    <2>2. QED
        BY <1>1, <1>2, <2>1, RowInsertedInv
<1>5. CASE BegunBy(w)
    BY <1>1, <1>2, <1>5, RowBegunInv DEF BegunBy
<1>6. CASE EndedBy(w)
    BY <1>1, <1>2, <1>6, RowEndedInv DEF EndedBy
<1>7. QED
    BY <1>2, <1>3, <1>4, <1>5, <1>6 DEF RowStep
-----------------------------------------------------------------------------
(***************************************************************************)
(* The resource counters: every lease taken or given back is a requirement *)
(* of the inventory.                                                       *)
(***************************************************************************)
LEMMA ScheduledNeed ==
    ASSUME KernelInv,
           \/ sched.pc \in {"begin", "launch"}
           \/ sched.pc = "decide" /\ Refusal(sched.w, sched.now) = ""
    PROVE  Need(sched.w) \in Requirements /\ Selection(sched.w).failure = ""
<1>1. Selection(sched.w).failure = ""
    BY DEF KernelInv, SchedWellFormed, Refusal
<1>2. Selection(sched.w).engine \in DOMAIN Inventory
    BY <1>1, SelectionInRange DEF Selection
<1>3. QED
    BY <1>1, <1>2, KernelAssumption DEF Need

LEMMA TaskNeed ==
    ASSUME KernelInv, NEW w \in WorkIds, NEW n \in AttemptNumbers, task[w][n] # "none"
    PROVE  Inventory[attempts[w][n].engine].need \in Requirements
<1>1. n <= work[w].attempt_count
    BY DEF KernelInv, TasksWellFormed
<1>2. attempts[w][n].engine \in DOMAIN Inventory
    BY <1>1 DEF KernelInv, RowsWellFormed
<1>3. QED
    BY <1>2, KernelAssumption

LEMMA UsedMoves ==
    ASSUME KernelInv, [Next]_vars
    PROVE  \/ used' = used \/ used' = NothingUsed
           \/ \E need \in Requirements : Reserve(need) \/ Release(need)
<1>1. CASE ProcessStep
    BY <1>1 DEF ProcessStep, Start, RequestStop, Shutdown, Crash, Tick, memVars
<1>2. CASE IpcStep
    BY <1>2 DEF IpcStep, SubmitInsert, SubmitInsertFails, RemoveInput, RemoveResult
<1>3. CASE SchedulerStep
    <2>1. CASE SchedulerReserve
        BY <2>1, ScheduledNeed DEF SchedulerReserve, Scheduling
    <2>2. CASE SchedulerTooLate \/ SchedulerLostRace \/ SchedulerLaunchFails
        BY <2>2, ScheduledNeed
        DEF SchedulerTooLate, SchedulerLostRace, SchedulerLaunchFails, Scheduling
    <2>3. QED
        BY <1>3, <2>1, <2>2
        DEF SchedulerStep, SchedulerExit, SchedulerSweep, SchedulerPick, SchedulerRefuse,
            SchedulerBlocked, SchedulerBegin, SchedulerLaunch
<1>4. CASE \E w \in WorkIds : ClientStep(w)
    BY <1>4 DEF ClientStep, SubmitWriteInput, Cancel, Acknowledge, memVars
<1>5. CASE \E w \in WorkIds, n \in AttemptNumbers : TaskStep(w, n) \/ WorkerReplies(w, n)
    <2> SUFFICES ASSUME NEW w \in WorkIds, NEW n \in AttemptNumbers,
                        TaskStep(w, n) \/ WorkerReplies(w, n)
                 PROVE  used' = used \/ \E need \in Requirements : Release(need)
        BY <1>5
    <2>1. CASE TaskRelease(w, n)
        BY <2>1, TaskNeed DEF TaskRelease, TaskAt
    <2>2. QED
        BY <2>1
        DEF TaskStep, WorkerReplies, TaskSeesStop, TaskReadInput, TaskReadInputFails,
            WorkerStopped, WorkerCancelled, WorkerTimedOut, TaskRecheckCancel,
            TaskWriteResult, TaskWriteResultFails, TaskFinishSuccess,
            TaskFinishCancelled, TaskFinishTimedOut, TaskFinishFailed,
            TaskHandleError, TaskStoreError, TaskAbandon
<1>6. CASE UNCHANGED vars
    BY <1>6 DEF vars
<1>7. QED
    BY <1>1, <1>2, <1>3, <1>4, <1>5, <1>6 DEF Next

LEMMA NextUsed ==
    ASSUME KernelInv, [Next]_vars
    PROVE  used' \in [ResourceKinds -> Int] /\ CapacityRespected'
<1>1. used \in [ResourceKinds -> Int] /\ CapacityRespected
    BY DEF KernelInv, TypeOK
<1>2. CASE used' = used
    BY <1>1, <1>2 DEF CapacityRespected
<1>3. CASE used' = NothingUsed
    BY <1>3, CapacityAssumption DEF CapacityRespected, NothingUsed
<1>4. ASSUME NEW need \in Requirements, Reserve(need)
      PROVE  used' \in [ResourceKinds -> Int] /\ CapacityRespected'
    BY <1>1, <1>4, CapacityAssumption DEF CapacityRespected, Reserve, Fits, Requirements
<1>5. ASSUME NEW need \in Requirements, Release(need)
      PROVE  used' \in [ResourceKinds -> Int] /\ CapacityRespected'
    BY <1>1, <1>5, CapacityAssumption DEF CapacityRespected, Release, Requirements
<1>6. QED
    BY <1>2, <1>3, <1>4, <1>5, UsedMoves
-----------------------------------------------------------------------------
(***************************************************************************)
(* The types of the threads' locals and of the files.                      *)
(***************************************************************************)
LEMMA LocalsInRange ==
    IpcIdle \in IpcStates /\ SchedLoop \in SchedStates
    /\ NoTasks \in [WorkIds -> [AttemptNumbers -> TaskPcs]]
BY StoreAssumption, KernelAssumption
DEF IpcIdle, IpcStates, SchedLoop, SchedStates, NoTasks, TaskPcs

LEMMA SchedulerType ==
    ASSUME KernelInv, SchedulerStep
    PROVE  /\ sched' \in SchedStates
           /\ task' \in [WorkIds -> [AttemptNumbers -> TaskPcs]]
<1>1. /\ sched \in SchedStates /\ now \in 0 .. MaxTime
      /\ task \in [WorkIds -> [AttemptNumbers -> TaskPcs]]
    BY DEF KernelInv, TypeOK
<1>2. CASE sched' = SchedLoop /\ task' = task
    BY <1>1, <1>2, LocalsInRange
<1>3. CASE SchedulerExit
    BY <1>1, <1>3, LocalsInRange DEF SchedulerExit, SchedStates, SchedLoop
<1>4. CASE SchedulerSweep
    BY <1>1, <1>4, LocalsInRange DEF SchedulerSweep, SchedStates, SchedLoop
<1>5. CASE SchedulerPick
    BY <1>1, <1>5, LocalsInRange DEF SchedulerPick, SchedStates, NextEligible, Eligible
<1>6. CASE SchedulerReserve
    BY <1>1, <1>6 DEF SchedulerReserve, SchedStates
<1>7. CASE SchedulerBegin
    <2>1. sched.w \in WorkIds /\ work[sched.w].state = "QUEUED"
        BY <1>7 DEF SchedulerBegin, Scheduling, BeginAttempt, CanBegin, KernelInv,
                    SchedWellFormed
    <2>2. /\ work[sched.w].req \in Requests
          /\ work[sched.w].attempt_count \in 0 .. MaxAttempts
          /\ work[sched.w].attempt_count < work[sched.w].req.max_attempts
        BY <2>1 DEF KernelInv, TypeOK, StoreTypeOK, WorkRows, RowsWellFormed,
                    BudgetRespected
    <2>3. work[sched.w].req.max_attempts \in 1 .. MaxAttempts
        BY <2>2, StoreAssumption DEF ValidRequest
    <2>4. work[sched.w].attempt_count + 1 \in 0 .. MaxAttempts
        BY <2>2, <2>3, StoreAssumption
    <2>5. QED
        BY <1>1, <1>7, <2>4 DEF SchedulerBegin, SchedStates
<1>8. CASE SchedulerLaunch
    <2>1. sched' = SchedLoop /\ task' = [task EXCEPT ![sched.w][sched.n] = "start"]
        BY <1>8 DEF SchedulerLaunch
    <2>2. "start" \in TaskPcs
        BY DEF TaskPcs, OwningPcs
    <2>3. QED
        BY <1>1, <2>1, <2>2, LocalsInRange
<1>9. QED
    BY <1>2, <1>3, <1>4, <1>5, <1>6, <1>7, <1>8
    DEF SchedulerStep, SchedulerRefuse, SchedulerBlocked, SchedulerTooLate,
        SchedulerLostRace, SchedulerLaunchFails

LEMMA TaskType ==
    ASSUME KernelInv, NEW w \in WorkIds, NEW n \in AttemptNumbers,
           TaskStep(w, n) \/ WorkerReplies(w, n)
    PROVE  /\ \E pc \in TaskPcs : Goto(w, n, pc)
           /\ task' \in [WorkIds -> [AttemptNumbers -> TaskPcs]]
           /\ result' \in [WorkIds -> 0 .. MaxAttempts]
           /\ input' = input /\ UNCHANGED taskFrame
<1>1. /\ task \in [WorkIds -> [AttemptNumbers -> TaskPcs]]
      /\ result \in [WorkIds -> 0 .. MaxAttempts]
    BY DEF KernelInv, TypeOK
<1>2. \E pc \in TaskPcs : Goto(w, n, pc)
    <2> USE DEF TaskPcs, OwningPcs
    <2>1. CASE TaskRecheckCancel(w, n)
        BY <2>1 DEF TaskRecheckCancel
    <2>2. CASE WorkerReplies(w, n)
        BY <2>2 DEF WorkerReplies
    <2>3. QED
        BY <2>1, <2>2
        DEF TaskStep, TaskSeesStop, TaskReadInput, TaskReadInputFails, WorkerStopped,
            WorkerCancelled, WorkerTimedOut, TaskWriteResult, TaskWriteResultFails,
            TaskFinishSuccess, TaskFinishCancelled, TaskFinishTimedOut,
            TaskFinishFailed, TaskHandleError, TaskStoreError, TaskAbandon, TaskRelease
<1>3. /\ result' = result \/ result' = [result EXCEPT ![w] = n]
      /\ input' = input /\ UNCHANGED taskFrame
    BY DEF TaskStep, WorkerReplies, TaskSeesStop, TaskReadInput, TaskReadInputFails,
           WorkerStopped, WorkerCancelled, WorkerTimedOut, TaskRecheckCancel,
           TaskWriteResult, TaskWriteResultFails, TaskFinishSuccess,
           TaskFinishCancelled, TaskFinishTimedOut, TaskFinishFailed,
           TaskHandleError, TaskStoreError, TaskAbandon, TaskRelease, fileVars
<1>4. n \in 0 .. MaxAttempts
    BY StoreAssumption DEF AttemptNumbers
<1>5. task' \in [WorkIds -> [AttemptNumbers -> TaskPcs]]
    BY <1>1, <1>2 DEF Goto
<1>6. result' \in [WorkIds -> 0 .. MaxAttempts]
    BY <1>1, <1>3, <1>4
<1>7. QED
    BY <1>2, <1>3, <1>5, <1>6

LEMMA IpcType ==
    ASSUME KernelInv, IpcStep \/ (\E w \in WorkIds : ClientStep(w))
    PROVE  /\ ipc' \in IpcStates
           /\ input' \in [WorkIds -> BOOLEAN]
           /\ result' \in [WorkIds -> 0 .. MaxAttempts]
           /\ UNCHANGED <<mode, outages, now, sched, task>>
<1>1. /\ ipc \in IpcStates /\ now \in 0 .. MaxTime
      /\ input \in [WorkIds -> BOOLEAN]
      /\ result \in [WorkIds -> 0 .. MaxAttempts]
    BY DEF KernelInv, TypeOK
<1>2. CASE SubmitInsert \/ SubmitInsertFails
    BY <1>1, <1>2, LocalsInRange DEF SubmitInsert, SubmitInsertFails, fileVars
<1>3. CASE RemoveInput
    BY <1>1, <1>3 DEF RemoveInput, IpcStates
<1>4. CASE RemoveResult
    BY <1>1, <1>4, LocalsInRange, StoreAssumption DEF RemoveResult
<1>5. ASSUME NEW w \in WorkIds, ClientStep(w)
      PROVE  /\ ipc' \in IpcStates
             /\ input' \in [WorkIds -> BOOLEAN]
             /\ result' \in [WorkIds -> 0 .. MaxAttempts]
             /\ UNCHANGED <<mode, outages, now, sched, task>>
    <2>1. CASE Cancel(w)
        BY <1>1, <2>1 DEF Cancel, memVars, fileVars
    <2>2. CASE Acknowledge(w)
        BY <1>1, <2>2, LocalsInRange DEF Acknowledge, fileVars, IpcStates
    <2>3. CASE \E req \in Requests : SubmitWriteInput(w, req)
        BY <1>1, <2>3 DEF SubmitWriteInput, IpcStates
    <2>4. QED
        BY <1>5, <2>1, <2>2, <2>3 DEF ClientStep
<1>6. QED
    BY <1>2, <1>3, <1>4, <1>5 DEF IpcStep

LEMMA NextType ==
    ASSUME KernelInv, [Next]_vars
    PROVE  TypeOK'
<1>1. StoreTypeOK' /\ used' \in [ResourceKinds -> Int]
    BY NextRows, NextUsed
<1>2. TypeOK
    BY DEF KernelInv
<1>3. CASE ProcessStep
    <2>1. CASE Start
        BY <1>1, <1>2, <2>1, LocalsInRange DEF Start, fileVars, TypeOK
    <2>2. CASE RequestStop
        BY <1>1, <1>2, <2>2, KernelAssumption DEF RequestStop, memVars, fileVars, TypeOK
    <2>3. CASE Shutdown
        BY <1>1, <1>2, <2>3 DEF Shutdown, memVars, fileVars, TypeOK
    <2>4. CASE Crash
        BY <1>1, <1>2, <2>4, LocalsInRange, KernelAssumption DEF Crash, fileVars, TypeOK
    <2>5. CASE Tick
        BY <1>1, <1>2, <2>5, KernelAssumption DEF Tick, memVars, fileVars, TypeOK
    <2>6. QED
        BY <1>3, <2>1, <2>2, <2>3, <2>4, <2>5 DEF ProcessStep
<1>4. CASE IpcStep \/ \E w \in WorkIds : ClientStep(w)
    BY <1>1, <1>2, <1>4, IpcType DEF TypeOK
<1>5. CASE SchedulerStep
    <2>1. UNCHANGED schedFrame
        BY <1>5 DEF SchedulerStep, SchedulerExit, SchedulerSweep, SchedulerPick,
            SchedulerRefuse, SchedulerBlocked, SchedulerReserve, SchedulerTooLate,
            SchedulerBegin, SchedulerLostRace, SchedulerLaunch, SchedulerLaunchFails
    <2>2. QED
        BY <1>1, <1>2, <1>5, <2>1, SchedulerType DEF TypeOK, schedFrame, fileVars
<1>6. CASE \E w \in WorkIds, n \in AttemptNumbers : TaskStep(w, n) \/ WorkerReplies(w, n)
    BY <1>1, <1>2, <1>6, TaskType DEF TypeOK, taskFrame
<1>7. CASE UNCHANGED vars
    BY <1>1, <1>2, <1>7 DEF TypeOK, vars
<1>8. QED
    BY <1>3, <1>4, <1>5, <1>6, <1>7 DEF Next
-----------------------------------------------------------------------------
(***************************************************************************)
(* What one step does to each thread and each file.                        *)
(***************************************************************************)
LEMMA TaskMoves ==
    ASSUME KernelInv, [Next]_vars, NEW w \in WorkIds, NEW n \in AttemptNumbers
    PROVE  \/ task'[w][n] = task[w][n]
           \/ task'[w][n] = "none"
           \/ /\ sched.pc = "launch" /\ sched.w = w /\ sched.n = n
              /\ task'[w][n] = "start" /\ sched' = SchedLoop /\ UNCHANGED storeVars
           \/ /\ TaskStep(w, n) \/ WorkerReplies(w, n)
              /\ sched' = sched /\ \E pc \in TaskPcs : task'[w][n] = pc /\ Goto(w, n, pc)
<1>1. task \in [WorkIds -> [AttemptNumbers -> TaskPcs]]
    BY DEF KernelInv, TypeOK
<1>2. CASE ProcessStep
    BY <1>2 DEF ProcessStep, Start, RequestStop, Shutdown, Crash, Tick, memVars, NoTasks
<1>3. CASE IpcStep \/ \E v \in WorkIds : ClientStep(v)
    BY <1>3, IpcType
<1>4. CASE SchedulerStep
    <2>1. CASE SchedulerLaunch
        BY <1>1, <2>1 DEF SchedulerLaunch, Scheduling, KernelInv, SchedWellFormed
    <2>2. QED
        BY <1>4, <2>1
        DEF SchedulerStep, SchedulerExit, SchedulerSweep, SchedulerPick, SchedulerRefuse,
            SchedulerBlocked, SchedulerReserve, SchedulerTooLate, SchedulerBegin,
            SchedulerLostRace, SchedulerLaunchFails
<1>5. ASSUME NEW v \in WorkIds, NEW m \in AttemptNumbers, TaskStep(v, m) \/ WorkerReplies(v, m)
      PROVE  \/ task'[w][n] = task[w][n]
             \/ /\ TaskStep(w, n) \/ WorkerReplies(w, n)
                /\ sched' = sched /\ \E pc \in TaskPcs : task'[w][n] = pc /\ Goto(w, n, pc)
    <2>1. PICK pc \in TaskPcs : Goto(v, m, pc)
        BY <1>5, TaskType
    <2>2. sched' = sched
        BY <1>5, TaskType DEF taskFrame
    <2>3. CASE v = w /\ m = n
        BY <1>1, <1>5, <2>1, <2>2, <2>3 DEF Goto
    <2>4. CASE ~(v = w /\ m = n)
        BY <1>1, <2>1, <2>4 DEF Goto
    <2>5. QED
        BY <2>3, <2>4
<1>6. CASE UNCHANGED vars
    BY <1>6 DEF vars
<1>7. QED
    BY <1>2, <1>3, <1>4, <1>5, <1>6 DEF Next

LEMMA SchedMoves ==
    ASSUME KernelInv, [Next]_vars
    PROVE  \/ sched' = sched
           \/ sched'.pc \in {"loop", "pick", "exited"}
           \/ /\ sched'.pc = "decide" /\ UNCHANGED storeVars
              /\ sched'.w \in WorkIds /\ work[sched'.w].state # "ABSENT"
              /\ sched'.w \in Eligible(sched.now) /\ sched'.now = sched.now
           \/ SchedulerReserve
           \/ SchedulerBegin
<1>1. sched \in SchedStates
    BY DEF KernelInv, TypeOK
<1>2. CASE ProcessStep
    BY <1>2 DEF ProcessStep, Start, RequestStop, Shutdown, Crash, Tick, memVars, SchedLoop
<1>3. CASE IpcStep \/ \E v \in WorkIds : ClientStep(v)
    BY <1>3, IpcType
<1>4. CASE SchedulerStep
    <2>1. CASE SchedulerPick
        <3>1. CASE sched' = SchedLoop
            BY <3>1 DEF SchedLoop
        <3>2. ASSUME NEW w \in NextEligible(sched.now),
                     sched' = [sched EXCEPT !.pc = "decide", !.w = w]
              PROVE  /\ sched'.pc = "decide"
                     /\ sched'.w \in WorkIds /\ work[sched'.w].state # "ABSENT"
                     /\ sched'.w \in Eligible(sched.now) /\ sched'.now = sched.now
            BY <1>1, <3>2 DEF NextEligible, Eligible, SchedStates
        <3>3. QED
            BY <2>1, <3>1, <3>2 DEF SchedulerPick
    <2>2. CASE SchedulerExit \/ SchedulerSweep
        BY <2>2 DEF SchedulerExit, SchedulerSweep, SchedLoop
    <2>3. CASE sched' = SchedLoop
        BY <2>3 DEF SchedLoop
    <2>4. QED
        BY <1>4, <2>1, <2>2, <2>3
        DEF SchedulerStep, SchedulerRefuse, SchedulerBlocked, SchedulerTooLate,
            SchedulerLostRace, SchedulerLaunch, SchedulerLaunchFails
<1>5. CASE \E w \in WorkIds, n \in AttemptNumbers : TaskStep(w, n) \/ WorkerReplies(w, n)
    BY <1>5, TaskType DEF taskFrame
<1>6. CASE UNCHANGED vars
    BY <1>6 DEF vars
<1>7. QED
    BY <1>2, <1>3, <1>4, <1>5, <1>6 DEF Next

LEMMA IpcMoves ==
    ASSUME KernelInv, [Next]_vars
    PROVE  \/ ipc' = ipc
           \/ ipc'.pc = "idle"
           \/ \E w \in WorkIds, req \in Requests : SubmitWriteInput(w, req)
           \/ \E w \in WorkIds : Acknowledge(w)
           \/ RemoveInput
<1>1. CASE ProcessStep
    BY <1>1 DEF ProcessStep, Start, RequestStop, Shutdown, Crash, Tick, memVars, IpcIdle
<1>2. CASE IpcStep \/ \E v \in WorkIds : ClientStep(v)
    BY <1>2 DEF IpcStep, ClientStep, SubmitInsert, SubmitInsertFails, RemoveResult, Cancel,
                IpcIdle, memVars
<1>3. CASE SchedulerStep
    BY <1>3
    DEF SchedulerStep, SchedulerExit, SchedulerSweep, SchedulerPick, SchedulerRefuse,
        SchedulerBlocked, SchedulerReserve, SchedulerTooLate, SchedulerBegin,
        SchedulerLostRace, SchedulerLaunch, SchedulerLaunchFails, schedFrame
<1>4. CASE \E w \in WorkIds, n \in AttemptNumbers : TaskStep(w, n) \/ WorkerReplies(w, n)
    BY <1>4, TaskType DEF taskFrame
<1>5. CASE UNCHANGED vars
    BY <1>5 DEF vars
<1>6. QED
    BY <1>1, <1>2, <1>3, <1>4, <1>5 DEF Next

LEMMA FileMoves ==
    ASSUME KernelInv, [Next]_vars, NEW w \in WorkIds
    PROVE  /\ \/ input'[w] = input[w]
              \/ input'[w] = TRUE
              \/ ipc.pc = "remove_input" /\ ipc.w = w /\ UNCHANGED storeVars
           /\ \/ result'[w] = result[w]
              \/ ipc.pc = "remove_result" /\ ipc.w = w /\ UNCHANGED storeVars
              \/ /\ UNCHANGED storeVars
                 /\ \E n \in AttemptNumbers : task[w][n] = "write" /\ TaskWriteResult(w, n)
<1>1. input \in [WorkIds -> BOOLEAN] /\ result \in [WorkIds -> 0 .. MaxAttempts]
    BY DEF KernelInv, TypeOK
<1>2. CASE ProcessStep
    BY <1>2 DEF ProcessStep, Start, RequestStop, Shutdown, Crash, Tick, fileVars
<1>3. CASE IpcStep
    <2>1. CASE RemoveInput
        BY <1>1, <2>1 DEF RemoveInput
    <2>2. CASE RemoveResult
        BY <1>1, <2>2 DEF RemoveResult
    <2>3. QED
        BY <1>3, <2>1, <2>2 DEF IpcStep, SubmitInsert, SubmitInsertFails, fileVars
<1>4. ASSUME NEW v \in WorkIds, ClientStep(v)
      PROVE  /\ input'[w] = input[w] \/ input'[w] = TRUE
             /\ result' = result
    BY <1>1, <1>4 DEF ClientStep, SubmitWriteInput, Cancel, Acknowledge, fileVars
<1>5. CASE SchedulerStep
    BY <1>5
    DEF SchedulerStep, SchedulerExit, SchedulerSweep, SchedulerPick, SchedulerRefuse,
        SchedulerBlocked, SchedulerReserve, SchedulerTooLate, SchedulerBegin,
        SchedulerLostRace, SchedulerLaunch, SchedulerLaunchFails, schedFrame, fileVars
<1>6. ASSUME NEW v \in WorkIds, NEW m \in AttemptNumbers, TaskStep(v, m) \/ WorkerReplies(v, m)
      PROVE  /\ input' = input
             /\ \/ result'[w] = result[w]
                \/ /\ UNCHANGED storeVars
                   /\ \E n \in AttemptNumbers : task[w][n] = "write" /\ TaskWriteResult(w, n)
    <2>1. CASE TaskWriteResult(v, m)
        BY <1>1, <2>1 DEF TaskWriteResult, TaskAt
    <2>2. QED
        BY <1>6, <2>1
        DEF TaskStep, WorkerReplies, TaskSeesStop, TaskReadInput, TaskReadInputFails,
            WorkerStopped, WorkerCancelled, WorkerTimedOut, TaskRecheckCancel,
            TaskWriteResultFails, TaskFinishSuccess, TaskFinishCancelled,
            TaskFinishTimedOut, TaskFinishFailed, TaskHandleError, TaskStoreError,
            TaskAbandon, TaskRelease, fileVars
<1>7. CASE UNCHANGED vars
    BY <1>7 DEF vars
<1>8. QED
    BY <1>2, <1>3, <1>4, <1>5, <1>6, <1>7 DEF Next
-----------------------------------------------------------------------------
(***************************************************************************)
(* What never goes back: a submitted Work keeps its request, and its       *)
(* cancellation, acknowledgement and attempts only grow.                   *)
(***************************************************************************)
LEMMA RowFacts ==
    ASSUME KernelInv, [Next]_vars, NEW w \in WorkIds
    PROVE  /\ work[w].state # "ABSENT" =>
                work'[w].state # "ABSENT" /\ work'[w].req = work[w].req
           /\ work[w].cancel_requested => work'[w].cancel_requested
           /\ work[w].acknowledged => work'[w].acknowledged
           /\ work[w].attempt_count <= work'[w].attempt_count
<1>1. RowStep(w) /\ RowInv(w)
    BY NextRows, RowInvOfKernel
<1>2. work[w].attempt_count \in 0 .. MaxAttempts
    BY <1>1 DEF RowInv, Typed, WorkRows
<1>3. CASE RowMove(w)
    BY <1>2, <1>3, StoreAssumption
    DEF RowMove, RowSame, RowRefused, RowCancelled, RowAcknowledged, Quiet, Frame
<1>4. CASE InsertedBy(w)
    <2>1. work[w].state = "ABSENT" /\ work'[w].attempt_count = 0
        BY <1>4 DEF InsertedBy, RowInserted
    <2>2. work[w].attempt_count = 0
        BY <1>1, <1>2, <2>1 DEF RowInv, LedgerOf
    <2>3. QED
        BY <1>1, <2>1, <2>2 DEF RowInv
<1>5. CASE BegunBy(w)
    BY <1>2, <1>5, StoreAssumption DEF BegunBy, RowBegan, Frame
<1>6. CASE EndedBy(w)
    BY <1>2, <1>6, StoreAssumption DEF EndedBy, RowEnded, Frame, Ending
<1>7. QED
    BY <1>1, <1>3, <1>4, <1>5, <1>6 DEF RowStep

LEMMA NextIpc ==
    ASSUME KernelInv, [Next]_vars
    PROVE  IpcWellFormed'
<1>1. IpcWellFormed /\ RowsWellFormed
    BY DEF KernelInv
<1>2. CASE ipc' = ipc
    <2>1. CASE ipc.pc = "insert"
        <3> DEFINE w == ipc.w
        <3>1. w \in WorkIds /\ ipc.req \in Requests /\ work[w].state = "ABSENT" /\ input[w]
            BY <1>1, <2>1 DEF IpcWellFormed
        <3>2. input'[w]
            BY <2>1, <3>1, FileMoves
        <3>3. work'[w].state = "ABSENT"
            <4>1. RowStep(w)
                BY <3>1, NextRows
            <4>2. ~InsertedBy(w)
                BY <1>2, <2>1 DEF InsertedBy, IpcIdle
            <4>3. QED
                BY <3>1, <4>1, <4>2
                DEF RowStep, RowMove, RowSame, RowRefused, RowCancelled,
                    RowAcknowledged, BegunBy, RowBegan, EndedBy, RowEnded
        <3>4. QED
            BY <1>2, <2>1, <3>1, <3>2, <3>3 DEF IpcWellFormed
    <2>2. CASE ipc.pc # "insert"
        BY <1>1, <1>2, <2>2, RowFacts DEF IpcWellFormed
    <2>3. QED
        BY <2>1, <2>2
<1>3. CASE ipc'.pc = "idle"
    BY <1>3 DEF IpcWellFormed
<1>4. ASSUME NEW w \in WorkIds, NEW req \in Requests, SubmitWriteInput(w, req)
      PROVE  IpcWellFormed'
    BY <1>4 DEF SubmitWriteInput, IpcWellFormed, storeVars, KernelInv, TypeOK
<1>5. ASSUME NEW w \in WorkIds, Acknowledge(w)
      PROVE  IpcWellFormed'
    <2>1. work'[w].acknowledged
        BY <1>5 DEF Acknowledge, AcknowledgeWork, KernelInv, TypeOK, StoreTypeOK, WorkRows
    <2>2. ipc'.pc = "remove_input" /\ ipc'.w = w
        BY <1>5 DEF Acknowledge, IpcIdle
    <2>3. QED
        BY <2>1, <2>2 DEF IpcWellFormed
<1>6. CASE RemoveInput
    <2>1. ipc'.pc = "remove_result" /\ ipc'.w = ipc.w /\ ipc.pc = "remove_input"
        BY <1>6 DEF RemoveInput, KernelInv, TypeOK, IpcStates
    <2>2. QED
        BY <1>1, <2>1, RowFacts DEF IpcWellFormed
<1>7. QED
    BY <1>2, <1>3, <1>4, <1>5, <1>6, IpcMoves

LEMMA NextSched ==
    ASSUME KernelInv, [Next]_vars
    PROVE  SchedWellFormed'
<1>1. SchedWellFormed /\ sched \in SchedStates
    BY DEF KernelInv, TypeOK
<1>2. ASSUME sched.pc \in {"decide", "begin", "launch"}, sched'.w = sched.w
      PROVE  /\ sched'.w \in WorkIds /\ work'[sched'.w].state # "ABSENT"
             /\ Selection(sched.w)' = Selection(sched.w)
    BY <1>1, <1>2, RowFacts DEF SchedWellFormed, Selection
<1>3. CASE sched' = sched
    BY <1>1, <1>2, <1>3 DEF SchedWellFormed
<1>4. CASE sched'.pc \in {"loop", "pick", "exited"}
    BY <1>4 DEF SchedWellFormed
<1>5. CASE /\ sched'.pc = "decide" /\ UNCHANGED storeVars
           /\ sched'.w \in WorkIds /\ work[sched'.w].state # "ABSENT"
    BY <1>5 DEF SchedWellFormed, storeVars
<1>6. CASE SchedulerReserve
    <2>1. /\ sched.pc = "decide" /\ Refusal(sched.w, sched.now) = ""
          /\ sched'.pc = "begin" /\ sched'.w = sched.w
        BY <1>1, <1>6 DEF SchedulerReserve, Scheduling, SchedStates
    <2>2. QED
        BY <1>2, <2>1, ScheduledNeed DEF SchedWellFormed
<1>7. CASE SchedulerBegin
    <2>1. /\ sched.pc = "begin" /\ sched'.pc = "launch" /\ sched'.w = sched.w
          /\ sched'.n = work[sched.w].attempt_count + 1 /\ work[sched.w].state = "QUEUED"
        BY <1>1, <1>7 DEF SchedulerBegin, Scheduling, SchedStates, BeginAttempt, CanBegin
    <2>2. sched.w \in WorkIds /\ Selection(sched.w).failure = ""
        BY <1>1, <2>1 DEF SchedWellFormed
    <2>3. /\ work[sched.w].attempt_count \in 0 .. MaxAttempts
          /\ sched'.n \in 0 .. MaxAttempts
        BY <2>2, NextType DEF KernelInv, TypeOK, StoreTypeOK, WorkRows, SchedStates
    <2>4. sched'.n \in AttemptNumbers
        BY <2>1, <2>3, StoreAssumption DEF AttemptNumbers
    <2>5. QED
        BY <1>2, <2>1, <2>2, <2>4 DEF SchedWellFormed
<1>8. QED
    BY <1>3, <1>4, <1>5, <1>6, <1>7, SchedMoves

LEMMA NextFiles ==
    ASSUME KernelInv, [Next]_vars
    PROVE  ResultRetained' /\ InputRetained'
<1> SUFFICES ASSUME NEW w \in WorkIds
             PROVE  /\ work'[w].state = "SUCCEEDED" /\ ~work'[w].acknowledged =>
                        ResultAvailable(w)' /\ result'[w] = work'[w].attempt_count
                    /\ work'[w].state \in {"QUEUED", "RUNNING"} => input'[w]
    BY DEF ResultRetained, InputRetained
<1>1. RowStep(w) /\ RowInv(w) /\ RowInv(w)'
    BY NextRows, RowInvOfKernel, NextRowInv
<1>2. ASSUME work'[w].state \in {"QUEUED", "RUNNING"}
      PROVE  input'[w]
    <2>1. CASE ipc.pc = "insert" /\ ipc.w = w
        BY <2>1, FileMoves DEF KernelInv, IpcWellFormed
    <2>2. CASE ~(ipc.pc = "insert" /\ ipc.w = w)
        <3>1. work[w].state \in {"QUEUED", "RUNNING"}
            BY <1>1, <1>2, <2>2
            DEF RowStep, RowMove, RowSame, RowRefused, RowCancelled, RowAcknowledged,
                InsertedBy, BegunBy, RowBegan, EndedBy, RowEnded
        <3>2. ~work[w].acknowledged /\ input[w]
            BY <1>1, <3>1 DEF RowInv, KernelInv, InputRetained
        <3>3. QED
            BY <3>2, FileMoves DEF KernelInv, IpcWellFormed
    <2>3. QED
        BY <2>1, <2>2
<1>3. ASSUME work'[w].state = "SUCCEEDED", ~work'[w].acknowledged
      PROVE  ResultAvailable(w)' /\ result'[w] = work'[w].attempt_count
    <2>1. work'[w].attempt_count # 0
        BY <1>1, <1>3 DEF RowInv, LedgerOf
    <2>2. CASE work[w].state = "SUCCEEDED"
        <3>1. ~work[w].acknowledged
            BY <1>3, RowFacts
        <3>2. result[w] = work[w].attempt_count
            BY <2>2, <3>1 DEF KernelInv, ResultRetained
        <3>3. work'[w].attempt_count = work[w].attempt_count
            BY <1>1, <2>2
            DEF RowStep, RowMove, RowSame, RowRefused, RowCancelled, RowAcknowledged,
                Quiet, InsertedBy, RowInserted, BegunBy, RowBegan, EndedBy, RowEnded
        <3>4. \A n \in AttemptNumbers : task[w][n] # "write"
            BY <2>2 DEF KernelInv, AttemptOwnership, Owns, OwningPcs
        <3>5. result'[w] = result[w]
            BY <3>1, <3>4, FileMoves DEF KernelInv, IpcWellFormed
        <3>6. QED
            BY <1>3, <2>1, <3>2, <3>3, <3>5 DEF ResultAvailable
    <2>3. CASE work[w].state # "SUCCEEDED"
        <3>1. EndedBy(w)
            BY <1>1, <1>3, <2>3
            DEF RowStep, RowMove, RowSame, RowRefused, RowCancelled, RowAcknowledged,
                InsertedBy, RowInserted, BegunBy, RowBegan
        <3>2. PICK n \in AttemptNumbers : task[w][n] = "commit"
            BY <1>3, <3>1 DEF EndedBy, RowEnded
        <3>3. result[w] = n /\ work[w].attempt_count = n
            BY <3>2 DEF KernelInv, TasksWellFormed, AttemptOwnership, Owns, OwningPcs
        <3>4. work'[w].attempt_count = n
            BY <3>1, <3>3 DEF EndedBy, RowEnded
        <3>5. work'[w] # work[w]
            BY <1>3, <2>3
        <3>6. result'[w] = result[w]
            BY <3>5, FileMoves DEF storeVars
        <3>7. QED
            BY <1>3, <2>1, <3>3, <3>4, <3>6 DEF ResultAvailable
    <2>4. QED
        BY <2>2, <2>3
<1>4. QED
    BY <1>2, <1>3
-----------------------------------------------------------------------------
(***************************************************************************)
(* Who owns an attempt.                                                    *)
(***************************************************************************)

\* An attempt that is owned before and after a step stays the last one of a
\* RUNNING Work: whoever commits it gives it up in the same step.
LEMMA OwnershipKept ==
    ASSUME KernelInv, [Next]_vars, NEW w \in WorkIds, NEW n \in AttemptNumbers,
           Owns(w, n), Owns(w, n)'
    PROVE  work'[w].state = "RUNNING" /\ work'[w].attempt_count = n
<1>1. /\ work[w].state = "RUNNING" /\ work[w].attempt_count = n
      /\ sched.pc = "launch" /\ sched.w = w => task[w][n] = "none"
    BY DEF KernelInv, AttemptOwnership
<1>2. ~EndedBy(w)
    <2> SUFFICES ASSUME EndedBy(w) PROVE FALSE
        OBVIOUS
    <2>1. CASE task' = NoTasks /\ sched' = SchedLoop
        BY <2>1 DEF Owns, NoTasks, SchedLoop, OwningPcs
    <2>2. CASE sched.pc = "launch" /\ sched.w = w /\ sched' = SchedLoop /\ task' = task
        BY <1>1, <2>2 DEF Owns, SchedLoop, OwningPcs
    <2>3. ASSUME NEW m \in AttemptNumbers, task[w][m] \in OwningPcs,
                 task' = [task EXCEPT ![w][m] = "release"], sched' = sched
          PROVE  FALSE
        <3>1. m = n
            BY <1>1, <2>3 DEF KernelInv, AttemptOwnership, Owns
        <3>2. task'[w][n] = "release"
            BY <2>3, <3>1 DEF KernelInv, TypeOK
        <3>3. sched.pc = "launch" /\ sched.w = w
            BY <2>3, <3>2 DEF Owns, OwningPcs
        <3>4. QED
            BY <1>1, <2>3, <3>1, <3>3 DEF OwningPcs
    <2>4. QED
        BY <2>1, <2>2, <2>3 DEF EndedBy
<1>3. RowStep(w)
    BY NextRows
<1>4. QED
    BY <1>1, <1>2, <1>3
    DEF RowStep, RowMove, RowSame, RowRefused, RowCancelled, RowAcknowledged, Quiet,
        InsertedBy, RowInserted, BegunBy, RowBegan

\* An attempt gets an owner only when begin_attempt creates it.
LEMMA OwnershipGained ==
    ASSUME KernelInv, [Next]_vars, NEW w \in WorkIds, NEW n \in AttemptNumbers,
           ~Owns(w, n), Owns(w, n)'
    PROVE  BegunBy(w) /\ n = work[w].attempt_count + 1
<1>1. task'[w][n] \notin OwningPcs
    <2> SUFFICES ASSUME task'[w][n] \in OwningPcs PROVE FALSE
        OBVIOUS
    <2>1. task[w][n] \notin OwningPcs
        BY DEF Owns
    <2>2. /\ TaskStep(w, n) \/ WorkerReplies(w, n)
          /\ \E pc \in TaskPcs : task'[w][n] = pc /\ Goto(w, n, pc)
        BY <2>1, TaskMoves DEF Owns, OwningPcs
    <2>3. TaskRelease(w, n)
        BY <2>1, <2>2
        DEF TaskStep, WorkerReplies, TaskSeesStop, TaskReadInput, TaskReadInputFails,
            WorkerStopped, WorkerCancelled, WorkerTimedOut, TaskRecheckCancel,
            TaskWriteResult, TaskWriteResultFails, TaskFinishSuccess,
            TaskFinishCancelled, TaskFinishTimedOut, TaskFinishFailed,
            TaskHandleError, TaskStoreError, TaskAbandon, TaskAt, OwningPcs
    <2>4. task'[w][n] = "none"
        BY <2>3 DEF TaskRelease, Goto, KernelInv, TypeOK
    <2>5. QED
        BY <2>4 DEF OwningPcs
<1>2. sched'.pc = "launch" /\ sched'.w = w /\ sched'.n = n
    BY <1>1 DEF Owns
<1>3. SchedulerBegin
    <2>1. sched' # sched
        BY <1>2 DEF Owns
    <2>2. ~SchedulerReserve
        BY <1>2 DEF SchedulerReserve, KernelInv, TypeOK, SchedStates
    <2>3. QED
        BY <1>2, <2>1, <2>2, SchedMoves
<1>4. sched.w = w /\ n = work[w].attempt_count + 1
    BY <1>2, <1>3 DEF SchedulerBegin, KernelInv, TypeOK, SchedStates
<1>5. work[w].state = "QUEUED" /\ work'[w].state = "RUNNING"
    BY <1>3, <1>4
    DEF SchedulerBegin, BeginAttempt, CanBegin, KernelInv, TypeOK, StoreTypeOK, WorkRows
<1>6. RowStep(w)
    BY NextRows
<1>7. BegunBy(w)
    BY <1>5, <1>6
    DEF RowStep, RowMove, RowSame, RowRefused, RowCancelled, RowAcknowledged,
        InsertedBy, RowInserted, EndedBy, RowEnded
<1>8. QED
    BY <1>4, <1>7

LEMMA NextOwnership ==
    ASSUME KernelInv, [Next]_vars
    PROVE  AttemptOwnership'
<1> SUFFICES ASSUME NEW w \in WorkIds, NEW n \in AttemptNumbers, Owns(w, n)'
             PROVE  /\ work'[w].state = "RUNNING" /\ work'[w].attempt_count = n
                    /\ sched'.pc = "launch" /\ sched'.w = w => task'[w][n] = "none"
    BY DEF AttemptOwnership
<1>1. CASE ~Owns(w, n)
    <2>1. BegunBy(w) /\ n = work[w].attempt_count + 1
        BY <1>1, OwnershipGained
    <2>2. work'[w].state = "RUNNING" /\ work'[w].attempt_count = n /\ task' = task
        BY <2>1 DEF BegunBy, RowBegan
    <2>3. task[w][n] = "none"
        <3>1. work[w].attempt_count \in 0 .. MaxAttempts
            BY DEF KernelInv, TypeOK, StoreTypeOK, WorkRows
        <3>2. ~(n <= work[w].attempt_count)
            BY <2>1, <3>1, StoreAssumption
        <3>3. QED
            BY <3>2 DEF KernelInv, TasksWellFormed
    <2>4. QED
        BY <2>2, <2>3
<1>2. CASE Owns(w, n)
    <2>1. work'[w].state = "RUNNING" /\ work'[w].attempt_count = n
        BY <1>2, OwnershipKept
    <2>2. ASSUME sched'.pc = "launch", sched'.w = w
          PROVE  task'[w][n] = "none"
        <3>1. sched' = sched
            <4>1. ~SchedulerReserve
                BY <2>2 DEF SchedulerReserve, KernelInv, TypeOK, SchedStates
            <4>2. ~SchedulerBegin
                <5> SUFFICES ASSUME SchedulerBegin PROVE FALSE
                    OBVIOUS
                <5>1. sched.w = w /\ work[w].state = "QUEUED"
                    BY <2>2 DEF SchedulerBegin, BeginAttempt, CanBegin, KernelInv,
                                TypeOK, SchedStates
                <5>2. QED
                    BY <1>2, <5>1 DEF KernelInv, AttemptOwnership
            <4>3. QED
                BY <2>2, <4>1, <4>2, SchedMoves
        <3>2. task[w][n] = "none"
            BY <1>2, <2>2, <3>1 DEF KernelInv, AttemptOwnership
        <3>3. ~(TaskStep(w, n) \/ WorkerReplies(w, n))
            BY <3>2
            DEF TaskStep, WorkerReplies, TaskSeesStop, TaskReadInput, TaskReadInputFails,
                WorkerStopped, WorkerCancelled, WorkerTimedOut, TaskRecheckCancel,
                TaskWriteResult, TaskWriteResultFails, TaskFinishSuccess,
                TaskFinishCancelled, TaskFinishTimedOut, TaskFinishFailed,
                TaskHandleError, TaskStoreError, TaskAbandon, TaskRelease, TaskAt, OwningPcs
        <3>4. sched' # SchedLoop
            BY <2>2 DEF SchedLoop
        <3>5. QED
            BY <3>2, <3>3, <3>4, TaskMoves
    <2>3. QED
        BY <2>1, <2>2
<1>3. QED
    BY <1>1, <1>2

LEMMA NextTasks ==
    ASSUME KernelInv, [Next]_vars
    PROVE  TasksWellFormed'
<1> SUFFICES ASSUME NEW w \in WorkIds, NEW n \in AttemptNumbers
             PROVE  /\ task'[w][n] # "none" => n <= work'[w].attempt_count
                    /\ task'[w][n] = "cancelled" => work'[w].cancel_requested
                    /\ task'[w][n] = "commit" => result'[w] = n
    BY DEF TasksWellFormed
<1>1. /\ n \in Int /\ work[w].attempt_count \in Int /\ work'[w].attempt_count \in Int
      /\ work[w].attempt_count <= work'[w].attempt_count
      /\ work[w].cancel_requested => work'[w].cancel_requested
    <2>1. work[w].attempt_count \in 0 .. MaxAttempts
        BY DEF KernelInv, TypeOK, StoreTypeOK, WorkRows
    <2>2. work'[w].attempt_count \in 0 .. MaxAttempts
        BY NextType DEF TypeOK, StoreTypeOK, WorkRows
    <2>3. n \in Int
        BY StoreAssumption DEF AttemptNumbers
    <2>4. QED
        BY <2>1, <2>2, <2>3, RowFacts, StoreAssumption
<1>2. task[w][n] # "none" => n <= work[w].attempt_count
    BY DEF KernelInv, TasksWellFormed
<1>3. CASE task'[w][n] = task[w][n]
    <2>1. ASSUME task[w][n] = "commit" PROVE result'[w] = n
        <3>1. result[w] = n /\ work[w].state = "RUNNING" /\ work[w].attempt_count = n
            BY <2>1 DEF KernelInv, TasksWellFormed, AttemptOwnership, Owns, OwningPcs
        <3>2. ~work[w].acknowledged
            BY <3>1 DEF KernelInv, RowsWellFormed
        <3>3. \A m \in AttemptNumbers : task[w][m] # "write"
            BY <2>1, <3>1 DEF KernelInv, AttemptOwnership, Owns, OwningPcs
        <3>4. QED
            BY <3>1, <3>2, <3>3, FileMoves DEF KernelInv, IpcWellFormed
    <2>2. QED
        BY <1>1, <1>2, <1>3, <2>1 DEF KernelInv, TasksWellFormed
<1>4. CASE task'[w][n] = "none"
    BY <1>4
<1>5. CASE /\ sched.pc = "launch" /\ sched.w = w /\ sched.n = n
           /\ task'[w][n] = "start" /\ sched' = SchedLoop /\ UNCHANGED storeVars
    <2>1. work[w].attempt_count = n
        BY <1>5 DEF KernelInv, AttemptOwnership, Owns
    <2>2. QED
        BY <1>1, <1>5, <2>1
<1>6. CASE TaskStep(w, n) \/ WorkerReplies(w, n)
    <2> USE DEF Goto, KernelInv, TypeOK
    <2>1. task[w][n] # "none"
        BY <1>6
        DEF TaskStep, WorkerReplies, TaskSeesStop, TaskReadInput, TaskReadInputFails,
            WorkerStopped, WorkerCancelled, WorkerTimedOut, TaskRecheckCancel,
            TaskWriteResult, TaskWriteResultFails, TaskFinishSuccess,
            TaskFinishCancelled, TaskFinishTimedOut, TaskFinishFailed,
            TaskHandleError, TaskStoreError, TaskAbandon, TaskRelease, TaskAt, OwningPcs
    <2>2. CASE TaskWriteResult(w, n)
        BY <1>1, <1>2, <2>1, <2>2 DEF TaskWriteResult
    <2>3. CASE WorkerCancelled(w, n) \/ TaskRecheckCancel(w, n)
        BY <1>1, <1>2, <2>1, <2>3 DEF WorkerCancelled, TaskRecheckCancel
    <2>4. CASE WorkerReplies(w, n)
        BY <1>1, <1>2, <2>1, <2>4 DEF WorkerReplies
    <2>5. CASE ~(TaskWriteResult(w, n) \/ WorkerCancelled(w, n) \/ TaskRecheckCancel(w, n)
                 \/ WorkerReplies(w, n))
        <3>1. task'[w][n] # "cancelled" /\ task'[w][n] # "commit"
            BY <1>6, <2>5
            DEF TaskStep, TaskSeesStop, TaskReadInput, TaskReadInputFails, WorkerStopped,
                WorkerTimedOut, TaskWriteResultFails, TaskFinishSuccess,
                TaskFinishCancelled, TaskFinishTimedOut, TaskFinishFailed,
                TaskHandleError, TaskStoreError, TaskAbandon, TaskRelease
        <3>2. QED
            BY <1>1, <1>2, <2>1, <3>1
    <2>6. QED
        BY <2>2, <2>3, <2>4, <2>5
<1>7. QED
    BY <1>3, <1>4, <1>5, <1>6, TaskMoves
-----------------------------------------------------------------------------
LEMMA InitInv == Init => KernelInv
<1> SUFFICES ASSUME Init PROVE KernelInv
    OBVIOUS
<1>1. TypeOK
    BY InitType
<1>2. \A w \in WorkIds :
        /\ work[w].state = "ABSENT" /\ work[w].attempt_count = 0
        /\ work[w].acknowledged = FALSE /\ work[w].cancel_requested = FALSE
        /\ \A n \in AttemptNumbers : attempts[w][n].state = "ABSENT" /\ task[w][n] = "none"
    BY DEF Init, StoreInit, NoTasks, NoRow, NoAttempt
<1>3. ipc = IpcIdle /\ sched = SchedLoop /\ used = NothingUsed
    BY DEF Init
<1>4. AttemptLedger
    <2>1. \A n \in AttemptNumbers : n > 0 /\ n \in Int
        BY StoreAssumption DEF AttemptNumbers
    <2>2. QED
        BY <1>2, <2>1 DEF AttemptLedger, LedgerOf
<1>5. RowsWellFormed
    <2>1. \A n \in AttemptNumbers : ~(n <= 0)
        BY StoreAssumption DEF AttemptNumbers
    <2>2. QED
        BY <1>2, <2>1 DEF RowsWellFormed
<1>6. IpcWellFormed /\ SchedWellFormed
    BY <1>3 DEF IpcWellFormed, SchedWellFormed, IpcIdle, SchedLoop
<1>7. TasksWellFormed /\ AttemptOwnership
    BY <1>2, <1>3 DEF TasksWellFormed, AttemptOwnership, Owns, OwningPcs, SchedLoop
<1>8. BudgetRespected /\ ResultRetained /\ InputRetained /\ CancellationKept
    BY <1>2 DEF BudgetRespected, ResultRetained, InputRetained, CancellationKept
<1>9. CapacityRespected
    BY <1>3, CapacityAssumption DEF CapacityRespected, NothingUsed
<1>10. QED
    BY <1>1, <1>4, <1>5, <1>6, <1>7, <1>8, <1>9 DEF KernelInv

LEMMA NextInv == KernelInv /\ [Next]_vars => KernelInv'
<1> SUFFICES ASSUME KernelInv, [Next]_vars PROVE KernelInv'
    OBVIOUS
<1>1. TypeOK' /\ CapacityRespected'
    BY NextType, NextUsed
<1>2. IpcWellFormed' /\ SchedWellFormed' /\ TasksWellFormed' /\ AttemptOwnership'
    BY NextIpc, NextSched, NextTasks, NextOwnership
<1>3. ResultRetained' /\ InputRetained'
    BY NextFiles
<1>4. \A w \in WorkIds : RowInv(w)'
    BY NextRowInv
<1>5. RowsWellFormed' /\ AttemptLedger' /\ BudgetRespected' /\ CancellationKept'
    BY <1>4 DEF RowInv, RowsWellFormed, AttemptLedger, BudgetRespected, CancellationKept
<1>6. QED
    BY <1>1, <1>2, <1>3, <1>5 DEF KernelInv

(***************************************************************************)
(* The inductive invariant of the Kernel holds in every reachable state,   *)
(* through every interleaving of the IPC thread, the scheduler and the     *)
(* tasks, every stop, crash and restart and every store or file error.     *)
(***************************************************************************)
THEOREM Safety == Spec => []KernelInv
<1>1. QED
    BY InitInv, NextInv, PTL DEF Spec

(***************************************************************************)
(* Type correctness: the columns, counters, clock and program counters of  *)
(* the Kernel stay within their types and bounds.                          *)
(***************************************************************************)
THEOREM TypeCorrect == Spec => []TypeOK
<1>1. KernelInv => TypeOK
    BY DEF KernelInv
<1>2. QED
    BY <1>1, Safety, PTL

(***************************************************************************)
(* The attempts table is the faithful history of every work row, whatever  *)
(* separates begin_attempt from the commit of the attempt.                 *)
(***************************************************************************)
THEOREM LedgerCorrect == Spec => []AttemptLedger
<1>1. KernelInv => AttemptLedger
    BY DEF KernelInv
<1>2. QED
    BY <1>1, Safety, PTL

(***************************************************************************)
(* The attempt budget of a request is never exceeded, over any number of   *)
(* failures, timeouts and restarts.                                        *)
(***************************************************************************)
THEOREM BudgetCorrect == Spec => []BudgetRespected
<1>1. KernelInv => BudgetRespected
    BY DEF KernelInv
<1>2. QED
    BY <1>1, Safety, PTL

(***************************************************************************)
(* A task or launch that has not committed works on the last attempt of a  *)
(* RUNNING Work: no commit can hit the row of another attempt.             *)
(***************************************************************************)
THEOREM OwnershipCorrect == Spec => []AttemptOwnership
<1>1. KernelInv => AttemptOwnership
    BY DEF KernelInv
<1>2. QED
    BY <1>1, Safety, PTL

(***************************************************************************)
(* A SUCCEEDED Work has the payload of its successful attempt on disk      *)
(* until it is acknowledged: write before commit, commit before removal.   *)
(***************************************************************************)
THEOREM ResultCorrect == Spec => []ResultRetained
<1>1. KernelInv => ResultRetained
    BY DEF KernelInv
<1>2. QED
    BY <1>1, Safety, PTL

(***************************************************************************)
(* A Work that may still be attempted has its input on disk.               *)
(***************************************************************************)
THEOREM InputCorrect == Spec => []InputRetained
<1>1. KernelInv => InputRetained
    BY DEF KernelInv
<1>2. QED
    BY <1>1, Safety, PTL

(***************************************************************************)
(* A cancellation request survives failures, timeouts and restarts.        *)
(***************************************************************************)
THEOREM CancellationCorrect == Spec => []CancellationKept
<1>1. KernelInv => CancellationKept
    BY DEF KernelInv
<1>2. QED
    BY <1>1, Safety, PTL

(***************************************************************************)
(* Reservations never exceed the configured capacity, so the unsigned      *)
(* differences of try_reserve never wrap.                                  *)
(***************************************************************************)
THEOREM CapacityCorrect == Spec => []CapacityRespected
<1>1. KernelInv => CapacityRespected
    BY DEF KernelInv
<1>2. QED
    BY <1>1, Safety, PTL

(***************************************************************************)
(* No step changes the outcome of a terminal Work or the record of an      *)
(* attempt that ended: late commits, retries and recovery only add.        *)
(***************************************************************************)
THEOREM HistoryCorrect == Spec => HistoryStable
<1>1. ASSUME KernelInv, [Next]_vars, NEW w \in WorkIds
      PROVE  /\ Terminal(work[w]) => /\ work'[w].state = work[w].state
                                     /\ work'[w].attempt_count = work[w].attempt_count
             /\ \A n \in AttemptNumbers :
                 attempts[w][n].state \notin {"ABSENT", "RUNNING"} =>
                     attempts'[w][n] = attempts[w][n]
    <2>1. RowStep(w) /\ RowInv(w)
        BY <1>1, NextRows, RowInvOfKernel
    <2>2. CASE RowMove(w)
        BY <2>2 DEF RowMove, RowSame, RowRefused, RowCancelled, RowAcknowledged, Quiet,
                    Terminal
    <2>3. CASE InsertedBy(w)
        BY <2>3 DEF InsertedBy, RowInserted, Terminal
    <2>4. CASE BegunBy(w)
        <3>1. work[w].state = "QUEUED"
            BY <2>4 DEF BegunBy, RowBegan
        <3>2. ASSUME NEW n \in AttemptNumbers, attempts[w][n].state # "ABSENT"
              PROVE  attempts'[w][n] = attempts[w][n]
            <4>1. ~(n > work[w].attempt_count)
                BY <2>1, <3>2 DEF RowInv, LedgerOf
            <4>2. n # work[w].attempt_count + 1
                BY <2>1, <4>1, StoreAssumption DEF RowInv, Typed, WorkRows
            <4>3. attempts[w] \in [AttemptNumbers -> AttemptRows]
                BY <2>1 DEF RowInv, Typed
            <4>4. QED
                BY <2>4, <4>2, <4>3 DEF BegunBy, RowBegan
        <3>3. QED
            BY <3>1, <3>2 DEF Terminal
    <2>5. CASE EndedBy(w)
        <3>1. work[w].state = "RUNNING"
            BY <2>5 DEF EndedBy, RowEnded
        <3>2. attempts[w][work[w].attempt_count].state = "RUNNING"
            BY <1>1, <3>1, RunningCommittable DEF Committable
        <3>3. \A n \in AttemptNumbers \ {work[w].attempt_count} :
                attempts'[w][n] = attempts[w][n]
            BY <2>1, <2>5 DEF EndedBy, RowEnded, RowInv, Typed
        <3>4. QED
            BY <3>1, <3>2, <3>3 DEF Terminal
    <2>6. QED
        BY <2>1, <2>2, <2>3, <2>4, <2>5 DEF RowStep
<1>2. KernelInv /\ [Next]_vars => [HistoryStep]_vars
    BY <1>1 DEF HistoryStep
<1>3. QED
    BY <1>2, Safety, PTL DEF Spec, HistoryStable

(***************************************************************************)
(* No attempt begins once the cancellation of its Work is recorded,        *)
(* wherever the scheduler is between its choice and begin_attempt.         *)
(***************************************************************************)
THEOREM CancelStopsStarts == Spec => NoStartAfterCancel
<1>1. ASSUME KernelInv, [Next]_vars, NEW w \in WorkIds, work[w].cancel_requested
      PROVE  work'[w].attempt_count = work[w].attempt_count
    <2>1. RowStep(w) /\ RowInv(w)
        BY <1>1, NextRows, RowInvOfKernel
    <2>2. QED
        BY <1>1, <2>1
        DEF RowInv, RowStep, RowMove, RowSame, RowRefused, RowCancelled, RowAcknowledged,
            Quiet, InsertedBy, RowInserted, BegunBy, RowBegan, EndedBy, RowEnded
<1>2. KernelInv /\ [Next]_vars => [NoStartStep]_vars
    BY <1>1 DEF NoStartStep
<1>3. QED
    BY <1>2, Safety, PTL DEF Spec, NoStartAfterCancel
-----------------------------------------------------------------------------
(***************************************************************************)
(* Refinement: under the invariant a client sees a payload exactly while a *)
(* SUCCEEDED Work is not acknowledged, so each transition of a row maps to *)
(* a transition of the abstract life cycle or to a stutter.                *)
(***************************************************************************)
Payload(w) == work[w].state = "SUCCEEDED" /\ ~work[w].acknowledged

Entry(state, attempts_, budget, cancel, payload) ==
    [state |-> state, attempts |-> attempts_, budget |-> budget,
     cancel |-> cancel, payload |-> payload]

LEMMA EntryFields ==
    ASSUME NEW st, NEW at, NEW bu, NEW ca, NEW pa, NEW r, r = Entry(st, at, bu, ca, pa)
    PROVE  /\ r.state = st /\ r.attempts = at /\ r.budget = bu
           /\ r.cancel = ca /\ r.payload = pa
BY DEF Entry

LEMMA ViewOf ==
    ASSUME KernelInv, NEW w \in WorkIds
    PROVE  ClientView[w] =
             Entry(work[w].state, work[w].attempt_count,
                   IF work[w].state = "ABSENT" THEN 0 ELSE work[w].req.max_attempts,
                   work[w].cancel_requested, Payload(w))
<1>1. ResultAvailable(w) = Payload(w)
    BY DEF KernelInv, ResultRetained, ResultAvailable, Payload
<1>2. QED
    BY <1>1 DEF ClientView, Entry

LEMMA ViewOfNext ==
    ASSUME KernelInv', NEW w \in WorkIds
    PROVE  ClientView'[w] =
             Entry(work'[w].state, work'[w].attempt_count,
                   IF work'[w].state = "ABSENT" THEN 0 ELSE work'[w].req.max_attempts,
                   work'[w].cancel_requested, Payload(w)')
<1>1. ResultAvailable(w)' = Payload(w)'
    BY DEF KernelInv, ResultRetained, ResultAvailable, Payload
<1>2. QED
    BY <1>1 DEF ClientView, Entry

LEMMA ViewStep ==
    ASSUME KernelInv, KernelInv', [Next]_vars, NEW w \in WorkIds
    PROVE  \/ ClientView'[w] = ClientView[w]
           \/ Lifecycle!Advance(ClientView[w], ClientView'[w])
<1> DEFINE b == ClientView[w]
           a == ClientView'[w]
           st == work[w].state
           at == work[w].attempt_count
           bu == IF st = "ABSENT" THEN 0 ELSE work[w].req.max_attempts
           ca == work[w].cancel_requested
           pa == Payload(w)
<1>1. b = Entry(st, at, bu, ca, pa)
    BY ViewOf
<1>2. a = Entry(work'[w].state, work'[w].attempt_count,
                IF work'[w].state = "ABSENT" THEN 0 ELSE work'[w].req.max_attempts,
                work'[w].cancel_requested, Payload(w)')
    BY ViewOfNext
<1>3. RowStep(w) /\ RowInv(w)
    BY NextRows, RowInvOfKernel
<1>4. ca \in BOOLEAN /\ at \in Int
    BY <1>3, StoreAssumption DEF RowInv, Typed, WorkRows
<1>5. b.state = st /\ b.attempts = at /\ b.budget = bu /\ b.cancel = ca /\ b.payload = pa
    <2> HIDE DEF a, b, st, at, bu, ca, pa
    <2> QED BY <1>1, EntryFields
<1>6. /\ \A x : [b EXCEPT !.state = x] = Entry(x, at, bu, ca, pa)
      /\ \A x : [b EXCEPT !.cancel = x] = Entry(st, at, bu, x, pa)
      /\ \A x : [b EXCEPT !.payload = x] = Entry(st, at, bu, ca, x)
      /\ \A x, y : [b EXCEPT !.state = x, !.payload = y] = Entry(x, at, bu, ca, y)
      /\ \A x, y : [b EXCEPT !.state = x, !.cancel = y] = Entry(x, at, bu, y, pa)
      /\ \A x : [b EXCEPT !.state = x, !.attempts = @ + 1] = Entry(x, at + 1, bu, ca, pa)
    <2> HIDE DEF a, b, st, at, bu, ca, pa
    <2>1. \A x : [b EXCEPT !.state = x] = Entry(x, at, bu, ca, pa)
        BY <1>1 DEF Entry
    <2>2. \A x : [b EXCEPT !.cancel = x] = Entry(st, at, bu, x, pa)
        BY <1>1 DEF Entry
    <2>3. \A x : [b EXCEPT !.payload = x] = Entry(st, at, bu, ca, x)
        BY <1>1 DEF Entry
    <2>4. ASSUME NEW x, NEW y
          PROVE  /\ [b EXCEPT !.state = x, !.payload = y] = Entry(x, at, bu, ca, y)
                 /\ [b EXCEPT !.state = x, !.cancel = y] = Entry(x, at, bu, y, pa)
                 /\ [b EXCEPT !.state = x, !.attempts = @ + 1] = Entry(x, at + 1, bu, ca, pa)
        <3>1. PICK mid : mid = Entry(x, at, bu, ca, pa)
            OBVIOUS
        <3>2. mid = [b EXCEPT !.state = x]
            BY <2>1, <3>1
        <3>3. \A z : [mid EXCEPT !.payload = z] = Entry(x, at, bu, ca, z)
            BY <3>1 DEF Entry
        <3>4. \A z : [mid EXCEPT !.cancel = z] = Entry(x, at, bu, z, pa)
            BY <3>1 DEF Entry
        <3>5. \A z : [mid EXCEPT !.attempts = z] = Entry(x, z, bu, ca, pa)
            BY <3>1 DEF Entry
        <3>6. [b EXCEPT !.state = x, !.payload = y] = [mid EXCEPT !.payload = y]
            BY <3>2
        <3>7. [b EXCEPT !.state = x, !.cancel = y] = [mid EXCEPT !.cancel = y]
            BY <3>2
        <3>8. [b EXCEPT !.state = x, !.attempts = @ + 1] = [mid EXCEPT !.attempts = at + 1]
            BY <1>5, <3>2
        <3>9. QED
            BY <3>3, <3>4, <3>5, <3>6, <3>7, <3>8
    <2>5. QED
        BY <2>1, <2>2, <2>3, <2>4
<1> HIDE DEF a, b
<1>7. CASE RowSame(w)
    <2>1. a = b
        BY <1>1, <1>2, <1>7 DEF RowSame, Payload
    <2>2. QED
        BY <2>1 DEF a, b
<1>8. CASE RowRefused(w)
    <2>1. pa = FALSE /\ Payload(w)' = FALSE /\ ~ca
        BY <1>3, <1>8 DEF RowRefused, Payload, RowInv
    <2>2. a = Entry("FAILED", at, bu, ca, pa)
        BY <1>2, <1>8, <2>1 DEF RowRefused, Quiet, Frame
    <2>3. Lifecycle!Failed(b, a)
        BY <1>5, <1>6, <1>8, <2>1, <2>2 DEF RowRefused, Lifecycle!Failed
    <2>4. QED
        BY <2>3 DEF Lifecycle!Advance, a, b
<1>9. CASE RowCancelled(w)
    <2>1. pa = FALSE /\ Payload(w)' = FALSE
        BY <1>9 DEF RowCancelled, Payload
    <2>2. CASE st = "QUEUED"
        <3>1. a = Entry("CANCELLED", at, bu, TRUE, pa)
            BY <1>2, <1>9, <2>1, <2>2 DEF RowCancelled, Quiet, Frame
        <3>2. Lifecycle!Cancelled(b, a)
            BY <1>5, <1>6, <2>2, <3>1 DEF Lifecycle!Cancelled
        <3>3. QED
            BY <3>2 DEF Lifecycle!Advance, a, b
    <2>3. CASE st = "RUNNING"
        <3>1. a = Entry("RUNNING", at, bu, TRUE, pa)
            BY <1>2, <1>9, <2>1, <2>3 DEF RowCancelled, Quiet, Frame
        <3>2. Lifecycle!CancelRequested(b, a)
            BY <1>5, <1>6, <2>3, <3>1 DEF Lifecycle!CancelRequested
        <3>3. QED
            BY <3>2 DEF Lifecycle!Advance, a, b
    <2>4. QED
        BY <1>9, <2>2, <2>3 DEF RowCancelled
<1>10. CASE RowAcknowledged(w)
    <2>1. pa = TRUE /\ Payload(w)' = FALSE
        BY <1>10 DEF RowAcknowledged, Payload
    <2>2. a = Entry(st, at, bu, ca, FALSE)
        BY <1>2, <1>10, <2>1 DEF RowAcknowledged, Quiet, Frame
    <2>3. Lifecycle!Acknowledged(b, a)
        BY <1>5, <1>6, <1>10, <2>1, <2>2 DEF RowAcknowledged, Lifecycle!Acknowledged
    <2>4. QED
        BY <2>3 DEF Lifecycle!Advance, a, b
<1>11. CASE InsertedBy(w)
    <2>1. ipc.req \in Requests /\ RowInserted(w, ipc.req)
        BY <1>11 DEF InsertedBy, KernelInv, IpcWellFormed
    <2>2. ipc.req.max_attempts \in 1 .. MaxAttempts
        BY <2>1, StoreAssumption DEF ValidRequest
    <2>3. ipc.req.max_attempts >= 1
        BY <2>2, StoreAssumption
    <2>4. Payload(w)' = FALSE
        BY <2>1 DEF RowInserted, Payload
    <2>5. a = Entry("QUEUED", 0, ipc.req.max_attempts, FALSE, FALSE)
        BY <1>2, <2>1, <2>4 DEF RowInserted
    <2>6. a.budget = ipc.req.max_attempts
        BY <2>5 DEF Entry
    <2>7. a = [state |-> "QUEUED", attempts |-> 0, budget |-> a.budget,
               cancel |-> FALSE, payload |-> FALSE]
        BY <2>5, <2>6 DEF Entry
    <2>8. Lifecycle!Submitted(b, a)
        BY <1>5, <2>1, <2>3, <2>6, <2>7 DEF RowInserted, Lifecycle!Submitted
    <2>9. QED
        BY <2>8 DEF Lifecycle!Advance, a, b
<1>12. CASE BegunBy(w)
    <2>1. PICK e \in DOMAIN Inventory : RowBegan(w, e, now)
        BY <1>12 DEF BegunBy
    <2>2. at < bu /\ st = "QUEUED" /\ ~ca
        BY <1>3, <2>1 DEF RowBegan, RowInv
    <2>3. pa = FALSE /\ Payload(w)' = FALSE
        BY <2>1 DEF RowBegan, Payload
    <2>4. a = Entry("RUNNING", at + 1, bu, ca, pa)
        BY <1>2, <2>1, <2>3 DEF RowBegan, Frame
    <2>5. Lifecycle!Started(b, a)
        <3> HIDE DEF at, bu, ca, pa, st
        <3> QED BY <1>5, <1>6, <2>2, <2>4 DEF Lifecycle!Started
    <2>6. QED
        BY <2>5 DEF Lifecycle!Advance, a, b
<1>13. CASE EndedBy(w)
    <2>1. PICK s \in AttemptStates :
            /\ RowEnded(w, s, now)
            /\ s = "CANCELLED" => \E n \in AttemptNumbers : task[w][n] = "cancelled"
        BY <1>13 DEF EndedBy
    <2>2. s = "CANCELLED" => ca
        BY <2>1 DEF KernelInv, TasksWellFormed
    <2>3. ~work[w].acknowledged /\ st = "RUNNING" /\ pa = FALSE
        BY <1>3, <2>1 DEF RowInv, RowEnded, Payload
    <2>4. CASE work'[w].state = "SUCCEEDED"
        <3>1. Payload(w)' = TRUE
            BY <2>1, <2>3, <2>4 DEF RowEnded, Payload
        <3>2. a = Entry("SUCCEEDED", at, bu, ca, TRUE)
            BY <1>2, <2>1, <2>4, <3>1 DEF RowEnded, Frame
        <3>3. [b EXCEPT !.state = "SUCCEEDED", !.payload = TRUE]
                = Entry("SUCCEEDED", at, bu, ca, TRUE)
            BY <1>6
        <3>4. Lifecycle!Succeeded(b, a)
            BY <1>5, <2>3, <3>2, <3>3 DEF Lifecycle!Succeeded
        <3>5. QED
            BY <3>4 DEF Lifecycle!Advance, a, b
    <2>5. CASE work'[w].state = "CANCELLED"
        <3>1. ca = TRUE
            BY <1>4, <2>1, <2>2, <2>5 DEF RowEnded, Ending
        <3>2. Payload(w)' = FALSE
            BY <2>5 DEF Payload
        <3>3. a = Entry("CANCELLED", at, bu, TRUE, pa)
            BY <1>2, <2>1, <2>3, <2>5, <3>1, <3>2 DEF RowEnded, Frame
        <3>4. [b EXCEPT !.state = "CANCELLED", !.cancel = TRUE]
                = Entry("CANCELLED", at, bu, TRUE, pa)
            BY <1>6
        <3>5. b.state = "RUNNING" /\ b.cancel
            BY <1>5, <2>3, <3>1
        <3>6. Lifecycle!Cancelled(b, a)
            BY <3>3, <3>4, <3>5 DEF Lifecycle!Cancelled
        <3>7. QED
            BY <3>6 DEF Lifecycle!Advance, a, b
    <2>6. CASE work'[w].state = "FAILED"
        <3>1. Payload(w)' = FALSE
            BY <2>6 DEF Payload
        <3>2. a = Entry("FAILED", at, bu, ca, pa) /\ ~ca
            BY <1>2, <2>1, <2>3, <2>6, <3>1 DEF RowEnded, Frame
        <3>3. Lifecycle!Failed(b, a)
            BY <1>5, <1>6, <2>3, <3>2 DEF Lifecycle!Failed
        <3>4. QED
            BY <3>3 DEF Lifecycle!Advance, a, b
    <2>7. CASE work'[w].state = "QUEUED"
        <3>1. Payload(w)' = FALSE
            BY <2>7 DEF Payload
        <3>2. a = Entry("QUEUED", at, bu, ca, pa) /\ ~ca /\ at < bu
            BY <1>2, <2>1, <2>3, <2>7, <3>1 DEF RowEnded, Frame
        <3>3. Lifecycle!Requeued(b, a)
            BY <1>5, <1>6, <2>3, <3>2 DEF Lifecycle!Requeued
        <3>4. QED
            BY <3>3 DEF Lifecycle!Advance, a, b
    <2>8. QED
        BY <2>1, <2>4, <2>5, <2>6, <2>7 DEF RowEnded
<1>14. QED
    BY <1>3, <1>7, <1>8, <1>9, <1>10, <1>11, <1>12, <1>13 DEF RowStep, RowMove

(***************************************************************************)
(* The Kernel implements the life cycle it promises its clients: every     *)
(* step, a restart included, moves what STATUS and RESULT show of a Work   *)
(* along WorkLifecycle or leaves it unchanged.                             *)
(***************************************************************************)
THEOREM Refinement == Spec => ImplementsLifecycle
<1>1. Init => Lifecycle!Init
    <2> SUFFICES ASSUME Init, NEW w \in WorkIds PROVE Lifecycle!NotSubmitted(ClientView[w])
        BY DEF Lifecycle!Init
    <2>1. /\ work[w].state = "ABSENT" /\ work[w].attempt_count = 0
          /\ work[w].cancel_requested = FALSE
        BY DEF Init, StoreInit, NoRow
    <2>2. QED
        BY <2>1 DEF Lifecycle!NotSubmitted, ClientView, ResultAvailable
<1>2. KernelInv /\ KernelInv' /\ [Next]_vars => [Lifecycle!Next]_ClientView
    BY ViewStep DEF Lifecycle!Next
<1>3. QED
    BY <1>1, <1>2, Safety, PTL DEF Spec, ImplementsLifecycle, Lifecycle!Spec
=============================================================================
