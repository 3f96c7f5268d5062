------------------------ MODULE KernelAttemptProofs ------------------------
(***************************************************************************)
(* Proofs about the attempts of the Kernel, for every set of Works,        *)
(* requests and engines: when they start and time out, who finishes them,  *)
(* and what they hold of the resources.  They rest on the inductive        *)
(* invariant KernelInv of module KernelProofs and on what a step does to   *)
(* one row.                                                                *)
(***************************************************************************)
EXTENDS KernelProofs

(***************************************************************************)
(* Time only passes, and the scheduler's clock is read from it.            *)
(***************************************************************************)
LEMMA ClockMoves ==
    ASSUME KernelInv, [Next]_vars
    PROVE  /\ now <= now'
           /\ sched'.now = sched.now \/ sched'.now = 0 \/ sched'.now = now
<1>1. now \in 0 .. MaxTime /\ sched \in SchedStates
    BY DEF KernelInv, TypeOK
<1>2. now \in Int
    BY <1>1, KernelAssumption
<1>3. CASE ProcessStep
    BY <1>2, <1>3 DEF ProcessStep, Start, RequestStop, Shutdown, Crash, Tick, memVars, SchedLoop
<1>4. CASE IpcStep \/ \E v \in WorkIds : ClientStep(v)
    BY <1>2, <1>4, IpcType
<1>5. CASE SchedulerStep
    <2>1. now' = now
        BY <1>5
        DEF SchedulerStep, SchedulerExit, SchedulerSweep, SchedulerPick, SchedulerRefuse,
            SchedulerBlocked, SchedulerReserve, SchedulerTooLate, SchedulerBegin,
            SchedulerLostRace, SchedulerLaunch, SchedulerLaunchFails, schedFrame
    <2>2. CASE sched' = SchedLoop
        BY <1>2, <2>1, <2>2 DEF SchedLoop
    <2>3. CASE SchedulerExit \/ SchedulerSweep
        <3>1. sched'.now = 0 \/ sched'.now = now
            BY <2>3 DEF SchedulerExit, SchedulerSweep, SchedLoop
        <3>2. QED
            BY <1>2, <2>1, <3>1
    <2>4. CASE SchedulerPick \/ SchedulerReserve \/ SchedulerBegin
        <3>1. sched'.now = sched.now \/ sched' = SchedLoop
            BY <1>1, <2>4 DEF SchedulerPick, SchedulerReserve, SchedulerBegin, SchedStates
        <3>2. QED
            BY <1>2, <2>1, <2>2, <3>1
    <2>5. QED
        BY <1>5, <2>2, <2>3, <2>4
        DEF SchedulerStep, SchedulerRefuse, SchedulerBlocked, SchedulerTooLate,
            SchedulerLostRace, SchedulerLaunch, SchedulerLaunchFails
<1>6. CASE \E w \in WorkIds, n \in AttemptNumbers : TaskStep(w, n) \/ WorkerReplies(w, n)
    BY <1>2, <1>6, TaskType DEF taskFrame
<1>7. CASE UNCHANGED vars
    BY <1>2, <1>7 DEF vars
<1>8. QED
    BY <1>3, <1>4, <1>5, <1>6, <1>7 DEF Next

\* The times of the model are integers.
LEMMA TimeTypes ==
    ASSUME KernelInv, NEW w \in WorkIds, NEW n \in AttemptNumbers
    PROVE  /\ now \in Nat /\ now <= MaxTime /\ sched.now \in Nat
           /\ work[w].eligible_at \in Int /\ work[w].next_attempt_at \in Int
           /\ work[w].attempt_count \in 0 .. MaxAttempts
           /\ attempts[w][n].started_at \in Int /\ attempts[w][n].ended_at \in Int
<1>1. /\ now \in 0 .. MaxTime /\ sched \in SchedStates
      /\ work[w] \in WorkRows /\ attempts[w][n] \in AttemptRows
    BY DEF KernelInv, TypeOK, StoreTypeOK
<1>2. QED
    BY <1>1, KernelAssumption DEF SchedStates, WorkRows, AttemptRows

\* The limits of a submitted Work are integers.
LEMMA LimitTypes ==
    ASSUME NEW r \in Requests
    PROVE  /\ r.retry_delay \in Nat
           /\ r.deadline \in Int /\ r.timeout \in Int
           /\ r.timeout # NoTime => r.timeout >= 0
           /\ r.deadline # NoTime => r.deadline >= 0
BY StoreAssumption DEF ValidRequest, NoTime

(***************************************************************************)
(* What no step changes of an attempt that exists: its start, its engine,  *)
(* and, once it has ended, anything.                                       *)
(***************************************************************************)
LEMMA AttemptFacts ==
    ASSUME KernelInv, [Next]_vars, NEW w \in WorkIds, NEW n \in AttemptNumbers,
           n <= work[w].attempt_count
    PROVE  /\ work[w].state # "ABSENT"
           /\ work'[w].req = work[w].req
           /\ work'[w].eligible_at = work[w].eligible_at
           /\ attempts'[w][n].started_at = attempts[w][n].started_at
           /\ attempts'[w][n].engine = attempts[w][n].engine
           /\ attempts[w][n].state # "RUNNING" => attempts'[w][n] = attempts[w][n]
<1> DEFINE c == work[w].attempt_count
<1>1. RowStep(w) /\ RowInv(w)
    BY NextRows, RowInvOfKernel
<1>2. c \in 0 .. MaxAttempts /\ n \in Nat /\ n >= 1
    BY <1>1, StoreAssumption DEF RowInv, Typed, WorkRows, AttemptNumbers
<1>3. work[w].state # "ABSENT"
    BY <1>1, <1>2, StoreAssumption DEF RowInv, LedgerOf
<1>4. attempts[w] \in [AttemptNumbers -> AttemptRows]
    BY <1>1 DEF RowInv, Typed
<1>5. CASE RowMove(w)
    BY <1>3, <1>5 DEF RowMove, RowSame, RowRefused, RowCancelled, RowAcknowledged, Quiet, Frame
<1>6. CASE InsertedBy(w)
    BY <1>3, <1>6 DEF InsertedBy, RowInserted
<1>7. CASE BegunBy(w)
    <2>1. c + 1 # n
        BY <1>2, StoreAssumption
    <2>2. attempts'[w][n] = attempts[w][n] /\ Frame(w)
        BY <1>4, <1>7, <2>1 DEF BegunBy, RowBegan
    <2>3. QED
        BY <1>3, <2>2 DEF Frame
<1>8. CASE EndedBy(w)
    <2>1. PICK a \in AttemptStates : RowEnded(w, a, now)
        BY <1>8 DEF EndedBy
    <2>2. CASE n = c
        <3>1. attempts[w][c].state = "RUNNING"
            BY <1>1, <1>2, <2>1, <2>2 DEF RowInv, RowEnded, LedgerOf
        <3>2. /\ attempts'[w][n].started_at = attempts[w][n].started_at
              /\ attempts'[w][n].engine = attempts[w][n].engine
            BY <1>4, <2>1, <2>2 DEF RowEnded, AttemptRows
        <3>3. QED
            BY <1>3, <2>1, <2>2, <3>1, <3>2 DEF RowEnded, Frame
    <2>3. CASE n # c
        BY <1>3, <1>4, <2>1, <2>3 DEF RowEnded, Frame
    <2>4. QED
        BY <2>2, <2>3
<1>9. QED
    BY <1>1, <1>5, <1>6, <1>7, <1>8 DEF RowStep

\* An attempt comes into being only through begin_attempt.
LEMMA AttemptBegun ==
    ASSUME KernelInv, [Next]_vars, NEW w \in WorkIds, NEW n \in AttemptNumbers,
           n <= work'[w].attempt_count, ~(n <= work[w].attempt_count)
    PROVE  /\ BegunBy(w) /\ n = work[w].attempt_count + 1
           /\ work[w].state = "QUEUED"
           /\ work'[w].req = work[w].req /\ work'[w].eligible_at = work[w].eligible_at
           /\ attempts'[w][n].started_at = now
           /\ attempts'[w][n].state = "RUNNING"
<1> DEFINE c == work[w].attempt_count
<1>1. RowStep(w) /\ RowInv(w)
    BY NextRows, RowInvOfKernel
<1>2. /\ c \in 0 .. MaxAttempts /\ n \in Nat /\ n >= 1
      /\ attempts[w] \in [AttemptNumbers -> AttemptRows]
    BY <1>1, StoreAssumption DEF RowInv, Typed, WorkRows, AttemptNumbers
<1>3. work'[w].attempt_count # c
    OBVIOUS
<1>4. BegunBy(w)
    <2>1. ~RowMove(w)
        BY <1>3
        DEF RowMove, RowSame, RowRefused, RowCancelled, RowAcknowledged, Quiet
    <2>2. ~InsertedBy(w)
        BY <1>2 DEF InsertedBy, RowInserted
    <2>3. ~EndedBy(w)
        BY <1>3 DEF EndedBy, RowEnded
    <2>4. QED
        BY <1>1, <2>1, <2>2, <2>3 DEF RowStep
<1>5. PICK e \in DOMAIN Inventory : RowBegan(w, e, now)
    BY <1>4 DEF BegunBy
<1>6. n = c + 1
    BY <1>2, <1>5, StoreAssumption DEF RowBegan
<1>7. attempts'[w][n] =
        [state |-> "RUNNING", engine |-> e, started_at |-> now, ended_at |-> NoTime]
    BY <1>2, <1>5, <1>6 DEF RowBegan
<1>8. QED
    BY <1>4, <1>5, <1>6, <1>7 DEF RowBegan, Frame
-----------------------------------------------------------------------------
(***************************************************************************)
(* The strengthening is inductive.                                         *)
(***************************************************************************)
LEMMA NextSchedClock ==
    ASSUME KernelInv, ClocksWellFormed, [Next]_vars
    PROVE  /\ sched'.now <= now'
           /\ sched'.pc \in {"decide", "begin"} =>
                /\ work'[sched'.w].state # "RUNNING"
                /\ work'[sched'.w].eligible_at <= sched'.now
                /\ work'[sched'.w].next_attempt_at <= sched'.now
<1>1. /\ now \in Nat /\ now' \in Nat /\ sched.now \in Nat /\ sched.now <= now
      /\ sched \in SchedStates
    BY KernelAssumption, NextType
    DEF KernelInv, TypeOK, SchedStates, ClocksWellFormed
<1>2. sched'.now <= now'
    BY <1>1, ClockMoves
<1>3. ASSUME sched.pc \in {"decide", "begin"}, sched'.pc \in {"decide", "begin"},
             sched'.w = sched.w, sched'.now = sched.now
      PROVE  /\ work'[sched'.w].state # "RUNNING"
             /\ work'[sched'.w].eligible_at <= sched'.now
             /\ work'[sched'.w].next_attempt_at <= sched'.now
    <2> DEFINE w == sched.w
    <2>1. /\ w \in WorkIds /\ work[w].state # "ABSENT" /\ work[w].state # "RUNNING"
          /\ work[w].eligible_at <= sched.now /\ work[w].next_attempt_at <= sched.now
        BY <1>3 DEF KernelInv, SchedWellFormed, ClocksWellFormed
    <2>2. RowStep(w)
        BY <2>1, NextRows
    <2>3. ~InsertedBy(w) /\ ~EndedBy(w)
        BY <2>1 DEF InsertedBy, RowInserted, EndedBy, RowEnded
    <2>4. ~BegunBy(w)
        <3> SUFFICES ASSUME BegunBy(w) PROVE FALSE
            OBVIOUS
        <3>1. sched'.pc = "launch"
            BY <1>1 DEF BegunBy, SchedStates
        <3>2. QED
            BY <1>3, <3>1
    <2>5. RowMove(w)
        BY <2>2, <2>3, <2>4 DEF RowStep
    <2>6. /\ work'[w].state # "RUNNING"
          /\ work'[w].eligible_at = work[w].eligible_at
          /\ work'[w].next_attempt_at = work[w].next_attempt_at
        BY <2>1, <2>5
        DEF RowMove, RowSame, RowRefused, RowCancelled, RowAcknowledged, Quiet, Frame
    <2>7. QED
        BY <1>3, <2>1, <2>6
<1>4. ASSUME sched'.pc \in {"decide", "begin"}
      PROVE  /\ work'[sched'.w].state # "RUNNING"
             /\ work'[sched'.w].eligible_at <= sched'.now
             /\ work'[sched'.w].next_attempt_at <= sched'.now
    <2>1. CASE sched' = sched
        BY <1>3, <1>4, <2>1
    <2>2. CASE /\ sched'.pc = "decide" /\ UNCHANGED storeVars
               /\ sched'.w \in Eligible(sched.now) /\ sched'.now = sched.now
        BY <2>2 DEF Eligible, storeVars
    <2>3. CASE SchedulerReserve
        BY <1>1, <1>3, <1>4, <2>3 DEF SchedulerReserve, Scheduling, SchedStates
    <2>4. CASE SchedulerBegin
        BY <1>1, <1>4, <2>4 DEF SchedulerBegin, SchedStates
    <2>5. QED
        BY <1>4, <2>1, <2>2, <2>3, <2>4, SchedMoves
<1>5. QED
    BY <1>2, <1>4

LEMMA NextStopTime ==
    ASSUME KernelInv, ClocksWellFormed, [Next]_vars,
           NEW w \in WorkIds, NEW n \in AttemptNumbers, task'[w][n] = "timed_out"
    PROVE  StopTimeReached(w, n)'
<1>1. CASE task[w][n] = "timed_out"
    <2>1. StopTimeReached(w, n)
        BY <1>1 DEF ClocksWellFormed
    <2>2. n <= work[w].attempt_count
        BY <1>1 DEF KernelInv, TasksWellFormed
    <2>3. /\ work'[w].req = work[w].req
          /\ attempts'[w][n].started_at = attempts[w][n].started_at
          /\ work[w].state # "ABSENT"
        BY <2>2, AttemptFacts
    <2>4. StopAt(w, n)' = StopAt(w, n)
        BY <2>3 DEF StopAt
    <2>5. work[w].req \in Requests
        BY <2>3 DEF KernelInv, RowsWellFormed
    <2>6. StopAt(w, n) \in Int
        <3>1. attempts[w][n].started_at \in Int
            BY TimeTypes
        <3>2. work[w].req.deadline \in Int /\ work[w].req.timeout \in Int
            BY <2>5, LimitTypes
        <3>3. AddMs(attempts[w][n].started_at, work[w].req.timeout) \in Int
            BY <3>1, <3>2, AddMsType
        <3>4. QED
            BY <3>2, <3>3 DEF StopAt
    <2>7. now <= now' /\ now \in Int /\ now' \in Int
        BY ClockMoves, NextType, KernelAssumption DEF KernelInv, TypeOK
    <2>8. QED
        BY <2>1, <2>3, <2>4, <2>6, <2>7 DEF StopTimeReached
<1>2. CASE task[w][n] # "timed_out"
    <2>1. TaskStep(w, n) \/ WorkerReplies(w, n)
        BY <1>2, TaskMoves
    <2>2. task \in [WorkIds -> [AttemptNumbers -> TaskPcs]]
        BY DEF KernelInv, TypeOK
    <2>3. WorkerTimedOut(w, n)
        BY <1>2, <2>1, <2>2
        DEF TaskStep, WorkerReplies, TaskSeesStop, TaskReadInput, TaskReadInputFails,
            WorkerStopped, WorkerCancelled, TaskRecheckCancel,
            TaskWriteResult, TaskWriteResultFails, TaskFinishSuccess,
            TaskFinishCancelled, TaskFinishTimedOut, TaskFinishFailed,
            TaskHandleError, TaskStoreError, TaskAbandon, TaskRelease, Goto
    <2>4. QED
        BY <2>3 DEF WorkerTimedOut, StopTimeReached, StopAt, storeVars, taskFrame
<1>3. QED
    BY <1>1, <1>2

LEMMA NextStartWindow ==
    ASSUME KernelInv, ClocksWellFormed, StartWindow, [Next]_vars
    PROVE  StartWindow'
<1> SUFFICES ASSUME NEW w \in WorkIds, NEW n \in AttemptNumbers,
                    n <= work'[w].attempt_count
             PROVE  /\ work'[w].eligible_at <= attempts'[w][n].started_at
                    /\ ~Reached(work'[w].req.deadline, attempts'[w][n].started_at)
    BY DEF StartWindow
<1>1. CASE n <= work[w].attempt_count
    BY <1>1, AttemptFacts DEF StartWindow
<1>2. CASE ~(n <= work[w].attempt_count)
    <2>1. /\ BegunBy(w)
          /\ work'[w].req = work[w].req /\ work'[w].eligible_at = work[w].eligible_at
          /\ attempts'[w][n].started_at = now
        BY <1>2, AttemptBegun
    <2>2. work[w].eligible_at <= sched.now /\ sched.now <= now
        BY <2>1 DEF BegunBy, ClocksWellFormed
    <2>3. work[w].eligible_at <= now
        BY <2>2, TimeTypes
    <2>4. QED
        BY <2>1, <2>3 DEF BegunBy
<1>3. QED
    BY <1>1, <1>2

\* A stop time that was reached is a timeout, a deadline, or a sum that wrapped.
LEMMA StopTimeMeans ==
    ASSUME KernelInv, NEW w \in WorkIds, NEW n \in AttemptNumbers,
           n <= work[w].attempt_count, StopTimeReached(w, n)
    PROVE  LET started == attempts[w][n].started_at
               req == work[w].req
           IN  \/ req.timeout # NoTime /\ started + req.timeout <= now
               \/ Reached(req.deadline, now)
               \/ req.timeout # NoTime /\ started + req.timeout > IntMax
<1> DEFINE started == attempts[w][n].started_at
           req == work[w].req
<1>1. RowInv(w) /\ n \in Nat /\ n >= 1
    BY RowInvOfKernel, StoreAssumption DEF AttemptNumbers
<1>2. work[w].state # "ABSENT"
    BY <1>1, TimeTypes, StoreAssumption DEF RowInv, LedgerOf
<1>3. req \in Requests
    BY <1>1, <1>2 DEF RowInv
<1>4. started \in Int /\ now \in Nat /\ req.deadline \in Int /\ req.timeout \in Int
    BY <1>3, TimeTypes, LimitTypes
<1>5. CASE req.timeout = NoTime
    BY <1>5 DEF StopTimeReached, StopAt, Reached
<1>6. CASE req.timeout # NoTime
    <2>1. StopAt(w, n) <= now
        BY DEF StopTimeReached
    <2>2. CASE req.deadline # NoTime /\ req.deadline < AddMs(started, req.timeout)
        BY <1>6, <2>1, <2>2 DEF StopAt, Reached
    <2>3. CASE ~(req.deadline # NoTime /\ req.deadline < AddMs(started, req.timeout))
        <3>1. AddMs(started, req.timeout) <= now
            BY <1>6, <2>1, <2>3 DEF StopAt
        <3> HIDE DEF started, req
        <3>2. QED
            BY <1>4, <1>6, <3>1, StoreAssumption DEF AddMs, started, req
    <2>4. QED
        BY <2>2, <2>3
<1>7. QED
    BY <1>5, <1>6

LEMMA NextTimeout ==
    ASSUME KernelInv, ClocksWellFormed, TimeoutRespected, [Next]_vars
    PROVE  TimeoutRespected'
<1> SUFFICES ASSUME NEW w \in WorkIds, NEW n \in AttemptNumbers,
                    attempts'[w][n].state = "TIMED_OUT"
             PROVE  LET started == attempts'[w][n].started_at
                        ended == attempts'[w][n].ended_at
                        req == work'[w].req
                    IN  \/ req.timeout # NoTime /\ started + req.timeout <= ended
                        \/ Reached(req.deadline, ended)
                        \/ req.timeout # NoTime /\ started + req.timeout > IntMax
    BY DEF TimeoutRespected
<1>1. RowInv(w)' /\ RowInv(w) /\ RowStep(w)
    BY NextRowInv, RowInvOfKernel, NextRows
<1>2. n <= work'[w].attempt_count
    <2>1. work'[w].attempt_count \in Int /\ n \in Int
        BY <1>1, StoreAssumption DEF RowInv, Typed, WorkRows, AttemptNumbers
    <2>2. QED
        BY <1>1, <2>1 DEF RowInv, LedgerOf
<1>3. n <= work[w].attempt_count
    BY <1>2, AttemptBegun
<1>4. CASE attempts[w][n].state # "RUNNING"
    BY <1>3, <1>4, AttemptFacts DEF TimeoutRespected
<1>5. CASE attempts[w][n].state = "RUNNING"
    <2>1. EndedBy(w)
        <3>1. ~RowMove(w) /\ ~InsertedBy(w)
            BY <1>5 DEF RowMove, RowSame, RowRefused, RowCancelled, RowAcknowledged, Quiet,
                        InsertedBy, RowInserted
        <3>2. ~BegunBy(w)
            <4> SUFFICES ASSUME BegunBy(w) PROVE FALSE
                OBVIOUS
            <4>1. work[w].attempt_count + 1 # n
                BY <1>3, TimeTypes, StoreAssumption DEF AttemptNumbers
            <4>2. attempts'[w][n] = attempts[w][n]
                BY <1>1, <4>1 DEF BegunBy, RowBegan, RowInv, Typed
            <4>3. QED
                BY <1>5, <4>2
        <3>3. QED
            BY <1>1, <3>1, <3>2 DEF RowStep
    <2>2. PICK a \in AttemptStates :
            /\ RowEnded(w, a, now)
            /\ a = "TIMED_OUT" => \E m \in AttemptNumbers : task[w][m] = "timed_out"
        BY <2>1 DEF EndedBy
    <2>3. n = work[w].attempt_count
        <3> SUFFICES ASSUME n # work[w].attempt_count PROVE FALSE
            OBVIOUS
        <3>1. attempts'[w][n] = attempts[w][n]
            BY <1>1, <2>2 DEF RowEnded, RowInv, Typed
        <3>2. QED
            BY <1>5, <3>1
    <2>4. attempts'[w][n] = [attempts[w][n] EXCEPT !.state = a, !.ended_at = now]
        BY <1>1, <2>2, <2>3 DEF RowEnded, RowInv, Typed
    <2>5. attempts[w][n] \in AttemptRows
        BY <1>1 DEF RowInv, Typed
    <2>6. /\ a = "TIMED_OUT" /\ attempts'[w][n].ended_at = now
          /\ attempts'[w][n].started_at = attempts[w][n].started_at
        BY <2>4, <2>5 DEF AttemptRows
    <2>7. PICK m \in AttemptNumbers : task[w][m] = "timed_out"
        BY <2>2, <2>6
    <2>8. m = n
        BY <2>3, <2>7 DEF KernelInv, AttemptOwnership, Owns, OwningPcs
    <2>9. StopTimeReached(w, n)
        BY <2>7, <2>8 DEF ClocksWellFormed
    <2>10. work'[w].req = work[w].req
        BY <1>3, AttemptFacts
    <2>11. QED
        BY <1>3, <2>6, <2>9, <2>10, StopTimeMeans
<1>6. QED
    BY <1>4, <1>5

LEMMA InitTiming == Init => TimingInv /\ RetriesWait /\ BackoffRespected
<1> SUFFICES ASSUME Init PROVE TimingInv /\ RetriesWait /\ BackoffRespected
    OBVIOUS
<1>1. KernelInv
    BY InitInv
<1>2. \A w \in WorkIds :
        /\ work[w].state = "ABSENT" /\ work[w].attempt_count = 0
        /\ \A n \in AttemptNumbers :
            attempts[w][n].state = "ABSENT" /\ task[w][n] = "none" /\ ~(n <= 0)
    <2>1. \A n \in AttemptNumbers : ~(n <= 0)
        BY StoreAssumption DEF AttemptNumbers
    <2>2. QED
        BY <2>1 DEF Init, StoreInit, NoTasks, NoRow, NoAttempt
<1>3. now = 0 /\ sched.now = 0 /\ sched.pc = "loop"
    BY DEF Init, SchedLoop
<1>4. ClocksWellFormed
    BY <1>2, <1>3 DEF ClocksWellFormed
<1>5. QED
    BY <1>1, <1>2, <1>4
    DEF TimingInv, StartWindow, TimeoutRespected, RetriesWait, BackoffRespected

LEMMA NextTiming == TimingInv /\ [Next]_vars => TimingInv'
<1> SUFFICES ASSUME TimingInv, [Next]_vars PROVE TimingInv'
    OBVIOUS
<1>1. KernelInv'
    BY NextInv DEF TimingInv
<1>2. ClocksWellFormed'
    BY NextSchedClock, NextStopTime DEF TimingInv, ClocksWellFormed
<1>3. StartWindow' /\ TimeoutRespected'
    BY NextStartWindow, NextTimeout DEF TimingInv
<1>4. QED
    BY <1>1, <1>2, <1>3 DEF TimingInv

(***************************************************************************)
(* The clock invariant holds of every behaviour of the Kernel: what the    *)
(* scheduler read earlier stays valid until begin_attempt uses it.         *)
(***************************************************************************)
THEOREM TimingSafety == Spec => []TimingInv
<1>1. QED
    BY InitTiming, NextTiming, PTL DEF Spec

(***************************************************************************)
(* No attempt starts before its Work is eligible, nor at or after the      *)
(* deadline: the second deadline check of scheduler_loop closes the gap    *)
(* between the clock the scheduler decided on and begin_attempt.           *)
(***************************************************************************)
THEOREM StartWindowCorrect == Spec => []StartWindow
<1>1. TimingInv => StartWindow
    BY DEF TimingInv
<1>2. QED
    BY <1>1, TimingSafety, PTL

(***************************************************************************)
(* An attempt recorded as TIMED_OUT used up its own timeout or reached the *)
(* deadline of its Work, unless the sum of its start and its timeout did   *)
(* not fit 64 bits.                                                        *)
(***************************************************************************)
THEOREM TimeoutCorrect == Spec => []TimeoutRespected
<1>1. TimingInv => TimeoutRespected
    BY DEF TimingInv
<1>2. QED
    BY <1>1, TimingSafety, PTL
-----------------------------------------------------------------------------
(***************************************************************************)
(* Retries wait, when no retry time overflows.                             *)
(***************************************************************************)
LEMMA NextRetriesWait ==
    ASSUME DelaysFit, KernelInv, RetriesWait, [Next]_vars
    PROVE  RetriesWait'
<1> SUFFICES ASSUME NEW w \in WorkIds,
                    work'[w].state = "QUEUED", work'[w].attempt_count > 0
             PROVE  attempts'[w][work'[w].attempt_count].ended_at + work'[w].req.retry_delay
                        <= work'[w].next_attempt_at
    BY DEF RetriesWait
<1>1. RowStep(w) /\ RowInv(w)
    BY NextRows, RowInvOfKernel
<1>2. CASE RowMove(w)
    BY <1>2 DEF RetriesWait, RowMove, RowSame, RowRefused, RowCancelled, RowAcknowledged
<1>3. CASE InsertedBy(w)
    BY <1>3 DEF InsertedBy, RowInserted
<1>4. CASE BegunBy(w)
    BY <1>4 DEF BegunBy, RowBegan
<1>5. CASE EndedBy(w)
    <2> DEFINE c == work[w].attempt_count
    <2>1. PICK a \in AttemptStates : RowEnded(w, a, now)
        BY <1>5 DEF EndedBy
    <2>2. c \in AttemptNumbers /\ work'[w].attempt_count = c
        BY <1>1, <2>1, StoreAssumption DEF RowEnded, RowInv, Typed, WorkRows, AttemptNumbers
    <2>3. attempts[w][c] \in AttemptRows
        BY <1>1, <2>2 DEF RowInv, Typed
    <2>4. attempts'[w][c] = [attempts[w][c] EXCEPT !.state = a, !.ended_at = now]
        BY <1>1, <2>1, <2>2 DEF RowEnded, RowInv, Typed
    <2>5. attempts'[w][c].ended_at = now
        BY <2>3, <2>4 DEF AttemptRows
    <2>6. work'[w].next_attempt_at = AddMs(now, work[w].req.retry_delay)
        BY <2>1 DEF RowEnded
    <2>7. work[w].req \in Requests /\ work'[w].req = work[w].req
        BY <1>1, <2>1 DEF RowEnded, Frame, RowInv
    <2>8. /\ work[w].req.retry_delay \in Nat /\ now \in Nat /\ now <= MaxTime
          /\ MaxTime + work[w].req.retry_delay <= IntMax
        BY <2>2, <2>7, TimeTypes, LimitTypes DEF DelaysFit
    <2>9. AddMs(now, work[w].req.retry_delay) = now + work[w].req.retry_delay
        BY <2>8, StoreAssumption, KernelAssumption DEF AddMs
    <2>10. QED
        BY <2>2, <2>5, <2>6, <2>7, <2>8, <2>9
<1>6. QED
    BY <1>1, <1>2, <1>3, <1>4, <1>5 DEF RowStep

LEMMA NextBackoff ==
    ASSUME TimingInv, RetriesWait, BackoffRespected, [Next]_vars
    PROVE  BackoffRespected'
<1> SUFFICES ASSUME NEW w \in WorkIds, NEW n \in AttemptNumbers,
                    n > 1, n <= work'[w].attempt_count
             PROVE  attempts'[w][n].started_at >=
                        attempts'[w][n - 1].ended_at + work'[w].req.retry_delay
    BY DEF BackoffRespected
<1>1. KernelInv /\ ClocksWellFormed
    BY DEF TimingInv
<1>2. /\ n \in Nat /\ n - 1 \in AttemptNumbers
      /\ work[w].attempt_count \in 0 .. MaxAttempts
    BY <1>1, StoreAssumption, TimeTypes DEF AttemptNumbers
<1>3. RowInv(w)
    BY <1>1, RowInvOfKernel
<1>4. CASE n <= work[w].attempt_count
    <2>1. n - 1 < work[w].attempt_count /\ n - 1 <= work[w].attempt_count
        BY <1>2, <1>4
    <2>2. attempts[w][n - 1].state # "RUNNING"
        BY <1>2, <1>3, <2>1 DEF RowInv, LedgerOf, Retryable
    <2>3. attempts'[w][n - 1] = attempts[w][n - 1]
        BY <1>1, <1>2, <2>1, <2>2, AttemptFacts
    <2>4. /\ attempts'[w][n].started_at = attempts[w][n].started_at
          /\ work'[w].req = work[w].req
        BY <1>1, <1>4, AttemptFacts
    <2>5. QED
        BY <1>4, <2>3, <2>4 DEF BackoffRespected
<1>5. CASE ~(n <= work[w].attempt_count)
    <2>1. /\ BegunBy(w) /\ n = work[w].attempt_count + 1
          /\ work[w].state = "QUEUED" /\ work'[w].req = work[w].req
          /\ attempts'[w][n].started_at = now
        BY <1>1, <1>5, AttemptBegun
    <2>2. n - 1 = work[w].attempt_count /\ work[w].attempt_count > 0
        BY <1>2, <2>1
    <2>3. attempts[w][n - 1].state # "RUNNING"
        BY <1>2, <1>3, <2>1, <2>2 DEF RowInv, LedgerOf
    <2>4. attempts'[w][n - 1] = attempts[w][n - 1]
        BY <1>1, <1>2, <2>2, <2>3, AttemptFacts
    <2>5. attempts[w][n - 1].ended_at + work[w].req.retry_delay <= work[w].next_attempt_at
        BY <2>1, <2>2 DEF RetriesWait
    <2>6. work[w].next_attempt_at <= sched.now /\ sched.now <= now
        BY <1>1, <2>1 DEF BegunBy, ClocksWellFormed
    <2>7. /\ work[w].next_attempt_at \in Int /\ sched.now \in Int /\ now \in Int
          /\ attempts[w][n - 1].ended_at \in Int
        BY <1>1, <1>2, TimeTypes
    <2>8. work[w].req.retry_delay \in Int
        BY <1>3, <2>1, LimitTypes DEF RowInv
    <2>9. QED
        BY <2>1, <2>4, <2>5, <2>6, <2>7, <2>8
<1>6. QED
    BY <1>4, <1>5

(***************************************************************************)
(* A retry starts no earlier than retry_delay_ms after the end of the      *)
(* attempt before it, provided no sum of a time and a delay overflows.     *)
(* Without that hypothesis the statement is false: run backoff.            *)
(***************************************************************************)
THEOREM BackoffCorrect == DelaysFit /\ Spec => []BackoffRespected
<1> DEFINE Waiting == TimingInv /\ RetriesWait /\ BackoffRespected
<1> SUFFICES ASSUME DelaysFit PROVE Spec => []BackoffRespected
    OBVIOUS
<1>1. Init => Waiting
    BY InitTiming
<1>2. Waiting /\ [Next]_vars => Waiting'
    BY NextTiming, NextRetriesWait, NextBackoff DEF TimingInv
<1>3. Waiting => BackoffRespected
    OBVIOUS
<1>4. QED
    BY <1>1, <1>2, <1>3, PTL DEF Spec
-----------------------------------------------------------------------------
(***************************************************************************)
(* Nobody's attempts.  An owner that lets go of a RUNNING Work commits the *)
(* attempt, unless the Kernel stops or the store fails.                    *)
(***************************************************************************)
LEMMA OwnershipLost ==
    ASSUME KernelInv, [Next]_vars, mode' = "running", ~StoreErrors, mode = "running",
           NEW w \in WorkIds, NEW n \in AttemptNumbers, Owns(w, n), ~Owns(w, n)'
    PROVE  work'[w].state # "RUNNING"
<1>1. work[w].state = "RUNNING" /\ work[w].attempt_count = n
    BY DEF KernelInv, AttemptOwnership
<1>2. task \in [WorkIds -> [AttemptNumbers -> TaskPcs]] /\ sched \in SchedStates
    BY DEF KernelInv, TypeOK
<1>3. StoreTypeOK /\ now \in Int
    BY NowType DEF KernelInv, TypeOK
<1>4. Committable(w)
    BY OwnerCommittable
<1>5. ~ProcessStep
    <2>1. ~Tick /\ ~RequestStop
        BY DEF Tick, RequestStop, memVars, Owns
    <2>2. QED
        BY <2>1 DEF ProcessStep, Start, Shutdown, Crash
<1>6. ~IpcStep /\ ~(\E v \in WorkIds : ClientStep(v)) /\ ~UNCHANGED vars
    BY IpcType DEF vars, Owns
<1>7. CASE SchedulerStep
    <2>1. CASE SchedulerLaunch
        <3>1. sched.pc = "launch" /\ task' = [task EXCEPT ![sched.w][sched.n] = "start"]
            BY <2>1 DEF SchedulerLaunch, Scheduling
        <3>2. task[w][n] \in OwningPcs => task'[w][n] \in OwningPcs
            BY <1>2, <3>1 DEF OwningPcs
        <3>3. sched.w = w /\ sched.n = n => task'[w][n] \in OwningPcs
            BY <1>2, <3>1 DEF OwningPcs
        <3>4. QED
            BY <3>2, <3>3 DEF Owns
    <2>2. CASE SchedulerLaunchFails
        <3>1. /\ sched.pc = "launch" /\ sched.w \in WorkIds /\ sched.n \in AttemptNumbers
              /\ FinishRetryableFailure(sched.w, sched.n, "FAILED", now) /\ task' = task
            BY <2>2 DEF SchedulerLaunchFails, Scheduling, KernelInv, SchedWellFormed
        <3>2. sched.w = w /\ sched.n = n
            BY <3>1 DEF Owns
        <3>3. RowEnded(w, "FAILED", now)
            BY <1>1, <1>3, <1>4, <3>1, <3>2, FinishRetryableFailureStep
        <3>4. QED
            BY <3>3 DEF RowEnded
    <2>3. CASE task' = task /\ ~SchedulerLaunchFails
        <3>1. sched.pc = "launch"
            BY <2>3 DEF Owns
        <3>2. QED
            BY <1>7, <2>1, <2>3, <3>1
            DEF SchedulerStep, SchedulerExit, SchedulerSweep, SchedulerPick, SchedulerRefuse,
                SchedulerBlocked, SchedulerReserve, SchedulerTooLate, SchedulerBegin,
                SchedulerLostRace, Scheduling
    <2>4. QED
        BY <1>7, <2>1, <2>2, <2>3
        DEF SchedulerStep, SchedulerExit, SchedulerSweep, SchedulerPick, SchedulerRefuse,
            SchedulerBlocked, SchedulerReserve, SchedulerTooLate, SchedulerBegin,
            SchedulerLostRace
<1>8. CASE \E v \in WorkIds, m \in AttemptNumbers : TaskStep(v, m) \/ WorkerReplies(v, m)
    <2>1. sched' = sched
        BY <1>8, TaskType DEF taskFrame
    <2>2. task[w][n] \in OwningPcs /\ task'[w][n] \notin OwningPcs
        BY <2>1 DEF Owns
    <2>3. TaskStep(w, n) \/ WorkerReplies(w, n)
        <3>1. task[w][n] # "none" /\ sched' = sched
            BY <2>1, <2>2 DEF OwningPcs
        <3>2. PICK v \in WorkIds, m \in AttemptNumbers : TaskStep(v, m) \/ WorkerReplies(v, m)
            BY <1>8
        <3>3. PICK pc \in TaskPcs : Goto(v, m, pc)
            BY <3>2, TaskType
        <3>4. v = w /\ m = n
            BY <1>2, <2>2, <3>3 DEF Goto
        <3>5. QED
            BY <3>2, <3>4
    <2>4. CASE TaskFinishSuccess(w, n)
        BY <1>1, <1>3, <1>4, <2>4, FinishSuccessStep DEF TaskFinishSuccess
    <2>5. CASE TaskFinishCancelled(w, n)
        <3>1. RowEnded(w, "CANCELLED", now)
            BY <1>1, <1>3, <1>4, <2>5, FinishCancelledStep DEF TaskFinishCancelled
        <3>2. QED
            BY <3>1 DEF RowEnded
    <2>6. CASE \/ TaskFinishTimedOut(w, n) \/ TaskFinishFailed(w, n)
               \/ TaskHandleError(w, n)
        <3>1. \E a \in {"FAILED", "TIMED_OUT"} : FinishRetryableFailure(w, n, a, now)
            BY <2>6 DEF TaskFinishTimedOut, TaskFinishFailed, TaskHandleError
        <3>2. \E a \in {"FAILED", "TIMED_OUT"} : RowEnded(w, a, now)
            BY <1>1, <1>3, <1>4, <3>1, FinishRetryableFailureStep
        <3>3. QED
            BY <3>2 DEF RowEnded
    <2>7. CASE \/ TaskSeesStop(w, n) \/ WorkerStopped(w, n) \/ TaskStoreError(w, n)
               \/ TaskAbandon(w, n)
        BY <2>7 DEF TaskSeesStop, WorkerStopped, TaskStoreError, TaskAbandon
    <2>8. CASE \/ TaskReadInput(w, n) \/ TaskReadInputFails(w, n) \/ WorkerCancelled(w, n)
               \/ WorkerTimedOut(w, n) \/ TaskRecheckCancel(w, n) \/ TaskWriteResult(w, n)
               \/ TaskWriteResultFails(w, n) \/ WorkerReplies(w, n)
        <3>1. \E pc \in OwningPcs : Goto(w, n, pc)
            BY <2>8
            DEF TaskReadInput, TaskReadInputFails, WorkerCancelled, WorkerTimedOut,
                TaskRecheckCancel, TaskWriteResult, TaskWriteResultFails, WorkerReplies,
                OwningPcs
        <3>2. QED
            BY <1>2, <2>2, <3>1 DEF Goto
    <2>9. CASE TaskRelease(w, n)
        BY <2>2, <2>9 DEF TaskRelease, TaskAt, OwningPcs
    <2>10. QED
        BY <2>3, <2>4, <2>5, <2>6, <2>7, <2>8, <2>9 DEF TaskStep
<1>9. QED
    BY <1>5, <1>6, <1>7, <1>8 DEF Next

LEMMA NextRunningHasOwner ==
    ASSUME KernelInv, KernelInv', RunningHasOwner, [Next]_vars
    PROVE  RunningHasOwner'
<1> SUFFICES ASSUME mode' = "running", ~StoreErrors,
                    NEW w \in WorkIds, work'[w].state = "RUNNING"
             PROVE  Owns(w, work[w].attempt_count)'
    BY DEF RunningHasOwner
<1>1. CASE mode = "running"
    <2>1. CASE work[w].state = "RUNNING"
        <3>1. PICK n \in AttemptNumbers : n = work[w].attempt_count
            BY <2>1, RunningCommittable DEF Committable
        <3>2. Owns(w, n)
            BY <1>1, <2>1, <3>1 DEF RunningHasOwner
        <3>3. Owns(w, n)'
            BY <1>1, <3>2, OwnershipLost
        <3>4. work'[w].attempt_count = n
            BY <3>2, <3>3, OwnershipKept
        <3>5. QED
            BY <3>3, <3>4 DEF Owns
    <2>2. CASE work[w].state # "RUNNING"
        <3>1. BegunBy(w)
            BY <2>2, NextRows
            DEF RowStep, RowMove, RowSame, RowRefused, RowCancelled, RowAcknowledged,
                InsertedBy, RowInserted, EndedBy, RowEnded
        <3>2. /\ sched'.pc = "launch" /\ sched'.w = w
              /\ sched'.n = work'[w].attempt_count
            BY <3>1 DEF BegunBy, RowBegan, KernelInv, TypeOK, SchedStates
        <3>3. QED
            BY <3>2 DEF Owns
    <2>3. QED
        BY <2>1, <2>2
<1>2. CASE mode # "running"
    <2>1. Start
        BY <1>2, IpcType, TaskType
        DEF Next, ProcessStep, RequestStop, Shutdown, Crash, Tick, vars, taskFrame,
            SchedulerStep, SchedulerExit, SchedulerSweep, SchedulerPick, SchedulerRefuse,
            SchedulerBlocked, SchedulerReserve, SchedulerTooLate, SchedulerBegin,
            SchedulerLostRace, SchedulerLaunch, SchedulerLaunchFails, schedFrame
    <2>2. RecoverInterrupted(now) /\ now \in Int /\ StoreTypeOK
        BY <2>1, NowType DEF Start, KernelInv, TypeOK
    <2>3. IF work[w].state = "RUNNING" THEN RowEnded(w, "INTERRUPTED", now) ELSE RowSame(w)
        BY <2>2, RunningCommittable, RecoverStep
    <2>4. QED
        BY <2>3 DEF RowEnded, RowSame
<1>3. QED
    BY <1>1, <1>2

(***************************************************************************)
(* While the Kernel runs and its store works, every RUNNING Work has a     *)
(* task or a launch that will finish it.                                   *)
(***************************************************************************)
THEOREM OwnerCorrect == Spec => []RunningHasOwner
<1> DEFINE Inv == KernelInv /\ RunningHasOwner
<1>1. Init => Inv
    BY InitInv DEF Init, RunningHasOwner
<1>2. Inv /\ [Next]_vars => Inv'
    BY NextInv, NextRunningHasOwner
<1>3. Inv => RunningHasOwner
    OBVIOUS
<1>4. QED
    BY <1>1, <1>2, <1>3, PTL DEF Spec
-----------------------------------------------------------------------------
(***************************************************************************)
(* Leases.  A step leaves every holder and the counters alone, loses them  *)
(* all with the process, or is one of the actions that hand a lease on.    *)
(***************************************************************************)
SameHolders ==
    /\ used' = used
    /\ \A w \in WorkIds, n \in AttemptNumbers : task'[w][n] = "none" <=> task[w][n] = "none"
    /\ sched'.pc \in {"begin", "launch"} <=> sched.pc \in {"begin", "launch"}
    /\ sched'.pc \in {"begin", "launch"} => sched'.w = sched.w

LEMMA SchedulerLeases ==
    ASSUME KernelInv, SchedulerStep
    PROVE  \/ SameHolders \/ SchedulerReserve \/ SchedulerTooLate
           \/ SchedulerLostRace \/ SchedulerLaunch \/ SchedulerLaunchFails
<1>1. sched \in SchedStates
    BY DEF KernelInv, TypeOK
<1>2. CASE SchedulerExit \/ SchedulerSweep \/ SchedulerRefuse \/ SchedulerBlocked
    <2>1. used' = used /\ task' = task /\ sched.pc \in {"loop", "decide"}
        <3>1. CASE SchedulerExit \/ SchedulerSweep
            BY <3>1 DEF SchedulerExit, SchedulerSweep, Scheduling
        <3>2. CASE SchedulerRefuse \/ SchedulerBlocked
            BY <3>2 DEF SchedulerRefuse, SchedulerBlocked, Scheduling
        <3>3. QED
            BY <1>2, <3>1, <3>2
    <2>2. sched'.pc \in {"loop", "pick", "exited"}
        <3>1. CASE SchedulerExit
            BY <3>1 DEF SchedulerExit, SchedLoop
        <3>2. CASE SchedulerSweep
            <4>1. sched' = [SchedLoop EXCEPT !.pc = "pick", !.now = now]
                BY <3>2 DEF SchedulerSweep
            <4>2. QED
                BY <4>1 DEF SchedLoop
        <3>3. CASE SchedulerRefuse \/ SchedulerBlocked
            <4>1. sched' = SchedLoop
                BY <3>3 DEF SchedulerRefuse, SchedulerBlocked
            <4>2. QED
                BY <4>1 DEF SchedLoop
        <3>4. QED
            BY <1>2, <3>1, <3>2, <3>3
    <2>3. QED
        BY <2>1, <2>2 DEF SameHolders
<1>3. CASE SchedulerPick
    <2>1. used' = used /\ task' = task /\ sched.pc = "pick"
        BY <1>3 DEF SchedulerPick, Scheduling
    <2>2. CASE sched' = SchedLoop
        BY <2>1, <2>2 DEF SameHolders, SchedLoop
    <2>3. CASE \E w \in WorkIds : sched' = [sched EXCEPT !.pc = "decide", !.w = w]
        BY <1>1, <2>1, <2>3 DEF SameHolders, SchedStates
    <2>4. QED
        BY <1>3, <2>2, <2>3 DEF SchedulerPick, NextEligible, Eligible
<1>4. CASE SchedulerBegin
    <2>1. /\ used' = used /\ task' = task
          /\ sched.pc = "begin" /\ sched'.pc = "launch" /\ sched'.w = sched.w
        BY <1>1, <1>4 DEF SchedulerBegin, Scheduling, SchedStates
    <2>2. QED
        BY <2>1 DEF SameHolders
<1>5. QED
    BY <1>2, <1>3, <1>4 DEF SchedulerStep

\* A step of a task other than the last one keeps its leases.
LEMMA TaskLeases ==
    ASSUME KernelInv, NEW w \in WorkIds, NEW n \in AttemptNumbers,
           TaskStep(w, n) \/ WorkerReplies(w, n), ~TaskRelease(w, n)
    PROVE  SameHolders
<1>1. task \in [WorkIds -> [AttemptNumbers -> TaskPcs]]
    BY DEF KernelInv, TypeOK
<1>2. sched' = sched
    BY TaskType DEF taskFrame
<1>3. used' = used /\ task[w][n] # "none"
    BY DEF TaskStep, WorkerReplies, TaskSeesStop, TaskReadInput, TaskReadInputFails,
           WorkerStopped, WorkerCancelled, WorkerTimedOut, TaskRecheckCancel,
           TaskWriteResult, TaskWriteResultFails, TaskFinishSuccess,
           TaskFinishCancelled, TaskFinishTimedOut, TaskFinishFailed,
           TaskHandleError, TaskStoreError, TaskAbandon, TaskAt, OwningPcs
<1>4. \E pc \in OwningPcs \cup {"release"} : Goto(w, n, pc)
    <2>1. CASE TaskRecheckCancel(w, n) \/ WorkerReplies(w, n)
        BY <2>1 DEF TaskRecheckCancel, WorkerReplies, OwningPcs
    <2>2. QED
        BY <2>1
        DEF TaskStep, TaskSeesStop, TaskReadInput, TaskReadInputFails,
            WorkerStopped, WorkerCancelled, WorkerTimedOut,
            TaskWriteResult, TaskWriteResultFails, TaskFinishSuccess,
            TaskFinishCancelled, TaskFinishTimedOut, TaskFinishFailed,
            TaskHandleError, TaskStoreError, TaskAbandon, OwningPcs
<1>5. PICK pc \in OwningPcs \cup {"release"} : task' = [task EXCEPT ![w][n] = pc]
    BY <1>4 DEF Goto
<1>6. pc # "none"
    BY DEF OwningPcs
<1>7. ASSUME NEW v \in WorkIds, NEW m \in AttemptNumbers
      PROVE  task'[v][m] = "none" <=> task[v][m] = "none"
    <2>1. CASE v = w /\ m = n
        BY <1>1, <1>3, <1>5, <1>6, <2>1
    <2>2. CASE ~(v = w /\ m = n)
        BY <1>1, <1>5, <2>2
    <2>3. QED
        BY <2>1, <2>2
<1>8. QED
    BY <1>2, <1>3, <1>7 DEF SameHolders

LEMMA LeaseMoves ==
    ASSUME KernelInv, [Next]_vars
    PROVE  \/ used' = NothingUsed /\ task' = NoTasks /\ sched' = SchedLoop
           \/ SameHolders
           \/ SchedulerReserve
           \/ SchedulerTooLate \/ SchedulerLostRace \/ SchedulerLaunchFails
           \/ SchedulerLaunch
           \/ \E w \in WorkIds, n \in AttemptNumbers : TaskRelease(w, n)
<1>1. CASE used' = used /\ task' = task /\ sched' = sched
    BY <1>1 DEF SameHolders
<1>2. CASE ProcessStep
    BY <1>1, <1>2 DEF ProcessStep, Start, RequestStop, Shutdown, Crash, Tick, memVars
<1>3. CASE IpcStep \/ \E v \in WorkIds : ClientStep(v)
    <2>1. used' = used
        BY <1>3 DEF IpcStep, ClientStep, SubmitInsert, SubmitInsertFails, RemoveInput,
                    RemoveResult, SubmitWriteInput, Cancel, Acknowledge, memVars
    <2>2. QED
        BY <1>1, <1>3, <2>1, IpcType
<1>4. CASE SchedulerStep
    BY <1>4, SchedulerLeases
<1>5. CASE \E w \in WorkIds, n \in AttemptNumbers : TaskStep(w, n) \/ WorkerReplies(w, n)
    BY <1>5, TaskLeases
<1>6. CASE UNCHANGED vars
    BY <1>1, <1>6 DEF vars
<1>7. QED
    BY <1>2, <1>3, <1>4, <1>5, <1>6 DEF Next

\* The needs of the holders are natural numbers, and no step changes them.
LEMMA HoldersSummable ==
    ASSUME KernelInv, NEW k \in ResourceKinds
    PROVE  /\ Summable(HolderNeed(k), Holders)
           /\ \A h \in Holders : HolderNeed(k)[h] \in Nat
<1>1. ASSUME NEW h \in Holders
      PROVE  HolderNeed(k)[h] \in Nat
    <2>1. /\ h[1] \in WorkIds /\ h[2] \in AttemptNumbers /\ task[h[1]][h[2]] # "none"
        BY DEF Holders
    <2>2. Inventory[attempts[h[1]][h[2]].engine].need \in [ResourceKinds -> Nat]
        BY <2>1, TaskNeed DEF Requirements
    <2>3. QED
        BY <2>2 DEF HolderNeed
<1>2. IsFiniteSet(WorkIds \X AttemptNumbers)
    <2>1. IsFiniteSet(AttemptNumbers)
        BY StoreAssumption, FS_Interval DEF AttemptNumbers
    <2>2. IsFiniteSet(WorkIds)
        BY StoreAssumption
    <2>3. QED
        BY <2>1, <2>2, FS_Product
<1>3. IsFiniteSet(Holders)
    BY <1>2, FS_Subset DEF Holders
<1>4. QED
    BY <1>1, <1>3 DEF Summable

LEMMA HoldersSummableNow ==
    KernelInv => \A k \in ResourceKinds : Summable(HolderNeed(k), Holders)
BY HoldersSummable

LEMMA HoldersSummableNext ==
    KernelInv' => (\A k \in ResourceKinds : Summable(HolderNeed(k), Holders))'
BY HoldersSummableNow, PTL

LEMMA HolderNeedKept ==
    ASSUME KernelInv, [Next]_vars, NEW k \in ResourceKinds,
           NEW h \in Holders, h \in Holders'
    PROVE  HolderNeed(k)'[h] = HolderNeed(k)[h]
<1>1. h[1] \in WorkIds /\ h[2] \in AttemptNumbers /\ task[h[1]][h[2]] # "none"
    BY DEF Holders
<1>2. h[2] <= work[h[1]].attempt_count
    BY <1>1 DEF KernelInv, TasksWellFormed
<1>3. attempts'[h[1]][h[2]].engine = attempts[h[1]][h[2]].engine
    BY <1>1, <1>2, AttemptFacts
<1>4. QED
    BY <1>3 DEF HolderNeed

\* The sum over the holders that stay.
LEMMA HolderSumKept ==
    ASSUME KernelInv, KernelInv', [Next]_vars, NEW k \in ResourceKinds,
           NEW S, S \subseteq Holders, S \subseteq Holders'
    PROVE  /\ SumFunctionOnSet(HolderNeed(k)', S) = SumFunctionOnSet(HolderNeed(k), S)
           /\ SumFunctionOnSet(HolderNeed(k), S) \in Int
<1>1. Summable(HolderNeed(k), S)
    BY HoldersSummable, SummableSubset
<1>2. \A h \in S : HolderNeed(k)[h] = HolderNeed(k)'[h]
    BY HolderNeedKept
<1>3. QED
    BY <1>1, <1>2, SumSame, SumType

\* A submitted Work keeps its selection.
LEMMA SelectionKept ==
    ASSUME KernelInv, [Next]_vars, NEW w \in WorkIds, work[w].state # "ABSENT"
    PROVE  SelectEngine(work'[w].req, Inventory) = SelectEngine(work[w].req, Inventory)
BY RowFacts

LEMMA NextLaunchEngine ==
    ASSUME KernelInv, LaunchEngine, [Next]_vars
    PROVE  LaunchEngine'
<1> SUFFICES ASSUME sched'.pc = "launch"
             PROVE  attempts'[sched'.w][sched'.n].engine
                        = SelectEngine(work'[sched'.w].req, Inventory).engine
    BY DEF LaunchEngine, Selection
<1>1. sched \in SchedStates /\ StoreTypeOK
    BY DEF KernelInv, TypeOK
<1>2. CASE sched' = sched
    <2> DEFINE w == sched.w
               n == sched.n
    <2>1. w \in WorkIds /\ work[w].state # "ABSENT" /\ n \in AttemptNumbers
        BY <1>2 DEF KernelInv, SchedWellFormed
    <2>2. work[w].attempt_count = n
        BY <1>2, <2>1 DEF KernelInv, AttemptOwnership, Owns
    <2>3. n <= work[w].attempt_count
        BY <2>1, <2>2 DEF AttemptNumbers
    <2>4. attempts'[w][n].engine = attempts[w][n].engine
        BY <2>1, <2>3, AttemptFacts
    <2>5. attempts[w][n].engine = SelectEngine(work[w].req, Inventory).engine
        BY <1>2 DEF LaunchEngine, Selection
    <2>6. QED
        BY <1>2, <2>1, <2>4, <2>5, SelectionKept
<1>3. CASE SchedulerBegin
    <2> DEFINE w == sched.w
               n == work[w].attempt_count + 1
               e == SelectEngine(work[w].req, Inventory).engine
    <2>1. /\ w \in WorkIds /\ BeginAttempt(w, e, now)
          /\ sched'.w = w /\ sched'.n = n
        BY <1>1, <1>3 DEF SchedulerBegin, Scheduling, KernelInv, SchedWellFormed,
                          Selection, SchedStates
    <2>2. sched'.n \in AttemptNumbers
        BY <1>3, NextSched DEF SchedWellFormed
    <2>3. attempts'[w][n].engine = e
        BY <1>1, <2>1, <2>2 DEF BeginAttempt, StoreTypeOK
    <2>4. work[w].state # "ABSENT"
        BY <2>1 DEF BeginAttempt, CanBegin
    <2>5. SelectEngine(work'[w].req, Inventory).engine = e
        BY <2>1, <2>4, SelectionKept
    <2>6. QED
        BY <2>1, <2>3, <2>5
<1>4. CASE SchedulerReserve
    BY <1>1, <1>4 DEF SchedulerReserve, SchedStates
<1>5. QED
    BY <1>2, <1>3, <1>4, SchedMoves

\* The needs the scheduler holds are integers, and stay the same with its Work.
LEMMA SchedNeedFacts ==
    ASSUME KernelInv, [Next]_vars, NEW k \in ResourceKinds
    PROVE  /\ SchedNeed(k) \in Nat
           /\ /\ sched.pc \in {"decide", "begin", "launch"}
              /\ sched'.pc \in {"begin", "launch"} /\ sched'.w = sched.w
              => SchedNeed(k)' = Need(sched.w)[k]
<1>1. ASSUME sched.pc \in {"begin", "launch"}
      PROVE  Need(sched.w)[k] \in Nat
    BY <1>1, ScheduledNeed DEF Requirements
<1>2. ASSUME sched.pc \in {"decide", "begin", "launch"},
             sched'.pc \in {"begin", "launch"}, sched'.w = sched.w
      PROVE  SchedNeed(k)' = Need(sched.w)[k]
    <2>1. sched.w \in WorkIds /\ work[sched.w].state # "ABSENT"
        BY <1>2 DEF KernelInv, SchedWellFormed
    <2>2. SelectEngine(work'[sched.w].req, Inventory)
            = SelectEngine(work[sched.w].req, Inventory)
        BY <2>1, SelectionKept
    <2>3. QED
        BY <1>2, <2>2 DEF SchedNeed, Need, Selection
<1>3. QED
    BY <1>1, <1>2 DEF SchedNeed

LEMMA NextLeases ==
    ASSUME KernelInv, KernelInv', LaunchEngine, LeasesConserved, [Next]_vars
    PROVE  LeasesConserved'
<1> SUFFICES ASSUME NEW k \in ResourceKinds
             PROVE  used'[k] = SumFunctionOnSet(HolderNeed(k)', Holders') + SchedNeed(k)'
    BY DEF LeasesConserved
<1> DEFINE Sum(S) == SumFunctionOnSet(HolderNeed(k), S)
           SumNext(S) == SumFunctionOnSet(HolderNeed(k)', S)
<1>1. used[k] = Sum(Holders) + SchedNeed(k)
    BY DEF LeasesConserved
<1>2. /\ Sum(Holders) \in Int /\ SchedNeed(k) \in Int
      /\ Summable(HolderNeed(k), Holders) /\ Summable(HolderNeed(k)', Holders')
      /\ used \in [ResourceKinds -> Int]
    <2>1. Summable(HolderNeed(k), Holders) /\ Summable(HolderNeed(k)', Holders')
        BY HoldersSummable, HoldersSummableNext
    <2>2. QED
        BY <2>1, SumType, SchedNeedFacts DEF KernelInv, TypeOK
<1>3. ASSUME task' = task PROVE Holders' = Holders
    BY <1>3 DEF Holders
<1>4. ASSUME Holders' = Holders PROVE SumNext(Holders') = Sum(Holders)
    BY <1>4, HolderSumKept
<1>5. CASE used' = NothingUsed /\ task' = NoTasks /\ sched' = SchedLoop
    <2>1. Holders' = {}
        BY <1>5 DEF Holders, NoTasks
    <2>2. SumNext(Holders') = 0
        BY <2>1, SumEmpty
    <2>3. SchedNeed(k)' = 0
        BY <1>5 DEF SchedNeed, SchedLoop
    <2>4. QED
        BY <1>5, <2>2, <2>3 DEF NothingUsed
<1>6. CASE SameHolders
    <2>1. Holders' = Holders
        BY <1>6 DEF SameHolders, Holders
    <2>2. SchedNeed(k)' = SchedNeed(k)
        <3>1. CASE sched.pc \in {"begin", "launch"}
            BY <1>6, <3>1, SchedNeedFacts DEF SameHolders, SchedNeed
        <3>2. CASE sched.pc \notin {"begin", "launch"}
            BY <1>6, <3>2 DEF SameHolders, SchedNeed
        <3>3. QED
            BY <3>1, <3>2
    <2>3. QED
        BY <1>1, <1>4, <1>6, <2>1, <2>2 DEF SameHolders
<1>7. CASE SchedulerReserve
    <2>1. /\ sched.pc = "decide" /\ sched'.pc = "begin" /\ sched'.w = sched.w
          /\ task' = task /\ used'[k] = used[k] + Need(sched.w)[k]
        BY <1>7 DEF SchedulerReserve, Scheduling, Reserve, KernelInv, TypeOK, SchedStates
    <2>2. SchedNeed(k) = 0 /\ SchedNeed(k)' = Need(sched.w)[k]
        BY <2>1, SchedNeedFacts DEF SchedNeed
    <2>3. SumNext(Holders') = Sum(Holders)
        BY <1>3, <1>4, <2>1
    <2>4. Need(sched.w)[k] \in Int
        <3>1. sched.pc = "decide" /\ Refusal(sched.w, sched.now) = ""
            BY <1>7 DEF SchedulerReserve, Scheduling
        <3>2. Need(sched.w) \in [ResourceKinds -> Nat]
            BY <3>1, ScheduledNeed DEF Requirements
        <3>3. QED
            BY <3>2
    <2>5. QED
        BY <1>1, <1>2, <2>1, <2>2, <2>3, <2>4
<1>8. CASE SchedulerTooLate \/ SchedulerLostRace \/ SchedulerLaunchFails
    <2>1. /\ sched.pc \in {"begin", "launch"} /\ sched'.pc = "loop" /\ task' = task
          /\ used'[k] = used[k] - Need(sched.w)[k]
        BY <1>8 DEF SchedulerTooLate, SchedulerLostRace, SchedulerLaunchFails, Scheduling,
                    Release, SchedLoop
    <2>2. SchedNeed(k) = Need(sched.w)[k] /\ SchedNeed(k)' = 0
        BY <2>1 DEF SchedNeed
    <2>3. SumNext(Holders') = Sum(Holders)
        BY <1>3, <1>4, <2>1
    <2>4. QED
        BY <1>1, <1>2, <2>1, <2>2, <2>3
<1>9. CASE SchedulerLaunch
    <2> DEFINE w == sched.w
               n == sched.n
               h == <<w, n>>
    <2>1. /\ sched.pc = "launch" /\ sched'.pc = "loop" /\ used' = used
          /\ task' = [task EXCEPT ![w][n] = "start"] /\ UNCHANGED storeVars
          /\ w \in WorkIds /\ n \in AttemptNumbers
        BY <1>9 DEF SchedulerLaunch, Scheduling, SchedLoop, KernelInv, SchedWellFormed
    <2>2. task[w][n] = "none"
        BY <2>1 DEF KernelInv, AttemptOwnership, Owns
    <2>3. task \in [WorkIds -> [AttemptNumbers -> TaskPcs]]
        BY DEF KernelInv, TypeOK
    <2>4. h \notin Holders /\ Holders' = Holders \cup {h}
        <3>1. h \notin Holders /\ h \in Holders'
            BY <2>1, <2>2, <2>3 DEF Holders
        <3>2. ASSUME NEW g \in WorkIds \X AttemptNumbers, g # h
              PROVE  g \in Holders' <=> g \in Holders
            <4>1. ~(g[1] = w /\ g[2] = n) /\ g[1] \in WorkIds /\ g[2] \in AttemptNumbers
                BY <3>2
            <4>2. task'[g[1]][g[2]] = task[g[1]][g[2]]
                BY <2>1, <2>3, <4>1
            <4>3. QED
                BY <4>2 DEF Holders
        <3>3. Holders \subseteq WorkIds \X AttemptNumbers
              /\ Holders' \subseteq WorkIds \X AttemptNumbers
            BY DEF Holders
        <3>4. QED
            BY <3>1, <3>2, <3>3
    <2>5. SumNext(Holders') = HolderNeed(k)'[h] + SumNext(Holders)
        BY <1>2, <2>4, SumAdd
    <2>6. SumNext(Holders) = Sum(Holders)
        BY <2>4, HolderSumKept
    <2>7. HolderNeed(k)'[h] = Need(w)[k]
        <3>1. attempts[w][n].engine = Selection(w).engine
            BY <2>1 DEF LaunchEngine
        <3>2. HolderNeed(k)'[h] = Inventory[attempts'[w][n].engine].need[k]
            BY <2>4 DEF HolderNeed
        <3>3. QED
            BY <2>1, <3>1, <3>2 DEF Need, storeVars
    <2>8. SchedNeed(k) = Need(w)[k] /\ SchedNeed(k)' = 0
        BY <2>1 DEF SchedNeed
    <2>9. QED
        BY <1>1, <1>2, <2>1, <2>5, <2>6, <2>7, <2>8
<1>10. ASSUME NEW w \in WorkIds, NEW n \in AttemptNumbers, TaskRelease(w, n)
       PROVE  used'[k] = SumNext(Holders') + SchedNeed(k)'
    <2> DEFINE h == <<w, n>>
    <2>1. /\ task[w][n] = "release" /\ task' = [task EXCEPT ![w][n] = "none"]
          /\ UNCHANGED storeVars /\ sched' = sched
          /\ used'[k] = used[k] - Inventory[attempts[w][n].engine].need[k]
        BY <1>10 DEF TaskRelease, TaskAt, Goto, Release, taskFrame
    <2>2. task \in [WorkIds -> [AttemptNumbers -> TaskPcs]]
        BY DEF KernelInv, TypeOK
    <2>3. h \in Holders /\ Holders' = Holders \ {h}
        <3>1. h \in Holders /\ h \notin Holders'
            BY <2>1, <2>2 DEF Holders
        <3>2. ASSUME NEW g \in WorkIds \X AttemptNumbers, g # h
              PROVE  g \in Holders' <=> g \in Holders
            <4>1. ~(g[1] = w /\ g[2] = n) /\ g[1] \in WorkIds /\ g[2] \in AttemptNumbers
                BY <3>2
            <4>2. task'[g[1]][g[2]] = task[g[1]][g[2]]
                BY <2>1, <2>2, <4>1
            <4>3. QED
                BY <4>2 DEF Holders
        <3>3. Holders \subseteq WorkIds \X AttemptNumbers
              /\ Holders' \subseteq WorkIds \X AttemptNumbers
            BY DEF Holders
        <3>4. QED
            BY <3>1, <3>2, <3>3
    <2>4. Sum(Holders) = HolderNeed(k)[h] + Sum(Holders \ {h})
        BY <1>2, <2>3, SumRemove
    <2>5. SumNext(Holders') = Sum(Holders \ {h}) /\ Sum(Holders \ {h}) \in Int
        BY <2>3, HolderSumKept
    <2>6. /\ HolderNeed(k)[h] = Inventory[attempts[w][n].engine].need[k]
          /\ HolderNeed(k)[h] \in Int
        BY <1>2, <2>3 DEF HolderNeed, Summable
    <2>7. SchedNeed(k)' = SchedNeed(k)
        BY <2>1 DEF SchedNeed, Need, Selection, storeVars
    <2>8. used[k] - HolderNeed(k)[h] = Sum(Holders \ {h}) + SchedNeed(k)
        <3> HIDE DEF Sum
        <3>1. QED
            BY <1>1, <1>2, <2>4, <2>5, <2>6
    <2>9. used'[k] = used[k] - HolderNeed(k)[h]
        BY <2>1, <2>6, Zenon
    <2>10. QED
        BY <2>5, <2>7, <2>8, <2>9, Zenon
<1>11. QED
    BY <1>5, <1>6, <1>7, <1>8, <1>9, <1>10, LeaseMoves

(***************************************************************************)
(* The reservation counters equal the needs of those who hold a lease: no  *)
(* path through scheduler_loop and execute_worker leaks a reservation or   *)
(* gives one back twice.                                                   *)
(***************************************************************************)
THEOREM LeasesCorrect == Spec => []LeasesConserved
<1> DEFINE Inv == KernelInv /\ LaunchEngine /\ LeasesConserved
<1>1. Init => Inv
    <2> SUFFICES ASSUME Init PROVE Inv
        OBVIOUS
    <2>1. KernelInv
        BY InitInv
    <2>2. sched.pc = "loop" /\ used = NothingUsed /\ Holders = {}
        BY DEF Init, SchedLoop, Holders, NoTasks
    <2>3. LaunchEngine
        BY <2>2 DEF LaunchEngine
    <2>4. ASSUME NEW k \in ResourceKinds
          PROVE  used[k] = SumFunctionOnSet(HolderNeed(k), Holders) + SchedNeed(k)
        <3>1. SumFunctionOnSet(HolderNeed(k), Holders) = 0
            BY <2>2, SumEmpty
        <3>2. SchedNeed(k) = 0 /\ used[k] = 0
            BY <2>2 DEF SchedNeed, NothingUsed
        <3>3. QED
            BY <3>1, <3>2
    <2>5. QED
        BY <2>1, <2>3, <2>4 DEF LeasesConserved
<1>2. Inv /\ [Next]_vars => Inv'
    BY NextInv, NextLaunchEngine, NextLeases
<1>3. Inv => LeasesConserved
    OBVIOUS
<1>4. QED
    BY <1>1, <1>2, <1>3, PTL DEF Spec
=============================================================================
