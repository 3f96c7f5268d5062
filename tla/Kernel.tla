------------------------------- MODULE Kernel -------------------------------
(***************************************************************************)
(* The MADRE Kernel process of kernel/src/main.cpp, class Kernel: the IPC  *)
(* thread that serves client commands, the scheduler thread, and one task  *)
(* per attempt, over the durable store, the payload files and the resource *)
(* manager; with graceful stop, crash and restart at any step.             *)
(*                                                                         *)
(* A step of a thread is the code between two accesses to state another    *)
(* thread, the clock or a crash can get in between: a store call, a file   *)
(* operation, a read of stop_.                                             *)
(***************************************************************************)
EXTENDS WorkStore, EngineSelection, ResourceManager

CONSTANTS
    NoWork,       \* the Work of an idle thread
    Inventory,    \* sequence of engines: engine_inventory_
    MaxTime,      \* bound of the clock
    MaxOutages,   \* bound on graceful stops plus crashes
    StoreErrors   \* whether SQLite may refuse a statement of a task or handler

ASSUME KernelAssumption ==
    /\ NoWork \notin WorkIds
    /\ MaxTime \in Nat /\ MaxOutages \in Nat
    /\ MaxTime <= IntMax
    /\ StoreErrors \in BOOLEAN
    /\ \A i \in DOMAIN Inventory : i \in Nat \ {0} /\ Inventory[i].need \in Requirements

VARIABLES
    input,     \* input[w]: work/<w>/input.bin exists
    result,    \* result[w]: the attempt whose payload work/<w>/result.bin holds, 0 = no file
    mode,      \* the process: "down", "running", or "stopping" (stop_ is set)
    outages,   \* stops and crashes so far
    now,       \* now_ms()
    ipc,       \* the handler the IPC thread is in the middle of
    sched,     \* the scheduler thread: program counter and locals
    task       \* task[w][n]: program counter of execute_worker for attempt n of w

memVars == <<ipc, sched, task, used>>
fileVars == <<input, result>>
vars == <<work, attempts, used, input, result, mode, outages, now, ipc, sched, task>>

IpcIdle == [pc |-> "idle", w |-> NoWork, req |-> NoRequest, at |-> 0]
SchedLoop == [pc |-> "loop", w |-> NoWork, n |-> 0, now |-> 0]
NoTasks == [w \in WorkIds |-> [n \in AttemptNumbers |-> "none"]]

\* Program counters of a task.  Up to its store commit the task owns the
\* attempt; in "release" it only holds its leases any more.
OwningPcs == {"start", "exec", "succeeded", "cancelled", "timed_out", "failed",
              "write", "commit", "error"}
TaskPcs == OwningPcs \cup {"none", "release"}

IpcStates ==
    [pc : {"idle", "insert", "remove_input", "remove_result"},
     w : WorkIds \cup {NoWork}, req : Requests \cup {NoRequest}, at : 0 .. MaxTime]

SchedStates ==
    [pc : {"loop", "pick", "decide", "begin", "launch", "exited"},
     w : WorkIds \cup {NoWork}, n : 0 .. MaxAttempts, now : 0 .. MaxTime]

\* Every variable has its type; counters and clock stay within their bounds.
TypeOK ==
    /\ StoreTypeOK
    /\ used \in [ResourceKinds -> Int]
    /\ input \in [WorkIds -> BOOLEAN]
    /\ result \in [WorkIds -> 0 .. MaxAttempts]
    /\ mode \in {"down", "running", "stopping"}
    /\ outages \in 0 .. MaxOutages
    /\ now \in 0 .. MaxTime
    /\ ipc \in IpcStates
    /\ sched \in SchedStates
    /\ task \in [WorkIds -> [AttemptNumbers -> TaskPcs]]

\* The state before the Kernel's first start on an empty data directory.
Init ==
    /\ StoreInit
    /\ used = NothingUsed
    /\ input = [w \in WorkIds |-> FALSE]
    /\ result = [w \in WorkIds |-> 0]
    /\ mode = "down"
    /\ outages = 0
    /\ now = 0
    /\ ipc = IpcIdle
    /\ sched = SchedLoop
    /\ task = NoTasks
-----------------------------------------------------------------------------
(* The process. *)

\* The constructor: recover_interrupted, then run() starts the scheduler.
Start ==
    /\ mode = "down"
    /\ RecoverInterrupted(now)
    /\ mode' = "running"
    /\ ipc' = IpcIdle
    /\ sched' = SchedLoop
    /\ task' = NoTasks
    /\ used' = NothingUsed
    /\ UNCHANGED <<fileVars, outages, now>>

\* SIGTERM or SIGINT: run() leaves its accept loop between two connections and
\* the destructor sets stop_.
RequestStop ==
    /\ mode = "running" /\ ipc.pc = "idle"
    /\ outages < MaxOutages
    /\ mode' = "stopping"
    /\ outages' = outages + 1
    /\ UNCHANGED <<storeVars, memVars, fileVars, now>>

\* The destructor has joined the scheduler and waited for every task.
Shutdown ==
    /\ mode = "stopping" /\ sched.pc = "exited"
    /\ task = NoTasks
    /\ mode' = "down"
    /\ UNCHANGED <<storeVars, memVars, fileVars, outages, now>>

\* kill -9, or an exception that leaves the scheduler thread: memory is lost,
\* the database and the files stay.
Crash ==
    /\ mode \in {"running", "stopping"}
    /\ outages < MaxOutages
    /\ mode' = "down"
    /\ outages' = outages + 1
    /\ ipc' = IpcIdle
    /\ sched' = SchedLoop
    /\ task' = NoTasks
    /\ used' = NothingUsed
    /\ UNCHANGED <<storeVars, fileVars, now>>

Tick ==
    /\ now < MaxTime
    /\ now' = now + 1
    /\ UNCHANGED <<storeVars, memVars, fileVars, mode, outages>>
-----------------------------------------------------------------------------
(* The IPC thread: one connection, one command at a time. *)

IpcReady == mode = "running" /\ ipc.pc = "idle"

\* submit, up to and with write_binary_atomic of the input.  The identity is
\* fresh: neither a row nor a file carries it.  A failed write changes nothing.
SubmitWriteInput(w, req) ==
    /\ IpcReady
    /\ work[w].state = "ABSENT" /\ ~input[w]
    /\ input' = [input EXCEPT ![w] = TRUE]
    /\ ipc' = [pc |-> "insert", w |-> w, req |-> req, at |-> now]
    /\ UNCHANGED <<storeVars, used, result, mode, outages, now, sched, task>>

SubmitInsert ==
    /\ mode = "running" /\ ipc.pc = "insert"
    /\ InsertWork(ipc.w, ipc.req, ipc.at)
    /\ ipc' = IpcIdle
    /\ UNCHANGED <<used, fileVars, mode, outages, now, sched, task>>

\* The INSERT throws: the client gets an error and the input file stays.
SubmitInsertFails ==
    /\ StoreErrors
    /\ mode = "running" /\ ipc.pc = "insert"
    /\ ipc' = IpcIdle
    /\ UNCHANGED <<storeVars, used, fileVars, mode, outages, now, sched, task>>

Cancel(w) ==
    /\ IpcReady
    /\ CancelWork(w)
    /\ UNCHANGED <<memVars, fileVars, mode, outages, now>>

\* acknowledge: the row first, then the two files.
Acknowledge(w) ==
    /\ IpcReady
    /\ AcknowledgeWork(w)
    /\ ipc' = [IpcIdle EXCEPT !.pc = "remove_input", !.w = w]
    /\ UNCHANGED <<used, fileVars, mode, outages, now, sched, task>>

\* fs::remove(path, error): an error is ignored and leaves the file.
RemoveInput ==
    /\ mode = "running" /\ ipc.pc = "remove_input"
    /\ input' \in {input, [input EXCEPT ![ipc.w] = FALSE]}
    /\ ipc' = [ipc EXCEPT !.pc = "remove_result"]
    /\ UNCHANGED <<storeVars, used, result, mode, outages, now, sched, task>>

RemoveResult ==
    /\ mode = "running" /\ ipc.pc = "remove_result"
    /\ result' \in {result, [result EXCEPT ![ipc.w] = 0]}
    /\ ipc' = IpcIdle
    /\ UNCHANGED <<storeVars, used, input, mode, outages, now, sched, task>>

\* The reply of the result handler: whether it carries the payload, and the
\* attempt the payload comes from.
ResultAvailable(w) ==
    work[w].state = "SUCCEEDED" /\ ~work[w].acknowledged /\ result[w] # 0

IpcStep == SubmitInsert \/ SubmitInsertFails \/ RemoveInput \/ RemoveResult
-----------------------------------------------------------------------------
(* The scheduler thread: scheduler_loop. *)

Selection(w) == SelectEngine(work[w].req, Inventory)
Need(w) == Inventory[Selection(w).engine].need

\* Why the scheduler refuses the Work it read, "" when it goes on to reserve.
Refusal(w, t) ==
    IF Reached(work[w].req.deadline, t) THEN "DEADLINE_EXPIRED"
    ELSE IF Selection(w).failure # "" THEN Selection(w).failure
    ELSE IF ~CanEverReserve(Need(w)) THEN "INSUFFICIENT_CAPACITY"
    ELSE ""

Scheduling(pc) == mode # "down" /\ sched.pc = pc

schedFrame == <<fileVars, mode, outages, now, ipc>>

SchedulerExit ==
    /\ Scheduling("loop") /\ mode = "stopping"
    /\ sched' = [SchedLoop EXCEPT !.pc = "exited"]
    /\ UNCHANGED <<storeVars, used, task, schedFrame>>

\* stop_ is not set: read the clock and expire the queued deadlines.
SchedulerSweep ==
    /\ Scheduling("loop") /\ mode = "running"
    /\ ExpireQueuedDeadlines(now)
    /\ sched' = [SchedLoop EXCEPT !.pc = "pick", !.now = now]
    /\ UNCHANGED <<used, task, schedFrame>>

\* next_eligible: with nothing to do the thread sleeps and loops.
SchedulerPick ==
    /\ Scheduling("pick")
    /\ IF NextEligible(sched.now) = {}
       THEN sched' = SchedLoop
       ELSE \E w \in NextEligible(sched.now) :
                sched' = [sched EXCEPT !.pc = "decide", !.w = w]
    /\ UNCHANGED <<storeVars, used, task, schedFrame>>

SchedulerRefuse ==
    /\ Scheduling("decide")
    /\ Refusal(sched.w, sched.now) # ""
    /\ FailQueued(sched.w, Refusal(sched.w, sched.now))
    /\ sched' = SchedLoop
    /\ UNCHANGED <<used, task, schedFrame>>

\* try_reserve fails: wait and loop; the Work stays at the head of the queue.
SchedulerBlocked ==
    /\ Scheduling("decide")
    /\ Refusal(sched.w, sched.now) = "" /\ ~Fits(Need(sched.w))
    /\ sched' = SchedLoop
    /\ UNCHANGED <<storeVars, used, task, schedFrame>>

SchedulerReserve ==
    /\ Scheduling("decide")
    /\ Refusal(sched.w, sched.now) = ""
    /\ Reserve(Need(sched.w))
    /\ sched' = [sched EXCEPT !.pc = "begin"]
    /\ UNCHANGED <<storeVars, task, schedFrame>>

\* The clock is read again: the deadline passed while the scheduler decided.
SchedulerTooLate ==
    /\ Scheduling("begin")
    /\ Reached(work[sched.w].req.deadline, now)
    /\ FailQueued(sched.w, "DEADLINE_EXPIRED")
    /\ Release(Need(sched.w))
    /\ sched' = SchedLoop
    /\ UNCHANGED <<task, schedFrame>>

\* Mutant of SchedulerBegin: the deadline is not checked against the new time.
SchedulerBeginNoRecheck ==
    /\ Scheduling("begin")
    /\ BeginAttempt(sched.w, Selection(sched.w).engine, now)
    /\ sched' = [sched EXCEPT !.pc = "launch", !.n = work[sched.w].attempt_count + 1]
    /\ UNCHANGED <<used, task, schedFrame>>

SchedulerBegin ==
    /\ Scheduling("begin")
    /\ ~Reached(work[sched.w].req.deadline, now)
    /\ BeginAttempt(sched.w, Selection(sched.w).engine, now)
    /\ sched' = [sched EXCEPT !.pc = "launch", !.n = work[sched.w].attempt_count + 1]
    /\ UNCHANGED <<used, task, schedFrame>>

\* Mutant of SchedulerLostRace: the reservation leaks.
SchedulerLostRaceLeaks ==
    /\ Scheduling("begin")
    /\ ~Reached(work[sched.w].req.deadline, now)
    /\ ~CanBegin(sched.w)
    /\ sched' = SchedLoop
    /\ UNCHANGED <<storeVars, used, task, schedFrame>>

\* begin_attempt returned 0: the Work was cancelled meanwhile.
SchedulerLostRace ==
    /\ Scheduling("begin")
    /\ ~Reached(work[sched.w].req.deadline, now)
    /\ ~CanBegin(sched.w)
    /\ Release(Need(sched.w))
    /\ sched' = SchedLoop
    /\ UNCHANGED <<storeVars, task, schedFrame>>

\* acquire and std::async: the task takes both leases.
SchedulerLaunch ==
    /\ Scheduling("launch")
    /\ task' = [task EXCEPT ![sched.w][sched.n] = "start"]
    /\ sched' = SchedLoop
    /\ UNCHANGED <<storeVars, used, schedFrame>>

\* acquire throws: the worker process could not be launched.
SchedulerLaunchFails ==
    /\ Scheduling("launch")
    /\ FinishRetryableFailure(sched.w, sched.n, "FAILED", now)
    /\ Release(Need(sched.w))
    /\ sched' = SchedLoop
    /\ UNCHANGED <<task, schedFrame>>

SchedulerStep ==
    \/ SchedulerExit \/ SchedulerSweep \/ SchedulerPick \/ SchedulerRefuse
    \/ SchedulerBlocked \/ SchedulerReserve \/ SchedulerTooLate \/ SchedulerBegin
    \/ SchedulerLostRace \/ SchedulerLaunch \/ SchedulerLaunchFails
-----------------------------------------------------------------------------
(* The attempt tasks: execute_worker for attempt n of Work w. *)

Goto(w, n, pc) == task' = [task EXCEPT ![w][n] = pc]

TaskAt(w, n, pc) == mode # "down" /\ task[w][n] = pc

taskFrame == <<mode, outages, now, ipc, sched>>

\* Mutant of StopAt: the timeout is counted from when the Work became eligible.
StopAtFromEligible(w, n) ==
    LET req == work[w].req
        timeout_at == AddMs(work[w].eligible_at, req.timeout)
    IN  IF req.timeout = NoTime THEN req.deadline
        ELSE IF req.deadline # NoTime /\ req.deadline < timeout_at THEN req.deadline
        ELSE timeout_at

\* stop_at: the attempt's timeout or the Work's deadline, whichever is earlier;
\* NoTime when the Work has neither.
StopAt(w, n) ==
    LET req == work[w].req
        timeout_at == AddMs(attempts[w][n].started_at, req.timeout)
    IN  IF req.timeout = NoTime THEN req.deadline
        ELSE IF req.deadline # NoTime /\ req.deadline < timeout_at THEN req.deadline
        ELSE timeout_at

\* Mutant of StopTimeReached: only the per-attempt timeout is enforced.
StopTimeReachedTimeoutOnly(w, n) ==
    /\ work[w].req.timeout # NoTime
    /\ StopAt(w, n) <= now

\* The stop_at the worker loop was given has passed.  The value may be any
\* integer (the addition can wrap), so it is not an optional time any more.
StopTimeReached(w, n) ==
    /\ work[w].req.timeout # NoTime \/ work[w].req.deadline # NoTime
    /\ StopAt(w, n) <= now

\* Early return: stop_ was set before the task ran.
TaskSeesStop(w, n) ==
    /\ TaskAt(w, n, "start") /\ mode = "stopping"
    /\ Goto(w, n, "release")
    /\ UNCHANGED <<storeVars, used, fileVars, taskFrame>>

\* read_binary_bounded(input_path), then the request goes to the worker.
TaskReadInput(w, n) ==
    /\ TaskAt(w, n, "start") /\ mode = "running"
    /\ input[w]
    /\ Goto(w, n, "exec")
    /\ UNCHANGED <<storeVars, used, fileVars, taskFrame>>

\* The file is missing, too large or unreadable.
TaskReadInputFails(w, n) ==
    /\ TaskAt(w, n, "start") /\ mode = "running"
    /\ Goto(w, n, "error")
    /\ UNCHANGED <<storeVars, used, fileVars, taskFrame>>

\* Mutant of WorkerStopped: the loop polls it only once the attempt's time is up.
WorkerStoppedLate(w, n) ==
    /\ TaskAt(w, n, "exec") /\ mode = "stopping" /\ StopTimeReached(w, n)
    /\ Goto(w, n, "release")
    /\ UNCHANGED <<storeVars, used, fileVars, taskFrame>>

\* What the loop of WorkerProcess::execute polls: kernel_stopping,
\* cancellation_requested, stop_at_ms.  The step ends with the return of
\* terminate(), which may block (module WorkerPool): no fairness is assumed of it.
WorkerStopped(w, n) ==
    /\ TaskAt(w, n, "exec") /\ mode = "stopping"
    /\ Goto(w, n, "release")
    /\ UNCHANGED <<storeVars, used, fileVars, taskFrame>>

WorkerCancelled(w, n) ==
    /\ TaskAt(w, n, "exec") /\ work[w].cancel_requested
    /\ Goto(w, n, "cancelled")
    /\ UNCHANGED <<storeVars, used, fileVars, taskFrame>>

WorkerTimedOut(w, n) ==
    /\ TaskAt(w, n, "exec") /\ StopTimeReached(w, n)
    /\ Goto(w, n, "timed_out")
    /\ UNCHANGED <<storeVars, used, fileVars, taskFrame>>

\* What the worker process does: a result, or a technical failure, a crash or a
\* protocol failure.  It may also hang, and do neither.
WorkerReplies(w, n) ==
    /\ TaskAt(w, n, "exec")
    /\ \E outcome \in {"succeeded", "failed"} : Goto(w, n, outcome)
    /\ UNCHANGED <<storeVars, used, fileVars, taskFrame>>

\* Mutant of TaskRecheckCancel: the success is committed before the file is written.
TaskRecheckCancelCommitsFirst(w, n) ==
    /\ TaskAt(w, n, "succeeded")
    /\ Goto(w, n, IF work[w].cancel_requested THEN "cancelled" ELSE "commit")
    /\ UNCHANGED <<storeVars, used, fileVars, taskFrame>>

\* The second cancellation_requested check, after a successful outcome.
TaskRecheckCancel(w, n) ==
    /\ TaskAt(w, n, "succeeded")
    /\ Goto(w, n, IF work[w].cancel_requested THEN "cancelled" ELSE "write")
    /\ UNCHANGED <<storeVars, used, fileVars, taskFrame>>

\* write_binary_atomic: a temporary file renamed over result.bin.
TaskWriteResult(w, n) ==
    /\ TaskAt(w, n, "write")
    /\ result' = [result EXCEPT ![w] = n]
    /\ Goto(w, n, "commit")
    /\ UNCHANGED <<storeVars, used, input, taskFrame>>

TaskWriteResultFails(w, n) ==
    /\ TaskAt(w, n, "write")
    /\ Goto(w, n, "error")
    /\ UNCHANGED <<storeVars, used, fileVars, taskFrame>>

TaskFinishSuccess(w, n) ==
    /\ TaskAt(w, n, "commit")
    /\ FinishSuccess(w, n, now)
    /\ Goto(w, n, "release")
    /\ UNCHANGED <<used, fileVars, taskFrame>>

TaskFinishCancelled(w, n) ==
    /\ TaskAt(w, n, "cancelled")
    /\ FinishCancelled(w, n, now)
    /\ Goto(w, n, "release")
    /\ UNCHANGED <<used, fileVars, taskFrame>>

TaskFinishTimedOut(w, n) ==
    /\ TaskAt(w, n, "timed_out")
    /\ FinishRetryableFailure(w, n, "TIMED_OUT", now)
    /\ Goto(w, n, "release")
    /\ UNCHANGED <<used, fileVars, taskFrame>>

TaskFinishFailed(w, n) ==
    /\ TaskAt(w, n, "failed")
    /\ FinishRetryableFailure(w, n, "FAILED", now)
    /\ Goto(w, n, "release")
    /\ UNCHANGED <<used, fileVars, taskFrame>>

\* Mutant of TaskHandleError: the exception is swallowed.
TaskHandleErrorSwallowed(w, n) ==
    /\ TaskAt(w, n, "error")
    /\ Goto(w, n, "release")
    /\ UNCHANGED <<storeVars, used, fileVars, taskFrame>>

\* catch (std::exception): nothing is recorded while the Kernel stops.
TaskHandleError(w, n) ==
    /\ TaskAt(w, n, "error")
    /\ IF mode = "stopping"
       THEN UNCHANGED storeVars
       ELSE FinishRetryableFailure(w, n, "FAILED", now)
    /\ Goto(w, n, "release")
    /\ UNCHANGED <<used, fileVars, taskFrame>>

\* A store call of the task throws: the transaction is rolled back and the
\* catch clause runs; when the store call of the catch clause throws too, the
\* exception ends in a future nobody reads.
TaskStoreError(w, n) ==
    /\ StoreErrors /\ mode # "down"
    /\ task[w][n] \in OwningPcs \ {"start", "write", "error"}
    /\ Goto(w, n, "error")
    /\ UNCHANGED <<storeVars, used, fileVars, taskFrame>>

TaskAbandon(w, n) ==
    /\ StoreErrors
    /\ TaskAt(w, n, "error") /\ mode = "running"
    /\ Goto(w, n, "release")
    /\ UNCHANGED <<storeVars, used, fileVars, taskFrame>>

\* The parameters of execute_worker are destroyed: the leases are given back.
TaskRelease(w, n) ==
    /\ TaskAt(w, n, "release")
    /\ Release(Inventory[attempts[w][n].engine].need)
    /\ Goto(w, n, "none")
    /\ UNCHANGED <<storeVars, fileVars, taskFrame>>

TaskStep(w, n) ==
    \/ TaskSeesStop(w, n) \/ TaskReadInput(w, n) \/ TaskReadInputFails(w, n)
    \/ WorkerStopped(w, n) \/ WorkerCancelled(w, n) \/ WorkerTimedOut(w, n)
    \/ TaskRecheckCancel(w, n) \/ TaskWriteResult(w, n) \/ TaskWriteResultFails(w, n)
    \/ TaskFinishSuccess(w, n) \/ TaskFinishCancelled(w, n)
    \/ TaskFinishTimedOut(w, n) \/ TaskFinishFailed(w, n) \/ TaskHandleError(w, n)
    \/ TaskStoreError(w, n) \/ TaskAbandon(w, n) \/ TaskRelease(w, n)

\* execute ends with terminate(); the other steps do not wait for a worker.
WorkerGivenUp(w, n) == WorkerStopped(w, n) \/ WorkerCancelled(w, n) \/ WorkerTimedOut(w, n)
OutsideExecute(w, n) == ~TaskAt(w, n, "exec") /\ TaskStep(w, n)
-----------------------------------------------------------------------------
ClientStep(w) ==
    \/ \E req \in Requests : SubmitWriteInput(w, req)
    \/ Cancel(w)
    \/ Acknowledge(w)

ProcessStep == Start \/ RequestStop \/ Shutdown \/ Crash \/ Tick

Next ==
    \/ ProcessStep
    \/ IpcStep
    \/ SchedulerStep
    \/ \E w \in WorkIds : ClientStep(w)
    \/ \E w \in WorkIds, n \in AttemptNumbers : TaskStep(w, n) \/ WorkerReplies(w, n)

Spec == Init /\ [][Next]_vars

\* The scheduler and the tasks run, time passes and the Kernel is started again
\* after an outage.  Nothing is assumed of clients and the thread that serves
\* them, and a worker may hang for ever, before and after it is told to end.
Fairness ==
    /\ WF_vars(SchedulerStep)
    /\ \A w \in WorkIds, n \in AttemptNumbers : WF_vars(OutsideExecute(w, n))
    /\ WF_vars(Tick)
    /\ WF_vars(Start)
    /\ WF_vars(Shutdown)

FairSpec == Spec /\ Fairness
=============================================================================
