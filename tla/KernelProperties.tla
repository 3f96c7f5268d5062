-------------------------- MODULE KernelProperties --------------------------
(***************************************************************************)
(* What makes the Kernel correct: the properties of module Kernel that TLC *)
(* checks and, for those listed in KernelProofs, TLAPS proves.             *)
(***************************************************************************)
EXTENDS Kernel, FiniteSetsExt

Retryable == {"FAILED", "TIMED_OUT", "INTERRUPTED"}

(***************************************************************************)
(* The attempts table is the history of the work row: exactly the attempts *)
(* 1 .. attempt_count exist; an attempt that is not the last one ended in  *)
(* a retryable way; the last one is RUNNING or SUCCEEDED exactly when the  *)
(* Work is, and is CANCELLED only if the Work is.                          *)
(* (store.cpp: begin_attempt, finish_*, recover_interrupted)               *)
(***************************************************************************)
LedgerOf(w) ==
    LET count == work[w].attempt_count
        st(n) == attempts[w][n].state
    IN  /\ \A n \in AttemptNumbers :
            /\ st(n) = "ABSENT" <=> n > count
            /\ n < count => st(n) \in Retryable
        /\ count = 0 => work[w].state \notin {"RUNNING", "SUCCEEDED"}
        /\ count > 0 =>
            /\ work[w].state # "ABSENT"
            /\ work[w].state = "RUNNING" <=> st(count) = "RUNNING"
            /\ work[w].state = "SUCCEEDED" <=> st(count) = "SUCCEEDED"
            /\ st(count) = "CANCELLED" => work[w].state = "CANCELLED"

AttemptLedger == \A w \in WorkIds : LedgerOf(w)

(***************************************************************************)
(* No Work is attempted more often than its request allows, over any       *)
(* number of failures, timeouts and restarts, and a Work waiting for a     *)
(* retry still has an attempt left.                                        *)
(* (store.cpp: retry_permitted, used by both failure paths)                *)
(***************************************************************************)
BudgetRespected ==
    \A w \in WorkIds : work[w].state # "ABSENT" =>
        /\ work[w].attempt_count <= work[w].req.max_attempts
        /\ work[w].state = "QUEUED" => work[w].attempt_count < work[w].req.max_attempts

(***************************************************************************)
(* A task that has not committed yet runs the last attempt of a RUNNING    *)
(* Work, and so does the scheduler between begin_attempt and the launch:   *)
(* the WHERE state='RUNNING' of a commit can never hit another attempt.    *)
(* A task of an older attempt may still hold its leases, never more.       *)
(***************************************************************************)
Owns(w, n) ==
    \/ task[w][n] \in OwningPcs
    \/ sched.pc = "launch" /\ sched.w = w /\ sched.n = n

AttemptOwnership ==
    \A w \in WorkIds, n \in AttemptNumbers : Owns(w, n) =>
        /\ work[w].state = "RUNNING"
        /\ work[w].attempt_count = n
        /\ sched.pc = "launch" /\ sched.w = w => task[w][n] = "none"

(***************************************************************************)
(* While the Kernel runs, a RUNNING Work has a task or a launch working on *)
(* it: no interleaving of cancel, failure and stop leaves it RUNNING with  *)
(* nobody to finish it.  A store that refuses the last commit of a task    *)
(* does; see StoreErrors.                                                  *)
(***************************************************************************)
RunningHasOwner ==
    mode = "running" /\ ~StoreErrors =>
        \A w \in WorkIds : work[w].state = "RUNNING" => Owns(w, work[w].attempt_count)

(***************************************************************************)
(* A SUCCEEDED Work keeps the payload of the attempt that succeeded until  *)
(* it is acknowledged, and a Work that may still run keeps its input:      *)
(* whatever a crash separated, no earlier or missing file is served.       *)
(* (main.cpp: submit, execute_worker, result, acknowledge)                 *)
(***************************************************************************)
ResultRetained ==
    \A w \in WorkIds : work[w].state = "SUCCEEDED" /\ ~work[w].acknowledged =>
        ResultAvailable(w) /\ result[w] = work[w].attempt_count

InputRetained ==
    \A w \in WorkIds : work[w].state \in {"QUEUED", "RUNNING"} => input[w]

(***************************************************************************)
(* A cancellation request is never lost: the Work is being cancelled, is   *)
(* CANCELLED, or its result won the race; it is never queued again nor     *)
(* reported FAILED.  (store.cpp: cancel, finish_retryable_failure,         *)
(* recover_interrupted)                                                    *)
(***************************************************************************)
CancellationKept ==
    \A w \in WorkIds : work[w].cancel_requested =>
        work[w].state \in {"RUNNING", "CANCELLED", "SUCCEEDED"}

(***************************************************************************)
(* No attempt starts before the Work is eligible or at or after its        *)
(* deadline, although the scheduler decides on a clock it read earlier.    *)
(* (main.cpp: the two deadline checks of scheduler_loop; store.cpp:        *)
(* next_eligible)                                                          *)
(***************************************************************************)
StartWindow ==
    \A w \in WorkIds, n \in AttemptNumbers : n <= work[w].attempt_count =>
        /\ work[w].eligible_at <= attempts[w][n].started_at
        /\ ~Reached(work[w].req.deadline, attempts[w][n].started_at)

(***************************************************************************)
(* A retry starts no earlier than retry_delay_ms after the end of the      *)
(* attempt before it.                                                      *)
(***************************************************************************)
BackoffRespected ==
    \A w \in WorkIds, n \in AttemptNumbers :
        n > 1 /\ n <= work[w].attempt_count =>
            attempts[w][n].started_at >=
                attempts[w][n - 1].ended_at + work[w].req.retry_delay

(***************************************************************************)
(* An attempt is recorded as TIMED_OUT only after its own timeout, counted *)
(* from its own start, or the Work's deadline: waiting, earlier attempts   *)
(* and outages use up none of it.  A timeout so large that started_at plus *)
(* timeout_ms does not fit 64 bits is excepted: the sum wraps and the      *)
(* attempt times out at once.  (main.cpp: stop_at of execute_worker)       *)
(***************************************************************************)
TimeoutRespected ==
    \A w \in WorkIds, n \in AttemptNumbers : attempts[w][n].state = "TIMED_OUT" =>
        LET started == attempts[w][n].started_at
            ended == attempts[w][n].ended_at
            req == work[w].req
        IN  \/ req.timeout # NoTime /\ started + req.timeout <= ended
            \/ Reached(req.deadline, ended)
            \/ req.timeout # NoTime /\ started + req.timeout > IntMax

(***************************************************************************)
(* The reservation counters equal what the holders of a lease need: the    *)
(* scheduler between try_reserve and the launch and every task until it    *)
(* ends, on every path of an attempt.  (worker_runtime.cpp: try_reserve,   *)
(* release; main.cpp: the continue statements of scheduler_loop)           *)
(***************************************************************************)
Holders ==
    {h \in WorkIds \X AttemptNumbers : task[h[1]][h[2]] # "none"}

HolderNeed(k) ==
    [h \in Holders |-> Inventory[attempts[h[1]][h[2]].engine].need[k]]

SchedNeed(k) == IF sched.pc \in {"begin", "launch"} THEN Need(sched.w)[k] ELSE 0

LeasesConserved ==
    \A k \in ResourceKinds :
        used[k] = SumFunctionOnSet(HolderNeed(k), Holders) + SchedNeed(k)

\* Concurrent attempts never reserve more than the configured capacity.
CapacityRespected == \A k \in ResourceKinds : used[k] <= Capacity[k]

(***************************************************************************)
(* A Work is refused for capacity only when no engine that satisfies its   *)
(* requirements fits the capacity of the Kernel.                           *)
(***************************************************************************)
RefusedOnlyWhenNothingFits ==
    \A w \in WorkIds : work[w].failure = "INSUFFICIENT_CAPACITY" =>
        \A i \in Candidates(work[w].req, Inventory) : ~CanEverReserve(Inventory[i].need)
-----------------------------------------------------------------------------
(***************************************************************************)
(* The strengthening that makes the invariants above inductive: what the   *)
(* rows and the locals of the threads say of each other.                   *)
(***************************************************************************)
RowsWellFormed ==
    \A w \in WorkIds :
        /\ work[w].state # "ABSENT" => work[w].req \in Requests
        /\ work[w].acknowledged => work[w].state = "SUCCEEDED"
        /\ \A n \in AttemptNumbers :
            n <= work[w].attempt_count => attempts[w][n].engine \in DOMAIN Inventory

IpcWellFormed ==
    /\ ipc.pc # "idle" => ipc.w \in WorkIds
    /\ ipc.pc = "insert" =>
        ipc.req \in Requests /\ work[ipc.w].state = "ABSENT" /\ input[ipc.w]
    /\ ipc.pc \in {"remove_input", "remove_result"} => work[ipc.w].acknowledged

SchedWellFormed ==
    /\ sched.pc \in {"decide", "begin", "launch"} =>
        sched.w \in WorkIds /\ work[sched.w].state # "ABSENT"
    /\ sched.pc \in {"begin", "launch"} => Selection(sched.w).failure = ""
    /\ sched.pc = "launch" => sched.n \in AttemptNumbers

TasksWellFormed ==
    \A w \in WorkIds, n \in AttemptNumbers :
        /\ task[w][n] # "none" => n <= work[w].attempt_count
        /\ task[w][n] = "cancelled" => work[w].cancel_requested
        /\ task[w][n] = "commit" => result[w] = n

KernelInv ==
    /\ TypeOK
    /\ RowsWellFormed /\ IpcWellFormed /\ SchedWellFormed /\ TasksWellFormed
    /\ AttemptLedger /\ BudgetRespected /\ AttemptOwnership
    /\ ResultRetained /\ InputRetained /\ CancellationKept /\ CapacityRespected

(***************************************************************************)
(* The strengthening of the time invariants.  The clock the scheduler read *)
(* is in the past; the Work it chose was due then, and is nobody else's to *)
(* begin; a task that reports a timeout has seen it.                       *)
(***************************************************************************)
ClocksWellFormed ==
    /\ sched.now <= now
    /\ sched.pc \in {"decide", "begin"} =>
        /\ work[sched.w].state # "RUNNING"
        /\ work[sched.w].eligible_at <= sched.now
        /\ work[sched.w].next_attempt_at <= sched.now
    /\ \A w \in WorkIds, n \in AttemptNumbers :
        task[w][n] = "timed_out" => StopTimeReached(w, n)

TimingInv == KernelInv /\ ClocksWellFormed /\ StartWindow /\ TimeoutRespected

\* The engine of an attempt is the one whose needs the scheduler reserved.
LaunchEngine ==
    sched.pc = "launch" => attempts[sched.w][sched.n].engine = Selection(sched.w).engine

\* A Work that waits for a retry waits at least the delay of its request.
RetriesWait ==
    \A w \in WorkIds : work[w].state = "QUEUED" /\ work[w].attempt_count > 0 =>
        attempts[w][work[w].attempt_count].ended_at + work[w].req.retry_delay
            <= work[w].next_attempt_at

\* No retry time a Kernel clock can produce overflows 64 bits.
DelaysFit == \A r \in Requests : MaxTime + r.retry_delay <= IntMax
-----------------------------------------------------------------------------
(***************************************************************************)
(* What no step may do: change the outcome of a terminal Work, or the      *)
(* record of an attempt that ended, restarts included.                     *)
(***************************************************************************)
HistoryStep ==
    \A w \in WorkIds :
        /\ Terminal(work[w]) => /\ work'[w].state = work[w].state
                                /\ work'[w].attempt_count = work[w].attempt_count
        /\ \A n \in AttemptNumbers :
            attempts[w][n].state \notin {"ABSENT", "RUNNING"} =>
                attempts'[w][n] = attempts[w][n]

HistoryStable == [][HistoryStep]_vars

(***************************************************************************)
(* No attempt begins once the cancellation of its Work is recorded, even   *)
(* if the scheduler chose the Work before: begin_attempt looks again.      *)
(***************************************************************************)
NoStartStep ==
    \A w \in WorkIds : work[w].cancel_requested =>
        work'[w].attempt_count = work[w].attempt_count

NoStartAfterCancel == [][NoStartStep]_vars

(***************************************************************************)
(* The Kernel implements the life cycle it promises its clients: what      *)
(* STATUS and RESULT show of a Work (main.cpp: status, result) follows     *)
(* module WorkLifecycle through every interleaving, stop and crash.        *)
(***************************************************************************)
ClientView ==
    [w \in WorkIds |->
        [state |-> work[w].state, attempts |-> work[w].attempt_count,
         budget |-> IF work[w].state = "ABSENT" THEN 0 ELSE work[w].req.max_attempts,
         cancel |-> work[w].cancel_requested, payload |-> ResultAvailable(w)]]

Lifecycle == INSTANCE WorkLifecycle WITH book <- ClientView

ImplementsLifecycle == Lifecycle!Spec
-----------------------------------------------------------------------------
\* The assumption of both properties below: a task that gives up its worker
\* returns from terminate().  The program does not guarantee it: PoolStops of
\* module MCWorkerPool is violated by a terminate() that waits for another child.
TerminateReturns ==
    \A w \in WorkIds, n \in AttemptNumbers : WF_vars(WorkerGivenUp(w, n))

(***************************************************************************)
(* If terminate() returns, a Work with a deadline, and a Work whose        *)
(* cancellation was requested, reaches a terminal state even if its worker *)
(* hangs, the resources it waits for are never released, or the Kernel     *)
(* crashes.  (main.cpp: scheduler_loop, execute_worker; store.cpp:         *)
(* recover_interrupted)                                                    *)
(***************************************************************************)
BoundedWorkEnds ==
    TerminateReturns => \A w \in WorkIds :
        (\/ work[w].state \in {"QUEUED", "RUNNING"} /\ work[w].req.deadline # NoTime
         \/ work[w].cancel_requested)
            ~> Terminal(work[w])

(***************************************************************************)
(* terminate() is the only thing a graceful stop waits for: if it returns, *)
(* the stop completes, whatever the workers do and whichever handler, task *)
(* or scheduler step was in progress.  (main.cpp: ~Kernel, execute_worker) *)
(***************************************************************************)
StopCompletes == TerminateReturns => (mode = "stopping" ~> mode = "down")
=============================================================================
