----------------------------- MODULE WorkerPool -----------------------------
(***************************************************************************)
(* The WorkerPool of kernel/src/worker_runtime.cpp and the exchange of a   *)
(* task with its worker process, over the reservations of ResourceManager. *)
(*                                                                         *)
(* acquire and reap_idle (scheduler thread), is_warm (IPC thread), release *)
(* (tasks) and shutdown hold the pool's mutex, so each is one step.  The   *)
(* exchange, WorkerProcess::execute, runs without the mutex: alive() and   *)
(* terminate() of a busy worker race with the alive() of reap_idle and     *)
(* is_warm, so terminate() is two steps here, its kill and its wait.       *)
(*                                                                         *)
(* A WorkerProcess lives in a slot.  The vector workers_ is the set pool   *)
(* and its order a nondeterministic choice.  POSIX build.                  *)
(***************************************************************************)
EXTENDS ResourceManager, Sequences, FiniteSets

CONSTANTS
    Tasks,           \* attempts that may run at the same time
    Slots,           \* bound on WorkerProcess objects at one time
    NoSlot,
    Engines,
    EngineNeed,      \* EngineNeed[e]: what a task of engine e reserves
    IdleTimeout,     \* worker_idle_ms in clock ticks
    MaxCorrelation,  \* bound on requests
    Repeats          \* whether a worker may answer a request twice

ASSUME PoolAssumption ==
    /\ NoSlot \notin Slots /\ IsFiniteSet(Tasks)
    /\ IdleTimeout \in Nat /\ MaxCorrelation \in Nat
    /\ Repeats \in BOOLEAN
    /\ EngineNeed \in [Engines -> Requirements]

VARIABLES
    worker,       \* worker[s]: the WorkerProcess in slot s and its child process
    pool,         \* workers_
    task,         \* the tasks of the Kernel
    correlation,  \* next_worker_correlation_
    mode          \* "running"; "stopping": stop_ is set; "joined": the scheduler
                  \* has returned; "down": the destructor has returned

vars == <<used, worker, pool, task, correlation, mode>>

(***************************************************************************)
(* child: the operating system's view of the process.  open: pid >= 0, and *)
(* with it both descriptors: the code always drops the three together.     *)
(* age: now - last_used_ms, up to IdleTimeout.  inbox: the requests the    *)
(* worker has still to answer, by correlation; torn: the last of them was  *)
(* not written to its end.  outbox: the worker's answers.  soiled: an      *)
(* exception has left something in the worker; no action reads it.         *)
(***************************************************************************)
NoWorker == [engine |-> "", child |-> "none", open |-> FALSE, busy |-> FALSE,
             age |-> 0, inbox |-> <<>>, torn |-> FALSE, outbox |-> <<>>, soiled |-> FALSE]

\* holds: the leases execute_worker was given; answer: the request whose
\* answer became the result, 0 = none.
NoTask == [pc |-> "none", slot |-> NoSlot, engine |-> "", holds |-> {},
           correlation |-> 0, answer |-> 0]

TaskPcs == {"none", "start", "reply", "kill", "wait", "release"}

WorkerRows ==
    [engine : Engines \cup {""}, child : {"none", "running", "zombie", "reaped"},
     open : BOOLEAN, busy : BOOLEAN, age : 0 .. IdleTimeout,
     inbox : Seq(0 .. MaxCorrelation), torn : BOOLEAN,
     outbox : Seq(0 .. MaxCorrelation), soiled : BOOLEAN]

TaskRows ==
    [pc : TaskPcs, slot : Slots \cup {NoSlot}, engine : Engines \cup {""},
     holds : SUBSET {"worker", "reservation"}, correlation : 0 .. MaxCorrelation, answer : 0 .. MaxCorrelation]

\* Every variable has its type.
PoolTypeOK ==
    /\ used \in [ResourceKinds -> Int]
    /\ worker \in [Slots -> WorkerRows]
    /\ pool \subseteq Slots
    /\ task \in [Tasks -> TaskRows]
    /\ correlation \in 1 .. MaxCorrelation + 1
    /\ mode \in {"running", "stopping", "joined", "down"}

Init ==
    /\ used = NothingUsed
    /\ worker = [s \in Slots |-> NoWorker]
    /\ pool = {}
    /\ task = [t \in Tasks |-> NoTask]
    /\ correlation = 1
    /\ mode = "running"
-----------------------------------------------------------------------------
\* What alive() answers: waitpid finds the child running.  A child that is gone,
\* or whose status another waitpid took (ECHILD), is dead.
Alive(s) == worker[s].open /\ worker[s].child = "running"

\* alive() of a dead worker, and the end of terminate(): the child is waited
\* for, pid and the descriptors are dropped, and what is in the pipes is gone.
Closed(w) == [w EXCEPT !.child = "reaped", !.open = FALSE,
                       !.inbox = <<>>, !.torn = FALSE, !.outbox = <<>>, !.soiled = FALSE]

\* The process has ended; what it has answered is still in the pipe.
Ended(w) == [w EXCEPT !.child = "zombie", !.inbox = <<>>, !.torn = FALSE]

\* A worker erased from the pool is destroyed, and its process terminated,
\* unless a task still holds it.
Erased(w) == IF w.busy THEN Closed(w) ELSE NoWorker

Erase(S) == worker' = [s \in Slots |-> IF s \in S THEN Erased(worker[s]) ELSE worker[s]]

Dead == {s \in pool : ~Alive(s)}

\* Mutant of Idle: the busy flag is not looked at.
IdleOrBusy == pool

Idle == {s \in pool : ~worker[s].busy}

IdleOf(e) == {s \in Idle \ Dead : worker[s].engine = e}

\* The dead ones a loop over the pool erases: those before the worker it stops
\* at, all of them if it stops at none.
Passed(dead, found) == IF found THEN SUBSET dead ELSE {dead}

\* The bound on requests counts the tasks that have not sent theirs.
MayLaunch ==
    correlation + Cardinality({t \in Tasks : task[t].pc = "start"}) <= MaxCorrelation

\* The scheduler is in its loop, or in its last iteration.
SchedulerRuns == mode \in {"running", "stopping"}
AfterIteration == IF mode = "stopping" THEN "joined" ELSE mode

Launched(t, s, e) ==
    task' = [task EXCEPT ![t] = [NoTask EXCEPT !.pc = "start", !.slot = s, !.engine = e,
                                               !.holds = {"worker", "reservation"}]]

\* try_reserve and acquire, when an idle worker of the engine is warm.
AcquireWarm(t, e) ==
    /\ SchedulerRuns /\ MayLaunch /\ task[t].pc = "none"
    /\ Reserve(EngineNeed[e])
    /\ \E s \in IdleOf(e), gone \in Passed(Dead \cap Idle, TRUE) :
        /\ worker' = [r \in Slots |-> IF r \in gone THEN NoWorker
                                      ELSE IF r = s THEN [worker[r] EXCEPT !.busy = TRUE]
                                      ELSE worker[r]]
        /\ pool' = pool \ gone
        /\ Launched(t, s, e)
    /\ mode' = AfterIteration
    /\ UNCHANGED correlation

\* The slots of destroyed WorkerProcess objects.
Free == {s \in Slots : worker[s].child = "none"}

Spawned(e) == [NoWorker EXCEPT !.engine = e, !.child = "running", !.open = TRUE, !.busy = TRUE]

AcquireNew(t, e) ==
    /\ SchedulerRuns /\ MayLaunch /\ task[t].pc = "none"
    /\ Reserve(EngineNeed[e])
    /\ IdleOf(e) = {}
    /\ \E s \in Free, gone \in Passed(Dead \cap Idle, FALSE) :
        /\ worker' = [r \in Slots |-> IF r \in gone THEN NoWorker
                                      ELSE IF r = s THEN Spawned(e)
                                      ELSE worker[r]]
        /\ pool' = (pool \ gone) \cup {s}
        /\ Launched(t, s, e)
    /\ mode' = AfterIteration
    /\ UNCHANGED correlation

\* The spawn throws: the reservation is given back.
AcquireFails(e) ==
    /\ SchedulerRuns /\ IdleOf(e) = {} /\ Fits(EngineNeed[e])
    /\ Erase(Dead \cap Idle)
    /\ pool' = pool \ (Dead \cap Idle)
    /\ mode' = AfterIteration
    /\ UNCHANGED <<used, task, correlation>>

IsWarm(e) ==
    /\ mode = "running"
    /\ \E gone \in Passed(Dead, \E s \in pool \ Dead : worker[s].engine = e) :
        /\ Erase(gone)
        /\ pool' = pool \ gone
    /\ UNCHANGED <<used, task, correlation, mode>>

\* Mutant of Overdue: strictly longer than the timeout.
OverdueStrictly == {s \in Idle \ Dead : worker[s].age > IdleTimeout}

Overdue == {s \in Idle \ Dead : worker[s].age >= IdleTimeout}

\* Mutant of ReapIdle: only live workers are looked at.
ReapIdleSkipsDead ==
    /\ SchedulerRuns
    /\ Erase(Overdue)
    /\ pool' = pool \ Overdue
    /\ UNCHANGED <<used, task, correlation, mode>>

ReapIdle ==
    /\ SchedulerRuns
    /\ Erase(Dead \cup Overdue)
    /\ pool' = pool \ (Dead \cup Overdue)
    /\ UNCHANGED <<used, task, correlation, mode>>
-----------------------------------------------------------------------------
(* The task: WorkerProcess::execute, then the end of execute_worker. *)

At(t, pc) == mode # "down" /\ task[t].pc = pc

Its(t) == worker[task[t].slot]
SetIts(t, w) == worker' = [worker EXCEPT ![task[t].slot] = w]
Goto(t, pc) == task' = [task EXCEPT ![t].pc = pc]

TaskSeesStop(t) ==
    /\ At(t, "start") /\ mode # "running"
    /\ Goto(t, "release")
    /\ UNCHANGED <<used, worker, pool, correlation, mode>>

\* The input cannot be read: the worker is given back unused.
TaskInputFails(t) ==
    /\ At(t, "start") /\ mode = "running"
    /\ Goto(t, "release")
    /\ UNCHANGED <<used, worker, pool, correlation, mode>>

\* The worker died since acquire: WORKER_CRASH.
TaskFindsDead(t) ==
    /\ At(t, "start") /\ mode = "running"
    /\ ~Alive(task[t].slot)
    /\ SetIts(t, Closed(Its(t)))
    /\ Goto(t, "release")
    /\ correlation' = correlation + 1
    /\ UNCHANGED <<used, pool, mode>>

\* What a worker may have before it once a request, or part of one, is written.
\* Behind a torn request it is read as the rest of that one; what is more than
\* the rest is no frame.
Written(w, ids, part) ==
    IF w.torn THEN {[w EXCEPT !.torn = b] : b \in BOOLEAN}
    ELSE {[w EXCEPT !.inbox = Append(@, id), !.torn = part] : id \in ids}

TaskSends(t) ==
    /\ At(t, "start") /\ mode = "running"
    /\ Alive(task[t].slot)
    /\ \E w \in Written(Its(t), {correlation}, FALSE) : SetIts(t, w)
    /\ task' = [task EXCEPT ![t].pc = "reply", ![t].correlation = correlation]
    /\ correlation' = correlation + 1
    /\ UNCHANGED <<used, pool, mode>>

\* cancellation_requested throws on an error of the store, and the exception leaves
\* execute without terminate().  In the write loop: nothing, or a part of the
\* request is written.  A request cut in its header may be read under the id of
\* no request, 0 here.
TaskThrowsWriting(t) ==
    /\ At(t, "start") /\ mode = "running"
    /\ Alive(task[t].slot)
    /\ \/ UNCHANGED worker
       \/ \E w \in Written(Its(t), {correlation, 0}, TRUE) :
            SetIts(t, [w EXCEPT !.soiled = TRUE])
    /\ Goto(t, "release")
    /\ correlation' = correlation + 1
    /\ UNCHANGED <<used, pool, mode>>

\* The same after a read without an answer.
TaskThrows(t) ==
    /\ At(t, "reply") /\ mode = "running"
    /\ SetIts(t, [Its(t) EXCEPT !.soiled = TRUE])
    /\ Goto(t, "release")
    /\ UNCHANGED <<used, pool, correlation, mode>>

\* Mutant of AfterReply: the correlation of an answer is not looked at.
AfterReplyUnchecked(t, c) == [task[t] EXCEPT !.pc = "release", !.answer = c]

\* finish_response: a foreign answer is a protocol failure and ends the worker.
AfterReply(t, c) ==
    IF c = task[t].correlation
    THEN [task[t] EXCEPT !.pc = "release", !.answer = c]
    ELSE [task[t] EXCEPT !.pc = "kill"]

TaskReads(t) ==
    /\ At(t, "reply")
    /\ Alive(task[t].slot) /\ Its(t).outbox # <<>>
    /\ SetIts(t, [Its(t) EXCEPT !.outbox = Tail(@)])
    /\ task' = [task EXCEPT ![t] = AfterReply(t, Head(Its(t).outbox))]
    /\ UNCHANGED <<used, pool, correlation, mode>>

\* End of file, a failed write or read, or alive() is false: WORKER_CRASH.  End
\* of file hides an answer that is still in the pipe (read_available throws).
TaskSeesExit(t) ==
    /\ At(t, "reply")
    /\ ~Alive(task[t].slot)
    /\ SetIts(t, Closed(Its(t)))
    /\ Goto(t, "release")
    /\ UNCHANGED <<used, pool, correlation, mode>>

\* Mutant of TaskGivesUp: the worker is kept for the next attempt.
TaskGivesUpKeepsWorker(t) ==
    /\ At(t, "reply")
    /\ Goto(t, "release")
    /\ UNCHANGED <<used, worker, pool, correlation, mode>>

\* Cancellation or stop time, at any moment: terminate().
TaskGivesUp(t) ==
    /\ At(t, "reply")
    /\ Goto(t, "kill")
    /\ UNCHANGED <<used, worker, pool, correlation, mode>>

TaskStops(t) ==
    /\ At(t, "reply") /\ mode # "running"
    /\ Goto(t, "kill")
    /\ UNCHANGED <<used, worker, pool, correlation, mode>>

\* terminate(): if (pid >= 0) kill(pid, SIGKILL)
TaskKills(t) ==
    /\ At(t, "kill")
    /\ IF Its(t).open
       THEN /\ SetIts(t, IF Its(t).child = "running" THEN Ended(Its(t)) ELSE Its(t))
            /\ Goto(t, "wait")
       ELSE /\ Goto(t, "release")
            /\ UNCHANGED worker
    /\ UNCHANGED <<used, pool, correlation, mode>>

\* terminate(): waitpid(pid, &status, 0), which reads pid again after the kill.
TaskWaits(t) ==
    /\ At(t, "wait") /\ Its(t).open
    /\ SetIts(t, Closed(Its(t)))
    /\ Goto(t, "release")
    /\ UNCHANGED <<used, pool, correlation, mode>>

\* The alive() of another thread has set pid to -1 since the kill: waitpid(-1)
\* takes the status of any child, and blocks until there is one.
Children == {s \in Slots : worker[s].child \in {"running", "zombie"}}

TaskWaitsForAny(t) ==
    /\ At(t, "wait") /\ ~Its(t).open
    /\ \/ Children = {} /\ UNCHANGED worker
       \/ \E s \in Children : /\ worker[s].child = "zombie"
                              /\ worker' = [worker EXCEPT ![s].child = "reaped"]
    /\ Goto(t, "release")
    /\ UNCHANGED <<used, pool, correlation, mode>>

\* Once both leases are given back the task is over.
GiveBack(t, lease) ==
    /\ At(t, "release") /\ lease \in task[t].holds
    /\ task' = [task EXCEPT ![t] =
         IF task[t].holds = {lease} THEN NoTask
         ELSE [task[t] EXCEPT !.holds = @ \ {lease}]]

\* The worker after release: idle, or destroyed if it is dead or was erased.
Returned(t) ==
    IF Alive(task[t].slot) THEN [Its(t) EXCEPT !.busy = FALSE, !.age = 0] ELSE NoWorker

ReleaseWorker(t) ==
    /\ GiveBack(t, "worker")
    /\ SetIts(t, Returned(t))
    /\ pool' = IF Alive(task[t].slot) THEN pool ELSE pool \ {task[t].slot}
    /\ UNCHANGED <<used, correlation, mode>>

ReleaseReservation(t) ==
    /\ GiveBack(t, "reservation")
    /\ Release(EngineNeed[task[t].engine])
    /\ UNCHANGED <<worker, pool, correlation, mode>>

TaskStep(t) ==
    \/ TaskSeesStop(t) \/ TaskInputFails(t) \/ TaskFindsDead(t) \/ TaskSends(t)
    \/ TaskReads(t)
    \/ TaskSeesExit(t) \/ TaskStops(t) \/ TaskKills(t) \/ TaskWaits(t)
    \/ TaskWaitsForAny(t) \/ ReleaseWorker(t) \/ ReleaseReservation(t)
-----------------------------------------------------------------------------
(* The worker processes, which may also hang, and the clock. *)

WorkerAnswers(s) ==
    LET c == Head(worker[s].inbox)
    IN  /\ worker[s].child = "running" /\ worker[s].inbox # <<>>
        /\ worker[s].torn => Len(worker[s].inbox) > 1
        /\ \E answers \in {<<c>>} \cup IF Repeats THEN {<<c, c>>} ELSE {} :
             worker' = [worker EXCEPT ![s].inbox = Tail(@), ![s].outbox = @ \o answers]
        /\ UNCHANGED <<used, pool, task, correlation, mode>>

WorkerExits(s) ==
    /\ worker[s].child = "running"
    /\ worker' = [worker EXCEPT ![s] = Ended(@)]
    /\ UNCHANGED <<used, pool, task, correlation, mode>>

Tick ==
    /\ mode # "down"
    /\ worker' = [s \in Slots |->
         IF s \in Idle /\ worker[s].age < IdleTimeout
         THEN [worker[s] EXCEPT !.age = @ + 1] ELSE worker[s]]
    /\ UNCHANGED <<used, pool, task, correlation, mode>>
-----------------------------------------------------------------------------
(* The destructor of the Kernel. *)

RequestStop ==
    /\ mode = "running"
    /\ mode' = "stopping"
    /\ UNCHANGED <<used, worker, pool, task, correlation>>

\* The scheduler returns without launching anything more.
Join ==
    /\ mode = "stopping"
    /\ mode' = "joined"
    /\ UNCHANGED <<used, worker, pool, task, correlation>>

\* Every task has ended: shutdown() terminates what is left in the pool.
Shutdown ==
    /\ mode = "joined" /\ \A t \in Tasks : task[t].pc = "none"
    /\ Erase(pool)
    /\ pool' = {}
    /\ mode' = "down"
    /\ UNCHANGED <<used, task, correlation>>

Next ==
    \/ \E t \in Tasks, e \in Engines : AcquireWarm(t, e) \/ AcquireNew(t, e)
    \/ \E e \in Engines : AcquireFails(e) \/ IsWarm(e)
    \/ ReapIdle
    \/ \E t \in Tasks : TaskStep(t) \/ TaskGivesUp(t) \/ TaskThrowsWriting(t) \/ TaskThrows(t)
    \/ \E s \in Slots : WorkerAnswers(s) \/ WorkerExits(s)
    \/ Tick \/ RequestStop \/ Join \/ Shutdown

Spec == Init /\ [][Next]_vars

\* The scheduler loops, tasks run, time passes and the destructor goes on.
\* Nothing is assumed of clients and workers.
Fairness ==
    /\ WF_vars(ReapIdle)
    /\ \A t \in Tasks : WF_vars(TaskStep(t))
    /\ WF_vars(Tick)
    /\ WF_vars(Join)
    /\ WF_vars(Shutdown)

FairSpec == Spec /\ Fairness
=============================================================================
