---------------------------- MODULE MCWorkerPool ----------------------------
(* Properties of the worker pool, and its instances for TLC. *)
EXTENDS WorkerPool, FiniteSetsExt, TLC

Holders(s) == {t \in Tasks : task[t].slot = s /\ "worker" \in task[t].holds}

(***************************************************************************)
(* Two tasks never share a worker, the worker of a task exists and is      *)
(* busy until the task gives it back, though reap_idle and is_warm may     *)
(* erase it from the pool meanwhile, and no worker stays busy for nobody.  *)
(* (worker_runtime.cpp: acquire, release, reap_idle, is_warm)              *)
(***************************************************************************)
LeasesExclusive ==
    /\ PoolTypeOK
    /\ \A s \in Slots :
        /\ Cardinality(Holders(s)) <= 1
        /\ Holders(s) # {} <=> worker[s].busy
        /\ worker[s].child = "running" => s \in pool

(***************************************************************************)
(* A result is the answer to the request of the attempt it is recorded     *)
(* for, although workers serve one attempt after the other and may answer  *)
(* twice.  (worker_runtime.cpp: finish_response)                           *)
(***************************************************************************)
OwnReply == \A t \in Tasks : task[t].answer \in {0, task[t].correlation}

\* The tasks that hold their reservation, and those that run their worker.
Reserved == {t \in Tasks : "reservation" \in task[t].holds}
Executing == {t \in Tasks : task[t].pc \notin {"none", "release"}}

TaskNeed(k) == [t \in Reserved |-> EngineNeed[task[t].engine][k]]

(***************************************************************************)
(* The attempts that run a worker fit the capacity together, whatever the  *)
(* order in which an attempt gives back its worker and its reservation.    *)
(***************************************************************************)
ExecutingFits ==
    \A k \in ResourceKinds : SumFunctionOnSet(TaskNeed(k), Executing) <= Capacity[k]

Quiet(s) == worker[s].inbox = <<>> /\ worker[s].outbox = <<>>

(***************************************************************************)
(* Warm workers are safe to reuse.  A worker that answers once has no      *)
(* request and no answer of an earlier attempt when it is idle, unless an  *)
(* exception of cancellation_requested left it there; and a worker that    *)
(* was ever left so gives no attempt its result.                           *)
(* (worker_runtime.cpp: terminate on every return of execute that gives    *)
(* up, none on the exception; finish_response)                             *)
(***************************************************************************)
IdleIsQuiet ==
    ~Repeats => \A s \in Slots :
        /\ s \in Idle => Quiet(s) \/ worker[s].soiled
        /\ worker[s].soiled => \A t \in Holders(s) : task[t].answer = 0

\* The strengthening the proofs need: the leases of a task follow its pc, a
\* worker has one holder, and requests are counted before they are sent.
TaskWellFormed(t) ==
    /\ task[t].pc = "none" => task[t].holds = {}
    /\ task[t].pc # "none" => task[t].slot \in Slots /\ task[t].engine \in Engines
    /\ task[t].pc \notin {"none", "release"} => task[t].holds = {"worker", "reservation"}
    /\ task[t].pc \in {"start", "reply"} => task[t].answer = 0

SlotWellFormed(s) ==
    /\ \A t, u \in Holders(s) : t = u
    /\ worker[s].busy <=> Holders(s) # {}
    /\ worker[s].child = "running" => s \in pool /\ worker[s].open
    /\ s \in pool \/ worker[s].busy => worker[s].child # "none"

PoolInv ==
    /\ PoolTypeOK
    /\ \A t \in Tasks : TaskWellFormed(t)
    /\ \A s \in Slots : SlotWellFormed(s)
    /\ correlation + Cardinality({t \in Tasks : task[t].pc = "start"}) <= MaxCorrelation + 1

ReservationsConserved ==
    \A k \in ResourceKinds :
        used[k] = SumFunctionOnSet(TaskNeed(k), Reserved) /\ used[k] <= Capacity[k]

\* Nothing in a worker bears the id of a request that was not made yet.
Below(q, n) == \A i \in DOMAIN q : q[i] < n
KnownIds(s) == Below(worker[s].inbox, correlation) /\ Below(worker[s].outbox, correlation)

\* Between two exchanges: something is in the worker just when an exception left it.
Rested(s) == Quiet(s) <=> ~worker[s].soiled

\* In an exchange: the request or the answer to it and no more, or, to come out
\* first, something older.
First(s) == IF worker[s].outbox # <<>> THEN worker[s].outbox[1] ELSE worker[s].inbox[1]

Engaged(s, c) ==
    IF worker[s].soiled THEN ~Quiet(s) /\ First(s) # c
    ELSE \/ worker[s].outbox = <<>> /\ worker[s].inbox = <<c>>
         \/ worker[s].outbox = <<c>> /\ worker[s].inbox = <<>>

HeldSlot(s, t) ==
    /\ task[t].pc # "wait"
    /\ task[t].pc \in {"start", "release"} => Rested(s)
    /\ task[t].pc = "reply" => Engaged(s, task[t].correlation)

QuietSlot(s) ==
    /\ KnownIds(s)
    /\ worker[s].torn => worker[s].soiled
    /\ s \in Idle => Quiet(s) \/ worker[s].soiled
    /\ worker[s].soiled => \A t \in Holders(s) : task[t].answer = 0
    /\ worker[s].child = "running" =>
         /\ s \in Idle => Rested(s)
         /\ \A t \in Holders(s) : HeldSlot(s, t)

QuietInv == ~Repeats => \A s \in Slots : QuietSlot(s)

(***************************************************************************)
(* An idle worker is used again or terminated after its idle time, while   *)
(* the Kernel runs.  (worker_runtime.cpp: reap_idle)                       *)
(***************************************************************************)
IdleTerminated ==
    \A s \in Slots : (s \in Idle) ~> (s \notin Idle \/ mode # "running")

\* A worker process that ended is waited for, while the Kernel runs.
DeadNoticed ==
    \A s \in Slots :
        (worker[s].child = "zombie") ~> (worker[s].child # "zombie" \/ mode # "running")

(***************************************************************************)
(* A graceful stop completes: no task waits for ever, and the pool is shut *)
(* down.                                                                   *)
(***************************************************************************)
PoolStops == mode = "stopping" ~> mode = "down"

(***************************************************************************)
(* The worker processes that exist fit the configured capacity.            *)
(***************************************************************************)
ProcessesFit ==
    \A k \in ResourceKinds :
        MapThenSumSet(LAMBDA s : EngineNeed[worker[s].engine][k],
                      {s \in Slots : worker[s].child = "running"}) <= Capacity[k]
-----------------------------------------------------------------------------
Kinds == {"cpu"}
TwoSlots == [cpu |-> 2]

SmallEngine == {"small"}
TwoEngines == {"small", "large"}
SmallNeed == [small |-> [cpu |-> 1]]
TwoNeeds == [small |-> [cpu |-> 1], large |-> [cpu |-> 2]]

PoolSymmetry == Permutations(Tasks) \cup Permutations(Slots)
=============================================================================
