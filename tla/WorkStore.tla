----------------------------- MODULE WorkStore -----------------------------
(***************************************************************************)
(* The durable Work store of kernel/src/store.cpp: the tables work and     *)
(* attempts, and one operator per method of class WorkStore.  Every method *)
(* holds the store's mutex and runs one statement or one BEGIN IMMEDIATE   *)
(* transaction, so each is one atomic step.                                *)
(*                                                                         *)
(* A table is a total function; a row that does not exist has the state    *)
(* "ABSENT".  A NULL time is NoTime.  A technical failure text is its      *)
(* leading code.                                                           *)
(***************************************************************************)
EXTENDS Integers, FiniteSets

CONSTANTS
    WorkIds,      \* the identities make_work_id may return
    Requests,     \* the technical requirements a client may submit
    NoRequest,    \* the request of an absent row
    MaxAttempts,  \* bound on max_attempts of a request
    IntMax        \* largest value of a signed time in milliseconds (2^63-1 in C++)

NoTime == -1

Urgencies == {"INTERACTIVE", "NORMAL", "BACKGROUND"}

\* What the submit handler validates (parse_positive_int, retry_delay_ms >= 0,
\* optional_nonnegative_i64, validate_urgency).
ValidRequest(r) ==
    /\ r.urgency \in Urgencies
    /\ r.max_attempts \in 1 .. MaxAttempts
    /\ r.retry_delay \in 0 .. IntMax
    /\ r.eligible_at \in 0 .. IntMax \cup {NoTime}
    /\ r.deadline \in 0 .. IntMax \cup {NoTime}
    /\ r.timeout \in 0 .. IntMax \cup {NoTime}

ASSUME StoreAssumption ==
    /\ MaxAttempts \in Nat \ {0}
    /\ IntMax \in Nat
    /\ IsFiniteSet(WorkIds)
    /\ NoRequest \notin Requests
    /\ \A r \in Requests : ValidRequest(r)

VARIABLES work, attempts

storeVars == <<work, attempts>>

AttemptNumbers == 1 .. MaxAttempts

WorkStates == {"ABSENT", "QUEUED", "RUNNING", "SUCCEEDED", "FAILED", "CANCELLED"}

AttemptStates ==
    {"ABSENT", "RUNNING", "SUCCEEDED", "FAILED", "INTERRUPTED", "TIMED_OUT", "CANCELLED"}

FailureCodes ==
    {"", "DEADLINE_EXPIRED", "NO_ELIGIBLE_ENGINE", "EXACT_SELECTION_UNSATISFIED",
     "INSUFFICIENT_CAPACITY", "CANCELLED", "FAILED", "TIMED_OUT", "INTERRUPTED"}

NoRow ==
    [state |-> "ABSENT", req |-> NoRequest, rowid |-> 0, created_at |-> 0,
     eligible_at |-> 0, next_attempt_at |-> 0, attempt_count |-> 0,
     acknowledged |-> FALSE, cancel_requested |-> FALSE, engine |-> 0,
     failure |-> ""]

NoAttempt == [state |-> "ABSENT", engine |-> 0, started_at |-> 0, ended_at |-> NoTime]

WorkRows ==
    [state : WorkStates, req : Requests \cup {NoRequest}, rowid : Nat,
     created_at : Int, eligible_at : Int, next_attempt_at : Int,
     attempt_count : 0 .. MaxAttempts, acknowledged : BOOLEAN,
     cancel_requested : BOOLEAN, engine : Nat, failure : FailureCodes]

AttemptRows ==
    [state : AttemptStates, engine : Nat, started_at : Int, ended_at : Int]

StoreTypeOK ==
    /\ work \in [WorkIds -> WorkRows]
    /\ attempts \in [WorkIds -> [AttemptNumbers -> AttemptRows]]

StoreInit ==
    /\ work = [w \in WorkIds |-> NoRow]
    /\ attempts = [w \in WorkIds |-> [n \in AttemptNumbers |-> NoAttempt]]
-----------------------------------------------------------------------------
\* a + b as the build computes it on std::int64_t: two's complement wraparound.
AddMs(a, b) == IF a + b > IntMax THEN a + b - 2 * (IntMax + 1) ELSE a + b

\* An optional time that has been reached at t.
Reached(limit, t) == limit # NoTime /\ limit <= t

Terminal(row) == row.state \in {"SUCCEEDED", "FAILED", "CANCELLED"}

\* Mutants of RetryPermitted: no budget, and one attempt too many.
RetryPermittedUnbounded(row, t) ==
    ~Reached(row.req.deadline, AddMs(t, row.req.retry_delay))

RetryPermittedOffByOne(row, t) ==
    /\ row.attempt_count <= row.req.max_attempts
    /\ ~Reached(row.req.deadline, AddMs(t, row.req.retry_delay))

RetryPermitted(row, t) ==
    /\ row.attempt_count < row.req.max_attempts
    /\ ~Reached(row.req.deadline, AddMs(t, row.req.retry_delay))
-----------------------------------------------------------------------------
\* submit: t is the time the handler read before it wrote the input file.
\* Rows are never deleted, so SQLite's next rowid is the number of rows + 1.
InsertWork(w, req, t) ==
    LET eligible == IF req.eligible_at = NoTime THEN t ELSE req.eligible_at
        rows == {v \in WorkIds : work[v].state # "ABSENT"}
    IN  /\ work' = [work EXCEPT ![w] =
             [NoRow EXCEPT !.state = "QUEUED", !.req = req,
                           !.rowid = Cardinality(rows) + 1, !.created_at = t,
                           !.eligible_at = eligible, !.next_attempt_at = eligible]]
        /\ UNCHANGED attempts

\* The rows next_eligible(t) considers, and the one its ORDER BY ... LIMIT 1
\* returns: a set of at most one Work.
UrgencyRank == [INTERACTIVE |-> 0, NORMAL |-> 1, BACKGROUND |-> 2]

\* Mutant of Eligible: the retry time is not looked at.
EligibleIgnoringBackoff(t) ==
    {w \in WorkIds : /\ work[w].state = "QUEUED"
                     /\ ~work[w].cancel_requested
                     /\ work[w].eligible_at <= t}

Eligible(t) ==
    {w \in WorkIds : /\ work[w].state = "QUEUED"
                     /\ ~work[w].cancel_requested
                     /\ work[w].eligible_at <= t
                     /\ work[w].next_attempt_at <= t}

Precedes(a, b) ==
    LET ra == UrgencyRank[a.req.urgency]
        rb == UrgencyRank[b.req.urgency]
    IN  \/ ra < rb
        \/ ra = rb /\ a.created_at < b.created_at
        \/ ra = rb /\ a.created_at = b.created_at /\ a.rowid < b.rowid

NextEligible(t) ==
    {w \in Eligible(t) : \A v \in Eligible(t) \ {w} : Precedes(work[w], work[v])}

Expired(row, t) == row.state = "QUEUED" /\ Reached(row.req.deadline, t)

ExpireQueuedDeadlines(t) ==
    /\ work' = [w \in WorkIds |->
         IF Expired(work[w], t)
         THEN [work[w] EXCEPT !.state = "FAILED", !.failure = "DEADLINE_EXPIRED"]
         ELSE work[w]]
    /\ UNCHANGED attempts

\* Mutant of FailQueued: no AND state='QUEUED'.
FailQueuedUnguarded(w, failure) ==
    /\ work' = [work EXCEPT ![w].state = "FAILED", ![w].failure = failure]
    /\ UNCHANGED attempts

\* fail_queued: its WHERE clause leaves alone a Work cancelled meanwhile.
FailQueued(w, failure) ==
    /\ work' = IF work[w].state = "QUEUED"
               THEN [work EXCEPT ![w].state = "FAILED", ![w].failure = failure]
               ELSE work
    /\ UNCHANGED attempts

\* Mutant of CanBegin: trusts what next_eligible returned earlier.
CanBeginUnchecked(w) == work[w].state # "ABSENT"

\* begin_attempt: the condition under which it does not return 0, and its effect.
CanBegin(w) == work[w].state = "QUEUED" /\ ~work[w].cancel_requested

BeginAttempt(w, engine, t) ==
    LET n == work[w].attempt_count + 1
    IN  /\ CanBegin(w)
        /\ work' = [work EXCEPT ![w] =
             [@ EXCEPT !.state = "RUNNING", !.attempt_count = n,
                       !.engine = engine, !.failure = ""]]
        /\ attempts' = [attempts EXCEPT ![w][n] =
             [state |-> "RUNNING", engine |-> engine,
              started_at |-> t, ended_at |-> NoTime]]

\* UPDATE attempts SET state=s, ended_at_ms=t WHERE ... AND state='RUNNING'
EndAttempt(w, n, s, t) ==
    attempts' = IF attempts[w][n].state = "RUNNING"
                THEN [attempts EXCEPT ![w][n] =
                        [@ EXCEPT !.state = s, !.ended_at = t]]
                ELSE attempts

\* UPDATE work SET ... WHERE id=w AND state='RUNNING'
SetRunning(w, row) ==
    work' = IF work[w].state = "RUNNING" THEN [work EXCEPT ![w] = row] ELSE work

FinishSuccess(w, n, t) ==
    /\ EndAttempt(w, n, "SUCCEEDED", t)
    /\ SetRunning(w, [work[w] EXCEPT !.state = "SUCCEEDED", !.failure = ""])

\* Mutant of FinishCancelled: the attempt row is forgotten.
FinishCancelledRowOnly(w, n, t) ==
    /\ SetRunning(w, [work[w] EXCEPT !.state = "CANCELLED", !.failure = "CANCELLED"])
    /\ UNCHANGED attempts

FinishCancelled(w, n, t) ==
    /\ EndAttempt(w, n, "CANCELLED", t)
    /\ SetRunning(w, [work[w] EXCEPT !.state = "CANCELLED", !.failure = "CANCELLED"])

\* Mutant of AfterFailure: the cancellation request is not looked at.
AfterFailureIgnoringCancel(row, failure, t) ==
    IF RetryPermitted(row, t)
    THEN [row EXCEPT !.state = "QUEUED", !.failure = failure, !.engine = 0,
                     !.next_attempt_at = AddMs(t, row.req.retry_delay)]
    ELSE [row EXCEPT !.state = "FAILED", !.failure = failure]

\* What becomes of a Work whose attempt ended at t without a result: the three
\* branches finish_retryable_failure and recover_interrupted share.
AfterFailure(row, failure, t) ==
    IF row.cancel_requested
    THEN [row EXCEPT !.state = "CANCELLED", !.failure = "CANCELLED"]
    ELSE IF RetryPermitted(row, t)
    THEN [row EXCEPT !.state = "QUEUED", !.failure = failure, !.engine = 0,
                     !.next_attempt_at = AddMs(t, row.req.retry_delay)]
    ELSE [row EXCEPT !.state = "FAILED", !.failure = failure]

\* s is FAILED or TIMED_OUT; the whole transaction is rolled back when the Work
\* is not RUNNING.
FinishRetryableFailure(w, n, s, t) ==
    IF work[w].state = "RUNNING"
    THEN EndAttempt(w, n, s, t) /\ SetRunning(w, AfterFailure(work[w], s, t))
    ELSE UNCHANGED storeVars

\* Mutant of RecoverInterrupted: the interrupted attempts stay RUNNING.
RecoverInterruptedRowsOnly(t) ==
    /\ work' = [w \in WorkIds |->
         IF work[w].state = "RUNNING"
         THEN AfterFailure(work[w], "INTERRUPTED", t)
         ELSE work[w]]
    /\ UNCHANGED attempts

RecoverInterrupted(t) ==
    LET interrupted(w, n) == /\ work[w].state = "RUNNING"
                             /\ n = work[w].attempt_count
                             /\ attempts[w][n].state = "RUNNING"
    IN  /\ attempts' = [w \in WorkIds |-> [n \in AttemptNumbers |->
             IF interrupted(w, n)
             THEN [attempts[w][n] EXCEPT !.state = "INTERRUPTED", !.ended_at = t]
             ELSE attempts[w][n]]]
        /\ work' = [w \in WorkIds |->
             IF work[w].state = "RUNNING"
             THEN AfterFailure(work[w], "INTERRUPTED", t)
             ELSE work[w]]

\* Mutant of CancelWork: a running Work is declared CANCELLED at once.
CancelWorkAtOnce(w) ==
    /\ work[w].state # "ABSENT"
    /\ work' = IF Terminal(work[w]) THEN work
               ELSE [work EXCEPT ![w] = [@ EXCEPT !.state = "CANCELLED",
                       !.cancel_requested = TRUE, !.failure = "CANCELLED"]]
    /\ UNCHANGED attempts

\* cancel: a queued Work is cancelled at once, a running one is marked, and a
\* terminal one is left as it is.
CancelWork(w) ==
    /\ work[w].state # "ABSENT"
    /\ work' =
         CASE work[w].state = "QUEUED" ->
                [work EXCEPT ![w] = [@ EXCEPT !.state = "CANCELLED",
                    !.cancel_requested = TRUE, !.failure = "CANCELLED"]]
           [] work[w].state = "RUNNING" ->
                [work EXCEPT ![w].cancel_requested = TRUE]
           [] OTHER -> work
    /\ UNCHANGED attempts

\* Mutant of AcknowledgeWork: no AND state='SUCCEEDED'.
AcknowledgeWorkAnyState(w) ==
    /\ work[w].state # "ABSENT" /\ ~work[w].acknowledged
    /\ work' = [work EXCEPT ![w].acknowledged = TRUE]
    /\ UNCHANGED attempts

\* acknowledge, when it changes a row (it returns false otherwise).
AcknowledgeWork(w) ==
    /\ work[w].state = "SUCCEEDED" /\ ~work[w].acknowledged
    /\ work' = [work EXCEPT ![w].acknowledged = TRUE]
    /\ UNCHANGED attempts
=============================================================================
