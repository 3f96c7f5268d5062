-------------------------- MODULE WorkStoreProofs --------------------------
(***************************************************************************)
(* What a step of the Work store does to one row and its attempts: every   *)
(* method of WorkStore takes every Work through one of the transitions     *)
(* named here, or leaves it alone.  The proofs about the Kernel reason     *)
(* about these transitions instead of the SQL statements.                  *)
(***************************************************************************)
EXTENDS WorkStore, FiniteSetTheorems, TLAPS

Ending == {"FAILED", "TIMED_OUT", "INTERRUPTED"}

RowSame(w) == work'[w] = work[w] /\ attempts'[w] = attempts[w]

\* The columns no transition of a submitted Work changes.
Frame(w) ==
    /\ work'[w].req = work[w].req
    /\ work'[w].eligible_at = work[w].eligible_at

RowInserted(w, req) ==
    /\ work[w].state = "ABSENT" /\ work'[w].state = "QUEUED"
    /\ work'[w].req = req
    /\ work'[w].attempt_count = 0
    /\ work'[w].cancel_requested = FALSE /\ work'[w].acknowledged = FALSE
    /\ work'[w].next_attempt_at = work'[w].eligible_at
    /\ attempts'[w] = attempts[w]

\* Neither the attempts nor the budget are touched.
Quiet(w) ==
    /\ Frame(w)
    /\ attempts'[w] = attempts[w]
    /\ work'[w].attempt_count = work[w].attempt_count
    /\ work'[w].next_attempt_at = work[w].next_attempt_at

RowRefused(w) ==
    /\ Quiet(w)
    /\ work[w].state = "QUEUED" /\ work'[w].state = "FAILED"
    /\ work'[w].cancel_requested = work[w].cancel_requested
    /\ work'[w].acknowledged = work[w].acknowledged

RowCancelled(w) ==
    /\ Quiet(w)
    /\ \/ work[w].state = "QUEUED" /\ work'[w].state = "CANCELLED"
       \/ work[w].state = "RUNNING" /\ work'[w].state = "RUNNING"
    /\ work'[w].cancel_requested = TRUE
    /\ work'[w].acknowledged = work[w].acknowledged

RowAcknowledged(w) ==
    /\ Quiet(w)
    /\ work[w].state = "SUCCEEDED" /\ work'[w].state = "SUCCEEDED"
    /\ work'[w].cancel_requested = work[w].cancel_requested
    /\ work[w].acknowledged = FALSE /\ work'[w].acknowledged = TRUE

RowBegan(w, engine, t) ==
    LET n == work[w].attempt_count + 1
    IN  /\ Frame(w)
        /\ work[w].state = "QUEUED" /\ work'[w].state = "RUNNING"
        /\ work[w].cancel_requested = FALSE /\ work'[w].cancel_requested = FALSE
        /\ work'[w].acknowledged = work[w].acknowledged
        /\ work'[w].attempt_count = n
        /\ attempts'[w] = [attempts[w] EXCEPT ![n] =
             [state |-> "RUNNING", engine |-> engine,
              started_at |-> t, ended_at |-> NoTime]]

\* The last attempt of a RUNNING Work ends in state a at time t.
RowEnded(w, a, t) ==
    LET n == work[w].attempt_count
    IN  /\ Frame(w)
        /\ work[w].state = "RUNNING"
        /\ work'[w].cancel_requested = work[w].cancel_requested
        /\ work'[w].acknowledged = work[w].acknowledged
        /\ work'[w].attempt_count = n
        /\ attempts'[w] = [attempts[w] EXCEPT ![n] =
             [attempts[w][n] EXCEPT !.state = a, !.ended_at = t]]
        /\ \/ a = "SUCCEEDED" /\ work'[w].state = "SUCCEEDED"
           \/ a = "CANCELLED" /\ work'[w].state = "CANCELLED"
           \/ a \in Ending /\ work[w].cancel_requested /\ work'[w].state = "CANCELLED"
           \/ a \in Ending /\ ~work[w].cancel_requested /\ work'[w].state = "FAILED"
           \/ /\ a \in Ending /\ ~work[w].cancel_requested /\ work'[w].state = "QUEUED"
              /\ n < work[w].req.max_attempts
              /\ work'[w].next_attempt_at = AddMs(t, work[w].req.retry_delay)

Typed(w) == work[w] \in WorkRows /\ attempts[w] \in [AttemptNumbers -> AttemptRows]
-----------------------------------------------------------------------------
\* The sums of a time and a delay are integers, wrapped or not.
LEMMA AddMsType == \A a, b \in Int : AddMs(a, b) \in Int
BY StoreAssumption DEF AddMs

LEMMA AfterFailureType ==
    ASSUME NEW row \in WorkRows, row.req \in Requests, NEW t \in Int,
           NEW f \in {"FAILED", "TIMED_OUT", "INTERRUPTED"}
    PROVE  AfterFailure(row, f, t) \in WorkRows
<1>1. row.req.retry_delay \in Int
    BY StoreAssumption DEF ValidRequest
<1>2. AddMs(t, row.req.retry_delay) \in Int
    BY <1>1, AddMsType
<1>3. QED
    BY <1>2 DEF AfterFailure, WorkRows, WorkStates, FailureCodes

LEMMA NoRowType == NoRow \in WorkRows /\ NoAttempt \in AttemptRows
<1>1. NoRow \in WorkRows
    BY StoreAssumption DEF NoRow, WorkRows, WorkStates, FailureCodes
<1>2. NoAttempt \in AttemptRows
    BY DEF NoAttempt, AttemptRows, AttemptStates, NoTime
<1>3. QED
    BY <1>1, <1>2

(***************************************************************************)
(* One lemma per method.                                                   *)
(***************************************************************************)
LEMMA InsertWorkStep ==
    ASSUME StoreTypeOK, NEW w \in WorkIds, NEW req \in Requests, NEW t \in Int,
           work[w].state = "ABSENT", InsertWork(w, req, t)
    PROVE  /\ StoreTypeOK'
           /\ RowInserted(w, req)
           /\ \A v \in WorkIds \ {w} : RowSame(v)
<1> DEFINE rows == {v \in WorkIds : work[v].state # "ABSENT"}
           eligible == IF req.eligible_at = NoTime THEN t ELSE req.eligible_at
           new == [NoRow EXCEPT !.state = "QUEUED", !.req = req,
                           !.rowid = Cardinality(rows) + 1, !.created_at = t,
                           !.eligible_at = eligible, !.next_attempt_at = eligible]
<1>1. Cardinality(rows) \in Nat
    BY StoreAssumption, FS_Subset, FS_CardinalityType
<1>2. eligible \in Int
    BY StoreAssumption DEF ValidRequest, NoTime
<1>3. work' = [work EXCEPT ![w] = new] /\ attempts' = attempts
    BY DEF InsertWork
<1> HIDE DEF rows, eligible
<1>4. new \in WorkRows
    <2>1. ASSUME NEW i \in Nat
          PROVE  [NoRow EXCEPT !.state = "QUEUED", !.req = req, !.rowid = i,
                     !.created_at = t, !.eligible_at = eligible,
                     !.next_attempt_at = eligible] \in WorkRows
        BY <1>2, NoRowType DEF WorkRows, WorkStates
    <2>2. Cardinality(rows) + 1 \in Nat
        BY <1>1
    <2>3. QED
        BY <2>1, <2>2
<1>5. StoreTypeOK'
    <2> HIDE DEF new
    <2> QED BY <1>3, <1>4 DEF StoreTypeOK
<1>6. RowInserted(w, req)
    BY <1>3 DEF RowInserted, StoreTypeOK, NoRow
<1>7. \A v \in WorkIds \ {w} : RowSame(v)
    BY <1>3 DEF RowSame, StoreTypeOK
<1>8. QED
    BY <1>5, <1>6, <1>7

LEMMA ExpireStep ==
    ASSUME StoreTypeOK, NEW t \in Int, ExpireQueuedDeadlines(t)
    PROVE  /\ StoreTypeOK'
           /\ \A v \in WorkIds : RowSame(v) \/ RowRefused(v)
<1>1. \A v \in WorkIds : work[v] \in WorkRows
    BY DEF StoreTypeOK
<1>2. \A v \in WorkIds : work'[v] \in WorkRows
    <2>1. SUFFICES ASSUME NEW v \in WorkIds PROVE work'[v] \in WorkRows
        OBVIOUS
    <2>2. PICK row \in WorkRows : row = work[v]
        BY <1>1
    <2>3. [[row EXCEPT !.state = "FAILED"] EXCEPT !.failure = "DEADLINE_EXPIRED"] \in WorkRows
        <3>1. [row EXCEPT !.state = "FAILED"] \in WorkRows
            BY DEF WorkRows, WorkStates
        <3>2. \A r \in WorkRows : [r EXCEPT !.failure = "DEADLINE_EXPIRED"] \in WorkRows
            BY DEF WorkRows, FailureCodes
        <3>3. QED
            BY <3>1, <3>2
    <2>4. \/ work'[v] = row
          \/ work'[v] = [row EXCEPT !.state = "FAILED", !.failure = "DEADLINE_EXPIRED"]
        BY <2>2 DEF ExpireQueuedDeadlines
    <2>5. QED
        BY <2>3, <2>4
<1>3. StoreTypeOK'
    BY <1>2 DEF StoreTypeOK, ExpireQueuedDeadlines
<1>4. \A v \in WorkIds : RowSame(v) \/ RowRefused(v)
    BY <1>1 DEF ExpireQueuedDeadlines, Expired, RowSame, RowRefused, Quiet, Frame, WorkRows
<1>5. QED
    BY <1>3, <1>4

LEMMA FailQueuedStep ==
    ASSUME StoreTypeOK, NEW w \in WorkIds, NEW f \in FailureCodes, FailQueued(w, f)
    PROVE  /\ StoreTypeOK'
           /\ RowSame(w) \/ RowRefused(w)
           /\ \A v \in WorkIds \ {w} : RowSame(v)
<1>1. \A v \in WorkIds : work[v] \in WorkRows
    BY DEF StoreTypeOK
<1>2. [work[w] EXCEPT !.state = "FAILED", !.failure = f] \in WorkRows
    BY <1>1 DEF WorkRows, WorkStates
<1>3. StoreTypeOK'
    BY <1>2 DEF StoreTypeOK, FailQueued
<1>4. RowSame(w) \/ RowRefused(w)
    BY <1>1 DEF FailQueued, RowSame, RowRefused, Quiet, Frame, StoreTypeOK, WorkRows
<1>5. \A v \in WorkIds \ {w} : RowSame(v)
    BY DEF FailQueued, RowSame, StoreTypeOK
<1>6. QED
    BY <1>3, <1>4, <1>5

LEMMA BeginAttemptStep ==
    ASSUME StoreTypeOK, NEW w \in WorkIds, NEW e \in Nat, NEW t \in Int,
           work[w].attempt_count < MaxAttempts, BeginAttempt(w, e, t)
    PROVE  /\ StoreTypeOK'
           /\ RowBegan(w, e, t)
           /\ \A v \in WorkIds \ {w} : RowSame(v)
<1> DEFINE n == work[w].attempt_count + 1
           begun == [state |-> "RUNNING", engine |-> e,
                     started_at |-> t, ended_at |-> NoTime]
           row == [work[w] EXCEPT !.state = "RUNNING", !.attempt_count = n,
                                  !.engine = e, !.failure = ""]
<1>1. work[w] \in WorkRows /\ attempts[w] \in [AttemptNumbers -> AttemptRows]
    BY DEF StoreTypeOK
<1>2. n \in AttemptNumbers
    BY <1>1, StoreAssumption DEF WorkRows, AttemptNumbers
<1>3. begun \in AttemptRows
    BY DEF AttemptRows, AttemptStates, NoTime
<1>4. row \in WorkRows
    <2>1. n \in 0 .. MaxAttempts
        BY <1>2, StoreAssumption DEF AttemptNumbers
    <2> HIDE DEF n
    <2>2. QED
        BY <1>1, <2>1 DEF WorkRows, WorkStates, FailureCodes
<1>5. work' = [work EXCEPT ![w] = row]
    BY DEF BeginAttempt
<1>6. attempts' = [attempts EXCEPT ![w] = [attempts[w] EXCEPT ![n] = begun]]
    BY DEF BeginAttempt
<1>7. StoreTypeOK'
    <2> HIDE DEF row, begun, n
    <2> QED BY <1>2, <1>3, <1>4, <1>5, <1>6 DEF StoreTypeOK
<1>8. RowBegan(w, e, t)
    <2>1. attempts'[w] = [attempts[w] EXCEPT ![n] = begun]
        <3> HIDE DEF begun, n
        <3> QED BY <1>6 DEF StoreTypeOK
    <2>2. work'[w] = row
        <3> HIDE DEF row
        <3> QED BY <1>5 DEF StoreTypeOK
    <2>3. work[w].state = "QUEUED" /\ ~work[w].cancel_requested
        BY DEF BeginAttempt, CanBegin
    <2>4. QED
        BY <1>1, <2>1, <2>2, <2>3 DEF RowBegan, Frame, WorkRows
<1>9. \A v \in WorkIds \ {w} : RowSame(v)
    <2> HIDE DEF row, begun, n
    <2> QED BY <1>5, <1>6 DEF RowSame, StoreTypeOK
<1>10. QED
    BY <1>7, <1>8, <1>9

\* A row that a commit finds RUNNING together with its last attempt.
Committable(w) ==
    /\ work[w].state = "RUNNING"
    /\ work[w].req \in Requests
    /\ work[w].attempt_count \in AttemptNumbers
    /\ attempts[w][work[w].attempt_count].state = "RUNNING"

\* What the two UPDATEs of a commit do when they hit their rows.
LEMMA CommitStep ==
    ASSUME StoreTypeOK, NEW w \in WorkIds, NEW a \in AttemptStates, NEW t \in Int,
           NEW row \in WorkRows, Committable(w),
           EndAttempt(w, work[w].attempt_count, a, t), SetRunning(w, row)
    PROVE  /\ StoreTypeOK'
           /\ work'[w] = row
           /\ attempts'[w] = [attempts[w] EXCEPT ![work[w].attempt_count] =
                [attempts[w][work[w].attempt_count] EXCEPT !.state = a, !.ended_at = t]]
           /\ \A v \in WorkIds \ {w} : RowSame(v)
<1> DEFINE n == work[w].attempt_count
           ended == [attempts[w][n] EXCEPT !.state = a, !.ended_at = t]
<1>1. n \in AttemptNumbers /\ attempts[w][n] \in AttemptRows
    BY DEF Committable, StoreTypeOK
<1>2. ended \in AttemptRows
    BY <1>1 DEF AttemptRows
<1>3. work' = [work EXCEPT ![w] = row]
    BY DEF SetRunning, Committable
<1>4. attempts' = [attempts EXCEPT ![w] = [attempts[w] EXCEPT ![n] = ended]]
    BY DEF EndAttempt, Committable
<1> HIDE DEF n, ended
<1>5. StoreTypeOK'
    BY <1>1, <1>2, <1>3, <1>4 DEF StoreTypeOK
<1>6. work'[w] = row /\ attempts'[w] = [attempts[w] EXCEPT ![n] = ended]
    BY <1>3, <1>4 DEF StoreTypeOK
<1>7. \A v \in WorkIds \ {w} : RowSame(v)
    BY <1>3, <1>4 DEF StoreTypeOK, RowSame
<1>8. QED
    BY <1>5, <1>6, <1>7 DEF n, ended

LEMMA FinishSuccessStep ==
    ASSUME StoreTypeOK, NEW w \in WorkIds, NEW t \in Int, Committable(w),
           FinishSuccess(w, work[w].attempt_count, t)
    PROVE  /\ StoreTypeOK'
           /\ RowEnded(w, "SUCCEEDED", t) /\ work'[w].state = "SUCCEEDED"
           /\ \A v \in WorkIds \ {w} : RowSame(v)
<1> DEFINE row == [work[w] EXCEPT !.state = "SUCCEEDED", !.failure = ""]
<1>1. work[w] \in WorkRows
    BY DEF StoreTypeOK
<1>2. row \in WorkRows
    BY <1>1 DEF WorkRows, WorkStates, FailureCodes
<1>3. "SUCCEEDED" \in AttemptStates
    BY DEF AttemptStates
<1>4. /\ EndAttempt(w, work[w].attempt_count, "SUCCEEDED", t)
      /\ SetRunning(w, row)
    BY DEF FinishSuccess
<1>5. /\ StoreTypeOK'
      /\ work'[w] = row
      /\ attempts'[w] = [attempts[w] EXCEPT ![work[w].attempt_count] =
            [attempts[w][work[w].attempt_count] EXCEPT !.state = "SUCCEEDED", !.ended_at = t]]
      /\ \A v \in WorkIds \ {w} : RowSame(v)
    <2> HIDE DEF row
    <2> QED BY <1>2, <1>3, <1>4, CommitStep
<1>6. RowEnded(w, "SUCCEEDED", t)
    BY <1>1, <1>5 DEF RowEnded, Frame, WorkRows, Committable
<1>7. QED
    BY <1>1, <1>5, <1>6 DEF WorkRows

LEMMA FinishCancelledStep ==
    ASSUME StoreTypeOK, NEW w \in WorkIds, NEW t \in Int, Committable(w),
           FinishCancelled(w, work[w].attempt_count, t)
    PROVE  /\ StoreTypeOK'
           /\ RowEnded(w, "CANCELLED", t)
           /\ \A v \in WorkIds \ {w} : RowSame(v)
<1> DEFINE row == [work[w] EXCEPT !.state = "CANCELLED", !.failure = "CANCELLED"]
<1>1. work[w] \in WorkRows
    BY DEF StoreTypeOK
<1>2. row \in WorkRows
    BY <1>1 DEF WorkRows, WorkStates, FailureCodes
<1>3. "CANCELLED" \in AttemptStates
    BY DEF AttemptStates
<1>4. /\ EndAttempt(w, work[w].attempt_count, "CANCELLED", t)
      /\ SetRunning(w, row)
    BY DEF FinishCancelled
<1>5. /\ StoreTypeOK'
      /\ work'[w] = row
      /\ attempts'[w] = [attempts[w] EXCEPT ![work[w].attempt_count] =
            [attempts[w][work[w].attempt_count] EXCEPT !.state = "CANCELLED", !.ended_at = t]]
      /\ \A v \in WorkIds \ {w} : RowSame(v)
    <2> HIDE DEF row
    <2> QED BY <1>2, <1>3, <1>4, CommitStep
<1>6. RowEnded(w, "CANCELLED", t)
    BY <1>1, <1>5 DEF RowEnded, Frame, WorkRows, Committable
<1>7. QED
    BY <1>5, <1>6

\* The three branches of a failed attempt.
LEMMA AfterFailureRow ==
    ASSUME NEW row \in WorkRows, NEW t \in Int, NEW f
    PROVE  LET new == AfterFailure(row, f, t)
           IN  /\ new.req = row.req
               /\ new.eligible_at = row.eligible_at
               /\ new.cancel_requested = row.cancel_requested
               /\ new.acknowledged = row.acknowledged
               /\ new.attempt_count = row.attempt_count
               /\ \/ row.cancel_requested /\ new.state = "CANCELLED"
                  \/ ~row.cancel_requested /\ new.state = "FAILED"
                  \/ /\ ~row.cancel_requested /\ new.state = "QUEUED"
                     /\ row.attempt_count < row.req.max_attempts
                     /\ new.next_attempt_at = AddMs(t, row.req.retry_delay)
<1>1. CASE row.cancel_requested
    BY <1>1 DEF AfterFailure, WorkRows
<1>2. CASE ~row.cancel_requested /\ RetryPermitted(row, t)
    BY <1>2 DEF AfterFailure, WorkRows, RetryPermitted
<1>3. CASE ~row.cancel_requested /\ ~RetryPermitted(row, t)
    BY <1>3 DEF AfterFailure, WorkRows
<1>4. QED
    BY <1>1, <1>2, <1>3

LEMMA FinishRetryableFailureStep ==
    ASSUME StoreTypeOK, NEW w \in WorkIds, NEW a \in {"FAILED", "TIMED_OUT"},
           NEW t \in Int, Committable(w),
           FinishRetryableFailure(w, work[w].attempt_count, a, t)
    PROVE  /\ StoreTypeOK'
           /\ RowEnded(w, a, t)
           /\ \A v \in WorkIds \ {w} : RowSame(v)
<1> DEFINE row == AfterFailure(work[w], a, t)
<1>1. work[w] \in WorkRows /\ work[w].req \in Requests
    BY DEF StoreTypeOK, Committable
<1>2. row \in WorkRows
    BY <1>1, AfterFailureType
<1>3. a \in AttemptStates /\ a \in Ending
    BY DEF AttemptStates, Ending
<1>4. EndAttempt(w, work[w].attempt_count, a, t) /\ SetRunning(w, row)
    BY DEF FinishRetryableFailure, Committable
<1>5. /\ StoreTypeOK'
      /\ work'[w] = row
      /\ attempts'[w] = [attempts[w] EXCEPT ![work[w].attempt_count] =
            [attempts[w][work[w].attempt_count] EXCEPT !.state = a, !.ended_at = t]]
      /\ \A v \in WorkIds \ {w} : RowSame(v)
    <2> HIDE DEF row
    <2> QED BY <1>2, <1>3, <1>4, CommitStep
<1>6. RowEnded(w, a, t)
    <2>1. work[w].state = "RUNNING"
        BY DEF Committable
    <2>2. QED
        BY <1>1, <1>3, <1>5, <2>1, AfterFailureRow DEF RowEnded, Frame
<1>7. QED
    BY <1>5, <1>6

LEMMA RecoverStep ==
    ASSUME StoreTypeOK, NEW t \in Int,
           \A w \in WorkIds : work[w].state = "RUNNING" => Committable(w),
           RecoverInterrupted(t)
    PROVE  /\ StoreTypeOK'
           /\ \A w \in WorkIds :
                IF work[w].state = "RUNNING" THEN RowEnded(w, "INTERRUPTED", t)
                ELSE RowSame(w)
<1> DEFINE hit(w, n) == /\ work[w].state = "RUNNING"
                        /\ n = work[w].attempt_count
                        /\ attempts[w][n].state = "RUNNING"
           ended(w, n) == [attempts[w][n] EXCEPT !.state = "INTERRUPTED", !.ended_at = t]
<1>1. attempts' = [w \in WorkIds |-> [n \in AttemptNumbers |->
                     IF hit(w, n) THEN ended(w, n) ELSE attempts[w][n]]]
    BY DEF RecoverInterrupted
<1>2. work' = [w \in WorkIds |-> IF work[w].state = "RUNNING"
                                 THEN AfterFailure(work[w], "INTERRUPTED", t)
                                 ELSE work[w]]
    BY DEF RecoverInterrupted
<1>3. \A w \in WorkIds, n \in AttemptNumbers : ended(w, n) \in AttemptRows
    <2> SUFFICES ASSUME NEW w \in WorkIds, NEW n \in AttemptNumbers
                 PROVE  ended(w, n) \in AttemptRows
        OBVIOUS
    <2>1. attempts[w][n] \in AttemptRows
        BY DEF StoreTypeOK
    <2>2. QED
        BY <2>1 DEF AttemptRows, AttemptStates
<1>4. \A w \in WorkIds : work[w].state = "RUNNING" =>
            AfterFailure(work[w], "INTERRUPTED", t) \in WorkRows
    BY AfterFailureType DEF StoreTypeOK, Committable
<1>5. StoreTypeOK'
    <2> HIDE DEF hit, ended
    <2>1. work' \in [WorkIds -> WorkRows]
        BY <1>2, <1>4 DEF StoreTypeOK
    <2>2. attempts' \in [WorkIds -> [AttemptNumbers -> AttemptRows]]
        BY <1>1, <1>3 DEF StoreTypeOK
    <2>3. QED
        BY <2>1, <2>2 DEF StoreTypeOK
<1>6. ASSUME NEW w \in WorkIds, work[w].state = "RUNNING"
      PROVE  RowEnded(w, "INTERRUPTED", t)
    <2> DEFINE c == work[w].attempt_count
    <2>1. /\ work[w] \in WorkRows /\ attempts[w] \in [AttemptNumbers -> AttemptRows]
          /\ c \in AttemptNumbers /\ attempts[w][c].state = "RUNNING"
        BY <1>6 DEF StoreTypeOK, Committable
    <2>2. work'[w] = AfterFailure(work[w], "INTERRUPTED", t)
        BY <1>2, <1>6
    <2>3. attempts'[w] = [n \in AttemptNumbers |->
                            IF n = c THEN ended(w, c) ELSE attempts[w][n]]
        <3>1. \A n \in AttemptNumbers : hit(w, n) <=> n = c
            BY <1>6, <2>1
        <3>2. QED
            <4> HIDE DEF hit, ended, c
            <4> QED BY <1>1, <3>1
    <2>4. attempts'[w] = [attempts[w] EXCEPT ![c] = ended(w, c)]
        <3> HIDE DEF ended, c
        <3> QED BY <2>1, <2>3
    <2>5. QED
        BY <1>6, <2>1, <2>2, <2>4, AfterFailureRow DEF RowEnded, Frame, Ending
<1>7. ASSUME NEW w \in WorkIds, work[w].state # "RUNNING"
      PROVE  RowSame(w)
    <2>1. work'[w] = work[w]
        BY <1>2, <1>7
    <2>2. attempts'[w] = [n \in AttemptNumbers |-> attempts[w][n]]
        <3>1. \A n \in AttemptNumbers : ~hit(w, n)
            BY <1>7
        <3>2. QED
            <4> HIDE DEF hit, ended
            <4> QED BY <1>1, <3>1
    <2>3. QED
        BY <2>1, <2>2 DEF RowSame, StoreTypeOK
<1>8. QED
    BY <1>5, <1>6, <1>7

LEMMA CancelWorkStep ==
    ASSUME StoreTypeOK, NEW w \in WorkIds, CancelWork(w)
    PROVE  /\ StoreTypeOK'
           /\ RowSame(w) \/ RowCancelled(w)
           /\ \A v \in WorkIds \ {w} : RowSame(v)
<1>1. work[w] \in WorkRows
    BY DEF StoreTypeOK
<1>2. CASE work[w].state = "QUEUED"
    <2> DEFINE row == [work[w] EXCEPT !.state = "CANCELLED",
                           !.cancel_requested = TRUE, !.failure = "CANCELLED"]
    <2>1. work' = [work EXCEPT ![w] = row] /\ attempts' = attempts
        BY <1>2 DEF CancelWork
    <2>2. row \in WorkRows
        BY <1>1 DEF WorkRows, WorkStates, FailureCodes
    <2>3. RowCancelled(w)
        BY <1>1, <1>2, <2>1 DEF RowCancelled, Quiet, Frame, StoreTypeOK, WorkRows
    <2> HIDE DEF row
    <2>4. QED
        BY <2>1, <2>2, <2>3 DEF StoreTypeOK, RowSame
<1>3. CASE work[w].state = "RUNNING"
    <2> DEFINE row == [work[w] EXCEPT !.cancel_requested = TRUE]
    <2>1. work' = [work EXCEPT ![w] = row] /\ attempts' = attempts
        BY <1>3 DEF CancelWork
    <2>2. row \in WorkRows
        BY <1>1 DEF WorkRows
    <2>3. RowCancelled(w)
        BY <1>1, <1>3, <2>1 DEF RowCancelled, Quiet, Frame, StoreTypeOK, WorkRows
    <2> HIDE DEF row
    <2>4. QED
        BY <2>1, <2>2, <2>3 DEF StoreTypeOK, RowSame
<1>4. CASE work[w].state \notin {"QUEUED", "RUNNING"}
    <2>1. work' = work /\ attempts' = attempts
        BY <1>4 DEF CancelWork
    <2>2. QED
        BY <2>1 DEF StoreTypeOK, RowSame
<1>5. QED
    BY <1>2, <1>3, <1>4

LEMMA AcknowledgeWorkStep ==
    ASSUME StoreTypeOK, NEW w \in WorkIds, AcknowledgeWork(w)
    PROVE  /\ StoreTypeOK'
           /\ RowAcknowledged(w)
           /\ \A v \in WorkIds \ {w} : RowSame(v)
<1> DEFINE row == [work[w] EXCEPT !.acknowledged = TRUE]
<1>1. work[w] \in WorkRows
    BY DEF StoreTypeOK
<1>2. work' = [work EXCEPT ![w] = row] /\ attempts' = attempts
    BY DEF AcknowledgeWork
<1>3. row \in WorkRows
    BY <1>1 DEF WorkRows
<1>4. RowAcknowledged(w)
    BY <1>1, <1>2 DEF AcknowledgeWork, RowAcknowledged, Quiet, Frame, StoreTypeOK, WorkRows
<1> HIDE DEF row
<1>5. QED
    BY <1>2, <1>3, <1>4 DEF StoreTypeOK, RowSame
=============================================================================
