----------------------------- MODULE PoolProofs -----------------------------
(***************************************************************************)
(* Proofs about the worker pool, for every number of tasks, slots and      *)
(* engines, every capacity and every bound on the requests.                *)
(***************************************************************************)
EXTENDS MCWorkerPool, SetSums, SequenceTheorems, TLAPS

Starting == {t \in Tasks : task[t].pc = "start"}

(***************************************************************************)
(* Types.  What the helpers make of a worker is a worker.                  *)
(***************************************************************************)
LEMMA NoWorkerType == NoWorker \in WorkerRows
<1>1. <<>> \in Seq(0 .. MaxCorrelation)
    BY EmptySeq
<1>2. QED
    BY <1>1, PoolAssumption DEF NoWorker, WorkerRows

LEMMA WorkerTypes ==
    ASSUME NEW w \in WorkerRows
    PROVE  /\ Closed(w) \in WorkerRows
           /\ Erased(w) \in WorkerRows
           /\ [w EXCEPT !.busy = TRUE] \in WorkerRows
           /\ [w EXCEPT !.busy = FALSE, !.age = 0] \in WorkerRows
<1>1. Closed(w) \in WorkerRows
    <2>1. <<>> \in Seq(0 .. MaxCorrelation)
        BY EmptySeq
    <2>2. QED
        BY <2>1 DEF Closed, WorkerRows
<1>2. [w EXCEPT !.busy = TRUE] \in WorkerRows
    BY DEF WorkerRows
<1>3. [w EXCEPT !.busy = FALSE, !.age = 0] \in WorkerRows
    <2>1. 0 \in 0 .. IdleTimeout
        BY PoolAssumption
    <2>2. QED
        BY <2>1 DEF WorkerRows
<1>4. QED
    BY <1>1, <1>2, <1>3, NoWorkerType DEF Erased

LEMMA SpawnedType ==
    ASSUME NEW e \in Engines
    PROVE  Spawned(e) \in WorkerRows
BY NoWorkerType DEF Spawned, WorkerRows

LEMMA NoTaskType == NoTask \in TaskRows
BY PoolAssumption DEF NoTask, TaskRows, TaskPcs

LEMMA EndedFields ==
    ASSUME NEW w \in WorkerRows
    PROVE  /\ Ended(w) \in WorkerRows /\ Ended(w).child = "zombie"
           /\ Ended(w).busy = w.busy /\ Ended(w).open = w.open
           /\ Ended(w).inbox = <<>> /\ Ended(w).torn = FALSE
           /\ Ended(w).outbox = w.outbox /\ Ended(w).soiled = w.soiled
<1>1. <<>> \in Seq(0 .. MaxCorrelation)
    BY EmptySeq
<1>2. QED
    BY <1>1 DEF Ended, WorkerRows

LEMMA ClosedFields ==
    ASSUME NEW w \in WorkerRows
    PROVE  /\ Closed(w).child = "reaped" /\ Closed(w).busy = w.busy
           /\ Closed(w).inbox = <<>> /\ Closed(w).torn = FALSE
           /\ Closed(w).outbox = <<>> /\ Closed(w).soiled = FALSE
BY DEF Closed, WorkerRows

LEMMA NoWorkerFields ==
    /\ NoWorker.child = "none" /\ NoWorker.busy = FALSE
    /\ NoWorker.inbox = <<>> /\ NoWorker.torn = FALSE
    /\ NoWorker.outbox = <<>> /\ NoWorker.soiled = FALSE
BY DEF NoWorker

LEMMA ReapedType ==
    ASSUME NEW w \in WorkerRows
    PROVE  [w EXCEPT !.child = "reaped"] \in WorkerRows
BY DEF WorkerRows

\* The id of the request of a task that has not sent it.
LEMMA NextId ==
    ASSUME PoolInv, NEW t \in Tasks, task[t].pc = "start"
    PROVE  correlation \in 0 .. MaxCorrelation
<1>1. Starting # {} /\ IsFiniteSet(Starting)
    BY PoolAssumption, FS_Subset DEF Starting
<1>2. Cardinality(Starting) \in Nat \ {0}
    BY <1>1, FS_EmptySet, FS_CardinalityType
<1>3. correlation + Cardinality(Starting) <= MaxCorrelation + 1
      /\ correlation \in 1 .. MaxCorrelation + 1
    BY DEF PoolInv, PoolTypeOK, Starting
<1>4. QED
    BY <1>2, <1>3, PoolAssumption

\* A request, or part of one, behind what the worker has.
Wrote(w, v, ids) ==
    /\ v \in WorkerRows
    /\ v.busy = w.busy /\ v.child = w.child /\ v.open = w.open
    /\ v.outbox = w.outbox /\ v.soiled = w.soiled
    /\ w.torn => v.inbox = w.inbox
    /\ ~w.torn => \E id \in ids : v.inbox = Append(w.inbox, id)

LEMMA WrittenFields ==
    ASSUME NEW w \in WorkerRows, NEW ids \in SUBSET (0 .. MaxCorrelation), NEW v
    PROVE  /\ v \in Written(w, ids, FALSE) => Wrote(w, v, ids) /\ (~w.torn => ~v.torn)
           /\ v \in Written(w, ids, TRUE) => Wrote(w, v, ids)
<1>1. ASSUME NEW part, v \in Written(w, ids, part), w.torn
      PROVE  Wrote(w, v, ids)
    <2>1. PICK b \in BOOLEAN : v = [w EXCEPT !.torn = b]
        BY <1>1 DEF Written
    <2>2. QED
        BY <1>1, <2>1 DEF Wrote, WorkerRows
<1>2. ASSUME NEW part \in BOOLEAN, v \in Written(w, ids, part), ~w.torn
      PROVE  Wrote(w, v, ids) /\ v.torn = part
    <2>1. PICK id \in ids : v = [w EXCEPT !.inbox = Append(w.inbox, id), !.torn = part]
        BY <1>2 DEF Written
    <2>2. PICK q \in Seq(0 .. MaxCorrelation) : q = Append(w.inbox, id)
        <3>1. w.inbox \in Seq(0 .. MaxCorrelation) /\ id \in 0 .. MaxCorrelation
            BY DEF WorkerRows
        <3>2. Append(w.inbox, id) \in Seq(0 .. MaxCorrelation)
            BY <3>1, AppendProperties
        <3>3. QED
            BY <3>2
    <2>3. v = [w EXCEPT !.inbox = q, !.torn = part]
        BY <2>1, <2>2
    <2>4. /\ v \in WorkerRows /\ v.inbox = q /\ v.torn = part
          /\ v.busy = w.busy /\ v.child = w.child /\ v.open = w.open
          /\ v.outbox = w.outbox /\ v.soiled = w.soiled
        BY <2>3 DEF WorkerRows
    <2>5. QED
        BY <1>2, <2>2, <2>4 DEF Wrote
<1>3. QED
    BY <1>1, <1>2

LEMMA SoiledFields ==
    ASSUME NEW w \in WorkerRows, NEW v, v = [w EXCEPT !.soiled = TRUE]
    PROVE  /\ v \in WorkerRows /\ v.soiled = TRUE
           /\ v.busy = w.busy /\ v.child = w.child /\ v.open = w.open
           /\ v.inbox = w.inbox /\ v.torn = w.torn /\ v.outbox = w.outbox
BY DEF WorkerRows

LEMMA RowFields ==
    ASSUME PoolTypeOK
    PROVE  /\ \A s \in Slots : /\ worker[s] \in WorkerRows
                              /\ worker[s].inbox \in Seq(0 .. MaxCorrelation)
                              /\ worker[s].torn \in BOOLEAN
                              /\ worker[s].soiled \in BOOLEAN
                              /\ worker[s].outbox \in Seq(0 .. MaxCorrelation)
                              /\ worker[s].age \in 0 .. IdleTimeout
                              /\ worker[s].busy \in BOOLEAN
           /\ \A t \in Tasks : /\ task[t] \in TaskRows
                              /\ task[t].correlation \in 0 .. MaxCorrelation
                              /\ task[t].holds \in SUBSET {"worker", "reservation"}
BY DEF PoolTypeOK, WorkerRows, TaskRows

(***************************************************************************)
(* What every step but a launch and a release leaves alone: who holds      *)
(* which worker, and which workers are busy.  A worker process never comes *)
(* back to life, and a worker that leaves the pool is dead.                *)
(***************************************************************************)
SlotMove(s) ==
    /\ worker'[s].busy = worker[s].busy
    /\ worker'[s].child = "running" =>
         /\ worker[s].child = "running" /\ worker'[s].open = worker[s].open
         /\ s \in pool => s \in pool'
    /\ s \in pool' => s \in pool
    /\ (s \in pool' \/ worker'[s].busy) /\ worker[s].child # "none" =>
         worker'[s].child # "none"

TaskMove(t) ==
    /\ task'[t].holds = task[t].holds /\ task'[t].slot = task[t].slot
    /\ task'[t].engine = task[t].engine
    /\ \/ task'[t] = task[t]
       \/ /\ task[t].pc \in {"start", "reply", "kill", "wait"}
          /\ task'[t].pc \in {"reply", "kill", "wait", "release"}

LEMMA ItsSlot ==
    ASSUME PoolInv, NEW t \in Tasks, task[t].pc \notin {"none", "release"}
    PROVE  /\ task[t].slot \in Slots /\ Its(t) \in WorkerRows
           /\ t \in Holders(task[t].slot)
           /\ Its(t).busy /\ Its(t).child # "none"
<1>1. task[t].slot \in Slots /\ "worker" \in task[t].holds
    BY DEF PoolInv, TaskWellFormed
<1>2. t \in Holders(task[t].slot)
    BY <1>1 DEF Holders
<1>3. SlotWellFormed(task[t].slot)
    BY <1>1 DEF PoolInv
<1>4. QED
    BY <1>1, <1>2, <1>3, RowFields DEF PoolInv, SlotWellFormed, Its

\* A task that writes its worker keeps the worker's busy flag and its place.
LEMMA SetItsMoves ==
    ASSUME PoolInv, NEW t \in Tasks, task[t].pc \notin {"none", "release"},
           NEW w \in WorkerRows, SetIts(t, w), pool' = pool,
           w.busy = Its(t).busy, w.child # "none",
           w.child = "running" => Its(t).child = "running" /\ w.open = Its(t).open
    PROVE  worker' \in [Slots -> WorkerRows] /\ \A s \in Slots : SlotMove(s)
<1>1. /\ task[t].slot \in Slots /\ worker \in [Slots -> WorkerRows]
      /\ worker' = [worker EXCEPT ![task[t].slot] = w]
    BY ItsSlot DEF PoolInv, PoolTypeOK, SetIts
<1>2. worker' \in [Slots -> WorkerRows]
    BY <1>1
<1>3. ASSUME NEW s \in Slots
      PROVE  SlotMove(s)
    <2>1. CASE s = task[t].slot
        <3>1. worker'[s] = w /\ worker[s] = Its(t)
            BY <1>1, <2>1 DEF Its
        <3>2. QED
            BY <3>1 DEF SlotMove
    <2>2. CASE s # task[t].slot
        <3>1. worker'[s] = worker[s]
            BY <1>1, <2>2
        <3>2. QED
            BY <3>1 DEF SlotMove
    <2>3. QED
        BY <2>1, <2>2
<1>4. QED
    BY <1>2, <1>3

\* The answer of a task stays that of its own request.
AnswerMove(t) ==
    \/ task'[t].answer = task[t].answer /\ task'[t].correlation = task[t].correlation
    \/ task[t].pc = "start" /\ task'[t].answer = task[t].answer
    \/ task'[t].answer = task'[t].correlation

TaskActs(t) ==
    /\ task' \in [Tasks -> TaskRows]
    /\ \A u \in Tasks : TaskMove(u) /\ (u # t => task'[u] = task[u])
    /\ task'[t].pc \in {"reply", "kill", "wait", "release"}
    /\ task'[t].pc = "reply" => task[t].pc = "start" /\ task'[t].answer = task[t].answer
    /\ AnswerMove(t)

LEMMA RowMoves ==
    ASSUME PoolInv, NEW t \in Tasks, task[t].pc \in {"start", "reply", "kill", "wait"},
           NEW r \in TaskRows, task' = [task EXCEPT ![t] = r],
           r.pc \in {"reply", "kill", "wait", "release"},
           r.pc = "reply" => task[t].pc = "start" /\ r.answer = task[t].answer,
           r.holds = task[t].holds, r.slot = task[t].slot, r.engine = task[t].engine,
           \/ r.answer = task[t].answer /\ r.correlation = task[t].correlation
           \/ task[t].pc = "start" /\ r.answer = task[t].answer
           \/ r.answer = r.correlation
    PROVE  TaskActs(t)
<1>1. task \in [Tasks -> TaskRows]
    BY DEF PoolInv, PoolTypeOK
<1>2. task' \in [Tasks -> TaskRows] /\ task'[t] = r
    BY <1>1
<1>3. ASSUME NEW u \in Tasks
      PROVE  TaskMove(u) /\ (u # t => task'[u] = task[u])
    <2>1. CASE u = t
        BY <1>2, <2>1 DEF TaskMove
    <2>2. CASE u # t
        <3>1. task'[u] = task[u]
            BY <1>1, <2>2
        <3>2. QED
            BY <3>1 DEF TaskMove
    <2>3. QED
        BY <2>1, <2>2
<1>4. AnswerMove(t)
    BY <1>2 DEF AnswerMove
<1>5. QED
    BY <1>2, <1>3, <1>4 DEF TaskActs

LEMMA GotoMoves ==
    ASSUME PoolInv, NEW t \in Tasks, task[t].pc \in {"start", "reply", "kill", "wait"},
           NEW pc \in {"kill", "wait", "release"}, Goto(t, pc)
    PROVE  TaskActs(t)
<1> DEFINE r == [task[t] EXCEPT !.pc = pc]
<1>1. task[t] \in TaskRows
    BY RowFields DEF PoolInv
<1>2. /\ r \in TaskRows /\ r.pc = pc
      /\ r.holds = task[t].holds /\ r.slot = task[t].slot /\ r.engine = task[t].engine
      /\ r.answer = task[t].answer /\ r.correlation = task[t].correlation
    BY <1>1 DEF TaskRows, TaskPcs
<1>3. task' = [task EXCEPT ![t] = r]
    BY DEF Goto
<1> HIDE DEF r
<1>4. QED
    BY <1>2, <1>3, RowMoves

Acts(t) == TaskStep(t) \/ TaskGivesUp(t) \/ TaskThrowsWriting(t) \/ TaskThrows(t)

\* Every step of a task that does not give a lease back.
LEMMA TaskMoves ==
    ASSUME PoolInv, NEW t \in Tasks, Acts(t),
           ~ReleaseWorker(t), ~ReleaseReservation(t)
    PROVE  /\ used' = used /\ pool' = pool /\ mode' = mode
           /\ worker' \in [Slots -> WorkerRows] /\ \A s \in Slots : SlotMove(s)
           /\ TaskActs(t)
           /\ task[t].pc \in {"start", "reply", "kill", "wait"}
           /\ \/ correlation' = correlation
              \/ correlation' = correlation + 1 /\ task[t].pc = "start"
<1> DEFINE Same == worker' = worker
           Moved == worker' \in [Slots -> WorkerRows] /\ \A s \in Slots : SlotMove(s)
<1>1. ASSUME Same, pool' = pool PROVE Moved
    BY <1>1 DEF SlotMove, PoolInv, PoolTypeOK
<1>2. ASSUME SetIts(t, Closed(Its(t))), pool' = pool,
             task[t].pc \notin {"none", "release"}
      PROVE  Moved
    <2>1. Its(t) \in WorkerRows /\ Closed(Its(t)) \in WorkerRows
        BY <1>2, ItsSlot, WorkerTypes
    <2>2. Closed(Its(t)).busy = Its(t).busy /\ Closed(Its(t)).child = "reaped"
        BY <2>1, ClosedFields
    <2>3. QED
        BY <1>2, <2>1, <2>2, SetItsMoves
<1> HIDE DEF Moved
<1>3. CASE TaskSeesStop(t) \/ TaskInputFails(t)
    BY <1>1, <1>3, GotoMoves
    DEF TaskSeesStop, TaskInputFails, At, Moved
<1>4. CASE TaskGivesUp(t) \/ TaskStops(t)
    BY <1>1, <1>4, GotoMoves DEF TaskGivesUp, TaskStops, At, Moved
<1>5. CASE TaskFindsDead(t)
    BY <1>2, <1>5, GotoMoves DEF TaskFindsDead, At, Moved
<1>6. CASE TaskSeesExit(t) \/ TaskWaits(t)
    BY <1>2, <1>6, GotoMoves DEF TaskSeesExit, TaskWaits, At, Moved
<1>7. CASE TaskSends(t)
    <2> DEFINE r == [task[t] EXCEPT !.pc = "reply", !.correlation = correlation]
    <2>1. /\ task[t].pc = "start" /\ task' = [task EXCEPT ![t] = r]
          /\ used' = used /\ pool' = pool /\ mode' = mode /\ correlation' = correlation + 1
        BY <1>7 DEF TaskSends, At
    <2>2. correlation \in 0 .. MaxCorrelation
        BY <2>1, NextId
    <2>3. Its(t) \in WorkerRows /\ Its(t).child # "none"
        BY <2>1, ItsSlot
    <2>4. PICK w \in Written(Its(t), {correlation}, FALSE) : SetIts(t, w)
        BY <1>7 DEF TaskSends
    <2>5. /\ w \in WorkerRows /\ w.busy = Its(t).busy /\ w.child = Its(t).child
          /\ w.open = Its(t).open
        <3>1. PICK ids \in SUBSET (0 .. MaxCorrelation) : ids = {correlation}
            BY <2>2
        <3>2. PICK row \in WorkerRows : row = Its(t)
            BY <2>3
        <3>3. w \in Written(row, ids, FALSE)
            BY <2>4, <3>1, <3>2
        <3>4. /\ w \in WorkerRows /\ w.busy = row.busy /\ w.child = row.child
              /\ w.open = row.open
            <4>1. Wrote(row, w, ids)
                BY <3>3, WrittenFields
            <4>2. QED
                BY <4>1 DEF Wrote
        <3>5. QED
            BY <3>2, <3>4
    <2>6. task[t] \in TaskRows
        BY RowFields DEF PoolInv
    <2>7. /\ r \in TaskRows /\ r.pc = "reply"
          /\ r.holds = task[t].holds /\ r.slot = task[t].slot
          /\ r.engine = task[t].engine /\ r.answer = task[t].answer
        BY <2>2, <2>6 DEF TaskRows, TaskPcs
    <2> HIDE DEF r
    <2>8. TaskActs(t)
        BY <2>1, <2>7, RowMoves
    <2>9. Moved
        BY <2>1, <2>3, <2>4, <2>5, SetItsMoves DEF Moved
    <2>10. QED
        BY <2>1, <2>8, <2>9 DEF Moved
<1>8. CASE TaskReads(t)
    <2> DEFINE w == [Its(t) EXCEPT !.outbox = Tail(Its(t).outbox)]
               c == Head(Its(t).outbox)
               r == AfterReply(t, c)
    <2>1. /\ task[t].pc = "reply" /\ SetIts(t, w) /\ task' = [task EXCEPT ![t] = r]
          /\ Its(t).outbox # <<>>
          /\ used' = used /\ pool' = pool /\ mode' = mode /\ correlation' = correlation
        BY <1>8 DEF TaskReads, At
    <2>2. Its(t) \in WorkerRows /\ Its(t).child # "none"
        BY <2>1, ItsSlot
    <2>3. /\ Tail(Its(t).outbox) \in Seq(0 .. MaxCorrelation)
          /\ c \in 0 .. MaxCorrelation
        <3>1. Its(t).outbox \in Seq(0 .. MaxCorrelation)
            BY <2>2 DEF WorkerRows
        <3>2. QED
            BY <2>1, <3>1, HeadTailProperties
    <2>4. /\ w \in WorkerRows /\ w.busy = Its(t).busy /\ w.child = Its(t).child
          /\ w.open = Its(t).open
        BY <2>2, <2>3 DEF WorkerRows
    <2>5. task[t] \in TaskRows
        BY RowFields DEF PoolInv
    <2>6. /\ r \in TaskRows /\ r.pc \in {"release", "kill"}
          /\ r.holds = task[t].holds /\ r.slot = task[t].slot
          /\ r.engine = task[t].engine
          /\ \/ r.answer = task[t].answer /\ r.correlation = task[t].correlation
             \/ r.answer = r.correlation
        BY <2>3, <2>5 DEF TaskRows, TaskPcs, AfterReply
    <2> HIDE DEF w, r
    <2>7. TaskActs(t)
        BY <2>1, <2>6, RowMoves
    <2>8. Moved
        BY <2>1, <2>2, <2>4, SetItsMoves DEF Moved
    <2>9. QED
        BY <2>1, <2>7, <2>8 DEF Moved
<1>9. CASE TaskKills(t)
    <2> DEFINE w == IF Its(t).child = "running" THEN Ended(Its(t)) ELSE Its(t)
    <2>1. /\ task[t].pc = "kill" /\ used' = used /\ pool' = pool /\ mode' = mode
          /\ correlation' = correlation
          /\ \/ SetIts(t, w) /\ Goto(t, "wait")
             \/ Goto(t, "release") /\ worker' = worker
        BY <1>9 DEF TaskKills, At
    <2>2. Its(t) \in WorkerRows /\ Its(t).child # "none"
        BY <2>1, ItsSlot
    <2>3. /\ w \in WorkerRows /\ w.busy = Its(t).busy /\ w.child # "running"
          /\ w.child # "none"
        BY <2>2, EndedFields
    <2> HIDE DEF w
    <2>4. Moved
        BY <1>1, <2>1, <2>3, SetItsMoves DEF Moved
    <2>5. QED
        BY <2>1, <2>4, GotoMoves DEF Moved
<1>10. CASE TaskWaitsForAny(t)
    <2>1. /\ task[t].pc = "wait" /\ used' = used /\ pool' = pool /\ mode' = mode
          /\ correlation' = correlation /\ Goto(t, "release")
        BY <1>10 DEF TaskWaitsForAny, At
    <2>2. CASE worker' = worker
        BY <1>1, <2>1, <2>2, GotoMoves DEF Moved
    <2>3. ASSUME NEW s \in Slots, worker[s].child = "zombie",
                 worker' = [worker EXCEPT ![s].child = "reaped"]
          PROVE  Moved
        <3>1. worker \in [Slots -> WorkerRows]
            BY DEF PoolInv, PoolTypeOK
        <3>2. worker' \in [Slots -> WorkerRows]
            <4>1. [worker[s] EXCEPT !.child = "reaped"] \in WorkerRows
                BY <3>1, ReapedType
            <4>2. QED
                BY <2>3, <3>1, <4>1
        <3>3. ASSUME NEW r \in Slots PROVE SlotMove(r)
            BY <2>1, <2>3, <3>1 DEF SlotMove, WorkerRows
        <3>4. QED
            BY <3>2, <3>3 DEF Moved
    <2>4. QED
        BY <1>10, <2>1, <2>2, <2>3, GotoMoves DEF TaskWaitsForAny, Moved, Children
<1>11. CASE TaskThrowsWriting(t)
    <2>1. /\ task[t].pc = "start" /\ Goto(t, "release")
          /\ used' = used /\ pool' = pool /\ mode' = mode /\ correlation' = correlation + 1
        BY <1>11 DEF TaskThrowsWriting, At
    <2>2. ASSUME worker' = worker PROVE Moved
        BY <1>1, <2>1, <2>2 DEF Moved
    <2>3. ASSUME worker' # worker PROVE Moved
        <3>1. {correlation, 0} \in SUBSET (0 .. MaxCorrelation)
            BY <2>1, NextId, PoolAssumption
        <3>2. Its(t) \in WorkerRows /\ Its(t).child # "none"
            BY <2>1, ItsSlot
        <3>3. PICK w \in Written(Its(t), {correlation, 0}, TRUE) :
                SetIts(t, [w EXCEPT !.soiled = TRUE])
            BY <1>11, <2>3 DEF TaskThrowsWriting
        <3>4. /\ w \in WorkerRows /\ w.busy = Its(t).busy /\ w.child = Its(t).child
              /\ w.open = Its(t).open
            <4>1. PICK ids \in SUBSET (0 .. MaxCorrelation) : ids = {correlation, 0}
                BY <3>1
            <4>2. PICK row \in WorkerRows : row = Its(t)
                BY <3>2
            <4>3. w \in Written(row, ids, TRUE)
                BY <3>3, <4>1, <4>2
            <4>4. /\ w \in WorkerRows /\ w.busy = row.busy /\ w.child = row.child
                  /\ w.open = row.open
                <5>1. Wrote(row, w, ids)
                    BY <4>3, WrittenFields
                <5>2. QED
                    BY <5>1 DEF Wrote
            <4>5. QED
                BY <4>2, <4>4
        <3>5. PICK v : v = [w EXCEPT !.soiled = TRUE]
            OBVIOUS
        <3>6. /\ v \in WorkerRows /\ v.busy = w.busy /\ v.child = w.child /\ v.open = w.open
            BY <3>4, <3>5, SoiledFields
        <3>7. SetIts(t, v)
            BY <3>3, <3>5
        <3>8. QED
            BY <2>1, <3>2, <3>4, <3>6, <3>7, SetItsMoves DEF Moved
    <2>4. QED
        BY <2>1, <2>2, <2>3, GotoMoves DEF Moved
<1>12. CASE TaskThrows(t)
    <2>1. /\ task[t].pc = "reply" /\ Goto(t, "release")
          /\ used' = used /\ pool' = pool /\ mode' = mode /\ correlation' = correlation
        BY <1>12 DEF TaskThrows, At
    <2>2. Its(t) \in WorkerRows /\ Its(t).child # "none"
        BY <2>1, ItsSlot
    <2>3. PICK v : v = [Its(t) EXCEPT !.soiled = TRUE]
        OBVIOUS
    <2>4. SetIts(t, v)
        BY <1>12, <2>3 DEF TaskThrows
    <2>5. /\ v \in WorkerRows /\ v.busy = Its(t).busy /\ v.child = Its(t).child
          /\ v.open = Its(t).open
        BY <2>2, <2>3, SoiledFields
    <2>6. Moved
        BY <2>1, <2>2, <2>4, <2>5, SetItsMoves DEF Moved
    <2>7. QED
        BY <2>1, <2>6, GotoMoves DEF Moved
<1>13. QED
    BY <1>3, <1>4, <1>5, <1>6, <1>7, <1>8, <1>9, <1>10, <1>11, <1>12 DEF Acts, TaskStep

LEMMA EraseMoves ==
    ASSUME PoolInv, NEW S, S \subseteq pool, Erase(S), pool' = pool \ S
    PROVE  worker' \in [Slots -> WorkerRows] /\ \A s \in Slots : SlotMove(s)
<1>1. worker \in [Slots -> WorkerRows]
    BY DEF PoolInv, PoolTypeOK
<1>2. worker' \in [Slots -> WorkerRows]
    BY <1>1, WorkerTypes DEF Erase
<1>3. ASSUME NEW s \in Slots PROVE SlotMove(s)
    <2>1. CASE s \in S
        <3>1. worker'[s] = Erased(worker[s]) /\ worker[s] \in WorkerRows
            BY <1>1, <2>1 DEF Erase
        <3>2. CASE worker[s].busy
            BY <3>1, <3>2, ClosedFields DEF SlotMove, Erased
        <3>3. CASE ~worker[s].busy
            <4>1. worker[s].busy = FALSE
                BY <3>1, <3>3 DEF WorkerRows
            <4>2. worker'[s] = NoWorker
                BY <3>1, <3>3 DEF Erased
            <4>3. NoWorker.busy = FALSE /\ NoWorker.child = "none"
                BY DEF NoWorker
            <4>4. QED
                BY <2>1, <4>1, <4>2, <4>3 DEF SlotMove
        <3>4. QED
            BY <3>2, <3>3
    <2>2. CASE s \notin S
        <3>1. worker'[s] = worker[s]
            BY <2>2 DEF Erase
        <3>2. QED
            BY <2>2, <3>1 DEF SlotMove
    <2>3. QED
        BY <2>1, <2>2
<1>4. QED
    BY <1>2, <1>3

\* The steps of the worker processes and of the clock.
LEMMA WorkerMoves ==
    ASSUME PoolInv, Tick \/ \E s \in Slots : WorkerAnswers(s) \/ WorkerExits(s)
    PROVE  worker' \in [Slots -> WorkerRows] /\ \A s \in Slots : SlotMove(s)
<1>1. worker \in [Slots -> WorkerRows] /\ pool' = pool
    BY DEF PoolInv, PoolTypeOK, Tick, WorkerAnswers, WorkerExits
<1>2. ASSUME NEW s \in Slots, WorkerAnswers(s)
      PROVE  worker' \in [Slots -> WorkerRows] /\ \A r \in Slots : SlotMove(r)
    <2> DEFINE c == Head(worker[s].inbox)
    <2>1. /\ worker[s].inbox # <<>>
          /\ \E answers \in {<<c>>} \cup IF Repeats THEN {<<c, c>>} ELSE {} :
               worker' = [worker EXCEPT ![s].inbox = Tail(@), ![s].outbox = @ \o answers]
        BY <1>2 DEF WorkerAnswers
    <2>2. worker[s].inbox \in Seq(0 .. MaxCorrelation) /\ worker[s].outbox \in Seq(0 .. MaxCorrelation)
        BY RowFields DEF PoolInv
    <2>3. c \in 0 .. MaxCorrelation /\ Tail(worker[s].inbox) \in Seq(0 .. MaxCorrelation)
        BY <2>1, <2>2, HeadTailProperties
    <2> HIDE DEF c
    <2>4. PICK answers \in {<<c>>, <<c, c>>} :
            worker' = [worker EXCEPT ![s].inbox = Tail(@), ![s].outbox = @ \o answers]
        BY <2>1
    <2>5. answers \in Seq(0 .. MaxCorrelation)
        <3>1. <<c>> \in Seq(0 .. MaxCorrelation) /\ <<c, c>> \in Seq(0 .. MaxCorrelation)
            BY <2>3
        <3>2. QED
            BY <3>1
    <2>6. PICK q \in Seq(0 .. MaxCorrelation) : q = worker[s].outbox \o answers
        <3>1. worker[s].outbox \o answers \in Seq(0 .. MaxCorrelation)
            BY <2>2, <2>5, ConcatProperties
        <3>2. QED
            BY <3>1
    <2>7. PICK p \in Seq(0 .. MaxCorrelation) : p = Tail(worker[s].inbox)
        BY <2>3
    <2>8. PICK row \in WorkerRows : row = worker[s]
        BY <1>1
    <2>9. PICK v : v = [row EXCEPT !.inbox = p, !.outbox = q]
        OBVIOUS
    <2>10. /\ v \in WorkerRows /\ v.busy = row.busy /\ v.child = row.child /\ v.open = row.open
        BY <2>9 DEF WorkerRows
    <2>11. worker' = [worker EXCEPT ![s] = v]
        BY <1>1, <2>4, <2>6, <2>7, <2>8, <2>9 DEF WorkerRows
    <2>12. worker' \in [Slots -> WorkerRows]
        BY <1>1, <2>10, <2>11
    <2>13. ASSUME NEW r \in Slots PROVE SlotMove(r)
        BY <1>1, <2>8, <2>10, <2>11 DEF SlotMove
    <2>14. QED
        BY <2>12, <2>13
<1>3. ASSUME NEW s \in Slots, WorkerExits(s)
      PROVE  worker' \in [Slots -> WorkerRows] /\ \A r \in Slots : SlotMove(r)
    <2>1. worker' = [worker EXCEPT ![s] = Ended(worker[s])]
        BY <1>3 DEF WorkerExits
    <2>2. /\ Ended(worker[s]) \in WorkerRows /\ Ended(worker[s]).child = "zombie"
          /\ Ended(worker[s]).busy = worker[s].busy
        BY <1>1, EndedFields
    <2>3. worker' \in [Slots -> WorkerRows]
        BY <1>1, <2>1, <2>2
    <2>4. ASSUME NEW r \in Slots PROVE SlotMove(r)
        BY <1>1, <2>1, <2>2 DEF SlotMove
    <2>5. QED
        BY <2>3, <2>4
<1>4. CASE Tick
    <2>1. ASSUME NEW s \in Slots
          PROVE  worker'[s] \in WorkerRows /\ SlotMove(s)
        <3>1. worker[s] \in WorkerRows
            BY <1>1
        <3>2. CASE worker'[s] = worker[s]
            BY <1>1, <3>1, <3>2 DEF SlotMove
        <3>3. CASE /\ worker[s].age < IdleTimeout
                   /\ worker'[s] = [worker[s] EXCEPT !.age = worker[s].age + 1]
            <4>1. worker[s].age + 1 \in 0 .. IdleTimeout
                <5>1. worker[s].age \in 0 .. IdleTimeout
                    BY <3>1 DEF WorkerRows
                <5>2. QED
                    BY <3>3, <5>1, PoolAssumption
            <4>2. QED
                BY <1>1, <3>1, <3>3, <4>1 DEF SlotMove, WorkerRows
        <3>4. QED
            BY <1>4, <3>2, <3>3 DEF Tick
    <2>2. worker' = [s \in Slots |-> worker'[s]]
        BY <1>4 DEF Tick
    <2>3. QED
        BY <2>1, <2>2
<1>5. QED
    BY <1>2, <1>3, <1>4

(***************************************************************************)
(* Every step is a launch, a release, or leaves the leases as they are.    *)
(***************************************************************************)
Launch == \E t \in Tasks, e \in Engines : AcquireWarm(t, e) \/ AcquireNew(t, e)

LeasesKept ==
    /\ used' = used /\ pool' \subseteq pool
    /\ worker' \in [Slots -> WorkerRows] /\ \A s \in Slots : SlotMove(s)
    /\ mode' \in {"running", "stopping", "joined", "down"}
    /\ \/ task' = task /\ correlation' = correlation
       \/ \E t \in Tasks :
             /\ TaskActs(t)
             /\ task[t].pc \in {"start", "reply", "kill", "wait"}
             /\ \/ correlation' = correlation
                \/ correlation' = correlation + 1 /\ task[t].pc = "start"

LEMMA StepMoves ==
    ASSUME PoolInv, [Next]_vars
    PROVE  \/ Launch \/ LeasesKept
           \/ \E t \in Tasks : ReleaseWorker(t) \/ ReleaseReservation(t)
<1>1. mode \in {"running", "stopping", "joined", "down"}
    BY DEF PoolInv, PoolTypeOK
<1>2. ASSUME NEW e \in Engines, AcquireFails(e) \/ IsWarm(e)
      PROVE  LeasesKept
    <2>1. CASE AcquireFails(e)
        <3>1. Erase(Dead \cap Idle) /\ pool' = pool \ (Dead \cap Idle)
              /\ Dead \cap Idle \subseteq pool
            BY <2>1 DEF AcquireFails, Dead
        <3>2. QED
            BY <1>1, <2>1, <3>1, EraseMoves DEF AcquireFails, AfterIteration, LeasesKept
    <2>2. CASE IsWarm(e)
        <3>1. PICK gone : gone \subseteq Dead /\ Erase(gone) /\ pool' = pool \ gone
            BY <2>2 DEF IsWarm, Passed
        <3>2. gone \subseteq pool
            BY <3>1 DEF Dead
        <3>3. QED
            BY <1>1, <2>2, <3>1, <3>2, EraseMoves DEF IsWarm, LeasesKept
    <2>3. QED
        BY <1>2, <2>1, <2>2
<1>3. CASE ReapIdle
    <2>1. Dead \cup Overdue \subseteq pool
        BY DEF Dead, Overdue, Idle
    <2>2. QED
        BY <1>1, <1>3, <2>1, EraseMoves DEF ReapIdle, LeasesKept
<1>4. CASE Shutdown
    BY <1>4, EraseMoves DEF Shutdown, LeasesKept
<1>5. ASSUME NEW t \in Tasks, Acts(t),
             ~ReleaseWorker(t), ~ReleaseReservation(t)
      PROVE  LeasesKept
    BY <1>1, <1>5, TaskMoves DEF LeasesKept
<1>6. CASE Tick \/ \E s \in Slots : WorkerAnswers(s) \/ WorkerExits(s)
    BY <1>1, <1>6, WorkerMoves DEF LeasesKept, Tick, WorkerAnswers, WorkerExits
<1>7. CASE RequestStop \/ Join \/ UNCHANGED vars
    <2>1. worker' = worker /\ pool' = pool
        BY <1>7 DEF RequestStop, Join, vars
    <2>2. worker' \in [Slots -> WorkerRows] /\ \A s \in Slots : SlotMove(s)
        BY <2>1 DEF SlotMove, PoolInv, PoolTypeOK
    <2>3. QED
        BY <1>1, <1>7, <2>1, <2>2 DEF RequestStop, Join, vars, LeasesKept
<1>8. QED
    BY <1>2, <1>3, <1>4, <1>5, <1>6, <1>7 DEF Next, Launch, Acts
-----------------------------------------------------------------------------
(***************************************************************************)
(* The number of requests that were sent or will be.                       *)
(***************************************************************************)
LEMMA StartingFinite ==
    IsFiniteSet(Starting) /\ IsFiniteSet(Starting')
    /\ Cardinality(Starting) \in Nat /\ Cardinality(Starting') \in Nat
<1>1. Starting \subseteq Tasks /\ Starting' \subseteq Tasks
    BY DEF Starting
<1>2. QED
    BY <1>1, PoolAssumption, FS_Subset, FS_CardinalityType

LEMMA CountKept ==
    ASSUME PoolInv, Starting' \subseteq Starting,
           \/ correlation' = correlation
           \/ correlation' = correlation + 1 /\ Starting' # Starting
    PROVE  /\ correlation' + Cardinality(Starting') <= MaxCorrelation + 1
           /\ correlation' \in 1 .. MaxCorrelation + 1
<1>1. /\ correlation + Cardinality(Starting) <= MaxCorrelation + 1
      /\ correlation \in 1 .. MaxCorrelation + 1
    BY DEF PoolInv, PoolTypeOK, Starting
<1>2. /\ Cardinality(Starting') <= Cardinality(Starting)
      /\ Starting' # Starting => Cardinality(Starting') < Cardinality(Starting)
    BY StartingFinite, FS_Subset
<1>3. QED
    BY <1>1, <1>2, StartingFinite, PoolAssumption

LEMMA KeptInv ==
    ASSUME PoolInv, LeasesKept
    PROVE  PoolInv'
<1>1. \A t \in Tasks : TaskMove(t)
    BY DEF LeasesKept, TaskActs, TaskMove
<1>2. task' \in [Tasks -> TaskRows]
    BY DEF LeasesKept, TaskActs, PoolInv, PoolTypeOK
<1>3. /\ correlation' + Cardinality(Starting') <= MaxCorrelation + 1
      /\ correlation' \in 1 .. MaxCorrelation + 1
    <2>1. Starting' \subseteq Starting
        BY <1>1 DEF Starting, TaskMove
    <2>2. ASSUME NEW t \in Tasks, TaskActs(t), task[t].pc = "start"
          PROVE  Starting' # Starting
        BY <2>2 DEF TaskActs, Starting
    <2>3. QED
        BY <2>1, <2>2, CountKept DEF LeasesKept
<1>4. PoolTypeOK'
    BY <1>2, <1>3 DEF LeasesKept, PoolInv, PoolTypeOK
<1>5. ASSUME NEW t \in Tasks
      PROVE  TaskWellFormed(t)'
    <2>1. task'[t] = task[t] \/ TaskActs(t)
        BY DEF LeasesKept, TaskActs
    <2>2. task'[t].pc \in {"start", "reply"} => task'[t].answer = 0
        BY <2>1 DEF TaskActs, PoolInv, TaskWellFormed
    <2>3. QED
        BY <1>1, <2>2 DEF TaskMove, PoolInv, TaskWellFormed
<1>6. ASSUME NEW s \in Slots
      PROVE  SlotWellFormed(s)'
    <2>1. Holders(s)' = Holders(s)
        BY <1>1 DEF Holders, TaskMove
    <2>2. SlotMove(s) /\ SlotWellFormed(s)
        BY DEF LeasesKept, PoolInv
    <2>3. QED
        BY <2>1, <2>2 DEF SlotMove, SlotWellFormed
<1>7. QED
    BY <1>3, <1>4, <1>5, <1>6 DEF PoolInv, Starting
-----------------------------------------------------------------------------
(***************************************************************************)
(* A launch: task t takes slot s, whose worker is idle or new; the slots   *)
(* in gone held dead idle workers.                                         *)
(***************************************************************************)
Launching(t, e, s, gone) ==
    /\ task[t].pc = "none" /\ MayLaunch
    /\ Reserve(EngineNeed[e]) /\ Launched(t, s, e)
    /\ gone \subseteq Idle \cap Dead /\ s \notin gone
    /\ ~worker[s].busy
    /\ worker' \in [Slots -> WorkerRows]
    /\ \A r \in Slots \ {s} : worker'[r] = IF r \in gone THEN NoWorker ELSE worker[r]
    /\ worker'[s].busy /\ worker'[s].child = "running" /\ worker'[s].open
    /\ pool' = (pool \ gone) \cup {s}
    /\ correlation' = correlation /\ mode' = AfterIteration
    /\ \/ s \in Idle /\ worker'[s] = [worker[s] EXCEPT !.busy = TRUE]
       \/ worker'[s] = Spawned(e)

LEMMA LaunchMoves ==
    ASSUME PoolInv, Launch
    PROVE  \E t \in Tasks, e \in Engines, s \in Slots, gone \in SUBSET Slots :
             Launching(t, e, s, gone)
<1>1. worker \in [Slots -> WorkerRows] /\ pool \subseteq Slots
    BY DEF PoolInv, PoolTypeOK
<1>2. PICK t \in Tasks, e \in Engines : AcquireWarm(t, e) \/ AcquireNew(t, e)
    BY DEF Launch
<1>3. CASE AcquireWarm(t, e)
    <2>1. PICK s \in IdleOf(e), gone \in SUBSET (Dead \cap Idle) :
            /\ worker' = [r \in Slots |-> IF r \in gone THEN NoWorker
                                          ELSE IF r = s THEN [worker[r] EXCEPT !.busy = TRUE]
                                          ELSE worker[r]]
            /\ pool' = pool \ gone
            /\ Launched(t, s, e)
        BY <1>3 DEF AcquireWarm, Passed
    <2>2. s \in pool /\ s \in Slots /\ s \notin gone /\ ~worker[s].busy /\ Alive(s) /\ s \in Idle
        BY <1>1 DEF IdleOf, Idle, Dead
    <2>3. gone \in SUBSET Slots
        BY <1>1 DEF Dead
    <2>4. worker' \in [Slots -> WorkerRows]
        BY <1>1, <2>1, NoWorkerType, WorkerTypes
    <2>5. /\ worker'[s] = [worker[s] EXCEPT !.busy = TRUE]
          /\ worker'[s].busy /\ worker'[s].child = "running" /\ worker'[s].open
        BY <1>1, <2>1, <2>2 DEF Alive, WorkerRows
    <2>6. \A r \in Slots \ {s} : worker'[r] = IF r \in gone THEN NoWorker ELSE worker[r]
        BY <2>1
    <2>7. pool' = (pool \ gone) \cup {s}
        BY <2>1, <2>2
    <2>8. Launching(t, e, s, gone)
        BY <1>3, <2>1, <2>2, <2>4, <2>5, <2>6, <2>7 DEF AcquireWarm, Launching
    <2>9. QED
        BY <2>2, <2>3, <2>8
<1>4. CASE AcquireNew(t, e)
    <2>1. PICK s \in Free, gone \in SUBSET (Dead \cap Idle) :
            /\ worker' = [r \in Slots |-> IF r \in gone THEN NoWorker
                                          ELSE IF r = s THEN Spawned(e)
                                          ELSE worker[r]]
            /\ pool' = (pool \ gone) \cup {s}
            /\ Launched(t, s, e)
        BY <1>4 DEF AcquireNew, Passed
    <2>2. s \in Slots /\ worker[s].child = "none"
        BY DEF Free
    <2>3. s \notin pool /\ ~worker[s].busy
        BY <2>2 DEF PoolInv, SlotWellFormed
    <2>4. gone \in SUBSET Slots /\ s \notin gone
        BY <1>1, <2>3 DEF Dead
    <2>5. worker' \in [Slots -> WorkerRows]
        BY <1>1, <2>1, NoWorkerType, SpawnedType
    <2>6. worker'[s] = Spawned(e)
        BY <2>1, <2>2, <2>4
    <2>7. Spawned(e).busy /\ Spawned(e).child = "running" /\ Spawned(e).open
        BY DEF Spawned, NoWorker
    <2>8. \A r \in Slots \ {s} : worker'[r] = IF r \in gone THEN NoWorker ELSE worker[r]
        BY <2>1
    <2>9. Launching(t, e, s, gone)
        BY <1>4, <2>1, <2>3, <2>4, <2>5, <2>6, <2>7, <2>8 DEF AcquireNew, Launching
    <2>10. QED
        BY <2>2, <2>4, <2>9
<1>5. QED
    BY <1>2, <1>3, <1>4

LEMMA LaunchedRow ==
    ASSUME PoolInv, NEW t \in Tasks, NEW e \in Engines, NEW s \in Slots, Launched(t, s, e)
    PROVE  /\ task' \in [Tasks -> TaskRows]
           /\ \A u \in Tasks \ {t} : task'[u] = task[u]
           /\ task'[t].pc = "start" /\ task'[t].slot = s /\ task'[t].engine = e
           /\ task'[t].holds = {"worker", "reservation"} /\ task'[t].answer = 0
           /\ task'[t].correlation = 0
<1> DEFINE row == [NoTask EXCEPT !.pc = "start", !.slot = s, !.engine = e,
                                !.holds = {"worker", "reservation"}]
<1>1. task \in [Tasks -> TaskRows] /\ task' = [task EXCEPT ![t] = row]
    BY DEF PoolInv, PoolTypeOK, Launched
<1>2. /\ row \in TaskRows /\ row.pc = "start" /\ row.slot = s /\ row.engine = e
      /\ row.holds = {"worker", "reservation"} /\ row.answer = 0 /\ row.correlation = 0
    <2>1. 0 \in 0 .. MaxCorrelation
        BY PoolAssumption
    <2>2. QED
        BY <2>1 DEF NoTask, TaskRows, TaskPcs
<1> HIDE DEF row
<1>3. QED
    BY <1>1, <1>2

LEMMA ReserveType ==
    ASSUME PoolInv, NEW e \in Engines, Reserve(EngineNeed[e]) \/ Release(EngineNeed[e])
    PROVE  used' \in [ResourceKinds -> Int]
<1>1. EngineNeed[e] \in [ResourceKinds -> Nat] /\ used \in [ResourceKinds -> Int]
    BY PoolAssumption DEF Requirements, PoolInv, PoolTypeOK
<1>2. QED
    BY <1>1 DEF Reserve, Release

LEMMA LaunchInv ==
    ASSUME PoolInv, NEW t \in Tasks, NEW e \in Engines, NEW s \in Slots,
           NEW gone \in SUBSET Slots, Launching(t, e, s, gone)
    PROVE  PoolInv'
<1>1. /\ task' \in [Tasks -> TaskRows]
      /\ \A u \in Tasks \ {t} : task'[u] = task[u]
      /\ task'[t].pc = "start" /\ task'[t].slot = s /\ task'[t].engine = e
      /\ task'[t].holds = {"worker", "reservation"} /\ task'[t].answer = 0
    BY LaunchedRow DEF Launching
<1>2. task[t].pc = "none" /\ task[t].holds = {}
    BY DEF Launching, PoolInv, TaskWellFormed
<1>3. correlation' + Cardinality(Starting') <= MaxCorrelation + 1
    <2>1. Starting' = Starting \cup {t} /\ t \notin Starting
        BY <1>1, <1>2 DEF Starting
    <2>2. Cardinality(Starting') = Cardinality(Starting) + 1
        BY <2>1, StartingFinite, FS_AddElement
    <2>3. correlation + Cardinality(Starting) <= MaxCorrelation /\ correlation' = correlation
        BY DEF Launching, MayLaunch, Starting
    <2>4. correlation \in Int
        BY DEF PoolInv, PoolTypeOK
    <2>5. QED
        BY <2>2, <2>3, <2>4, StartingFinite, PoolAssumption
<1>4. PoolTypeOK'
    <2>1. used' \in [ResourceKinds -> Int]
        BY ReserveType DEF Launching
    <2>2. mode' \in {"running", "stopping", "joined", "down"}
        BY DEF Launching, AfterIteration, PoolInv, PoolTypeOK
    <2>3. QED
        BY <1>1, <2>1, <2>2 DEF Launching, PoolInv, PoolTypeOK
<1>5. ASSUME NEW u \in Tasks
      PROVE  TaskWellFormed(u)'
    <2>1. CASE u = t
        BY <1>1, <2>1 DEF TaskWellFormed
    <2>2. CASE u # t
        BY <1>1, <2>2 DEF TaskWellFormed, PoolInv
    <2>3. QED
        BY <2>1, <2>2
<1>6. ASSUME NEW r \in Slots
      PROVE  SlotWellFormed(r)'
    <2>1. SlotWellFormed(r)
        BY DEF PoolInv
    <2>2. CASE r = s
        <3>1. Holders(s) = {}
            BY <2>1, <2>2 DEF Launching, SlotWellFormed
        <3>2. Holders(s)' = {t}
            BY <1>1, <3>1 DEF Holders
        <3>3. QED
            BY <2>2, <3>2 DEF SlotWellFormed, Launching
    <2>3. CASE r # s
        <3>1. Holders(r)' = Holders(r)
            BY <1>1, <1>2, <2>3 DEF Holders
        <3>2. CASE r \notin gone
            <4>1. worker'[r] = worker[r] /\ (r \in pool' <=> r \in pool)
                BY <2>3, <3>2 DEF Launching
            <4>2. QED
                BY <2>1, <3>1, <4>1 DEF SlotWellFormed
        <3>3. CASE r \in gone
            <4>1. worker'[r] = NoWorker /\ ~worker[r].busy /\ r \notin pool'
                BY <2>3, <3>3 DEF Launching, Idle
            <4>2. ~NoWorker.busy /\ NoWorker.child = "none"
                BY DEF NoWorker
            <4>3. QED
                BY <2>1, <3>1, <4>1, <4>2 DEF SlotWellFormed
        <3>4. QED
            BY <3>2, <3>3
    <2>4. QED
        BY <2>2, <2>3
<1>7. QED
    BY <1>3, <1>4, <1>5, <1>6 DEF PoolInv, Starting
-----------------------------------------------------------------------------
(***************************************************************************)
(* A task gives back one of its leases.                                    *)
(***************************************************************************)
LEMMA GiveBackRow ==
    ASSUME PoolInv, NEW t \in Tasks, NEW lease \in {"worker", "reservation"}, GiveBack(t, lease)
    PROVE  /\ task' \in [Tasks -> TaskRows]
           /\ \A u \in Tasks \ {t} : task'[u] = task[u]
           /\ task[t].pc = "release" /\ lease \in task[t].holds
           /\ task[t].slot \in Slots /\ task[t].engine \in Engines
           /\ task'[t].holds = task[t].holds \ {lease}
           /\ \/ task'[t] = NoTask
              \/ /\ task'[t].pc = "release" /\ task'[t].slot = task[t].slot
                 /\ task'[t].engine = task[t].engine
                 /\ task'[t].answer = task[t].answer
                 /\ task'[t].correlation = task[t].correlation
<1> DEFINE row == IF task[t].holds = {lease} THEN NoTask
                  ELSE [task[t] EXCEPT !.holds = task[t].holds \ {lease}]
<1>1. /\ task \in [Tasks -> TaskRows] /\ task' = [task EXCEPT ![t] = row]
      /\ task[t].pc = "release" /\ lease \in task[t].holds
    <2>1. task \in [Tasks -> TaskRows]
        BY DEF PoolInv, PoolTypeOK
    <2>2. task' = [task EXCEPT ![t] = row]
        BY Zenon DEF GiveBack
    <2>3. task[t].pc = "release" /\ lease \in task[t].holds
        BY DEF GiveBack, At
    <2>4. QED
        BY <2>1, <2>2, <2>3
<1>2. task[t].slot \in Slots /\ task[t].engine \in Engines
    BY <1>1 DEF PoolInv, TaskWellFormed
<1>3. /\ row \in TaskRows /\ row.holds = task[t].holds \ {lease}
      /\ \/ row = NoTask
         \/ /\ row.pc = task[t].pc /\ row.slot = task[t].slot /\ row.engine = task[t].engine
            /\ row.answer = task[t].answer /\ row.correlation = task[t].correlation
    <2>1. task[t] \in TaskRows
        BY <1>1
    <2>2. CASE task[t].holds = {lease}
        <3>1. row = NoTask /\ NoTask.holds = {} /\ task[t].holds \ {lease} = {}
            BY <2>2 DEF NoTask
        <3>2. QED
            BY <3>1, NoTaskType
    <2>3. CASE task[t].holds # {lease}
        <3>1. row = [task[t] EXCEPT !.holds = task[t].holds \ {lease}]
            BY <2>3
        <3>2. task[t].holds \ {lease} \in SUBSET {"worker", "reservation"}
            BY <2>1 DEF TaskRows
        <3> HIDE DEF row
        <3>3. QED
            BY <2>1, <3>1, <3>2 DEF TaskRows
    <2>4. QED
        BY <2>2, <2>3
<1> HIDE DEF row
<1>4. /\ task' \in [Tasks -> TaskRows] /\ task'[t] = row
      /\ \A u \in Tasks \ {t} : task'[u] = task[u]
    BY <1>1, <1>3
<1>5. QED
    BY <1>1, <1>2, <1>3, <1>4

LEMMA GiveBackInv ==
    ASSUME PoolInv, NEW t \in Tasks, NEW lease \in {"worker", "reservation"},
           GiveBack(t, lease), correlation' = correlation
    PROVE  /\ \A u \in Tasks : TaskWellFormed(u)'
           /\ correlation' + Cardinality(Starting') <= MaxCorrelation + 1
<1>1. NoTask.pc = "none" /\ NoTask.holds = {}
    BY DEF NoTask
<1>2. ASSUME NEW u \in Tasks
      PROVE  TaskWellFormed(u)'
    <2>1. CASE u = t
        BY <1>1, <2>1, GiveBackRow DEF TaskWellFormed
    <2>2. CASE u # t
        <3>1. task'[u] = task[u]
            BY <2>2, GiveBackRow
        <3>2. QED
            BY <3>1 DEF TaskWellFormed, PoolInv
    <2>3. QED
        BY <2>1, <2>2
<1>3. Starting' = Starting
    <2>1. task[t].pc # "start" /\ task'[t].pc # "start"
        BY <1>1, GiveBackRow
    <2>2. QED
        BY <2>1, GiveBackRow DEF Starting
<1>4. QED
    BY <1>2, <1>3, CountKept

LEMMA ReleaseReservationInv ==
    ASSUME PoolInv, NEW t \in Tasks, ReleaseReservation(t)
    PROVE  PoolInv'
<1>1. /\ GiveBack(t, "reservation") /\ Release(EngineNeed[task[t].engine])
      /\ worker' = worker /\ pool' = pool /\ correlation' = correlation /\ mode' = mode
    BY DEF ReleaseReservation
<1>2. PoolTypeOK'
    BY <1>1, GiveBackRow, ReserveType DEF PoolInv, PoolTypeOK
<1>3. NoTask.holds = {}
    BY DEF NoTask
<1>4. ASSUME NEW s \in Slots
      PROVE  SlotWellFormed(s)'
    <2>1. ASSUME NEW u \in Tasks
          PROVE  /\ "worker" \in task'[u].holds <=> "worker" \in task[u].holds
                 /\ "worker" \in task[u].holds => task'[u].slot = task[u].slot
        <3>1. CASE u = t
            BY <1>1, <1>3, <3>1, GiveBackRow
        <3>2. CASE u # t
            BY <1>1, <3>2, GiveBackRow
        <3>3. QED
            BY <3>1, <3>2
    <2>2. Holders(s)' = Holders(s)
        BY <2>1 DEF Holders
    <2>3. QED
        BY <1>1, <2>2 DEF SlotWellFormed, PoolInv
<1>5. QED
    BY <1>1, <1>2, <1>4, GiveBackInv DEF PoolInv, Starting

LEMMA ReleaseWorkerInv ==
    ASSUME PoolInv, NEW t \in Tasks, ReleaseWorker(t)
    PROVE  PoolInv'
<1>0. GiveBack(t, "worker") /\ task[t].slot \in Slots
    BY GiveBackRow DEF ReleaseWorker
<1> PICK s \in Slots : s = task[t].slot
    BY <1>0
<1>1. /\ GiveBack(t, "worker") /\ worker' = [worker EXCEPT ![s] = Returned(t)]
      /\ used' = used /\ correlation' = correlation /\ mode' = mode
      /\ pool' = IF Alive(s) THEN pool ELSE pool \ {s}
    BY DEF ReleaseWorker, SetIts
<1>2. s \in Slots /\ worker \in [Slots -> WorkerRows]
    BY <1>1, GiveBackRow DEF PoolInv, PoolTypeOK
<1>3. Returned(t) \in WorkerRows
    BY <1>2, NoWorkerType, WorkerTypes DEF Returned, Its
<1>4. worker' \in [Slots -> WorkerRows] /\ worker'[s] = Returned(t)
      /\ \A r \in Slots \ {s} : worker'[r] = worker[r]
    BY <1>1, <1>2, <1>3
<1>5. PoolTypeOK'
    BY <1>1, <1>4, GiveBackRow DEF PoolInv, PoolTypeOK
<1>6. t \in Holders(s) /\ Holders(s) = {t}
    <2>1. t \in Holders(s) /\ SlotWellFormed(s)
        BY <1>1, <1>2, GiveBackRow DEF Holders, PoolInv
    <2>2. QED
        BY <2>1 DEF SlotWellFormed
<1>7. ASSUME NEW r \in Slots
      PROVE  SlotWellFormed(r)'
    <2>1. SlotWellFormed(r) /\ "worker" \notin task'[t].holds
        BY <1>1, GiveBackRow DEF PoolInv
    <2>2. CASE r = s
        <3>1. Holders(s)' = {}
            <4>1. ASSUME NEW u \in Tasks PROVE u \notin Holders(s)'
                <5>1. CASE u = t
                    BY <2>1, <5>1 DEF Holders
                <5>2. CASE u # t
                    <6>1. task'[u] = task[u] /\ u \notin Holders(s)
                        BY <1>1, <1>6, <5>2, GiveBackRow, Zenon
                    <6>2. QED
                        BY <6>1 DEF Holders
                <5>3. QED
                    BY <5>1, <5>2
            <4>2. QED
                BY <4>1 DEF Holders
        <3>2. CASE Alive(s)
            <4>1. /\ ~worker'[s].busy /\ worker'[s].child = worker[s].child
                  /\ worker'[s].open = worker[s].open /\ pool' = pool
                <5>1. worker'[s] = [worker[s] EXCEPT !.busy = FALSE, !.age = 0] /\ pool' = pool
                    BY <1>1, <1>4, <3>2 DEF Returned, Its
                <5>2. worker[s] \in WorkerRows
                    BY <1>2
                <5>3. QED
                    BY <5>1, <5>2 DEF WorkerRows
            <4>2. QED
                BY <2>1, <2>2, <3>1, <4>1 DEF SlotWellFormed
        <3>3. CASE ~Alive(s)
            <4>1. worker'[s] = NoWorker /\ s \notin pool'
                BY <1>1, <1>4, <3>3 DEF Returned
            <4>2. ~NoWorker.busy /\ NoWorker.child = "none"
                BY DEF NoWorker
            <4>3. QED
                BY <2>2, <3>1, <4>1, <4>2 DEF SlotWellFormed
        <3>4. QED
            BY <3>2, <3>3
    <2>3. CASE r # s
        <3>1. /\ worker'[r] = worker[r] /\ (r \in pool' <=> r \in pool)
            BY <1>1, <1>4, <2>3
        <3>2. Holders(r)' = Holders(r)
            <4>1. t \notin Holders(r) /\ t \notin Holders(r)'
                BY <2>1, <2>3 DEF Holders
            <4>2. \A u \in Tasks \ {t} : task'[u] = task[u]
                BY <1>1, GiveBackRow
            <4>3. QED
                BY <4>1, <4>2 DEF Holders
        <3>3. QED
            BY <2>1, <3>1, <3>2 DEF SlotWellFormed
    <2>4. QED
        BY <2>2, <2>3
<1>8. QED
    BY <1>1, <1>5, <1>7, GiveBackInv DEF PoolInv, Starting

(***************************************************************************)
(* The inductive invariant of the pool.                                    *)
(***************************************************************************)
LEMMA InitPool == Init => PoolInv
<1> SUFFICES ASSUME Init PROVE PoolInv
    OBVIOUS
<1>1. PoolTypeOK
    BY NoWorkerType, NoTaskType, PoolAssumption DEF Init, PoolTypeOK, NothingUsed
<1>2. NoTask.pc = "none" /\ NoTask.holds = {} /\ ~NoWorker.busy /\ NoWorker.child = "none"
    BY DEF NoTask, NoWorker
<1>3. \A t \in Tasks : TaskWellFormed(t)
    BY <1>2 DEF Init, TaskWellFormed
<1>4. \A s \in Slots : SlotWellFormed(s)
    BY <1>2 DEF Init, SlotWellFormed, Holders
<1>5. Cardinality({t \in Tasks : task[t].pc = "start"}) = 0
    <2>1. {t \in Tasks : task[t].pc = "start"} = {}
        BY <1>2 DEF Init
    <2>2. QED
        BY <2>1, FS_EmptySet
<1>6. QED
    BY <1>1, <1>3, <1>4, <1>5, PoolAssumption DEF PoolInv, Init

LEMMA NextPool == PoolInv /\ [Next]_vars => PoolInv'
<1> SUFFICES ASSUME PoolInv, [Next]_vars PROVE PoolInv'
    OBVIOUS
<1>1. CASE Launch
    BY <1>1, LaunchMoves, LaunchInv
<1>2. QED
    BY <1>1, StepMoves, KeptInv, ReleaseWorkerInv, ReleaseReservationInv

(***************************************************************************)
(* The strengthening behind the leases: a task holds both until its        *)
(* exchange is over, a busy worker is that of exactly one task, and a      *)
(* child that runs is one the pool still knows.                            *)
(***************************************************************************)
THEOREM PoolSafety == Spec => []PoolInv
BY InitPool, NextPool, PTL DEF Spec

(***************************************************************************)
(* Whatever reap_idle, is_warm, acquire and shutdown erase meanwhile, a    *)
(* worker belongs to one task at a time and is busy exactly as long.       *)
(***************************************************************************)
THEOREM LeasesExclusiveCorrect == Spec => []LeasesExclusive
<1>1. PoolInv => LeasesExclusive
    <2> SUFFICES ASSUME PoolInv, NEW s \in Slots
                 PROVE  /\ Cardinality(Holders(s)) <= 1
                        /\ Holders(s) # {} <=> worker[s].busy
                        /\ worker[s].child = "running" => s \in pool
        BY DEF LeasesExclusive, PoolInv
    <2>1. SlotWellFormed(s)
        BY DEF PoolInv
    <2>2. CASE Holders(s) = {}
        BY <2>1, <2>2, FS_EmptySet DEF SlotWellFormed
    <2>3. CASE Holders(s) # {}
        <3>1. PICK t : Holders(s) = {t}
            BY <2>1, <2>3 DEF SlotWellFormed
        <3>2. Cardinality(Holders(s)) = 1
            BY <3>1, FS_Singleton
        <3>3. QED
            BY <2>1, <3>2 DEF SlotWellFormed
    <2>4. QED
        BY <2>2, <2>3
<1>2. QED
    BY <1>1, PoolSafety, PTL

LEMMA NextOwnReply ==
    ASSUME PoolInv, OwnReply, [Next]_vars
    PROVE  OwnReply'
<1> SUFFICES ASSUME NEW u \in Tasks
             PROVE  task'[u].answer \in {0, task'[u].correlation}
    BY DEF OwnReply
<1>1. CASE task'[u] = task[u]
    BY <1>1 DEF OwnReply
<1>2. CASE LeasesKept
    <2>1. ASSUME NEW t \in Tasks, TaskActs(t), u = t
          PROVE  task'[u].answer \in {0, task'[u].correlation}
        BY <2>1 DEF TaskActs, AnswerMove, OwnReply, PoolInv, TaskWellFormed
    <2>2. QED
        BY <1>1, <1>2, <2>1 DEF LeasesKept, TaskActs
<1>3. CASE Launch
    <2>1. PICK t \in Tasks, e \in Engines, s \in Slots : Launched(t, s, e)
        BY <1>3, LaunchMoves DEF Launching
    <2>2. u # t => task'[u] = task[u]
        BY <2>1, LaunchedRow
    <2>3. task'[t].answer = 0
        BY <2>1, LaunchedRow
    <2>4. QED
        BY <1>1, <2>2, <2>3
<1>4. ASSUME NEW t \in Tasks, ReleaseWorker(t) \/ ReleaseReservation(t)
      PROVE  task'[u].answer \in {0, task'[u].correlation}
    <2>1. PICK lease \in {"worker", "reservation"} : GiveBack(t, lease)
        BY <1>4 DEF ReleaseWorker, ReleaseReservation
    <2>2. u # t => task'[u] = task[u]
        BY <2>1, GiveBackRow
    <2>3. NoTask.answer = 0
        BY DEF NoTask
    <2>4. u = t => task'[u].answer \in {0, task'[u].correlation}
        BY <2>1, <2>3, GiveBackRow DEF OwnReply
    <2>5. QED
        BY <1>1, <2>2, <2>4
<1>5. QED
    BY <1>2, <1>3, <1>4, StepMoves

(***************************************************************************)
(* A result is the answer to the request of its own attempt, however often *)
(* a worker answers.                                                       *)
(***************************************************************************)
THEOREM OwnReplyCorrect == Spec => []OwnReply
<1>1. Init => OwnReply
    <2>1. NoTask.answer = 0
        BY DEF NoTask
    <2>2. QED
        BY <2>1 DEF Init, OwnReply
<1>2. PoolInv /\ OwnReply /\ [Next]_vars => OwnReply'
    BY NextOwnReply
<1>3. QED
    BY <1>1, <1>2, PoolSafety, PTL DEF Spec
-----------------------------------------------------------------------------
(***************************************************************************)
(* Reservations: the counters are the needs of the tasks that hold one.    *)
(***************************************************************************)
LEMMA ReservedNeeds ==
    PoolInv => /\ IsFiniteSet(Reserved)
               /\ \A t \in Reserved : task[t].engine \in Engines
               /\ \A k \in ResourceKinds : /\ \A t \in Reserved : TaskNeed(k)[t] \in Nat
                                          /\ Summable(TaskNeed(k), Reserved)
<1> SUFFICES ASSUME PoolInv
             PROVE  /\ IsFiniteSet(Reserved)
                    /\ \A t \in Reserved : task[t].engine \in Engines
                    /\ \A k \in ResourceKinds :
                         /\ \A t \in Reserved : TaskNeed(k)[t] \in Nat
                         /\ Summable(TaskNeed(k), Reserved)
    OBVIOUS
<1>1. IsFiniteSet(Reserved)
    BY PoolAssumption, FS_Subset DEF Reserved
<1>2. \A t \in Reserved : task[t].engine \in Engines
    BY DEF Reserved, PoolInv, TaskWellFormed
<1>3. ASSUME NEW k \in ResourceKinds, NEW t \in Reserved
      PROVE  TaskNeed(k)[t] \in Nat
    <2>1. EngineNeed[task[t].engine] \in [ResourceKinds -> Nat]
        BY <1>2, PoolAssumption DEF Requirements
    <2>2. QED
        BY <2>1 DEF TaskNeed
<1>4. QED
    BY <1>1, <1>2, <1>3 DEF Summable

LEMMA ReservedNeedsNext ==
    PoolInv' => (\A k \in ResourceKinds : Summable(TaskNeed(k), Reserved))'
<1>1. PoolInv => \A k \in ResourceKinds : Summable(TaskNeed(k), Reserved)
    BY ReservedNeeds
<1>2. QED
    BY <1>1, PTL

\* The sum over tasks that keep their reservation and their engine.
LEMMA ReservedSumKept ==
    ASSUME PoolInv, NEW k \in ResourceKinds, NEW S, S \subseteq Reserved, S \subseteq Reserved',
           \A t \in S : task'[t].engine = task[t].engine
    PROVE  /\ SumFunctionOnSet(TaskNeed(k)', S) = SumFunctionOnSet(TaskNeed(k), S)
           /\ SumFunctionOnSet(TaskNeed(k), S) \in Int
<1>1. Summable(TaskNeed(k), S)
    BY ReservedNeeds, SummableSubset
<1>2. ASSUME NEW t \in S PROVE TaskNeed(k)[t] = TaskNeed(k)'[t]
    <2>1. t \in Reserved /\ t \in Reserved' /\ task'[t].engine = task[t].engine
        OBVIOUS
    <2>2. QED
        BY <2>1 DEF TaskNeed
<1>3. QED
    BY <1>1, <1>2, SumSame, SumType

LEMMA NextReservations ==
    ASSUME PoolInv, PoolInv', ReservationsConserved, [Next]_vars
    PROVE  ReservationsConserved'
<1> SUFFICES ASSUME NEW k \in ResourceKinds
             PROVE  /\ used'[k] = SumFunctionOnSet(TaskNeed(k)', Reserved')
                    /\ used'[k] <= Capacity[k]
    BY DEF ReservationsConserved
<1> DEFINE Sum(S) == SumFunctionOnSet(TaskNeed(k), S)
           SumNext(S) == SumFunctionOnSet(TaskNeed(k)', S)
<1>1. /\ used[k] = Sum(Reserved) /\ used[k] <= Capacity[k]
      /\ used[k] \in Int /\ Capacity[k] \in Int
    BY CapacityAssumption DEF ReservationsConserved, PoolInv, PoolTypeOK
<1>2. Summable(TaskNeed(k), Reserved) /\ Summable(TaskNeed(k)', Reserved')
    BY ReservedNeeds, ReservedNeedsNext
<1>3. \A e \in Engines : EngineNeed[e][k] \in Nat
    BY PoolAssumption DEF Requirements
<1>4. ASSUME Reserved' = Reserved, \A t \in Reserved : task'[t].engine = task[t].engine,
             used' = used
      PROVE  used'[k] = SumNext(Reserved') /\ used'[k] <= Capacity[k]
    BY <1>1, <1>4, ReservedSumKept
<1>5. CASE LeasesKept
    <2>1. \A t \in Tasks : TaskMove(t)
        BY <1>5 DEF LeasesKept, TaskActs, TaskMove
    <2>2. Reserved' = Reserved /\ \A t \in Reserved : task'[t].engine = task[t].engine
        BY <2>1 DEF Reserved, TaskMove
    <2>3. QED
        BY <1>4, <1>5, <2>2 DEF LeasesKept
<1>6. CASE Launch
    <2>1. PICK t \in Tasks, e \in Engines, s \in Slots :
            /\ task[t].pc = "none" /\ Reserve(EngineNeed[e]) /\ Launched(t, s, e)
        BY <1>6, LaunchMoves DEF Launching
    <2>2. /\ \A u \in Tasks \ {t} : task'[u] = task[u]
          /\ task'[t].engine = e /\ task'[t].holds = {"worker", "reservation"}
        BY <2>1, LaunchedRow
    <2>3. task[t].holds = {}
        BY <2>1 DEF PoolInv, TaskWellFormed
    <2>4. t \notin Reserved /\ Reserved' = Reserved \cup {t}
        BY <2>2, <2>3 DEF Reserved
    <2>5. SumNext(Reserved') = TaskNeed(k)'[t] + SumNext(Reserved)
        BY <1>2, <2>4, SumAdd
    <2>6. SumNext(Reserved) = Sum(Reserved)
        <3>1. \A u \in Reserved : task'[u].engine = task[u].engine
            BY <2>2, <2>4 DEF Reserved
        <3>2. QED
            BY <2>4, <3>1, ReservedSumKept
    <2>7. TaskNeed(k)'[t] = EngineNeed[e][k]
        BY <2>2, <2>4 DEF TaskNeed
    <2>8. used'[k] = used[k] + EngineNeed[e][k] /\ EngineNeed[e][k] <= Capacity[k] - used[k]
        BY <2>1 DEF Reserve, Fits
    <2>9. QED
        BY <1>1, <1>3, <2>5, <2>6, <2>7, <2>8
<1>7. ASSUME NEW t \in Tasks, ReleaseWorker(t)
      PROVE  used'[k] = SumNext(Reserved') /\ used'[k] <= Capacity[k]
    <2>1. GiveBack(t, "worker") /\ used' = used
        BY <1>7 DEF ReleaseWorker
    <2>2. NoTask.holds = {}
        BY DEF NoTask
    <2>3. ASSUME NEW u \in Tasks
          PROVE  /\ u \in Reserved' <=> u \in Reserved
                 /\ u \in Reserved => task'[u].engine = task[u].engine
        <3>1. CASE u = t
            BY <2>1, <2>2, <3>1, GiveBackRow DEF Reserved
        <3>2. CASE u # t
            <4>1. task'[u] = task[u]
                BY <2>1, <3>2, GiveBackRow
            <4>2. QED
                BY <4>1 DEF Reserved
        <3>3. QED
            BY <3>1, <3>2
    <2>4. Reserved' = Reserved /\ \A u \in Reserved : task'[u].engine = task[u].engine
        BY <2>3 DEF Reserved
    <2>5. QED
        BY <1>4, <2>1, <2>4
<1>8. ASSUME NEW t \in Tasks, ReleaseReservation(t)
      PROVE  used'[k] = SumNext(Reserved') /\ used'[k] <= Capacity[k]
    <2>1. /\ GiveBack(t, "reservation")
          /\ used'[k] = used[k] - EngineNeed[task[t].engine][k]
        BY <1>8 DEF ReleaseReservation, Release
    <2>2. t \in Reserved /\ t \notin Reserved' /\ task[t].engine \in Engines
        BY <2>1, GiveBackRow DEF Reserved
    <2>3. \A u \in Tasks \ {t} : task'[u] = task[u]
        BY <2>1, GiveBackRow
    <2>4. Reserved' = Reserved \ {t}
        <3>1. \A u \in Tasks \ {t} : u \in Reserved' <=> u \in Reserved
            BY <2>3 DEF Reserved
        <3>2. QED
            BY <2>2, <3>1 DEF Reserved
    <2>5. Sum(Reserved) = TaskNeed(k)[t] + Sum(Reserved \ {t})
        BY <1>2, <2>2, SumRemove
    <2>6. SumNext(Reserved') = Sum(Reserved \ {t}) /\ Sum(Reserved \ {t}) \in Int
        <3>1. \A u \in Reserved \ {t} : task'[u].engine = task[u].engine
            BY <2>3 DEF Reserved
        <3>2. QED
            BY <2>4, <3>1, ReservedSumKept
    <2>7. TaskNeed(k)[t] = EngineNeed[task[t].engine][k] /\ TaskNeed(k)[t] \in Nat
        BY <1>3, <2>2 DEF TaskNeed
    <2>8. QED
        BY <1>1, <2>1, <2>5, <2>6, <2>7
<1>9. QED
    BY <1>5, <1>6, <1>7, <1>8, StepMoves

(***************************************************************************)
(* The counters of ResourceManager are the sum of what the tasks hold, in  *)
(* whatever order the leases of a task are destroyed: no path out of an    *)
(* attempt keeps a reservation or returns it twice.                        *)
(***************************************************************************)
THEOREM ReservationSafety == Spec => []ReservationsConserved
<1>1. Init => ReservationsConserved
    <2> SUFFICES ASSUME Init, NEW k \in ResourceKinds
                 PROVE  /\ used[k] = SumFunctionOnSet(TaskNeed(k), Reserved)
                        /\ used[k] <= Capacity[k]
        BY DEF ReservationsConserved
    <2>1. Reserved = {}
        BY DEF Init, Reserved, NoTask
    <2>2. SumFunctionOnSet(TaskNeed(k), Reserved) = 0
        BY <2>1, SumEmpty
    <2>3. QED
        BY <2>2, CapacityAssumption DEF Init, NothingUsed
<1>2. PoolInv /\ PoolInv' /\ ReservationsConserved /\ [Next]_vars => ReservationsConserved'
    BY NextReservations
<1>3. QED
    BY <1>1, <1>2, PoolSafety, PTL DEF Spec

(***************************************************************************)
(* The attempts that run a worker fit the capacity together: an attempt    *)
(* keeps its reservation until its exchange is over.                       *)
(***************************************************************************)
THEOREM ExecutingFitsCorrect == Spec => []ExecutingFits
<1>1. PoolInv /\ ReservationsConserved => ExecutingFits
    <2> SUFFICES ASSUME PoolInv, ReservationsConserved, NEW k \in ResourceKinds
                 PROVE  SumFunctionOnSet(TaskNeed(k), Executing) <= Capacity[k]
        BY DEF ExecutingFits
    <2>1. Executing \in SUBSET Reserved
        BY DEF Executing, Reserved, PoolInv, TaskWellFormed
    <2>2. SumFunctionOnSet(TaskNeed(k), Executing) <= SumFunctionOnSet(TaskNeed(k), Reserved)
        BY <2>1, ReservedNeeds, SumPart
    <2>3. /\ Summable(TaskNeed(k), Reserved) /\ Summable(TaskNeed(k), Executing)
        BY <2>1, ReservedNeeds, SummableSubset
    <2>4. /\ SumFunctionOnSet(TaskNeed(k), Reserved) \in Int
          /\ SumFunctionOnSet(TaskNeed(k), Executing) \in Int
        BY <2>3, SumType
    <2>5. /\ SumFunctionOnSet(TaskNeed(k), Reserved) <= Capacity[k]
          /\ Capacity[k] \in Int
        BY CapacityAssumption DEF ReservationsConserved
    <2>6. QED
        BY <2>2, <2>4, <2>5
<1>2. QED
    BY <1>1, PoolSafety, ReservationSafety, PTL
-----------------------------------------------------------------------------
(***************************************************************************)
(* What is left in the pipes of a worker that answers once.                *)
(***************************************************************************)
Ids == 0 .. MaxCorrelation

LEMMA BelowMore ==
    ASSUME NEW q \in Seq(Ids), NEW n \in Int, NEW m \in Int, n <= m, Below(q, n)
    PROVE  Below(q, m)
<1>1. ASSUME NEW i \in DOMAIN q PROVE q[i] < m
    <2>1. q[i] \in Ids /\ q[i] < n
        BY LenProperties DEF Below
    <2>2. QED
        BY <2>1, PoolAssumption DEF Ids
<1>2. QED
    BY <1>1 DEF Below

LEMMA GrownIds ==
    ASSUME NEW q \in Seq(Ids), NEW c \in Ids
    PROVE  /\ Append(q, c) \in Seq(Ids) /\ Append(q, c) # <<>>
           /\ q # <<>> => Append(q, c)[1] = q[1]
           /\ q = <<>> => Append(q, c) = <<c>>
           /\ q \o <<c>> = Append(q, c)
           /\ \A n \in Int : Below(q, n) /\ c < n => Below(Append(q, c), n)
<1>1. /\ Len(q) \in Nat /\ DOMAIN q = 1 .. Len(q)
      /\ Append(q, c) \in Seq(Ids) /\ Append(q, c) # <<>>
      /\ Len(Append(q, c)) = Len(q) + 1
      /\ \A i \in 1 .. Len(q) : Append(q, c)[i] = q[i]
      /\ Append(q, c)[Len(q) + 1] = c
    BY LenProperties, AppendProperties
<1>2. DOMAIN Append(q, c) = 1 .. Len(q) + 1
    BY <1>1, LenProperties
<1>3. ASSUME q # <<>> PROVE Append(q, c)[1] = q[1]
    <2>1. Len(q) \in Nat \ {0}
        BY <1>3, EmptySeq
    <2>2. QED
        BY <1>1, <2>1
<1>4. q = <<>> => Append(q, c) = <<c>>
    OBVIOUS
<1>5. q \o <<c>> = Append(q, c)
    BY AppendIsConcat
<1>6. ASSUME NEW n \in Int, Below(q, n), c < n PROVE Below(Append(q, c), n)
    <2>1. ASSUME NEW i \in 1 .. Len(q) + 1 PROVE Append(q, c)[i] < n
        <3>1. CASE i = Len(q) + 1
            BY <1>1, <1>6, <3>1
        <3>2. CASE i \in 1 .. Len(q)
            BY <1>1, <1>6, <3>2 DEF Below
        <3>3. QED
            BY <1>1, <3>1, <3>2
    <2>2. QED
        BY <1>2, <2>1 DEF Below
<1>7. QED
    BY <1>1, <1>3, <1>4, <1>5, <1>6

LEMMA TakenIds ==
    ASSUME NEW q \in Seq(Ids), q # <<>>
    PROVE  /\ Head(q) = q[1] /\ Head(q) \in Ids /\ Tail(q) \in Seq(Ids)
           /\ \A n : Below(q, n) => Below(Tail(q), n) /\ q[1] < n
           /\ \A c : q = <<c>> => Tail(q) = <<>>
<1>1. /\ Len(q) \in Nat \ {0} /\ DOMAIN q = 1 .. Len(q)
      /\ Tail(q) \in Seq(Ids) /\ Len(Tail(q)) = Len(q) - 1 /\ Head(q) \in Ids
      /\ \A i \in 1 .. Len(Tail(q)) : Tail(q)[i] = q[i + 1]
    BY EmptySeq, LenProperties, HeadTailProperties
<1>2. DOMAIN Tail(q) = 1 .. Len(q) - 1
    BY <1>1, LenProperties
<1>3. Head(q) = q[1]
    BY <1>1
<1>4. ASSUME NEW n, Below(q, n) PROVE Below(Tail(q), n) /\ q[1] < n
    <2>1. ASSUME NEW i \in 1 .. Len(q) - 1 PROVE Tail(q)[i] < n
        BY <1>1, <1>4 DEF Below
    <2>2. 1 \in DOMAIN q
        BY <1>1
    <2>3. QED
        BY <1>2, <1>4, <2>1, <2>2 DEF Below
<1>5. ASSUME NEW c, q = <<c>> PROVE Tail(q) = <<>>
    BY <1>5
<1>6. QED
    BY <1>1, <1>3, <1>4, <1>5

\* The same in the worker, with the same tasks, or fewer: what is in it is
\* still that of an earlier request, or of theirs.
LEMMA KnownKept ==
    ASSUME PoolInv, NEW s \in Slots, KnownIds(s),
           worker'[s].inbox = worker[s].inbox, worker'[s].outbox = worker[s].outbox,
           correlation' = correlation \/ correlation' = correlation + 1
    PROVE  KnownIds(s)'
<1>1. /\ worker[s].inbox \in Seq(Ids) /\ worker[s].outbox \in Seq(Ids)
      /\ correlation \in Int /\ correlation' \in Int /\ correlation <= correlation'
    <2>1. worker[s].inbox \in Seq(Ids) /\ worker[s].outbox \in Seq(Ids)
        BY RowFields DEF PoolInv, Ids
    <2>2. correlation \in Int
        BY DEF PoolInv, PoolTypeOK
    <2>3. QED
        BY <2>1, <2>2
<1>2. Below(worker[s].inbox, correlation) /\ Below(worker[s].outbox, correlation)
    BY DEF KnownIds
<1>3. PICK n \in Int : n = correlation'
    BY <1>1
<1>4. Below(worker[s].inbox, n) /\ Below(worker[s].outbox, n)
    BY <1>1, <1>2, <1>3, BelowMore
<1>5. QED
    BY <1>3, <1>4 DEF KnownIds, Below

SameContent(s) ==
    /\ worker'[s].inbox = worker[s].inbox /\ worker'[s].outbox = worker[s].outbox
    /\ worker'[s].torn = worker[s].torn /\ worker'[s].soiled = worker[s].soiled

LEMMA SameFacts ==
    ASSUME NEW s \in Slots, SameContent(s)
    PROVE  /\ Quiet(s)' <=> Quiet(s)
           /\ Rested(s)' <=> Rested(s)
           /\ First(s)' = First(s)
           /\ \A c : Engaged(s, c)' <=> Engaged(s, c)
<1>1. (Quiet(s)' <=> Quiet(s)) /\ First(s)' = First(s)
    BY DEF SameContent, Quiet, First
<1>2. QED
    BY <1>1 DEF SameContent, Rested, Engaged

LEMMA QuietKept ==
    ASSUME PoolInv, NEW s \in Slots, QuietSlot(s), SameContent(s),
           correlation' = correlation \/ correlation' = correlation + 1,
           worker'[s].busy = worker[s].busy,
           worker'[s].child = "running" => worker[s].child = "running",
           s \in pool' => s \in pool,
           \A t \in Holders(s)' :
                /\ t \in Holders(s) /\ task'[t].pc = task[t].pc
                /\ task'[t].answer = task[t].answer
                /\ task'[t].pc = "reply" => task'[t].correlation = task[t].correlation
    PROVE  QuietSlot(s)'
<1>1. KnownIds(s)'
    BY KnownKept DEF QuietSlot, SameContent
<1>2. s \in Idle' => s \in Idle
    BY DEF Idle
<1>3. (worker'[s].torn => worker'[s].soiled) /\ (s \in Idle' => Quiet(s)' \/ worker'[s].soiled)
    BY <1>2, SameFacts DEF QuietSlot, SameContent
<1>4. worker'[s].soiled => \A t \in Holders(s)' : task'[t].answer = 0
    BY DEF QuietSlot, SameContent
<1>5. ASSUME worker'[s].child = "running"
      PROVE  (s \in Idle' => Rested(s)') /\ \A t \in Holders(s)' : HeldSlot(s, t)'
    <2>1. s \in Idle' => Rested(s)'
        BY <1>2, <1>5, SameFacts DEF QuietSlot
    <2>2. ASSUME NEW t \in Holders(s)' PROVE HeldSlot(s, t)'
        <3>1. HeldSlot(s, t) /\ task'[t].pc = task[t].pc
            BY <1>5 DEF QuietSlot
        <3>2. CASE task[t].pc = "reply"
            <4>1. Engaged(s, task[t].correlation) /\ task'[t].correlation = task[t].correlation
                BY <3>1, <3>2 DEF HeldSlot
            <4>2. PICK c : c = task[t].correlation
                OBVIOUS
            <4>3. Engaged(s, c)'
                BY <4>1, <4>2, SameFacts
            <4>4. Engaged(s, task[t].correlation)'
                BY <4>1, <4>2, <4>3 DEF Engaged, First, Quiet
            <4>5. QED
                BY <3>1, <3>2, <4>4 DEF HeldSlot
        <3>3. CASE task[t].pc # "reply"
            BY <3>1, <3>3, SameFacts DEF HeldSlot
        <3>4. QED
            BY <3>2, <3>3
    <2>3. QED
        BY <2>1, <2>2
<1>6. QED
    BY <1>1, <1>3, <1>4, <1>5 DEF QuietSlot

\* A worker that was destroyed, or closed while a task still holds it.
LEMMA QuietGone ==
    ASSUME NEW s \in Slots, worker'[s].child # "running",
           worker'[s].inbox = <<>>, worker'[s].outbox = <<>>,
           worker'[s].torn = FALSE, worker'[s].soiled = FALSE
    PROVE  QuietSlot(s)'
<1>1. KnownIds(s)' /\ Quiet(s)'
    BY DEF KnownIds, Below, Quiet
<1>2. QED
    BY <1>1 DEF QuietSlot

\* Steps that take no task anywhere.
LEMMA QuietErased ==
    ASSUME PoolInv, NEW s \in Slots, QuietSlot(s), NEW S, S \subseteq pool,
           Erase(S), pool' = pool \ S, UNCHANGED <<task, correlation>>
    PROVE  QuietSlot(s)'
<1>1. SlotMove(s) /\ worker \in [Slots -> WorkerRows]
    BY EraseMoves DEF PoolInv, PoolTypeOK
<1>2. CASE s \notin S
    <2>1. worker'[s] = worker[s]
        BY <1>2 DEF Erase
    <2>2. SameContent(s) /\ Holders(s)' = Holders(s)
        BY <2>1 DEF SameContent, Holders
    <2>3. QED
        BY <1>1, <2>1, <2>2, QuietKept DEF SlotMove
<1>3. CASE s \in S
    <2>1. worker'[s] = Erased(worker[s]) /\ worker[s] \in WorkerRows
        BY <1>1, <1>3 DEF Erase
    <2>2. worker'[s] = Closed(worker[s]) \/ worker'[s] = NoWorker
        BY <2>1 DEF Erased
    <2>3. /\ worker'[s].child # "running" /\ worker'[s].inbox = <<>> /\ worker'[s].outbox = <<>>
          /\ worker'[s].torn = FALSE /\ worker'[s].soiled = FALSE
        BY <2>1, <2>2, ClosedFields, NoWorkerFields
    <2>4. QED
        BY <2>3, QuietGone
<1>4. QED
    BY <1>2, <1>3

\* A worker that ended: what it has answered is still there.
LEMMA QuietEnded ==
    ASSUME PoolInv, NEW s \in Slots, QuietSlot(s), worker'[s] = Ended(worker[s]),
           pool' = pool, correlation' = correlation,
           \A t \in Holders(s)' : t \in Holders(s) /\ task'[t].answer = task[t].answer
    PROVE  QuietSlot(s)'
<1>1. worker[s] \in WorkerRows /\ worker[s].outbox \in Seq(Ids)
    BY RowFields DEF PoolInv, Ids
<1>2. /\ worker'[s].child = "zombie" /\ worker'[s].busy = worker[s].busy
      /\ worker'[s].inbox = <<>> /\ worker'[s].torn = FALSE
      /\ worker'[s].outbox = worker[s].outbox /\ worker'[s].soiled = worker[s].soiled
    BY <1>1, EndedFields
<1>3. KnownIds(s)'
    BY <1>2 DEF QuietSlot, KnownIds, Below
<1>4. s \in Idle' => Quiet(s)' \/ worker'[s].soiled
    BY <1>2 DEF Idle, QuietSlot, Quiet
<1>5. worker'[s].soiled => \A t \in Holders(s)' : task'[t].answer = 0
    BY <1>2 DEF QuietSlot
<1>6. QED
    BY <1>2, <1>3, <1>4, <1>5 DEF QuietSlot

\* A worker answers: its next request leaves the line and its answer joins it, so
\* what comes out first is the same.
LEMMA QuietAnswers ==
    ASSUME PoolInv, NEW s \in Slots, QuietSlot(s), ~Repeats, WorkerAnswers(s)
    PROVE  QuietSlot(s)'
<1>1. /\ SlotMove(s) /\ worker \in [Slots -> WorkerRows]
      /\ task' = task /\ pool' = pool /\ correlation' = correlation /\ Holders(s)' = Holders(s)
    BY WorkerMoves DEF PoolInv, PoolTypeOK, WorkerAnswers, Holders
<1>2. PICK p \in Seq(Ids) : p = worker[s].inbox
    BY RowFields DEF PoolInv, Ids
<1>3. PICK q \in Seq(Ids) : q = worker[s].outbox
    BY RowFields DEF PoolInv, Ids
<1>4. PICK c : c = Head(worker[s].inbox)
    OBVIOUS
<1>5. /\ worker[s].child = "running" /\ p # <<>>
      /\ worker' = [worker EXCEPT ![s].inbox = Tail(worker[s].inbox),
                                  ![s].outbox = worker[s].outbox \o <<c>>]
    BY <1>2, <1>4 DEF WorkerAnswers
<1>6. c = p[1] /\ c \in Ids
    BY <1>2, <1>4, <1>5, TakenIds
<1>7. q \o <<c>> = Append(q, c)
    BY <1>6, GrownIds
<1>8. /\ worker'[s].inbox = Tail(p) /\ worker'[s].outbox = Append(q, c)
      /\ worker'[s].torn = worker[s].torn /\ worker'[s].soiled = worker[s].soiled
    <2>1. worker[s] \in WorkerRows
        BY <1>1
    <2>2. worker'[s] = [worker[s] EXCEPT !.inbox = Tail(p), !.outbox = Append(q, c)]
        BY <1>1, <1>2, <1>3, <1>5, <1>7
    <2>3. QED
        BY <2>1, <2>2 DEF WorkerRows
<1>9. ~Quiet(s) /\ ~Quiet(s)' /\ First(s)' = First(s)
    <2>1. Append(q, c) # <<>> /\ Append(q, c)[1] = IF q # <<>> THEN q[1] ELSE p[1]
        <3>1. CASE q # <<>>
            BY <1>6, <3>1, GrownIds
        <3>2. CASE q = <<>>
            <4>1. Append(q, c) = <<c>>
                BY <1>6, <3>2, GrownIds
            <4>2. <<c>>[1] = c /\ <<c>> # <<>>
                OBVIOUS
            <4>3. QED
                BY <1>6, <3>2, <4>1, <4>2
        <3>3. QED
            BY <3>1, <3>2
    <2>2. QED
        BY <1>2, <1>3, <1>5, <1>8, <2>1 DEF Quiet, First
<1>10. KnownIds(s)'
    <2>1. PICK n \in Int : n = correlation
        BY DEF PoolInv, PoolTypeOK
    <2>2. Below(p, n) /\ Below(q, n)
        BY <1>2, <1>3, <2>1 DEF QuietSlot, KnownIds
    <2>3. Below(Tail(p), n) /\ c < n
        BY <1>5, <1>6, <2>2, TakenIds
    <2>4. Below(Append(q, c), n)
        BY <1>6, <2>2, <2>3, GrownIds
    <2>5. QED
        BY <1>1, <1>8, <2>1, <2>3, <2>4 DEF KnownIds, Below
<1>11. s \in Idle' => s \in Idle
    BY <1>1 DEF Idle, SlotMove
<1>12. s \in Idle => worker[s].soiled
    BY <1>9 DEF QuietSlot
<1>13. ASSUME NEW t \in Holders(s) PROVE HeldSlot(s, t)'
    <2>1. HeldSlot(s, t)
        BY <1>5 DEF QuietSlot
    <2>2. CASE task[t].pc \in {"start", "release"}
        <3>1. worker[s].soiled
            BY <1>9, <2>1, <2>2 DEF HeldSlot, Rested
        <3>2. QED
            BY <1>1, <1>8, <1>9, <2>2, <3>1 DEF HeldSlot, Rested
    <2>3. CASE task[t].pc = "reply" /\ worker[s].soiled
        <3>1. First(s) # task[t].correlation
            BY <2>1, <2>3 DEF HeldSlot, Engaged
        <3>2. QED
            BY <1>1, <1>8, <1>9, <2>3, <3>1 DEF HeldSlot, Engaged
    <2>4. CASE task[t].pc = "reply" /\ ~worker[s].soiled
        <3>1. PICK d : d = task[t].correlation
            OBVIOUS
        <3>2. q = <<>> /\ p = <<d>>
            BY <1>2, <1>3, <1>5, <2>1, <2>4, <3>1 DEF HeldSlot, Engaged
        <3>3. c = d
            BY <1>6, <3>2
        <3>4. Append(q, c) = <<d>>
            BY <1>6, <3>2, <3>3, GrownIds
        <3>5. Tail(p) = <<>>
            BY <1>5, <3>2, TakenIds
        <3>6. QED
            BY <1>1, <1>8, <2>4, <3>1, <3>4, <3>5 DEF HeldSlot, Engaged
    <2>5. CASE task[t].pc \notin {"start", "release", "reply"}
        BY <1>1, <2>1, <2>5 DEF HeldSlot
    <2>6. QED
        BY <2>2, <2>3, <2>4, <2>5
<1>14. s \in Idle' => Rested(s)'
    BY <1>8, <1>9, <1>11, <1>12 DEF Rested
<1>15. /\ worker'[s].torn => worker'[s].soiled
       /\ s \in Idle' => worker'[s].soiled
       /\ worker'[s].soiled => \A t \in Holders(s)' : task'[t].answer = 0
    BY <1>1, <1>8, <1>11, <1>12 DEF QuietSlot
<1>16. QED
    BY <1>1, <1>10, <1>13, <1>14, <1>15 DEF QuietSlot

LEMMA QuietWorkers ==
    ASSUME PoolInv, NEW s \in Slots, QuietSlot(s), ~Repeats,
           Tick \/ \E r \in Slots : WorkerAnswers(r) \/ WorkerExits(r)
    PROVE  QuietSlot(s)'
<1>1. /\ SlotMove(s) /\ worker \in [Slots -> WorkerRows] /\ worker[s] \in WorkerRows
      /\ UNCHANGED <<task, pool, correlation>>
    BY WorkerMoves, RowFields DEF PoolInv, PoolTypeOK, Tick, WorkerAnswers, WorkerExits
<1>2. Holders(s)' = Holders(s)
    BY <1>1 DEF Holders
<1>3. CASE SameContent(s)
    BY <1>1, <1>2, <1>3, QuietKept DEF SlotMove
<1>4. CASE Tick
    <2>1. \/ worker'[s] = worker[s]
          \/ worker'[s] = [worker[s] EXCEPT !.age = worker[s].age + 1]
        BY <1>4 DEF Tick
    <2>2. SameContent(s)
        BY <1>1, <2>1 DEF SameContent, WorkerRows
    <2>3. QED
        BY <1>3, <2>2
<1>5. ASSUME NEW r \in Slots, WorkerAnswers(r) \/ WorkerExits(r)
      PROVE  QuietSlot(s)'
    <2>1. CASE r # s
        <3>1. worker'[s] = worker[s]
            BY <1>1, <1>5, <2>1 DEF WorkerAnswers, WorkerExits
        <3>2. QED
            BY <1>3, <3>1 DEF SameContent
    <2>2. CASE r = s /\ WorkerExits(r)
        <3>1. worker'[s] = Ended(worker[s])
            BY <1>1, <2>2 DEF WorkerExits
        <3>2. QED
            BY <1>1, <1>2, <3>1, QuietEnded
    <2>3. CASE r = s /\ WorkerAnswers(r)
        BY <2>3, QuietAnswers
    <2>4. QED
        BY <1>5, <2>1, <2>2, <2>3
<1>6. QED
    BY <1>4, <1>5

\* What comes out of a worker first bears the id of an earlier request.
LEMMA FirstKnown ==
    ASSUME PoolInv, NEW s \in Slots, KnownIds(s), ~Quiet(s)
    PROVE  First(s) # correlation
<1>1. PICK p \in Seq(Ids) : p = worker[s].inbox
    BY RowFields DEF PoolInv, Ids
<1>2. PICK q \in Seq(Ids) : q = worker[s].outbox
    BY RowFields DEF PoolInv, Ids
<1>3. PICK n \in Int : n = correlation
    BY DEF PoolInv, PoolTypeOK
<1>4. Below(p, n) /\ Below(q, n) /\ (p # <<>> \/ q # <<>>)
    BY <1>1, <1>2, <1>3 DEF KnownIds, Quiet
<1>5. CASE q # <<>>
    <2>1. q[1] \in Ids /\ q[1] < n
        BY <1>4, <1>5, TakenIds
    <2>2. q[1] # n
        BY <2>1, PoolAssumption DEF Ids
    <2>3. QED
        BY <1>2, <1>3, <1>5, <2>2 DEF First
<1>6. CASE q = <<>>
    <2>1. p[1] \in Ids /\ p[1] < n
        BY <1>4, <1>6, TakenIds
    <2>2. p[1] # n
        BY <2>1, PoolAssumption DEF Ids
    <2>3. QED
        BY <1>1, <1>2, <1>3, <1>6, <2>2 DEF First
<1>7. QED
    BY <1>5, <1>6

\* A request, or part of one, joins the line.
LEMMA WriteKnown ==
    ASSUME PoolInv, NEW s \in Slots, KnownIds(s), NEW id \in Ids, id <= correlation,
           correlation' = correlation + 1, worker'[s].outbox = worker[s].outbox,
           \/ worker'[s].inbox = worker[s].inbox
           \/ worker'[s].inbox = Append(worker[s].inbox, id)
    PROVE  /\ KnownIds(s)'
           /\ ~Quiet(s) => ~Quiet(s)' /\ First(s)' = First(s)
           /\ worker'[s].inbox = Append(worker[s].inbox, id) => ~Quiet(s)'
<1>1. CASE worker'[s].inbox = worker[s].inbox
    <2>1. KnownIds(s)'
        BY <1>1, KnownKept
    <2>2. ~Quiet(s) => ~Quiet(s)' /\ First(s)' = First(s)
        BY <1>1 DEF Quiet, First
    <2>3. worker[s].inbox \in Seq(Ids)
        BY RowFields DEF PoolInv, Ids
    <2>4. Append(worker[s].inbox, id) # <<>>
        BY <2>3, GrownIds
    <2>5. QED
        BY <2>1, <2>2, <2>4 DEF Quiet
<1>2. CASE worker'[s].inbox = Append(worker[s].inbox, id)
    <2>1. PICK p \in Seq(Ids) : p = worker[s].inbox
        BY RowFields DEF PoolInv, Ids
    <2>2. PICK q \in Seq(Ids) : q = worker[s].outbox
        BY RowFields DEF PoolInv, Ids
    <2>3. PICK n \in Int : n = correlation
        BY DEF PoolInv, PoolTypeOK
    <2>4. n + 1 \in Int /\ n <= n + 1 /\ id < n + 1
        BY <2>3, PoolAssumption DEF Ids
    <2>5. Below(p, n) /\ Below(q, n)
        BY <2>1, <2>2, <2>3 DEF KnownIds
    <2>6. Below(p, n + 1) /\ Below(q, n + 1)
        BY <2>4, <2>5, BelowMore
    <2>7. Below(Append(p, id), n + 1) /\ Append(p, id) # <<>>
          /\ (p # <<>> => Append(p, id)[1] = p[1])
        BY <2>4, <2>6, GrownIds
    <2>8. /\ worker'[s].inbox = Append(p, id) /\ worker'[s].outbox = q /\ correlation' = n + 1
        BY <1>2, <2>1, <2>2, <2>3
    <2>9. KnownIds(s)'
        BY <2>6, <2>7, <2>8 DEF KnownIds, Below
    <2>10. ~Quiet(s)'
        BY <2>7, <2>8 DEF Quiet
    <2>11. ~Quiet(s) => First(s)' = First(s)
        BY <2>1, <2>2, <2>7, <2>8 DEF Quiet, First
    <2>12. QED
        BY <2>9, <2>10, <2>11
<1>3. QED
    BY <1>1, <1>2

\* The worker of the task that acts: it is busy with this task only.
LEMMA QuietBusy ==
    ASSUME PoolInv, NEW t \in Tasks, task[t].pc \notin {"none", "release"},
           \A s \in Slots : SlotMove(s), TaskActs(t), NEW s \in Slots, s = task[t].slot,
           KnownIds(s)', worker'[s].torn => worker'[s].soiled,
           worker'[s].soiled => task'[t].answer = 0,
           worker'[s].child = "running" => HeldSlot(s, t)'
    PROVE  QuietSlot(s)'
<1>1. worker[s].busy /\ worker'[s].busy
    BY ItsSlot DEF SlotMove, Its
<1>2. s \notin Idle'
    BY <1>1 DEF Idle
<1>3. \A u \in Holders(s)' : u = t
    <2>1. Holders(s)' = Holders(s)
        BY DEF Holders, TaskActs, TaskMove
    <2>2. t \in Holders(s) /\ SlotWellFormed(s)
        BY ItsSlot DEF PoolInv
    <2>3. QED
        BY <2>1, <2>2 DEF SlotWellFormed
<1>4. QED
    BY <1>2, <1>3 DEF QuietSlot

\* The workers of the others.
LEMMA QuietOthers ==
    ASSUME PoolInv, NEW t \in Tasks, \A s \in Slots : SlotMove(s), TaskActs(t),
           correlation' = correlation \/ correlation' = correlation + 1,
           NEW s \in Slots, s # task[t].slot, QuietSlot(s), SameContent(s)
    PROVE  QuietSlot(s)'
<1>1. ASSUME NEW u \in Holders(s)'
      PROVE  u \in Holders(s) /\ task'[u] = task[u]
    <2>1. u \in Tasks /\ u # t
        BY DEF Holders, TaskActs, TaskMove
    <2>2. task'[u] = task[u]
        BY <2>1 DEF TaskActs
    <2>3. QED
        BY <2>2 DEF Holders
<1>2. SlotMove(s)
    OBVIOUS
<1>3. QED
    BY <1>1, <1>2, QuietKept DEF SlotMove

\* A worker whose process its task only looks at, or decides to end.
LEMMA QuietSame ==
    ASSUME PoolInv, NEW t \in Tasks, task[t].pc \notin {"none", "release"},
           \A s \in Slots : SlotMove(s), TaskActs(t), NEW s \in Slots, s = task[t].slot,
           QuietSlot(s), worker'[s] = worker[s],
           correlation' = correlation \/ correlation' = correlation + 1,
           task'[t].answer = task[t].answer,
           \/ worker[s].child # "running"
           \/ task'[t].pc = "kill"
           \/ task[t].pc = "start" /\ task'[t].pc = "release"
    PROVE  QuietSlot(s)'
<1>1. t \in Holders(s) /\ SameContent(s)
    BY ItsSlot DEF SameContent
<1>2. KnownIds(s)' /\ (worker'[s].torn => worker'[s].soiled)
    BY <1>1, KnownKept DEF QuietSlot, SameContent
<1>3. worker'[s].soiled => task'[t].answer = 0
    BY <1>1 DEF QuietSlot
<1>4. ASSUME worker'[s].child = "running" PROVE HeldSlot(s, t)'
    <2>1. CASE task'[t].pc = "kill"
        BY <2>1 DEF HeldSlot
    <2>2. CASE task[t].pc = "start" /\ task'[t].pc = "release"
        <3>1. Rested(s)
            BY <1>1, <1>4, <2>2 DEF QuietSlot, HeldSlot
        <3>2. Rested(s)'
            BY <1>1, <3>1, SameFacts
        <3>3. QED
            BY <2>2, <3>2 DEF HeldSlot
    <2>3. QED
        BY <1>4, <2>1, <2>2
<1>5. QED
    BY <1>2, <1>3, <1>4, QuietBusy

LEMMA QuietTask ==
    ASSUME PoolInv, \A s \in Slots : QuietSlot(s), NEW t \in Tasks,
           Acts(t), ~ReleaseWorker(t), ~ReleaseReservation(t),
           NEW s \in Slots
    PROVE  QuietSlot(s)'
<1>1. /\ task[t].pc \in {"start", "reply", "kill", "wait"}
      /\ worker \in [Slots -> WorkerRows] /\ task[t].slot \in Slots
      /\ correlation' = correlation \/ correlation' = correlation + 1
    BY TaskMoves, ItsSlot DEF PoolInv, PoolTypeOK
<1>2. TaskActs(t) /\ \A r \in Slots : SlotMove(r)
    BY TaskMoves
<1>3. ASSUME s # task[t].slot
      PROVE  QuietSlot(s)'
    <2>1. CASE TaskWaitsForAny(t)
        <3>1. \/ worker' = worker
              \/ \E r \in Slots : worker' = [worker EXCEPT ![r].child = "reaped"]
            BY <2>1 DEF TaskWaitsForAny, Children
        <3>2. SameContent(s)
            <4>1. CASE worker' = worker
                BY <4>1 DEF SameContent
            <4>2. ASSUME NEW r \in Slots, worker' = [worker EXCEPT ![r].child = "reaped"]
                  PROVE  SameContent(s)
                BY <1>1, <4>2 DEF WorkerRows, SameContent
            <4>3. QED
                BY <3>1, <4>1, <4>2
        <3>3. QED
            BY <1>1, <1>2, <1>3, <3>2, QuietOthers
    <2>2. CASE ~TaskWaitsForAny(t)
        <3>1. worker' = worker \/ \E w : SetIts(t, w)
            BY <2>2
            DEF Acts, TaskStep, TaskGivesUp, TaskThrowsWriting, TaskThrows, TaskSeesStop,
                TaskInputFails, TaskFindsDead, TaskSends,
                TaskReads, TaskSeesExit, TaskStops, TaskKills, TaskWaits
        <3>2. worker'[s] = worker[s]
            BY <1>1, <1>3, <3>1 DEF SetIts
        <3>3. SameContent(s)
            BY <3>2 DEF SameContent
        <3>4. QED
            BY <1>1, <1>2, <1>3, <3>3, QuietOthers
    <2>3. QED
        BY <2>1, <2>2
<1>4. ASSUME s = task[t].slot
      PROVE  QuietSlot(s)'
    <2>1. /\ QuietSlot(s) /\ t \in Holders(s) /\ worker[s] = Its(t) /\ worker[s] \in WorkerRows
          /\ task \in [Tasks -> TaskRows] /\ SlotWellFormed(s) /\ TaskWellFormed(t)
        BY <1>1, <1>4, ItsSlot DEF Its, PoolInv, PoolTypeOK
    <2>2. ASSUME NEW pc \in TaskPcs, Goto(t, pc)
          PROVE  task'[t].pc = pc /\ task'[t].answer = task[t].answer
        <3>1. task[t] \in TaskRows
            BY <2>1
        <3>2. task'[t] = [task[t] EXCEPT !.pc = pc]
            BY <2>1, <2>2 DEF Goto
        <3>3. QED
            BY <3>1, <3>2 DEF TaskRows
    <2>3. \A w : SetIts(t, w) => worker'[s] = w
        BY <1>1, <1>4 DEF SetIts
    <2>4. /\ KnownIds(s) /\ (worker[s].torn => worker[s].soiled)
          /\ worker[s].soiled => task[t].answer = 0
          /\ worker[s].child = "running" => HeldSlot(s, t)
        BY <2>1 DEF QuietSlot
    <2>5. CASE TaskSeesStop(t) \/ TaskInputFails(t) \/ TaskGivesUp(t) \/ TaskStops(t)
        <3>1. /\ worker' = worker
              /\ Goto(t, "kill") \/ (task[t].pc = "start" /\ Goto(t, "release"))
            BY <2>5 DEF TaskSeesStop, TaskInputFails, TaskGivesUp, TaskStops, At
        <3>2. /\ task'[t].answer = task[t].answer
              /\ task'[t].pc = "kill" \/ (task[t].pc = "start" /\ task'[t].pc = "release")
            BY <2>2, <3>1 DEF TaskPcs
        <3>3. QED
            BY <1>1, <1>2, <1>4, <2>1, <3>1, <3>2, QuietSame
    <2>6. CASE TaskFindsDead(t) \/ TaskSeesExit(t) \/ TaskWaits(t)
        <3>1. SetIts(t, Closed(Its(t)))
            BY <2>6 DEF TaskFindsDead, TaskSeesExit, TaskWaits
        <3>2. worker'[s] = Closed(worker[s])
            BY <2>1, <2>3, <3>1
        <3>3. QED
            BY <2>1, <3>2, ClosedFields, QuietGone
    <2>7. CASE TaskSends(t)
        <3>1. /\ task[t].pc = "start" /\ Alive(s) /\ correlation' = correlation + 1
              /\ task' = [task EXCEPT ![t].pc = "reply", ![t].correlation = correlation]
            BY <1>4, <2>7 DEF TaskSends, At
        <3>2. PICK c \in Ids : c = correlation
            BY <3>1, NextId DEF Ids
        <3>3. task'[t].pc = "reply" /\ task'[t].correlation = c /\ task'[t].answer = 0
            BY <2>1, <3>1, <3>2 DEF TaskRows, TaskWellFormed
        <3>4. PICK w \in Written(Its(t), {correlation}, FALSE) : SetIts(t, w)
            BY <2>7 DEF TaskSends
        <3>5. Wrote(worker[s], worker'[s], {c}) /\ (~worker[s].torn => ~worker'[s].torn)
            <4>1. PICK ids \in SUBSET (0 .. MaxCorrelation) : ids = {c}
                BY DEF Ids
            <4>2. PICK row \in WorkerRows : row = Its(t)
                BY <2>1
            <4>3. w \in Written(row, ids, FALSE)
                BY <3>2, <3>4, <4>1, <4>2
            <4>4. Wrote(row, w, ids) /\ (~row.torn => ~w.torn)
                BY <4>3, WrittenFields
            <4>5. QED
                BY <2>1, <2>3, <3>4, <4>1, <4>2, <4>4
        <3>6. /\ worker'[s].outbox = worker[s].outbox /\ worker'[s].soiled = worker[s].soiled
              /\ worker[s].torn => worker'[s].inbox = worker[s].inbox
              /\ ~worker[s].torn => worker'[s].inbox = Append(worker[s].inbox, c)
            BY <3>5 DEF Wrote
        <3>7. /\ KnownIds(s)'
              /\ ~Quiet(s) => ~Quiet(s)' /\ First(s)' = First(s)
            <4>1. c <= correlation
                BY <3>2, PoolAssumption DEF Ids
            <4>2. QED
                BY <2>4, <3>1, <3>6, <4>1, WriteKnown
        <3>8. Rested(s)
            BY <2>4, <3>1 DEF HeldSlot, Alive
        <3>9. Engaged(s, c)'
            <4>1. CASE worker[s].soiled
                <5>1. ~Quiet(s)
                    BY <3>8, <4>1 DEF Rested
                <5>2. First(s) # c
                    BY <2>4, <3>2, <5>1, FirstKnown
                <5>3. QED
                    BY <3>6, <3>7, <4>1, <5>1, <5>2 DEF Engaged
            <4>2. CASE ~worker[s].soiled
                <5>1. worker[s].inbox = <<>> /\ worker[s].outbox = <<>>
                    BY <3>8, <4>2 DEF Rested, Quiet
                <5>2. worker[s].inbox \in Seq(Ids)
                    BY <2>1 DEF WorkerRows, Ids
                <5>3. worker'[s].inbox = <<c>>
                    BY <2>4, <3>6, <4>2, <5>1, <5>2, GrownIds
                <5>4. QED
                    BY <3>6, <4>2, <5>1, <5>3 DEF Engaged
            <4>3. QED
                BY <4>1, <4>2
        <3>10. HeldSlot(s, t)'
            BY <3>3, <3>9 DEF HeldSlot, Engaged, First, Quiet
        <3>11. worker'[s].torn => worker'[s].soiled
            BY <2>4, <3>5, <3>6
        <3>12. QED
            BY <1>1, <1>2, <1>4, <3>3, <3>7, <3>10, <3>11, QuietBusy
    <2>8. CASE TaskThrowsWriting(t)
        <3>1. /\ task[t].pc = "start" /\ Alive(s) /\ correlation' = correlation + 1
              /\ task'[t].pc = "release" /\ task'[t].answer = task[t].answer
              /\ task[t].answer = 0
            BY <1>4, <2>1, <2>2, <2>8 DEF TaskThrowsWriting, At, TaskPcs, TaskWellFormed
        <3>2. CASE worker' = worker
            BY <1>1, <1>2, <1>4, <2>1, <3>1, <3>2, QuietSame
        <3>3. CASE worker' # worker
            <4>1. PICK w \in Written(Its(t), {correlation, 0}, TRUE) :
                    SetIts(t, [w EXCEPT !.soiled = TRUE])
                BY <2>8, <3>3 DEF TaskThrowsWriting
            <4>2. PICK c \in Ids : c = correlation
                BY <3>1, NextId DEF Ids
            <4>3. PICK row \in WorkerRows : row = worker[s]
                BY <2>1
            <4>4. Wrote(row, w, {c, 0})
                <5> c \in 0 .. MaxCorrelation /\ 0 \in 0 .. MaxCorrelation
                    BY PoolAssumption DEF Ids
                <5>1. PICK ids \in SUBSET (0 .. MaxCorrelation) : ids = {c, 0}
                    OBVIOUS
                <5>2. w \in Written(row, ids, TRUE)
                    BY <2>1, <4>1, <4>2, <4>3, <5>1
                <5>3. QED
                    BY <5>1, <5>2, WrittenFields
            <4>5. PICK v : v = [w EXCEPT !.soiled = TRUE]
                OBVIOUS
            <4>6. w \in WorkerRows /\ w.outbox = row.outbox
                BY <4>4 DEF Wrote
            <4>7. v.soiled = TRUE /\ v.outbox = row.outbox /\ v.inbox = w.inbox /\ worker'[s] = v
                BY <2>3, <4>1, <4>5, <4>6, SoiledFields
            <4>8. PICK id \in {c, 0} : \/ row.torn /\ w.inbox = row.inbox
                                       \/ w.inbox = Append(row.inbox, id)
                BY <4>4 DEF Wrote
            <4>9. id \in Ids /\ id <= correlation
                BY <4>2, PoolAssumption DEF Ids
            <4>10. /\ worker'[s].outbox = worker[s].outbox
                   /\ \/ worker[s].torn /\ worker'[s].inbox = worker[s].inbox
                      \/ worker'[s].inbox = Append(worker[s].inbox, id)
                BY <4>3, <4>7, <4>8
            <4>11. KnownIds(s)' /\ ~Quiet(s)'
                <5>1. /\ KnownIds(s)' /\ (~Quiet(s) => ~Quiet(s)')
                      /\ worker'[s].inbox = Append(worker[s].inbox, id) => ~Quiet(s)'
                    BY <2>4, <3>1, <4>9, <4>10, WriteKnown
                <5>2. worker[s].torn => ~Quiet(s)
                    BY <2>4, <3>1 DEF HeldSlot, Rested, Alive
                <5>3. QED
                    BY <4>10, <5>1, <5>2
            <4>12. worker'[s].soiled
                BY <4>7
            <4>13. HeldSlot(s, t)'
                BY <3>1, <4>11, <4>12 DEF HeldSlot, Rested
            <4>14. QED
                BY <1>1, <1>2, <1>4, <3>1, <4>11, <4>12, <4>13, QuietBusy
        <3>4. QED
            BY <3>2, <3>3
    <2>9. CASE TaskThrows(t)
        <3>1. /\ task[t].pc = "reply" /\ SetIts(t, [Its(t) EXCEPT !.soiled = TRUE])
              /\ task'[t].pc = "release" /\ task'[t].answer = task[t].answer
              /\ task[t].answer = 0
            BY <2>1, <2>2, <2>9 DEF TaskThrows, At, TaskPcs, TaskWellFormed
        <3>2. PICK v : v = [worker[s] EXCEPT !.soiled = TRUE]
            OBVIOUS
        <3>3. worker'[s] = v
            BY <2>1, <2>3, <3>1, <3>2
        <3>4. /\ worker'[s].soiled = TRUE /\ worker'[s].child = worker[s].child
              /\ worker'[s].inbox = worker[s].inbox /\ worker'[s].outbox = worker[s].outbox
            BY <2>1, <3>2, <3>3, SoiledFields
        <3>5. KnownIds(s)'
            BY <1>1, <2>4, <3>4, KnownKept
        <3>6. ASSUME worker'[s].child = "running" PROVE HeldSlot(s, t)'
            <4>1. Engaged(s, task[t].correlation)
                BY <2>4, <3>1, <3>4, <3>6 DEF HeldSlot
            <4>2. PICK d : d = task[t].correlation
                OBVIOUS
            <4>3. <<d>> # <<>>
                OBVIOUS
            <4>4. ~Quiet(s)
                BY <4>1, <4>2, <4>3 DEF Engaged, Quiet
            <4>5. QED
                BY <3>1, <3>4, <4>4 DEF HeldSlot, Rested, Quiet
        <3>7. QED
            BY <1>1, <1>2, <1>4, <3>1, <3>4, <3>5, <3>6, QuietBusy
    <2>10. CASE TaskReads(t)
        <3>1. /\ task[t].pc = "reply" /\ Alive(s) /\ worker[s].outbox # <<>>
              /\ SetIts(t, [Its(t) EXCEPT !.outbox = Tail(Its(t).outbox)])
              /\ task' = [task EXCEPT ![t] = AfterReply(t, Head(Its(t).outbox))]
              /\ correlation' = correlation
            BY <1>4, <2>1, <2>10 DEF TaskReads, At
        <3>2. PICK q \in Seq(Ids) : q = worker[s].outbox
            BY <2>1 DEF WorkerRows, Ids
        <3>3. Head(q) = q[1] /\ Tail(q) \in Seq(Ids) /\ (\A c : q = <<c>> => Tail(q) = <<>>)
            BY <3>1, <3>2, TakenIds
        <3>4. /\ worker'[s].inbox = worker[s].inbox /\ worker'[s].outbox = Tail(q)
              /\ worker'[s].torn = worker[s].torn /\ worker'[s].soiled = worker[s].soiled
            <4>1. worker'[s] = [worker[s] EXCEPT !.outbox = Tail(q)]
                BY <2>1, <2>3, <3>1, <3>2
            <4>2. QED
                BY <2>1, <4>1 DEF WorkerRows
        <3>5. KnownIds(s)'
            <4>1. PICK n : n = correlation
                OBVIOUS
            <4>2. Below(q, n)
                BY <2>4, <3>2, <4>1 DEF KnownIds
            <4>3. Below(Tail(q), n)
                BY <3>1, <3>2, <4>2, TakenIds
            <4>4. QED
                BY <2>4, <3>1, <3>4, <4>1, <4>3 DEF KnownIds, Below
        <3>6. Engaged(s, task[t].correlation) /\ task[t].answer = 0
            BY <2>1, <2>4, <3>1 DEF HeldSlot, Alive, TaskWellFormed
        <3>7. task'[t] = AfterReply(t, q[1])
            BY <2>1, <3>1, <3>2, <3>3
        <3>8. CASE worker[s].soiled
            <4>1. q[1] # task[t].correlation
                BY <3>1, <3>2, <3>6, <3>8 DEF Engaged, First
            <4>2. task'[t] = [task[t] EXCEPT !.pc = "kill"]
                BY <3>7, <4>1 DEF AfterReply
            <4>3. task'[t].pc = "kill" /\ task'[t].answer = 0
                <5>1. task[t] \in TaskRows
                    BY <2>1
                <5>2. QED
                    BY <3>6, <4>2, <5>1 DEF TaskRows
            <4>4. HeldSlot(s, t)'
                BY <4>3 DEF HeldSlot
            <4>5. QED
                BY <1>1, <1>2, <1>4, <3>4, <3>5, <3>8, <4>3, <4>4, QuietBusy
        <3>9. CASE ~worker[s].soiled
            <4>1. PICK d : d = task[t].correlation
                OBVIOUS
            <4>2. q = <<d>> /\ worker[s].inbox = <<>>
                BY <3>1, <3>2, <3>6, <3>9, <4>1 DEF Engaged
            <4>3. worker'[s].outbox = <<>> /\ worker'[s].inbox = <<>>
                BY <3>3, <3>4, <4>2
            <4>4. task'[t].pc \in {"release", "kill"}
                <5>1. task[t] \in TaskRows
                    BY <2>1
                <5>2. \/ task'[t] = [task[t] EXCEPT !.pc = "release", !.answer = q[1]]
                      \/ task'[t] = [task[t] EXCEPT !.pc = "kill"]
                    BY <3>7 DEF AfterReply
                <5>3. QED
                    BY <5>1, <5>2 DEF TaskRows
            <4>5. HeldSlot(s, t)'
                BY <3>4, <3>9, <4>3, <4>4 DEF HeldSlot, Rested, Quiet
            <4>6. QED
                BY <1>1, <1>2, <1>4, <2>4, <3>4, <3>5, <3>9, <4>5, QuietBusy
        <3>10. QED
            BY <3>8, <3>9
    <2>11. CASE TaskKills(t)
        <3>1. /\ pool' = pool /\ correlation' = correlation
              /\ Goto(t, "wait") \/ Goto(t, "release")
            BY <2>11 DEF TaskKills
        <3>2. task'[t].answer = task[t].answer
            BY <2>2, <3>1 DEF TaskPcs
        <3>3. CASE worker[s].open /\ worker[s].child = "running"
            <4>1. worker'[s] = Ended(worker[s])
                BY <2>1, <2>3, <2>11, <3>3 DEF TaskKills
            <4>2. ASSUME NEW u \in Holders(s)'
                  PROVE  u \in Holders(s) /\ task'[u].answer = task[u].answer
                <5>1. u \in Tasks /\ u \in Holders(s)
                    BY <1>2 DEF Holders, TaskActs, TaskMove
                <5>2. u = t
                    BY <2>1, <5>1 DEF SlotWellFormed
                <5>3. QED
                    BY <3>2, <5>1, <5>2
            <4>3. QED
                BY <2>1, <3>1, <4>1, <4>2, QuietEnded
        <3>4. CASE ~(worker[s].open /\ worker[s].child = "running")
            <4>1. worker[s].child # "running"
                BY <2>1, <3>4 DEF SlotWellFormed
            <4>2. worker'[s] = worker[s]
                BY <2>1, <2>3, <2>11, <4>1 DEF TaskKills
            <4>3. QED
                BY <1>1, <1>2, <1>4, <2>1, <3>2, <4>1, <4>2, QuietSame
        <3>5. QED
            BY <3>3, <3>4
    <2>12. CASE TaskWaitsForAny(t)
        <3>1. task[t].pc = "wait" /\ task'[t].answer = task[t].answer
            BY <2>2, <2>12 DEF TaskWaitsForAny, At, TaskPcs
        <3>2. worker[s].child # "running"
            BY <2>4, <3>1 DEF HeldSlot
        <3>3. worker'[s].child # "running"
            BY <1>2, <3>2 DEF SlotMove
        <3>4. SameContent(s)
            <4>1. \/ worker' = worker
                  \/ \E r \in Slots : worker' = [worker EXCEPT ![r].child = "reaped"]
                BY <2>12 DEF TaskWaitsForAny, Children
            <4>2. CASE worker' = worker
                BY <4>2 DEF SameContent
            <4>3. ASSUME NEW r \in Slots, worker' = [worker EXCEPT ![r].child = "reaped"]
                  PROVE  SameContent(s)
                BY <1>1, <4>3 DEF WorkerRows, SameContent
            <4>4. QED
                BY <4>1, <4>2, <4>3
        <3>5. KnownIds(s)'
            BY <1>1, <2>4, <3>4, KnownKept DEF SameContent
        <3>6. QED
            BY <1>1, <1>2, <1>4, <2>4, <3>1, <3>3, <3>4, <3>5, QuietBusy DEF SameContent
    <2>13. QED
        BY <2>5, <2>6, <2>7, <2>8, <2>9, <2>10, <2>11, <2>12 DEF Acts, TaskStep
<1>5. QED
    BY <1>3, <1>4

LEMMA QuietLaunch ==
    ASSUME PoolInv, \A s \in Slots : QuietSlot(s), Launch, NEW s \in Slots
    PROVE  QuietSlot(s)'
<1>1. PICK t \in Tasks, e \in Engines, new \in Slots, gone \in SUBSET Slots :
        Launching(t, e, new, gone)
    BY LaunchMoves
<1>2. /\ \A u \in Tasks \ {t} : task'[u] = task[u]
      /\ task'[t].pc = "start" /\ task'[t].slot = new /\ task'[t].answer = 0
    BY <1>1, LaunchedRow DEF Launching
<1>3. correlation' = correlation
    BY <1>1 DEF Launching
<1>4. CASE s = new
    <2>1. s \notin Idle'
        BY <1>1, <1>4 DEF Launching, Idle
    <2>2. KnownIds(s)' /\ Rested(s)' /\ (worker'[s].torn => worker'[s].soiled)
        <3>1. CASE s \in Idle /\ worker'[s] = [worker[s] EXCEPT !.busy = TRUE]
            <4>1. worker[s] \in WorkerRows /\ QuietSlot(s)
                BY RowFields DEF PoolInv
            <4>2. SameContent(s) /\ worker'[s].child = worker[s].child
                BY <3>1, <4>1 DEF SameContent, WorkerRows
            <4>3. worker[s].child = "running"
                BY <1>1, <1>4, <4>2 DEF Launching
            <4>4. Rested(s)
                BY <3>1, <4>1, <4>3 DEF QuietSlot
            <4>5. KnownIds(s)'
                BY <1>3, <4>1, <4>2, KnownKept DEF QuietSlot, SameContent
            <4>6. QED
                BY <4>1, <4>2, <4>4, <4>5, SameFacts DEF QuietSlot, SameContent
        <3>2. CASE worker'[s] = Spawned(e)
            <4>1. /\ worker'[s].inbox = <<>> /\ worker'[s].outbox = <<>>
                  /\ worker'[s].torn = FALSE /\ worker'[s].soiled = FALSE
                BY <3>2 DEF Spawned, NoWorker
            <4>2. QED
                BY <4>1 DEF KnownIds, Below, Rested, Quiet
        <3>3. QED
            BY <1>1, <1>4, <3>1, <3>2 DEF Launching
    <2>3. \A u \in Holders(s)' : u = t
        <3>1. Holders(s) = {}
            BY <1>1, <1>4 DEF Launching, PoolInv, SlotWellFormed
        <3>2. QED
            BY <1>2, <3>1 DEF Holders
    <2>4. HeldSlot(s, t)'
        BY <1>2, <2>2 DEF HeldSlot
    <2>5. QED
        BY <1>2, <2>1, <2>2, <2>3, <2>4 DEF QuietSlot
<1>5. CASE s # new
    <2>1. \A u \in Holders(s)' : u \in Holders(s) /\ task'[u] = task[u]
        BY <1>2, <1>5 DEF Holders
    <2>2. CASE s \in gone
        <3>1. worker'[s] = NoWorker
            BY <1>1, <1>5, <2>2 DEF Launching
        <3>2. QED
            BY <3>1, NoWorkerFields, QuietGone
    <2>3. CASE s \notin gone
        <3>1. worker'[s] = worker[s] /\ (s \in pool' => s \in pool)
            BY <1>1, <1>5, <2>3 DEF Launching
        <3>2. SameContent(s)
            BY <3>1 DEF SameContent
        <3>3. QED
            BY <1>3, <2>1, <3>1, <3>2, QuietKept
    <2>4. QED
        BY <2>2, <2>3
<1>6. QED
    BY <1>4, <1>5

LEMMA QuietRelease ==
    ASSUME PoolInv, \A s \in Slots : QuietSlot(s), NEW t \in Tasks,
           ReleaseWorker(t) \/ ReleaseReservation(t), NEW s \in Slots
    PROVE  QuietSlot(s)'
<1>1. PICK lease \in {"worker", "reservation"} : GiveBack(t, lease)
    BY DEF ReleaseWorker, ReleaseReservation
<1>2. correlation' = correlation
    BY DEF ReleaseWorker, ReleaseReservation
<1>3. ASSUME NEW u \in Holders(s)'
      PROVE  /\ u \in Holders(s) /\ task'[u].pc = task[u].pc
             /\ task'[u].answer = task[u].answer /\ task'[u].correlation = task[u].correlation
    <2>1. u \in Tasks /\ "worker" \in task'[u].holds /\ task'[u].slot = s
        BY DEF Holders
    <2>2. CASE u # t
        <3>1. task'[u] = task[u]
            BY <1>1, <2>1, <2>2, GiveBackRow
        <3>2. QED
            BY <2>1, <3>1 DEF Holders
    <2>3. CASE u = t
        <3>1. NoTask.holds = {}
            BY DEF NoTask
        <3>2. /\ task'[t].pc = task[t].pc /\ task'[t].slot = task[t].slot
              /\ "worker" \in task[t].holds
              /\ task'[t].answer = task[t].answer
              /\ task'[t].correlation = task[t].correlation
            BY <1>1, <2>1, <2>3, <3>1, GiveBackRow
        <3>3. QED
            BY <2>1, <2>3, <3>2 DEF Holders
    <2>4. QED
        BY <2>2, <2>3
<1>4. CASE ReleaseReservation(t)
    <2>1. worker' = worker /\ pool' = pool
        BY <1>4 DEF ReleaseReservation
    <2>2. SameContent(s)
        BY <2>1 DEF SameContent
    <2>3. QED
        BY <1>2, <1>3, <2>1, <2>2, QuietKept
<1>5. CASE ReleaseWorker(t)
    <2>1. /\ worker' = [worker EXCEPT ![task[t].slot] = Returned(t)]
          /\ pool' = IF Alive(task[t].slot) THEN pool ELSE pool \ {task[t].slot}
          /\ GiveBack(t, "worker")
        BY <1>5 DEF ReleaseWorker, SetIts
    <2>2. /\ worker \in [Slots -> WorkerRows] /\ task[t].slot \in Slots
          /\ task[t].pc = "release" /\ "worker" \in task[t].holds
        BY <2>1, GiveBackRow DEF PoolInv, PoolTypeOK
    <2>3. CASE s # task[t].slot
        <3>1. worker'[s] = worker[s] /\ (s \in pool' => s \in pool)
            BY <2>1, <2>2, <2>3
        <3>2. SameContent(s)
            BY <3>1 DEF SameContent
        <3>3. QED
            BY <1>2, <1>3, <3>1, <3>2, QuietKept
    <2>4. CASE s = task[t].slot /\ ~Alive(s)
        <3>1. worker'[s] = NoWorker
            BY <2>1, <2>2, <2>4 DEF Returned
        <3>2. QED
            BY <3>1, NoWorkerFields, QuietGone
    <2>5. CASE s = task[t].slot /\ Alive(s)
        <3>1. worker'[s] = [worker[s] EXCEPT !.busy = FALSE, !.age = 0]
            BY <2>1, <2>2, <2>5 DEF Returned, Its
        <3>2. worker[s] \in WorkerRows /\ QuietSlot(s)
            BY <2>2
        <3>3. SameContent(s)
            BY <3>1, <3>2 DEF SameContent, WorkerRows
        <3>4. t \in Holders(s) /\ worker[s].child = "running"
            BY <2>2, <2>5 DEF Holders, Alive
        <3>5. Rested(s)
            BY <2>2, <3>2, <3>4 DEF QuietSlot, HeldSlot
        <3>6. Rested(s)'
            BY <3>3, <3>5, SameFacts
        <3>7. KnownIds(s)' /\ (worker'[s].torn => worker'[s].soiled)
            BY <1>2, <3>2, <3>3, KnownKept DEF QuietSlot, SameContent
        <3>8. Holders(s)' = {}
            <4>1. Holders(s) = {t}
                BY <3>4 DEF PoolInv, SlotWellFormed
            <4>2. t \notin Holders(s)'
                BY <2>1, GiveBackRow DEF Holders
            <4>3. QED
                BY <1>3, <4>1, <4>2
        <3>9. QED
            BY <3>6, <3>7, <3>8 DEF QuietSlot, Rested
    <2>6. QED
        BY <2>3, <2>4, <2>5
<1>6. QED
    BY <1>4, <1>5

LEMMA NextQuiet ==
    ASSUME PoolInv, QuietInv, [Next]_vars
    PROVE  QuietInv'
<1> SUFFICES ASSUME ~Repeats, \A s \in Slots : QuietSlot(s), NEW s \in Slots
             PROVE  QuietSlot(s)'
    BY DEF QuietInv
<1>1. ASSUME NEW e \in Engines, AcquireFails(e) \/ IsWarm(e)
      PROVE  QuietSlot(s)'
    <2>1. PICK gone \in SUBSET Dead : Erase(gone) /\ pool' = pool \ gone
        BY <1>1 DEF AcquireFails, IsWarm, Passed
    <2>2. gone \subseteq pool /\ UNCHANGED <<task, correlation>>
        BY <1>1 DEF Dead, AcquireFails, IsWarm
    <2>3. QED
        BY <2>1, <2>2, QuietErased
<1>2. CASE ReapIdle
    <2>1. Dead \cup Overdue \subseteq pool
        BY DEF Dead, Overdue, Idle
    <2>2. QED
        BY <1>2, <2>1, QuietErased DEF ReapIdle
<1>3. CASE Shutdown
    BY <1>3, QuietErased DEF Shutdown
<1>4. CASE Launch
    BY <1>4, QuietLaunch
<1>5. ASSUME NEW t \in Tasks, Acts(t)
      PROVE  QuietSlot(s)'
    BY <1>5, QuietTask, QuietRelease
<1>6. CASE Tick \/ \E r \in Slots : WorkerAnswers(r) \/ WorkerExits(r)
    BY <1>6, QuietWorkers
<1>7. CASE RequestStop \/ Join \/ UNCHANGED vars
    <2>1. worker' = worker /\ pool' = pool /\ task' = task /\ correlation' = correlation
        BY <1>7 DEF RequestStop, Join, vars
    <2>2. Holders(s)' = Holders(s) /\ SameContent(s)
        BY <2>1 DEF Holders, SameContent
    <2>3. QED
        BY <2>1, <2>2, QuietKept
<1>8. QED
    BY <1>1, <1>2, <1>3, <1>4, <1>5, <1>6, <1>7 DEF Next, Launch, Acts

(***************************************************************************)
(* A worker that answers once is idle only when its pipes are empty, or    *)
(* when an exception of cancellation_requested took its task out of        *)
(* WorkerProcess::execute in the middle of an exchange, every other return *)
(* that gives an exchange up ending the worker; and from then on no        *)
(* attempt gets a result of that worker, what is left in it being the      *)
(* first thing a later attempt is answered.                                *)
(***************************************************************************)
THEOREM IdleIsQuietCorrect == Spec => []IdleIsQuiet
<1>1. Init => QuietInv
    <2>1. Init => \A s \in Slots : worker[s] = NoWorker /\ pool = {}
        BY DEF Init
    <2>2. ASSUME Init, NEW s \in Slots PROVE QuietSlot(s)
        <3>1. KnownIds(s) /\ worker[s].torn = FALSE /\ worker[s].soiled = FALSE
              /\ worker[s].child # "running" /\ s \notin Idle
            BY <2>1, <2>2, NoWorkerFields DEF KnownIds, Below, Idle
        <3>2. QED
            BY <3>1 DEF QuietSlot
    <2>3. QED
        BY <2>2 DEF QuietInv
<1>2. PoolInv /\ QuietInv /\ [Next]_vars => QuietInv'
    BY NextQuiet
<1>3. QuietInv => IdleIsQuiet
    BY DEF QuietInv, QuietSlot, IdleIsQuiet
<1>4. QED
    BY <1>1, <1>2, <1>3, PoolSafety, PTL DEF Spec
=============================================================================
