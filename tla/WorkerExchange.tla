--------------------------- MODULE WorkerExchange ---------------------------
(***************************************************************************)
(* The exchange of an attempt with its worker, byte by byte:               *)
(* WorkerProcess::execute of kernel/src/worker_runtime.cpp composed with   *)
(* the worker process, one attempt after the other on the same worker as   *)
(* long as it is usable.  Both ends of the pipes move any number of bytes  *)
(* at a time; the Kernel never blocks in a read or a write.  POSIX build.  *)
(***************************************************************************)
EXTENDS LlamaWorker

CONSTANTS
    RequestSizes,  \* payload sizes of requests, within the limits
    MaxRequests    \* bound on requests

ASSUME ExchangeAssumption ==
    /\ RequestSizes \subseteq 0 .. MaxPayload
    /\ MaxRequests \in Nat

VARIABLES
    exchange,  \* the call of execute: program counter and locals
    buffer,    \* buffer_ of the worker's response_reader
    demand,    \* what the polled conditions say: stop, cancellation, time
    requests   \* requests so far: the correlation id

exchangeVars == <<exchange, buffer, demand, requests>>
vars == <<workerVars, open, exchangeVars>>

(***************************************************************************)
(* pc: "write" the request, "read" the answer, "check" the conditions when *)
(* there is none, "last" read once more after a cancellation or timeout,   *)
(* "idle" between two calls, "down" once the Kernel died.  turn:           *)
(* read_this_turn.  answer: the bytes of the frame the call accepted.      *)
(***************************************************************************)
Idle == [pc |-> "idle", request |-> <<>>, offset |-> 0, turn |-> 0,
         outcome |-> "none", answer |-> <<>>]

Request(size) ==
    [type |-> "WorkerExecute", correlation |-> requests + 1, framing |-> TRUE,
     metadata |-> 1, metadata_ok |-> TRUE, payload |-> size]

Init ==
    /\ worker = Fresh /\ stdin = <<>> /\ stdout = <<>> /\ open = TRUE
    /\ exchange = Idle
    /\ buffer = <<>>
    /\ demand = "none"
    /\ requests = 0

At(pc) == exchange.pc = pc

\* execute returns, or an exception leaves it.
Returns(outcome) == exchange' = [exchange EXCEPT !.pc = "idle", !.outcome = outcome]

\* alive() found the child gone, or terminate() killed and reaped it: the
\* descriptors are closed and what is in the pipes is gone.
Close ==
    /\ worker' = Exited /\ stdin' = <<>> /\ stdout' = <<>>
    /\ open' = FALSE

GiveUp(outcome) == Close /\ Returns(outcome) /\ UNCHANGED <<buffer, demand, requests>>

\* The constructor: a new process with new pipes and an empty reader.
Spawn ==
    /\ At("idle") /\ ~open /\ demand # "stopped"
    /\ worker' = Fresh /\ open' = TRUE
    /\ buffer' = <<>>
    /\ UNCHANGED <<stdin, stdout, exchange, demand, requests>>

Begin ==
    /\ At("idle") /\ open /\ Running
    /\ demand # "stopped" /\ requests < MaxRequests
    /\ \E size \in RequestSizes :
        exchange' = [Idle EXCEPT !.pc = "write", !.request = Request(size)]
    /\ requests' = requests + 1
    /\ demand' = "none"
    /\ UNCHANGED <<workerVars, open, buffer>>

BeginFindsDead ==
    /\ At("idle") /\ open /\ ~Running
    /\ demand # "stopped" /\ requests < MaxRequests
    /\ requests' = requests + 1
    /\ Close /\ exchange' = [Idle EXCEPT !.outcome = "crashed"]
    /\ UNCHANGED <<buffer, demand>>
-----------------------------------------------------------------------------
(* Writing the request. *)

\* One ::write; a full pipe is EAGAIN and another round of the loop.
WriteSome ==
    /\ At("write") /\ demand = "none" /\ Running
    /\ LET bytes == Encoded(exchange.request)
           rest == Len(bytes) - exchange.offset
       IN  \E k \in 1 .. Min({rest, PipeCapacity - Len(stdin)}) :
            /\ stdin' = stdin \o SubSeq(bytes, exchange.offset + 1, exchange.offset + k)
            /\ exchange' = IF k = rest THEN [exchange EXCEPT !.pc = "read", !.turn = 0]
                           ELSE [exchange EXCEPT !.offset = @ + k]
    /\ UNCHANGED <<worker, stdout, open, buffer, demand, requests>>

\* alive() is false, or the write fails with EPIPE.
WriteFindsDead == At("write") /\ demand = "none" /\ ~Running /\ GiveUp("crashed")

\* Mutant of WriteInterrupted: the worker is kept for the next attempt.
WriteInterruptedKeepsWorker ==
    /\ At("write") /\ demand # "none"
    /\ Returns(demand)
    /\ UNCHANGED <<workerVars, open, buffer, demand, requests>>

\* kernel_stopping, cancellation_requested or stop_at_ms: terminate().
WriteInterrupted == At("write") /\ demand # "none" /\ GiveUp(demand)
-----------------------------------------------------------------------------
(* Reading the answer: read_available, then what its result calls for. *)

Reading == At("read") \/ At("last")

\* One ::read.  A buffer that would grow too large is a protocol failure.
ReadChunk ==
    /\ Reading /\ stdout # <<>>
    /\ \E k \in ReadSizes(exchange.turn, Len(stdout)) :
        IF Overflows(buffer, k) THEN GiveUp("failed")
        ELSE /\ buffer' = buffer \o SubSeq(stdout, 1, k)
             /\ stdout' = SubSeq(stdout, k + 1, Len(stdout))
             /\ exchange' = [exchange EXCEPT !.turn = @ + k]
             /\ UNCHANGED <<worker, stdin, open, demand, requests>>

\* End of file is an exception whatever the buffer holds, a complete frame
\* included.  A worker that has closed its pipe may not have exited yet.
ReadEnd ==
    /\ Reading /\ exchange.turn < ReadBudget
    /\ stdout = <<>> /\ ~Running
    /\ GiveUp("crashed") \/ GiveUp("failed")

\* EAGAIN or the budget is spent: the loop of read_available ends.
ReadDone ==
    /\ Reading
    /\ exchange.turn >= ReadBudget \/ (stdout = <<>> /\ Running)

ReadInvalid == ReadDone /\ ReadFrame(buffer) = "invalid" /\ GiveUp("failed")

\* Mutant of Accepts: any correlation id will do.
AcceptsAny(f) == f.type \in {"WorkerResult", "WorkerFailure"}

\* finish_response: the answer to this request, of a known type.
Accepts(f) ==
    /\ f.correlation = exchange.request.correlation
    /\ f.type \in {"WorkerResult", "WorkerFailure"}

\* Mutant of ReadAnswer: the whole buffer is dropped with the frame.
ReadAnswerClearsBuffer ==
    /\ ReadDone /\ ReadFrame(buffer) = "frame" /\ Accepts(HeaderOf(buffer))
    /\ exchange' = [exchange EXCEPT !.pc = "idle", !.answer = FirstFrame(buffer),
         !.outcome = IF HeaderOf(buffer).type = "WorkerResult" THEN "succeeded" ELSE "failed"]
    /\ buffer' = <<>>
    /\ UNCHANGED <<workerVars, open, demand, requests>>

\* A result, or a technical failure of a worker that stays usable.
ReadAnswer ==
    /\ ReadDone /\ ReadFrame(buffer) = "frame" /\ Accepts(HeaderOf(buffer))
    /\ exchange' = [exchange EXCEPT !.pc = "idle", !.answer = FirstFrame(buffer),
         !.outcome = IF HeaderOf(buffer).type = "WorkerResult" THEN "succeeded" ELSE "failed"]
    /\ buffer' = AfterFirstFrame(buffer)
    /\ UNCHANGED <<workerVars, open, demand, requests>>

ReadForeign ==
    /\ ReadDone /\ ReadFrame(buffer) = "frame" /\ ~Accepts(HeaderOf(buffer))
    /\ GiveUp("failed")

\* read_available returns nothing.
ReadNothing ==
    /\ ReadDone /\ At("read") /\ ReadFrame(buffer) = "more"
    /\ exchange' = [exchange EXCEPT !.pc = "check"]
    /\ UNCHANGED <<workerVars, open, buffer, demand, requests>>

CheckStopped == At("check") /\ demand = "stopped" /\ GiveUp("stopped")

\* Mutants of CheckLast: the attempt is ended at once; the demand is honoured
\* only while the worker is silent.
CheckLastEndsAtOnce ==
    At("check") /\ demand \in {"cancelled", "timed_out"} /\ GiveUp(demand)

CheckLastIfSilent ==
    /\ At("check") /\ demand \in {"cancelled", "timed_out"} /\ buffer = <<>>
    /\ exchange' = [exchange EXCEPT !.pc = "last", !.turn = 0]
    /\ UNCHANGED <<workerVars, open, buffer, demand, requests>>

\* A cancellation or timeout reads once more before it ends the attempt.
CheckLast ==
    /\ At("check") /\ demand \in {"cancelled", "timed_out"}
    /\ exchange' = [exchange EXCEPT !.pc = "last", !.turn = 0]
    /\ UNCHANGED <<workerVars, open, buffer, demand, requests>>

\* Nothing is demanded: poll and read again, unless alive() is false, which also
\* hides the bytes that are in the pipe.
CheckAgain ==
    /\ At("check") /\ demand = "none"
    /\ IF Running
       THEN /\ exchange' = [exchange EXCEPT !.pc = "read", !.turn = 0]
            /\ UNCHANGED <<workerVars, open, buffer, demand, requests>>
       ELSE GiveUp("crashed")

\* The last read found no answer either: terminate().
LastInterrupted == ReadDone /\ At("last") /\ ReadFrame(buffer) = "more" /\ GiveUp(demand)

\* cancellation_requested throws on an error of the store, in the write loop or
\* after a read without an answer, once kernel_stopping was false.  The exception
\* passes execute, which does not terminate(): the worker is kept with what was
\* written to it, what it computes and what it has answered.
CancellationThrows ==
    /\ At("write") \/ At("check")
    /\ demand # "stopped"
    /\ Returns("thrown")
    /\ UNCHANGED <<workerVars, open, buffer, demand, requests>>

KernelStep ==
    \/ WriteSome \/ WriteFindsDead \/ WriteInterrupted
    \/ ReadChunk \/ ReadEnd \/ ReadInvalid \/ ReadAnswer \/ ReadForeign
    \/ ReadNothing \/ CheckStopped \/ CheckLast \/ CheckAgain \/ LastInterrupted
-----------------------------------------------------------------------------
\* The conditions change at any time; the stop of the Kernel is for good.
Demand ==
    /\ demand = "none" /\ exchange.pc \in {"write", "read", "check"}
    /\ demand' \in {"stopped", "cancelled", "timed_out"}
    /\ UNCHANGED <<workerVars, open, exchange, buffer, requests>>

\* The Kernel process dies: its ends of the pipes are closed, the worker runs.
KernelDies ==
    /\ ~At("down")
    /\ exchange' = [Idle EXCEPT !.pc = "down"]
    /\ open' = FALSE /\ stdout' = <<>> /\ buffer' = <<>>
    /\ UNCHANGED <<worker, stdin, demand, requests>>

Next ==
    \/ Spawn \/ Begin \/ BeginFindsDead \/ KernelStep \/ CancellationThrows
    \/ WorkerStep /\ UNCHANGED exchangeVars
    \/ WorkerStrays /\ UNCHANGED exchangeVars
    \/ WorkerDies /\ UNCHANGED exchangeVars
    \/ Demand \/ KernelDies

Spec == Init /\ [][Next]_vars

\* The task's thread runs.  Nothing is assumed of the worker.
FairSpec == Spec /\ WF_vars(KernelStep)
=============================================================================
