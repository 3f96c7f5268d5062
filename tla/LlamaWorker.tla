---------------------------- MODULE LlamaWorker -----------------------------
(***************************************************************************)
(* A worker process: the loop of kernel/workers/llamacpp/main.cpp, between *)
(* its two pipes.  It reads a request, computes, writes its answer, and    *)
(* ends when its input does.  Like any process it may also hang or die.    *)
(***************************************************************************)
EXTENDS FrameProtocol

CONSTANTS
    ResultSizes,   \* payload sizes of results, within the limits
    PipeCapacity,  \* bytes a pipe holds
    Strays         \* frames a faulty worker sends instead of or behind its answer

ASSUME WorkerAssumption ==
    /\ ResultSizes \subseteq 0 .. MaxPayload
    /\ PipeCapacity \in Nat \ {0}
    /\ Strays \subseteq Frames

VARIABLES
    worker,   \* pc; got: bytes of the request read; out: bytes of the answer to write
    stdin,    \* bytes in the pipe from the Kernel
    stdout,   \* bytes in the pipe to the Kernel
    open      \* the Kernel holds its ends of the pipes

workerVars == <<worker, stdin, stdout>>

Fresh == [pc |-> "reading", got |-> <<>>, out |-> <<>>]
Exited == [pc |-> "exited", got |-> <<>>, out |-> <<>>]

Running == worker.pc # "exited"

Answer(type, request, payload) ==
    [type |-> type, correlation |-> request.correlation, framing |-> TRUE,
     metadata |-> IF type = "WorkerFailure" THEN 1 ELSE 0, metadata_ok |-> TRUE,
     payload |-> payload]

\* read_frame: one ::read of the request.  An invalid frame ends the process.  So
\* does metadata mixed from two requests that does not parse: WorkerDies.
WorkerReads ==
    /\ worker.pc = "reading" /\ stdin # <<>>
    /\ \E k \in 1 .. Min({Len(stdin), Wanted(worker.got) - Len(worker.got)}) :
       \E got \in Taken(worker.got \o SubSeq(stdin, 1, k)) :
            /\ worker' = CASE ReadFrame(got) = "more" -> [worker EXCEPT !.got = got]
                           [] ReadFrame(got) = "invalid" -> Exited
                           [] OTHER -> [worker EXCEPT !.pc = "computing", !.got = got]
            /\ stdin' = SubSeq(stdin, k + 1, Len(stdin))
    /\ UNCHANGED <<stdout, open>>

\* Mutant of WorkerSeesEnd: only the end of the input between two frames counts.
WorkerSeesEndBetweenFrames ==
    /\ worker.pc = "reading" /\ stdin = <<>> /\ ~open /\ worker.got = <<>>
    /\ worker' = Exited
    /\ UNCHANGED <<stdin, stdout, open>>

\* "peer closed framed IPC": end of the input.
WorkerSeesEnd ==
    /\ worker.pc = "reading" /\ stdin = <<>> /\ ~open
    /\ worker' = Exited
    /\ UNCHANGED <<stdin, stdout, open>>

\* execute: generate yields a result or throws, which is answered by a failure.
Answers(request) ==
    {Answer("WorkerResult", request, p) : p \in ResultSizes}
        \cup {Answer("WorkerFailure", request, 0)}

WorkerComputes ==
    /\ worker.pc = "computing"
    /\ \E f \in Answers(HeaderOf(worker.got)) :
        worker' = [worker EXCEPT !.pc = "writing", !.out = Encoded(f)]
    /\ UNCHANGED <<stdin, stdout, open>>

\* A faulty worker: a stray frame alone, or behind the answer.  It may repeat any
\* correlation id it was given, and does not guess the next ones.
WorkerStrays ==
    /\ worker.pc = "computing"
    /\ \E f \in Answers(HeaderOf(worker.got)), s \in Strays :
       /\ s.correlation <= HeaderOf(worker.got).correlation
       /\ \E out \in {Encoded(s), Encoded(f) \o Encoded(s)} :
            worker' = [worker EXCEPT !.pc = "writing", !.out = out]
    /\ UNCHANGED <<stdin, stdout, open>>

\* write_frame: one ::write of the answer, blocking while the pipe is full.
WorkerWrites ==
    /\ worker.pc = "writing" /\ open
    /\ \E k \in 1 .. Min({Len(worker.out), PipeCapacity - Len(stdout)}) :
        /\ stdout' = stdout \o SubSeq(worker.out, 1, k)
        /\ worker' = IF k = Len(worker.out) THEN Fresh
                     ELSE [worker EXCEPT !.out = SubSeq(@, k + 1, Len(@))]
    /\ UNCHANGED <<stdin, open>>

\* The Kernel is gone: the write fails (SIGPIPE is ignored, as in the Kernel it
\* was spawned by) and the exception ends the process.
WorkerWriteFails ==
    /\ worker.pc = "writing" /\ ~open
    /\ worker' = Exited
    /\ UNCHANGED <<stdin, stdout, open>>

\* The process dies; what it has written stays in the pipe.
WorkerDies ==
    /\ Running
    /\ worker' = Exited
    /\ stdin' = <<>>
    /\ UNCHANGED <<stdout, open>>

WorkerStep ==
    WorkerReads \/ WorkerSeesEnd \/ WorkerComputes \/ WorkerWrites \/ WorkerWriteFails
=============================================================================
