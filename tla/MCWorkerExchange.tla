-------------------------- MODULE MCWorkerExchange --------------------------
(* The properties of the exchange with a worker, and an instance for TLC. *)
EXTENDS WorkerExchange, SequencesExt

\* What a faulty worker sends: a second answer to the first request, a frame of
\* another protocol version, one above the limits, one with malformed metadata.
Stray == [type |-> "WorkerResult", correlation |-> 1, framing |-> TRUE, metadata |-> 0,
          metadata_ok |-> TRUE, payload |-> 0]

StrayFrames ==
    {Stray, [Stray EXCEPT !.framing = FALSE], [Stray EXCEPT !.payload = MaxPayload + 1],
     [Stray EXCEPT !.metadata = 1, !.metadata_ok = FALSE]}

Busy == exchange.pc \in {"write", "read", "check", "last"}

(***************************************************************************)
(* However the pipes cut requests and answers, and whatever an earlier     *)
(* call has left in the worker, what it computes under the correlation id  *)
(* of the call in progress is that call's request, all of it and nothing   *)
(* else, and an attempt succeeds only with a complete result frame that    *)
(* answers its own request.  (An exception out of execute leaves requests  *)
(* the worker still computes on, or reads together with the next one; it   *)
(* then answers under an earlier id.)                                      *)
(* (worker_runtime.cpp: the write loop and finish_response of execute;     *)
(* protocol.cpp: read_exact, read_available)                               *)
(***************************************************************************)
ExchangeIntact ==
    /\ /\ worker.pc = "computing" /\ Busy
       /\ HeaderOf(worker.got).correlation = exchange.request.correlation
       => worker.got = Encoded(exchange.request)
    /\ exchange.outcome = "succeeded" =>
        /\ exchange.answer = Encoded(HeaderOf(exchange.answer))
        /\ HeaderOf(exchange.answer).type = "WorkerResult"
        /\ HeaderOf(exchange.answer).correlation = exchange.request.correlation

(***************************************************************************)
(* What the Kernel has still to read is cut at frame boundaries: no byte   *)
(* is lost or read twice between the pipe, the buffer and the frames that  *)
(* were handed out.  (protocol.cpp: the insert and erase of buffer_)       *)
(***************************************************************************)
Framed(b) ==
    b # <<>> =>
        /\ b[1].at = 1
        /\ \A i \in 1 .. Len(b) - 1 :
            \/ b[i + 1] = [b[i] EXCEPT !.at = @ + 1]
            \/ b[i].at = Size(b[i].of) /\ b[i + 1].at = 1

StreamInStep == open => Framed(buffer \o stdout \o worker.out)

(***************************************************************************)
(* A call that returns, with whatever outcome, leaves nothing of itself in *)
(* a worker it keeps: no rest of a request it would read as the next one,  *)
(* and no answer but what a faulty worker sent unasked.  Only an exception *)
(* out of execute leaves more.                                             *)
(***************************************************************************)
CleanHandover ==
    exchange.pc = "idle" /\ open /\ exchange.outcome # "thrown" =>
        /\ stdin = <<>>
        /\ \A b \in Range(buffer \o stdout \o worker.out) : b.of \in Strays

(***************************************************************************)
(* The strengthening that makes the three inductive.  What the Kernel has  *)
(* still to read of a worker is whole frames while the worker runs.  What  *)
(* the worker has still to read ends with the request of the call, as far  *)
(* as it was sent; the worker computes under its id only when it has taken *)
(* all of it, with nothing before it.  If the first frame to be read bears *)
(* that id, nothing of the request is left and only strays are behind it.  *)
(***************************************************************************)
Bytes == {b \in [of : Frames, at : Nat \ {0}] : b.at <= Size(b.of)}

Stream == buffer \o stdout \o worker.out

Whole(s) == s # <<>> => s[Len(s)].at = Size(s[Len(s)].of)

\* b is of a stray that repeats the id of request n or an earlier one.
StrayByte(b, n) == b.of \in Strays /\ b.of.correlation <= n
OnlyStrays(s, n) == \A i \in DOMAIN s : StrayByte(s[i], n)
StraysBehind(s, n) == \A i \in DOMAIN s : i > Size(s[1].of) => StrayByte(s[i], n)

PipesTypeOK ==
    /\ worker \in [pc : {"reading", "computing", "writing", "exited"},
                   got : Seq(Bytes), out : Seq(Bytes)]
    /\ worker.pc = "writing" <=> worker.out # <<>>
    /\ stdin \in Seq(Bytes) /\ stdout \in Seq(Bytes) /\ buffer \in Seq(Bytes)

\* What the worker has still to take of its requests.
Input == IF worker.pc = "reading" THEN worker.got \o stdin ELSE stdin

Untouched == worker.pc # "computing" /\ Input = <<>>

\* The worker has read a header: it is that of the first byte's frame.
HeaderRead ==
    /\ worker.pc = "computing" => HeaderSize <= Len(worker.got)
    /\ worker.pc \in {"reading", "computing"} /\ HeaderSize <= Len(worker.got) =>
         worker.got[1].at = 1 /\ worker.got[1].of = worker.got[HeaderSize].of

\* No byte is of a request that was not made yet.
UpTo(s, n) == \A i \in DOMAIN s : s[i].of.correlation <= n

KnownIds ==
    /\ UpTo(Stream, requests) /\ UpTo(Input, requests)
    /\ worker.pc = "computing" => HeaderOf(worker.got).correlation <= requests

SentBytes == IF At("write") THEN exchange.offset ELSE Size(exchange.request)

\* b is of the request of the call in progress, or of an answer to it.
Recent(b) == b.of.correlation = requests

RequestInv ==
    /\ exchange.request \in Frames
    /\ exchange.request.correlation = requests /\ requests # 0
    /\ At("write") => exchange.offset < Size(exchange.request)

\* From its first byte under the id of f on, s is what the first m bytes of f end with.
EndsWith(s, f, m) ==
    \A i \in DOMAIN s : s[i].of.correlation = f.correlation =>
        \A j \in i .. Len(s) : s[j] = [of |-> f, at |-> m - Len(s) + j]

ComputingInv ==
    worker.pc = "computing" /\ HeaderOf(worker.got).correlation = requests =>
        worker.got = Encoded(exchange.request) /\ stdin = <<>> /\ ~At("write")

AnswerSent == Stream # <<>> /\ Recent(Stream[1])

AnswerInv ==
    AnswerSent =>
        /\ Untouched /\ ~At("write")
        /\ StraysBehind(Stream, requests)

OpenInv ==
    /\ PipesTypeOK /\ HeaderRead /\ KnownIds
    /\ Framed(Stream)
    /\ Running => Whole(Stream)
    /\ At("idle") => exchange.outcome = "thrown" \/ (Untouched /\ OnlyStrays(Stream, requests))
    /\ Busy => /\ RequestInv /\ ComputingInv /\ AnswerInv
               /\ EndsWith(Input, exchange.request, SentBytes)

ClosedInv == At("down") \/ (At("idle") /\ worker = Exited /\ stdin = <<>> /\ stdout = <<>>)

AnswerIntact ==
    exchange.outcome = "succeeded" =>
        /\ exchange.answer = Encoded(HeaderOf(exchange.answer))
        /\ HeaderOf(exchange.answer).type = "WorkerResult"
        /\ HeaderOf(exchange.answer).correlation = exchange.request.correlation

ExchangeRows ==
    [pc : {"idle", "down", "write", "read", "check", "last"},
     request : Frames \cup {<<>>}, offset : Nat, turn : Nat,
     outcome : {"none", "succeeded", "failed", "crashed", "thrown",
                "stopped", "cancelled", "timed_out"},
     answer : Seq(Bytes)]

ExchangeInv ==
    /\ exchange \in ExchangeRows
    /\ demand \in {"none", "stopped", "cancelled", "timed_out"} /\ requests \in Nat
    /\ AnswerIntact
    /\ IF open THEN OpenInv /\ ~At("down") ELSE ClosedInv

(***************************************************************************)
(* An answer that has arrived, in the buffer or in the pipe, becomes the   *)
(* outcome although the attempt is cancelled or its time is up.  It is     *)
(* lost only to the stop of the Kernel, to the end of the worker (end of   *)
(* file hides a complete frame), to bytes behind it that overflow the      *)
(* buffer, when it is longer than one turn of the last read, or to a store *)
(* error when the cancellation is asked for after a read that was early.   *)
(***************************************************************************)
AnswerArrived ==
    LET bytes == buffer \o stdout
    IN  ReadFrame(bytes) = "frame" /\ Accepts(HeaderOf(bytes))

AnswerWinsStep ==
    Busy /\ ~At("write") /\ exchange'.pc = "idle" /\ exchange'.answer = <<>> /\ AnswerArrived
    => \/ demand = "stopped" \/ ~Running
       \/ Len(buffer \o stdout) > MaxBuffered
       \/ exchange.turn >= ReadBudget
       \/ exchange'.outcome = "thrown"

AnswerWins == [][AnswerWinsStep]_vars

\* The worker is held up by something an earlier call has left: what it will
\* send first, or has sent first, is no answer to the call in progress.
HeldUp ==
    IF Stream # <<>> THEN ~Recent(Stream[1])
    ELSE CASE worker.pc = "computing" -> HeaderOf(worker.got).correlation # requests
           [] worker.pc = "reading" -> Input # <<>> /\ ~Recent(Input[1])
           [] OTHER -> TRUE

\* How far the worker is, as WorkerCall counts.
CallPhase ==
    CASE At("down") -> "down"
      [] At("idle") /\ ~open -> "none"
      [] At("idle") /\ open /\ ~Running -> "dead"
      [] At("idle") /\ open /\ Running ->
            IF Untouched /\ Stream = <<>> THEN "ready" ELSE "soiled"
      [] Busy /\ HeldUp -> "spent"
      [] Busy /\ ~HeldUp ->
            IF Stream # <<>> THEN "answered"
            ELSE IF worker.pc = "computing" THEN "computing" ELSE "waiting"

CallOf == INSTANCE WorkerCall WITH phase <- CallPhase, outcome <- exchange.outcome

(***************************************************************************)
(* The exchange implements module WorkerCall: however requests, answers    *)
(* and strays are cut, an attempt succeeds only with the answer of the     *)
(* computation on its own request, a call that returns without an answer   *)
(* ends the worker, and a worker that an exception or a stray has left     *)
(* soiled gives no later call an answer.                                   *)
(***************************************************************************)
ImplementsCall == CallOf!Spec

(***************************************************************************)
(* A call of execute returns once it is told to stop, once the worker has  *)
(* died and once it has answered, even if the worker stalls in the middle  *)
(* of a request or of an answer.                                           *)
(***************************************************************************)
ExchangeEnds ==
    (Busy /\ (demand # "none" \/ ~Running \/ (At("read") /\ worker = Fresh /\ stdin = <<>>)))
        ~> ~Busy

(***************************************************************************)
(* No orphan: when the Kernel dies, a worker that computes and reads its   *)
(* input ends by itself, wherever in a frame the pipe was cut.             *)
(***************************************************************************)
OrphanEnds == WF_vars(WorkerStep /\ UNCHANGED exchangeVars) => (At("down") ~> ~Running)
=============================================================================
