----------------------------- MODULE WorkerCall -----------------------------
(***************************************************************************)
(* What WorkerProcess::execute of kernel/src/worker_runtime.cpp promises   *)
(* the task that calls it, without bytes, pipes and partial reads:         *)
(*   - a call that finds the worker ready computes on its request at most  *)
(*     once; a result, and the failure a worker reports itself, come from  *)
(*     the answer to that computation, and the worker is kept;             *)
(*   - every other return is the demand that was made, or a failure, and   *)
(*     the worker is gone;                                                 *)
(*   - an exception of the caller's cancellation_requested passes through  *)
(*     and keeps the worker, which is soiled unless nothing was written;   *)
(*     a worker that is soiled answers no later call.                      *)
(***************************************************************************)
EXTENDS Naturals

VARIABLES
    phase,     \* the worker, and how far the call on it is
    requests,  \* calls so far
    outcome,   \* of the last call
    demand     \* the condition that ends the call early, if it holds

callVars == <<phase, requests, outcome, demand>>

Demands == {"stopped", "cancelled", "timed_out"}

(***************************************************************************)
(* Between calls: "none", no worker; "ready"; "soiled", something of an    *)
(* earlier call or a stray frame is left in it; "dead", to be found so.    *)
(* In a call: "waiting", the worker has not begun to compute on the        *)
(* request; "computing"; "answered"; "spent", no answer will come.         *)
(* "down": the Kernel is.                                                  *)
(***************************************************************************)
InCall == phase \in {"waiting", "computing", "answered", "spent"}

Init == phase = "ready" /\ requests = 0 /\ outcome = "none" /\ demand = "none"

Progress(from, to) ==
    /\ phase \in from /\ phase' = to
    /\ UNCHANGED <<requests, outcome, demand>>

NewWorker == demand # "stopped" /\ Progress({"none"}, "ready")
Dies == Progress({"ready", "soiled"}, "dead")

Call ==
    /\ demand # "stopped"
    /\ \/ phase = "ready" /\ phase' = "waiting"
       \/ phase = "soiled" /\ phase' = "spent"
    /\ requests' = requests + 1
    /\ outcome' = "none" /\ demand' = "none"

\* The call returns at once.
CallDead ==
    /\ phase = "dead" /\ demand # "stopped"
    /\ phase' = "none" /\ outcome' = "crashed"
    /\ requests' = requests + 1
    /\ UNCHANGED demand

Compute == Progress({"waiting"}, "computing")
Answer == Progress({"computing"}, "answered")

\* The worker died, or sent something else than an answer.
Spend == Progress({"waiting", "computing", "answered"}, "spent")

ReturnAnswer ==
    /\ phase = "answered" /\ phase' \in {"ready", "soiled", "dead"}
    /\ outcome' \in {"succeeded", "failed"}
    /\ UNCHANGED <<requests, demand>>

ReturnWithout ==
    /\ InCall /\ phase' = "none"
    /\ outcome' \in {"crashed", "failed"} \cup (Demands \cap {demand})
    /\ UNCHANGED <<requests, demand>>

\* The exception of cancellation_requested, asked once no stop was seen.
Throw ==
    /\ InCall /\ demand # "stopped"
    /\ \/ phase' \in {"soiled", "dead"}
       \/ phase = "waiting" /\ phase' = "ready"
    /\ outcome' = "thrown"
    /\ UNCHANGED <<requests, demand>>

Demand ==
    /\ InCall /\ demand = "none"
    /\ demand' \in Demands
    /\ UNCHANGED <<phase, requests, outcome>>

KernelDies ==
    /\ phase # "down" /\ phase' = "down"
    /\ outcome' = "none"
    /\ UNCHANGED <<requests, demand>>

Next ==
    \/ NewWorker \/ Dies \/ Call \/ CallDead
    \/ Compute \/ Answer \/ Spend
    \/ ReturnAnswer \/ ReturnWithout \/ Throw
    \/ Demand \/ KernelDies

Spec == Init /\ [][Next]_callVars
=============================================================================
