--------------------------- MODULE WorkLifecycle ---------------------------
(***************************************************************************)
(* What the Kernel promises a client about its Works, independently of     *)
(* threads, files and restarts.  The state names are those of the schema   *)
(* of kernel/src/store.cpp; an abstract Work is what the STATUS and RESULT *)
(* commands show of it plus its budget:                                    *)
(*   state, attempts (started so far), budget (max_attempts), cancel (a    *)
(*   cancellation was requested) and payload (RESULT delivers it).         *)
(* Works evolve independently; one step of the Kernel, such as its         *)
(* restart, may advance several of them at once.                           *)
(***************************************************************************)
EXTENDS Integers

CONSTANT WorkIds

VARIABLE book

NotSubmitted(b) == b.state = "ABSENT" /\ b.attempts = 0 /\ ~b.cancel /\ ~b.payload

\* The step from b to a submits the Work.
Submitted(b, a) ==
    /\ b.state = "ABSENT"
    /\ a = [state |-> "QUEUED", attempts |-> 0, budget |-> a.budget,
            cancel |-> FALSE, payload |-> FALSE]
    /\ a.budget >= 1

Started(b, a) ==
    /\ b.state = "QUEUED" /\ ~b.cancel /\ b.attempts < b.budget
    /\ a = [b EXCEPT !.state = "RUNNING", !.attempts = @ + 1]

\* The result and the state become visible together.
Succeeded(b, a) ==
    /\ b.state = "RUNNING"
    /\ a = [b EXCEPT !.state = "SUCCEEDED", !.payload = TRUE]

Requeued(b, a) ==
    /\ b.state = "RUNNING" /\ ~b.cancel /\ b.attempts < b.budget
    /\ a = [b EXCEPT !.state = "QUEUED"]

Failed(b, a) ==
    /\ b.state \in {"QUEUED", "RUNNING"} /\ ~b.cancel
    /\ a = [b EXCEPT !.state = "FAILED"]

CancelRequested(b, a) ==
    /\ b.state = "RUNNING"
    /\ a = [b EXCEPT !.cancel = TRUE]

Cancelled(b, a) ==
    /\ b.state = "QUEUED" \/ (b.state = "RUNNING" /\ b.cancel)
    /\ a = [b EXCEPT !.state = "CANCELLED", !.cancel = TRUE]

\* The client acknowledged the result: only then does it disappear.
Acknowledged(b, a) ==
    /\ b.state = "SUCCEEDED" /\ b.payload
    /\ a = [b EXCEPT !.payload = FALSE]

Advance(b, a) ==
    \/ Submitted(b, a) \/ Started(b, a) \/ Succeeded(b, a) \/ Requeued(b, a)
    \/ Failed(b, a) \/ CancelRequested(b, a) \/ Cancelled(b, a)
    \/ Acknowledged(b, a)

Init == \A w \in WorkIds : NotSubmitted(book[w])

Next == \A w \in WorkIds : book'[w] = book[w] \/ Advance(book[w], book'[w])

Spec == Init /\ [][Next]_book
=============================================================================
