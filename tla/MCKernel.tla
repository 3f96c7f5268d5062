------------------------------ MODULE MCKernel ------------------------------
(* Instances of the Kernel for TLC: the engines, capacities and requests the *)
(* configurations choose from.                                               *)
EXTENDS KernelProperties, TLC

WorkSymmetry == Permutations(WorkIds)

Kinds == {"cpu", "gpu"}

Engine(id, caps, cpu, gpu) ==
    [id |-> id, work_types |-> {"text"}, capabilities |-> caps, model_ids |-> <<id>>,
     efforts |-> {"STANDARD"}, available |-> TRUE,
     need |-> [cpu |-> cpu, gpu |-> gpu]]

OneEngine == <<Engine("standard", {}, 1, 0)>>
BigFirst == <<Engine("big", {}, 1, 2), Engine("small", {}, 1, 0)>>

StandardAndLong == <<Engine("standard", {}, 1, 0), Engine("long", {"long"}, 2, 1)>>

OneSlot == [cpu |-> 1, gpu |-> 1]
TwoSlots == [cpu |-> 2, gpu |-> 1]

Plain ==
    [work_type |-> "text", effort |-> "STANDARD", capabilities |-> {},
     allowlist |-> {}, exact_engine |-> "", exact_model |-> "",
     urgency |-> "NORMAL", max_attempts |-> 2, retry_delay |-> 0,
     eligible_at |-> NoTime, deadline |-> NoTime, timeout |-> NoTime]

\* Two Works that compete for two slots: attempts of the first kind fit beside
\* each other, the second kind needs both slots.
PairRequests ==
    {[Plain EXCEPT !.deadline = 1],
     [Plain EXCEPT !.urgency = "INTERACTIVE", !.max_attempts = 1, !.capabilities = {"long"}]}

\* One Work with every time limit.
TimedRequests ==
    {Plain, [Plain EXCEPT !.timeout = 1, !.retry_delay = 1],
     [Plain EXCEPT !.deadline = 3, !.eligible_at = 1, !.retry_delay = 1, !.timeout = 2],
     [Plain EXCEPT !.timeout = IntMax, !.max_attempts = 1], [Plain EXCEPT !.work_type = "image"]}

\* Two Works that wait for one slot: one with a deadline, one with no limit.
WaitingRequests ==
    {[Plain EXCEPT !.max_attempts = 1, !.deadline = 1], [Plain EXCEPT !.max_attempts = 1]}

\* The workload of run live: the Works have the same two requests in every
\* behaviour, submitted in any order.  It restricts clients alone, of which no
\* fairness is assumed, so that it cuts off no fair behaviour of this workload.
Unlimited == CHOOSE w \in WorkIds : TRUE

OneOfEach ==
    LET submitted(w) == {work[w].req} \cup IF ipc.w = w THEN {ipc.req} ELSE {}
    IN  \A w \in WorkIds : \A req \in submitted(w) \ {NoRequest} :
            req.deadline = NoTime <=> w = Unlimited

PlainOnly == {Plain}

\* retry_delay_ms may be any nonnegative 64-bit value.
HugeDelay == {[Plain EXCEPT !.retry_delay = IntMax]}
=============================================================================
