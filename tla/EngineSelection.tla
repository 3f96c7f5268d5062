-------------------------- MODULE EngineSelection --------------------------
(***************************************************************************)
(* select_engine of kernel/src/main.cpp: the choice of the engine that     *)
(* runs a Work, a pure function of the Work's technical requirements and   *)
(* of the engine inventory the Kernel was started with.                    *)
(*                                                                         *)
(* The code keeps a vector of candidates and erases from it, one criterion *)
(* after the other; here each stage is the set of inventory positions that *)
(* survive it.  A request is a record with the fields work_type, effort,   *)
(* capabilities and allowlist (sets; the code splits comma separated       *)
(* strings), exact_engine and exact_model ("" when not given).  An engine  *)
(* is a record with the fields id, work_types, capabilities, model_ids (a  *)
(* sequence), efforts, available and need.                                 *)
(***************************************************************************)
EXTENDS Integers, Sequences

\* contains(engine->model_ids, m)
HasModel(engine, m) == \E j \in DOMAIN engine.model_ids : engine.model_ids[j] = m

OfType(req, inv) == {i \in DOMAIN inv : req.work_type \in inv[i].work_types}

Capable(req, inv) ==
    {i \in OfType(req, inv) : req.capabilities \subseteq inv[i].capabilities}

\* An empty allowlist excludes nobody.
Allowed(req, inv) ==
    {i \in Capable(req, inv) : req.allowlist # {} => inv[i].id \in req.allowlist}

Exact(req, inv) ==
    {i \in Allowed(req, inv) :
        /\ req.exact_engine # "" => inv[i].id = req.exact_engine
        /\ req.exact_model # "" => HasModel(inv[i], req.exact_model)}

Effortful(req, inv) == {i \in Exact(req, inv) : req.effort \in inv[i].efforts}

Candidates(req, inv) == {i \in Effortful(req, inv) : inv[i].available}

\* Mutant of Front: the last candidate.
Back(S) == CHOOSE i \in S : \A j \in S : i >= j

\* candidates.front(): erase_if keeps the order of the inventory.
Front(S) == CHOOSE i \in S : \A j \in S : i <= j

\* Mutant of SelectionFailure: the exact check comes before the allowlist's.
SelectionFailureExactFirst(req, inv) ==
    IF Exact(req, inv) = {} THEN "EXACT_SELECTION_UNSATISFIED"
    ELSE IF Candidates(req, inv) = {} THEN "NO_ELIGIBLE_ENGINE"
    ELSE ""

\* The technical failure of a selection that finds nobody, "" when it finds one.
SelectionFailure(req, inv) ==
    IF Allowed(req, inv) = {} THEN "NO_ELIGIBLE_ENGINE"
    ELSE IF Exact(req, inv) = {} THEN "EXACT_SELECTION_UNSATISFIED"
    ELSE IF Candidates(req, inv) = {} THEN "NO_ELIGIBLE_ENGINE"
    ELSE ""

\* Mutant of SelectedModel: always the first model of the engine.
SelectedModelFirst(req, engine) ==
    IF engine.model_ids = <<>> THEN "" ELSE Head(engine.model_ids)

SelectedModel(req, engine) ==
    IF req.exact_model # "" THEN req.exact_model
    ELSE IF engine.model_ids = <<>> THEN "" ELSE Head(engine.model_ids)

\* The selected engine is a position of the inventory, 0 on failure.
SelectEngine(req, inv) ==
    LET failure == SelectionFailure(req, inv)
        i == IF failure = "" THEN Front(Candidates(req, inv)) ELSE 0
    IN  [engine |-> i, failure |-> failure,
         model |-> IF i = 0 THEN "" ELSE SelectedModel(req, inv[i])]
=============================================================================
