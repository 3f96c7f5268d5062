------------------------- MODULE MCEngineSelection -------------------------
(***************************************************************************)
(* select_engine against its reference definition: the inventory is fixed  *)
(* when the Kernel starts, and requests are answered one after the other.  *)
(* TLC takes every inventory of two engines and every request over small   *)
(* sets of facts; the proofs take any.                                     *)
(***************************************************************************)
EXTENDS EngineSelection

CONSTANTS Inventories, Requests

\* The fields select_engine reads of an engine and of a Work.
EngineRows ==
    [id : STRING, work_types : SUBSET STRING, capabilities : SUBSET STRING,
     model_ids : Seq(STRING), efforts : SUBSET STRING, available : BOOLEAN]

RequestRows ==
    [work_type : STRING, capabilities : SUBSET STRING, allowlist : SUBSET STRING,
     exact_engine : STRING, exact_model : STRING, effort : STRING]

ASSUME SelectionAssumption ==
    /\ Inventories \subseteq Seq(EngineRows)
    /\ Requests \subseteq RequestRows

Engines(id) ==
    [id : {id}, work_types : {{}, {"text"}}, capabilities : SUBSET {"long"},
     model_ids : {<<>>, <<"n", "m">>}, efforts : {{"STANDARD"}, {"STANDARD", "HIGH"}},
     available : BOOLEAN]

TwoEngines == {<<a, b>> : a \in Engines("a"), b \in Engines("b")}

SmallRequests ==
    [work_type : {"text"}, capabilities : SUBSET {"long"}, allowlist : SUBSET {"a", "b"},
     exact_engine : {"", "a", "b"}, exact_model : {"", "m", "n"},
     effort : {"STANDARD", "HIGH"}]

VARIABLES inventory, request, outcome

\* The first request asks for a type and an effort only.
Init ==
    /\ inventory \in Inventories
    /\ request \in {r \in Requests : r.exact_engine = "" /\ r.exact_model = ""
                                    /\ r.allowlist = {} /\ r.capabilities = {}}
    /\ outcome = SelectEngine(request, inventory)

Ask ==
    /\ request' \in Requests
    /\ outcome' = SelectEngine(request', inventory)
    /\ UNCHANGED inventory

Spec == Init /\ [][Ask]_<<inventory, request, outcome>>
-----------------------------------------------------------------------------
\* The criteria of the selection as one condition on an engine.
Suitable(engine, req) ==
    /\ req.work_type \in engine.work_types
    /\ \A c \in req.capabilities : c \in engine.capabilities
    /\ req.allowlist = {} \/ engine.id \in req.allowlist
    /\ req.exact_engine \in {"", engine.id}
    /\ req.exact_model = "" \/ \E j \in DOMAIN engine.model_ids :
                                   engine.model_ids[j] = req.exact_model
    /\ req.effort \in engine.efforts
    /\ engine.available

\* The model of a selection is one the engine offers and the one that was
\* asked for; an engine that lists no model is selected with an empty one.
ModelOffered ==
    LET models == inventory[outcome.engine].model_ids
    IN  /\ request.exact_model # "" => outcome.model = request.exact_model
        /\ IF models = <<>> THEN outcome.model = ""
           ELSE \E j \in DOMAIN models : models[j] = outcome.model

(***************************************************************************)
(* select_engine returns the first suitable engine of the inventory, with  *)
(* a model that engine offers and the request asks for, and fails exactly  *)
(* when no engine is suitable: the order of its filters and their early    *)
(* returns do not matter to the choice.                                    *)
(***************************************************************************)
SelectsFirstSuitable ==
    LET suitable == {i \in DOMAIN inventory : Suitable(inventory[i], request)}
    IN  IF outcome.failure = ""
        THEN /\ outcome.engine \in suitable
             /\ \A i \in suitable : outcome.engine <= i
             /\ ModelOffered
        ELSE suitable = {}

(***************************************************************************)
(* The failure a client sees blames the exact engine or model only if one  *)
(* was given and the request without it has an engine of the right type,   *)
(* capabilities and allowlist.                                             *)
(***************************************************************************)
ExactBlamedRightly ==
    outcome.failure = "EXACT_SELECTION_UNSATISFIED" =>
        /\ request.exact_engine # "" \/ request.exact_model # ""
        /\ \E i \in DOMAIN inventory :
             Suitable([inventory[i] EXCEPT !.available = TRUE,
                                           !.efforts = @ \cup {request.effort}],
                      [request EXCEPT !.exact_engine = "", !.exact_model = ""])
=============================================================================
