-------------------------- MODULE SelectionProofs ---------------------------
(***************************************************************************)
(* Proofs about select_engine, for any inventory of any length and any     *)
(* request.                                                                *)
(***************************************************************************)
EXTENDS MCEngineSelection, SetSums, SequenceTheorems, TLAPS

\* The candidates are what the one condition describes.
LEMMA CandidatesSuitable ==
    ASSUME NEW req, NEW inv
    PROVE  Candidates(req, inv) = {i \in DOMAIN inv : Suitable(inv[i], req)}
<1>1. ASSUME NEW i \in DOMAIN inv
      PROVE  i \in Candidates(req, inv) <=> Suitable(inv[i], req)
    BY DEF Candidates, Effortful, Exact, Allowed, Capable, OfType, Suitable, HasModel
<1>2. Candidates(req, inv) \subseteq DOMAIN inv
    BY DEF Candidates, Effortful, Exact, Allowed, Capable, OfType
<1>3. QED
    BY <1>1, <1>2

\* No stage before it is empty when there is a candidate.
LEMMA FailureMeaning ==
    ASSUME NEW req, NEW inv
    PROVE  /\ SelectionFailure(req, inv) = "" <=> Candidates(req, inv) # {}
           /\ SelectionFailure(req, inv) = "EXACT_SELECTION_UNSATISFIED" <=>
                Allowed(req, inv) # {} /\ Exact(req, inv) = {}
<1>1. /\ Candidates(req, inv) \subseteq Exact(req, inv)
      /\ Exact(req, inv) \subseteq Allowed(req, inv)
    BY DEF Candidates, Effortful, Exact
<1>2. QED
    BY <1>1 DEF SelectionFailure

\* candidates.front() is the candidate that comes first in the inventory.
LEMMA FrontFirst ==
    ASSUME NEW S, NEW s \in Seq(S), NEW C, C \subseteq DOMAIN s, C # {}
    PROVE  Front(C) \in C /\ Front(C) # 0 /\ \A j \in C : Front(C) <= j
<1>1. DOMAIN s = 1 .. Len(s) /\ Len(s) \in Nat
    BY LenProperties
<1>2. C \subseteq Nat /\ 0 \notin C
    BY <1>1
<1>3. \E i \in C : \A j \in C : i <= j
    BY <1>2, LeastElement
<1>4. QED
    BY <1>2, <1>3 DEF Front

\* model_ids.front()
LEMMA HeadOffered ==
    ASSUME NEW S, NEW s \in Seq(S)
    PROVE  IF s = <<>> THEN DOMAIN s = {} ELSE 1 \in DOMAIN s /\ Head(s) = s[1]
<1>1. DOMAIN s = 1 .. Len(s) /\ Len(s) \in Nat /\ (s # <<>> => Len(s) # 0)
    BY LenProperties, EmptySeq
<1>2. CASE s = <<>>
    BY <1>2
<1>3. CASE s # <<>>
    BY <1>1, <1>3
<1>4. QED
    BY <1>2, <1>3

\* What select_engine returns when it finds an engine.
LEMMA Selected ==
    ASSUME NEW req, NEW inv \in Seq(EngineRows), SelectEngine(req, inv).failure = ""
    PROVE  LET i == SelectEngine(req, inv).engine
           IN  /\ i \in Candidates(req, inv) /\ i \in DOMAIN inv
               /\ \A j \in Candidates(req, inv) : i <= j
               /\ SelectEngine(req, inv).model = SelectedModel(req, inv[i])
<1>1. SelectionFailure(req, inv) = ""
    BY DEF SelectEngine
<1>2. Candidates(req, inv) # {} /\ Candidates(req, inv) \subseteq DOMAIN inv
    BY <1>1, FailureMeaning, CandidatesSuitable
<1>3. PICK i : i = Front(Candidates(req, inv))
    OBVIOUS
<1>4. i \in Candidates(req, inv) /\ i # 0 /\ \A j \in Candidates(req, inv) : i <= j
    BY <1>2, <1>3, FrontFirst
<1>5. /\ SelectEngine(req, inv).engine = i
      /\ SelectEngine(req, inv).model = SelectedModel(req, inv[i])
    BY <1>1, <1>3, <1>4 DEF SelectEngine
<1>6. QED
    BY <1>2, <1>4, <1>5

\* The failure of a selection is that of its stages.
LEMMA FailureField ==
    ASSUME NEW req, NEW inv
    PROVE  SelectEngine(req, inv).failure = SelectionFailure(req, inv)
BY DEF SelectEngine

\* The invariant: the answer is that of the current request.
Answered ==
    /\ inventory \in Seq(EngineRows) /\ request \in RequestRows
    /\ outcome = SelectEngine(request, inventory)

(***************************************************************************)
(* Every answer is that of select_engine for the current request and the   *)
(* inventory the Kernel was started with.  (main.cpp: select_engine)       *)
(***************************************************************************)
THEOREM AnsweredAlways == Spec => []Answered
<1>1. Init => Answered
    BY SelectionAssumption DEF Init, Answered
<1>2. Answered /\ [Ask]_<<inventory, request, outcome>> => Answered'
    BY SelectionAssumption DEF Answered, Ask
<1>3. QED
    BY <1>1, <1>2, PTL DEF Spec

\* The model of every selection is one the selected engine lists, and the
\* one that was asked for.
LEMMA AnsweredModel ==
    ASSUME Answered, outcome.failure = ""
    PROVE  ModelOffered
<1> DEFINE i == outcome.engine
           models == inventory[i].model_ids
<1>1. /\ i \in DOMAIN inventory /\ i \in Candidates(request, inventory)
      /\ outcome.model = SelectedModel(request, inventory[i])
    BY Selected DEF Answered
<1>2. models \in Seq(STRING)
    <2>1. inventory[i] \in EngineRows
        BY <1>1, ElementOfSeq, LenProperties DEF Answered
    <2>2. QED
        BY <2>1 DEF EngineRows
<1>3. request.exact_model # "" => \E j \in DOMAIN models : models[j] = request.exact_model
    <2>1. Suitable(inventory[i], request)
        BY <1>1, CandidatesSuitable
    <2>2. QED
        BY <2>1 DEF Suitable
<1>4. IF models = <<>> THEN DOMAIN models = {}
      ELSE 1 \in DOMAIN models /\ Head(models) = models[1]
    BY <1>2, HeadOffered
<1>5. outcome.model = IF request.exact_model # "" THEN request.exact_model
                      ELSE IF models = <<>> THEN "" ELSE Head(models)
    BY <1>1 DEF SelectedModel
<1> HIDE DEF models
<1>6. /\ request.exact_model # "" => outcome.model = request.exact_model
      /\ IF models = <<>> THEN outcome.model = ""
         ELSE \E j \in DOMAIN models : models[j] = outcome.model
    <2>1. CASE request.exact_model # ""
        BY <1>3, <1>4, <1>5, <2>1
    <2>2. CASE request.exact_model = ""
        BY <1>4, <1>5, <2>2
    <2>3. QED
        BY <2>1, <2>2
<1>7. QED
    BY <1>6 DEF ModelOffered, models

(***************************************************************************)
(* For every inventory and request, select_engine returns the first engine *)
(* that meets all the criteria, with a model it lists and the request asks *)
(* for, and fails exactly when no engine meets them.                       *)
(***************************************************************************)
THEOREM SelectsFirstSuitableAlways == Spec => []SelectsFirstSuitable
<1>1. Answered => SelectsFirstSuitable
    <2> SUFFICES ASSUME Answered PROVE SelectsFirstSuitable
        OBVIOUS
    <2>1. Candidates(request, inventory) = {i \in DOMAIN inventory : Suitable(inventory[i], request)}
        BY CandidatesSuitable
    <2>2. CASE outcome.failure = ""
        BY <2>1, <2>2, Selected, AnsweredModel DEF Answered, SelectsFirstSuitable
    <2>3. CASE outcome.failure # ""
        <3>1. Candidates(request, inventory) = {}
            BY <2>3, FailureField, FailureMeaning DEF Answered
        <3>2. QED
            BY <2>1, <2>3, <3>1 DEF SelectsFirstSuitable
    <2>4. QED
        BY <2>2, <2>3
<1>2. QED
    BY <1>1, AnsweredAlways, PTL

(***************************************************************************)
(* A client is told that its exact selection cannot be satisfied only when *)
(* it made one, and some engine passes every earlier criterion.            *)
(***************************************************************************)
THEOREM ExactBlamedAlways == Spec => []ExactBlamedRightly
<1>1. Answered => ExactBlamedRightly
    <2> SUFFICES ASSUME Answered, outcome.failure = "EXACT_SELECTION_UNSATISFIED"
                 PROVE  ExactBlamedRightly
        BY DEF ExactBlamedRightly
    <2>1. Allowed(request, inventory) # {} /\ Exact(request, inventory) = {}
        BY FailureField, FailureMeaning DEF Answered
    <2>2. PICK i \in Allowed(request, inventory) : TRUE
        BY <2>1
    <2>3. /\ i \in DOMAIN inventory /\ request.work_type \in inventory[i].work_types
          /\ request.capabilities \subseteq inventory[i].capabilities
          /\ request.allowlist # {} => inventory[i].id \in request.allowlist
        BY <2>2 DEF Allowed, Capable, OfType
    <2>4. request.exact_engine # "" \/ request.exact_model # ""
        BY <2>1, <2>2 DEF Exact
    <2>5. inventory[i] \in EngineRows /\ request \in RequestRows
        BY <2>3, ElementOfSeq, LenProperties DEF Answered
    <2> DEFINE e == [inventory[i] EXCEPT !.available = TRUE,
                                         !.efforts = inventory[i].efforts \cup {request.effort}]
               r == [request EXCEPT !.exact_engine = "", !.exact_model = ""]
    <2>6. /\ e.id = inventory[i].id /\ e.work_types = inventory[i].work_types
          /\ e.capabilities = inventory[i].capabilities
          /\ request.effort \in e.efforts /\ e.available
        BY <2>5 DEF EngineRows
    <2>7. /\ r.work_type = request.work_type /\ r.capabilities = request.capabilities
          /\ r.allowlist = request.allowlist /\ r.effort = request.effort
          /\ r.exact_engine = "" /\ r.exact_model = ""
        BY <2>5 DEF RequestRows
    <2> HIDE DEF e, r
    <2>8. Suitable(e, r)
        BY <2>3, <2>6, <2>7 DEF Suitable
    <2>9. QED
        BY <2>3, <2>4, <2>8 DEF ExactBlamedRightly, e, r
<1>2. QED
    BY <1>1, AnsweredAlways, PTL
=============================================================================
