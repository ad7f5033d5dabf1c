--------------------------- MODULE DecisionUnit ---------------------------
(***************************************************************************)
(* The decision unit EGDC (src/conrad/decision) with the history that      *)
(* deliberation.py keeps for it and what routing.py makes of its answer.   *)
(* A cycle assesses every critical requirement, generates the candidate    *)
(* actions, values them, takes the best one the constraints accept, and    *)
(* routes it; the routing may take the decision back from the history.     *)
(*                                                                         *)
(* Values are integers, in millionths; a decay rounds down. A requirement  *)
(* is about one belief; at most one of its uncertainty channels is over    *)
(* the threshold by itself. One sensing modality is on board.              *)
(***************************************************************************)
EXTENDS Integers, Sequences, FiniteSetsExt

CONSTANTS
  Requirements,  \* the critical requirements; a routine one only counts in Total
  Total,         \* all requirements of the mission
  Consequence,   \* cfg.critical_consequence, in percent
  MaxAttempts,   \* max_information_attempts
  Window,        \* decision_history_s, in decision cycles
  Grades,        \* what a published belief may say
  Contexts       \* what else a cycle may find

Channels == {"ALEATORIC", "EPISTEMIC", "CONTRADICTION", "OBSERVATIONAL"}

Beliefs ==
  [seen : BOOLEAN, known : BOOLEAN, direct : BOOLEAN, conflict : BOOLEAN, calibrated : BOOLEAN,
   cause : Channels \cup {"NONE"}, level : 0 .. 100]
Findings ==
  [motion : BOOLEAN, health : {"OK", "RESERVE", "FAULT"}, link : BOOLEAN, blocked : BOOLEAN,
   available : BOOLEAN, stale : SUBSET Requirements, routineStale : BOOLEAN,
   disputed : SUBSET Requirements, pending : SUBSET Requirements]

ASSUME DecisionAssumption ==
  /\ IsFiniteSet(Requirements) /\ Cardinality(Requirements) <= Total
  /\ {Total, MaxAttempts, Window} \subseteq Nat \ {0}
  /\ Consequence \in 80 .. 100
  /\ Grades \subseteq Beliefs /\ Contexts \subseteq Findings

VARIABLES
  belief,       \* per requirement, the head of its belief on the bus
  history,      \* the decisions of the window, the newest last, those that count as attempts in full
  asked,        \* the ledger: is the newest request carried out answered by a newer revision?
  reached,      \* the requirements a request for which has reached the planner
  unavailable,  \* the beliefs reported as not obtainable
  goal,         \* the view the executive is on: a requirement, "REVISIT" or "NONE"
  surveying,    \* the lane survey is not over
  held,         \* a decision has put the runtime into SAFE_HOLD
  retreatFor,   \* cycles in a row that found a reason to retreat
  decision      \* the decision to be routed, or NoAction

historyVars == <<history, asked>>
runtimeVars == <<reached, unavailable, goal, held>>
vars == <<belief, historyVars, runtimeVars, surveying, retreatFor, decision>>

Missing == [seen |-> FALSE, known |-> FALSE, direct |-> FALSE, conflict |-> FALSE,
            calibrated |-> FALSE, cause |-> "NONE", level |-> 0]

\* In the order of ActionType, which breaks ties.
Kinds ==
  <<"CONTINUE_MISSION", "QUERY_BELIEF", "REQUEST_INFORMATION", "REPLAN", "REVISIT_REGION", "WAIT",
    "TRANSMIT_INFORMATION", "STORE_AND_FORWARD", "ESCALATE_TO_OPERATOR", "RETURN_TO_SAFE_STATE",
    "ABORT_MISSION">>
Reports == {"TRANSMIT_INFORMATION", "STORE_AND_FORWARD"}
Retreats == {"RETURN_TO_SAFE_STATE", "ABORT_MISSION"}
Counted == {"QUERY_BELIEF", "REQUEST_INFORMATION", "REVISIT_REGION"} \cup Reports
AlwaysPermitted == {"WAIT", "ESCALATE_TO_OPERATOR", "STORE_AND_FORWARD"}
MotionActions == {"CONTINUE_MISSION", "REQUEST_INFORMATION", "REVISIT_REGION", "REPLAN"}

Resolvability ==
  [OBSERVATIONAL |-> 80, CONTRADICTION |-> 70, ALEATORIC |-> 50, EPISTEMIC |-> 50, CALIBRATION |-> 80]

UncalibratedFloor == 45  \* and the thresholds, in percent
ConflictLevel == 40
RiskLimit == 60

\* An attempt is on beliefs, or on nothing where the belief is still missing.
Attempt(kind, about) == [kind |-> kind, about |-> about, answered |-> FALSE]
NoAttempt == Attempt("OTHER", {})

Action(kind, about, cause) == [kind |-> kind, about |-> about, cause |-> cause]
NoAction == Action("NONE", {}, "NONE")
NoContext == [motion |-> FALSE, health |-> "OK", link |-> FALSE, blocked |-> FALSE, available |-> FALSE,
              stale |-> {}, routineStale |-> FALSE, disputed |-> {}, pending |-> {}]

Seen == {r \in Requirements : belief[r].seen}
Direct == {r \in Requirements : belief[r].direct}

TypeOK ==
  /\ belief \in [Requirements -> Grades \cup {Missing}]
  /\ history \in [1 .. Window -> [kind : Counted \cup {"OTHER"}, about : SUBSET Requirements,
                                  answered : BOOLEAN]]
  /\ asked \in [Requirements -> {"NEVER", "OPEN", "ANSWERED"}]
  /\ reached \subseteq Requirements /\ unavailable \subseteq reached
  /\ goal \in Requirements \cup {"REVISIT", "NONE"}
  /\ {surveying, held} \subseteq BOOLEAN
  /\ retreatFor \in Nat
  /\ decision \in [kind : {Kinds[i] : i \in DOMAIN Kinds} \cup {"NONE"}, about : SUBSET Requirements,
                   cause : DOMAIN Resolvability \cup {"NONE"}]

Init ==
  /\ belief = [r \in Requirements |-> Missing]
  /\ history = [i \in 1 .. Window |-> NoAttempt]
  /\ asked = [r \in Requirements |-> "NEVER"]
  /\ reached = {} /\ unavailable = {}
  /\ goal = "NONE"
  /\ surveying = TRUE /\ held = FALSE
  /\ retreatFor = 0
  /\ decision = NoAction

-----------------------------------------------------------------------------
(***************************************************************************)
(* The claims: what is known, uncertain, conflicting or missing.           *)
(***************************************************************************)
Target(r) == IF belief[r].seen THEN {r} ELSE {}

\* DecisionContext.attempts_on; what is missing shares its attempts with all that is missing.
Tries(kinds, about) ==
  Cardinality({i \in DOMAIN history :
    /\ history[i].kind \in kinds
    /\ history[i].about \cap about # {} \/ (about = {} /\ history[i].about = {})})

AnsweredRequests(r) ==
  {i \in DOMAIN history :
     history[i].kind = "REQUEST_INFORMATION" /\ r \in history[i].about /\ history[i].answered}

\* Mutant: a request confirms what it saw itself.
ConfirmedAtOnce(r) ==
  /\ belief[r].direct /\ ~belief[r].conflict
  /\ asked[r] # "NEVER" \/ AnsweredRequests(r) # {}

\* _confirmed_after_request: the window or the ledger knows of an answered request.
Confirmed(r) ==
  /\ belief[r].direct /\ ~belief[r].conflict
  /\ asked[r] = "ANSWERED" \/ AnsweredRequests(r) # {}

\* An uncalibrated source counts as this uncertain until a look has confirmed it.
Floored(r) == belief[r].seen /\ ~belief[r].calibrated /\ ~Confirmed(r)

Causes(ctx, r) ==
  {c \in Channels :
     \/ c = belief[r].cause
     \/ c = "EPISTEMIC" /\ Floored(r)
     \/ c = "CONTRADICTION" /\ belief[r].conflict
     \/ c = "OBSERVATIONAL" /\ r \in ctx.disputed}

CalibrationOnly(r) == Floored(r) /\ belief[r].cause # "EPISTEMIC"

\* The issues a query or a second visit may repair.
Unretrieved(ctx, r) == ~belief[r].seen \/ r \in ctx.stale \/ ~ctx.available

\* Nothing reliable is known.
Unreliable(ctx, r) == Unretrieved(ctx, r) \/ ~belief[r].known \/ r \in ctx.disputed

Exposure(ctx, r) ==
  IF Unreliable(ctx, r) THEN 100
  ELSE Max({belief[r].level} \cup (IF Floored(r) THEN {UncalibratedFloor} ELSE {})
           \cup (IF belief[r].conflict THEN {ConflictLevel} ELSE {}))

\* What matters and is not satisfied.
Open(ctx) == {r \in Requirements : Unreliable(ctx, r) \/ Causes(ctx, r) # {}}

\* The one modality on board is an alternate one until it has contributed to a critical belief.
Alternates == Direct = {}

DeadEnd(r) ==
  /\ goal # r
  /\ \/ Tries({"REQUEST_INFORMATION"}, Target(r)) >= MaxAttempts
     \/ belief[r].cause = "EPISTEMIC" /\ ~Alternates

\* No request is made for an epistemic excess of its own without an alternate modality.
Askable(ctx, r) == Causes(ctx, r) \ (IF Alternates \/ CalibrationOnly(r) THEN {} ELSE {"EPISTEMIC"})

MustRetreat(ctx) == ctx.health # "OK"

Exhausted(ctx) ==
  \E r \in Open(ctx) \cap Seen :
    goal # r /\ Tries({"REQUEST_INFORMATION"}, {r}) >= MaxAttempts

-----------------------------------------------------------------------------
(***************************************************************************)
(* The candidates, their values and what the constraints accept.           *)
(***************************************************************************)
Requests(ctx, r) ==
  {Action("REQUEST_INFORMATION", {r},
          IF c = "EPISTEMIC" /\ CalibrationOnly(r) THEN "CALIBRATION" ELSE c) : c \in Askable(ctx, r)}

Repairs(ctx, r) ==
  IF Unretrieved(ctx, r)
    THEN {Action(kind, Target(r), "NONE") : kind \in {"QUERY_BELIEF", "REVISIT_REGION"}} ELSE {}

Candidates(ctx) ==
  {Action(kind, {}, "NONE") :
     kind \in {"CONTINUE_MISSION", "WAIT", "ESCALATE_TO_OPERATOR", "RETURN_TO_SAFE_STATE"}
              \cup (IF ctx.health = "FAULT" THEN {"ABORT_MISSION"} ELSE {})
              \cup (IF ctx.blocked \/ Exhausted(ctx) THEN {"REPLAN"} ELSE {})}
  \cup {Action(IF ctx.link THEN "TRANSMIT_INFORMATION" ELSE "STORE_AND_FORWARD", about, "NONE") :
          about \in {ctx.pending} \ {{}}}
  \cup UNION {Requests(ctx, r) \cup Repairs(ctx, r) : r \in Open(ctx)}

Unit == 1000000
Percent == 10000

Power[n \in Nat] == IF n = 0 THEN 1 ELSE 2 * Power[n - 1]

Decayed(value, halvings) == value \div Power[halvings]

\* An open requirement is a debt.
MissionValue(ctx) == (Total * Unit - Cardinality(Open(ctx)) * (Unit + Consequence * Percent)) \div Total

\* Mutant: only the route is a risk.
ContinueRiskRoute(ctx) == IF ctx.blocked THEN 9000 ELSE 200

\* The risk of continuing, in ten thousandths.
ContinueRisk(ctx) ==
  Max({200} \cup {Consequence * Exposure(ctx, r) : r \in Open(ctx)}
      \cup (IF ctx.blocked THEN {9000} ELSE {}))

ContinueValue(ctx) == MissionValue(ctx) - 20000 - 150 * ContinueRisk(ctx)

\* An attempt is worth less each time, a query and a visit by two halves.
QueryValue(a) == Decayed(Consequence * 5000, 2 * Tries({"QUERY_BELIEF"}, a.about)) - 7000

RequestValue(a) ==
  Decayed(Consequence * Resolvability[a.cause] * 100, Tries({"REQUEST_INFORMATION"}, a.about)) - 200000

RevisitValue(a) == Decayed(Consequence * 7000, 2 * Tries({"REVISIT_REGION"}, a.about)) - 235000

ReplanValue(ctx) == (IF ctx.blocked THEN Unit ELSE 200000) - 35000

\* Mutant: a report that is only queued is made anew.
ReportedSent(about) == Tries({"TRANSMIT_INFORMATION"}, about)

Reported(about) == Tries(Reports, about)

ReportValue(ctx, a) ==
  (IF ctx.blocked THEN 0 ELSE 300000) + Decayed(Consequence * Percent, 2 * Reported(a.about))
  - (IF a.kind = "STORE_AND_FORWARD" THEN 1000 ELSE 70000)

OperatorValue(ctx) == IF ctx.link THEN 35 ELSE 10

\* Mutant: the operator is worth something while there is an autonomous path.
EscalationValueEarly(ctx) ==
  (IF \E r \in Open(ctx) : DeadEnd(r) THEN Consequence * (OperatorValue(ctx) + 30) * 100
   ELSE IF Open(ctx) # {} THEN Consequence * OperatorValue(ctx) * 40 ELSE 0) - 130000

EscalationValue(ctx) ==
  (IF \E r \in Open(ctx) : DeadEnd(r) THEN Consequence * (OperatorValue(ctx) + 30) * 100 ELSE 0) - 130000

\* Mutant: a spent budget is no reason to wait.
WaitValueNone(ctx) == -40000

WaitValue(ctx) == (IF unavailable # {} /\ ~MustRetreat(ctx) THEN Unit ELSE 0) - 40000

RetreatValue(ctx, a) ==
  (IF MustRetreat(ctx) THEN Unit ELSE -500000) - (IF a.kind = "ABORT_MISSION" THEN 395000 ELSE 295000)

\* ConsequenceEstimator.estimate and scalarize: the value less the weighted costs.
Value(ctx, a) ==
  CASE a.kind = "CONTINUE_MISSION" -> ContinueValue(ctx)
    [] a.kind = "QUERY_BELIEF" -> QueryValue(a)
    [] a.kind = "REQUEST_INFORMATION" -> RequestValue(a)
    [] a.kind = "REPLAN" -> ReplanValue(ctx)
    [] a.kind = "REVISIT_REGION" -> RevisitValue(a)
    [] a.kind = "WAIT" -> WaitValue(ctx)
    [] a.kind \in Reports -> ReportValue(ctx, a)
    [] a.kind = "ESCALATE_TO_OPERATOR" -> EscalationValue(ctx)
    [] a.kind \in Retreats -> RetreatValue(ctx, a)

\* ConstraintEngine.check.
Accepted(ctx, a) ==
  /\ a.kind \notin AlwaysPermitted \cup Retreats => ctx.health = "OK"
  /\ a.kind \in MotionActions => ctx.motion
  /\ a.kind = "QUERY_BELIEF" => ctx.available
  /\ a.kind = "CONTINUE_MISSION" =>
       /\ ContinueRisk(ctx) <= RiskLimit * 100
       /\ ~ctx.routineStale /\ \A r \in ctx.stale : ~belief[r].known

Order == [kind \in {Kinds[i] : i \in DOMAIN Kinds} |-> CHOOSE i \in DOMAIN Kinds : Kinds[i] = kind]

\* StructuredReasoningPolicy.rank: the value, then the order of the kinds, then a random id.
Chosen(ctx) ==
  LET ranked == {[rank |-> Len(Kinds) * Value(ctx, a) - Order[a.kind], action |-> a] :
                   a \in {c \in Candidates(ctx) : Accepted(ctx, c)}}
      best == Max({x.rank : x \in ranked})
  IN  {x.action : x \in {y \in ranked : y.rank = best}}

-----------------------------------------------------------------------------
(***************************************************************************)
(* The world between two decisions.                                        *)
(***************************************************************************)
\* A newer revision answers every request made before it.
Revise(r, grade) ==
  /\ decision = NoAction
  /\ belief' = [belief EXCEPT ![r] = grade]
  /\ history' = [i \in DOMAIN history |->
                   [history[i] EXCEPT !.answered = @ \/ (history[i].kind = "REQUEST_INFORMATION"
                                                        /\ r \in history[i].about)]]
  /\ asked' = [asked EXCEPT ![r] = IF @ = "OPEN" THEN "ANSWERED" ELSE @]
  /\ UNCHANGED <<runtimeVars, surveying, retreatFor, decision>>

\* The goal of the executive is over, reached or not.
GoalEnds ==
  /\ decision = NoAction /\ goal # "NONE"
  /\ goal' = "NONE"
  /\ UNCHANGED <<belief, historyVars, reached, unavailable, held, surveying, retreatFor,
                 decision>>

SurveyEnds ==
  /\ decision = NoAction /\ surveying
  /\ surveying' = FALSE
  /\ UNCHANGED <<belief, historyVars, runtimeVars, retreatFor, decision>>

\* What a cycle can find: only what was published is stale, contradicted by coverage or reported.
Consistent(ctx) ==
  /\ ctx.stale \subseteq Seen
  /\ ctx.disputed \subseteq {r \in Seen : belief[r].cause # "OBSERVATIONAL"}
  /\ ctx.pending \subseteq Direct

-----------------------------------------------------------------------------
(***************************************************************************)
(* The decision and its routing.                                           *)
(***************************************************************************)
Entry(a) == IF a.kind \in Counted THEN Attempt(a.kind, a.about) ELSE NoAttempt

Decide(ctx) ==
  /\ decision = NoAction /\ ~held
  /\ Consistent(ctx)
  /\ decision' \in Chosen(ctx)
  /\ history' = Append(Tail(history), Entry(decision'))
  /\ retreatFor' = IF MustRetreat(ctx) THEN retreatFor + 1 ELSE 0
  /\ UNCHANGED <<belief, asked, runtimeVars, surveying>>

\* mark_not_executed.
Marked == [history EXCEPT ![Window] = NoAttempt]

Busy == goal # "NONE"
IsRequest == decision.kind = "REQUEST_INFORMATION"
Calibration == decision.cause = "CALIBRATION"

Routed ==
  /\ decision # NoAction
  /\ decision' = NoAction
  /\ UNCHANGED <<belief, surveying, retreatFor>>

\* The ledger takes note of the request, answered by none so far.
Noted == [r \in Requirements |-> IF IsRequest /\ r \in decision.about THEN "OPEN" ELSE asked[r]]

\* Deferred by the survey, or while another view is on its way.
Defer ==
  /\ Routed
  /\ IsRequest \/ decision.kind = "REVISIT_REGION"
  /\ ~Calibration /\ (surveying \/ Busy)
  /\ history' = Marked
  /\ UNCHANGED <<asked, runtimeVars>>

\* A calibration request that finds a view on its way is neither carried out nor marked.
Drop ==
  /\ Routed
  /\ Calibration /\ Busy
  /\ asked' = Noted
  /\ UNCHANGED <<history, runtimeVars>>

Revisit ==
  /\ Routed
  /\ decision.kind = "REVISIT_REGION" /\ ~surveying /\ ~Busy
  /\ goal' \in {"NONE", "REVISIT"}
  /\ UNCHANGED <<historyVars, reached, unavailable, held>>

\* _inspect: the requests that get as far.
Inspecting ==
  /\ Routed
  /\ IsRequest /\ ~Busy /\ (surveying => Calibration)
  /\ UNCHANGED held

Gate ==
  /\ Inspecting
  /\ history' = Marked
  /\ UNCHANGED <<asked, reached, unavailable, goal>>

\* The budget of plans or views is spent, which takes plans.
Refuse ==
  /\ Inspecting
  /\ decision.about \subseteq reached
  /\ unavailable' = unavailable \cup decision.about
  /\ asked' = Noted
  /\ UNCHANGED <<history, reached, goal>>

\* The planner has no view; the last such answer makes the belief unavailable.
NoPlan ==
  /\ Inspecting
  /\ reached' = reached \cup decision.about
  /\ unavailable' \in {unavailable, unavailable \cup decision.about}
  /\ asked' = Noted
  /\ UNCHANGED <<history, goal>>

\* The view is taken where the vehicle is.
Inline ==
  /\ Inspecting /\ Calibration
  /\ reached' = reached \cup decision.about
  /\ unavailable' = unavailable \ decision.about
  /\ asked' = Noted
  /\ UNCHANGED <<history, goal>>

\* The view would interrupt the survey.
Postpone ==
  /\ Inspecting /\ surveying
  /\ reached' = reached \cup decision.about
  /\ history' = Marked
  /\ UNCHANGED <<asked, unavailable, goal>>

\* The view goal is handed to the executive, which may refuse it.
Launch ==
  /\ Inspecting /\ ~surveying
  /\ reached' = reached \cup decision.about
  /\ asked' = Noted
  /\ \/ /\ \E r \in decision.about : goal' = r
        /\ unavailable' = unavailable \ decision.about
     \/ UNCHANGED <<goal, unavailable>>
  /\ UNCHANGED history

\* Everything that is not a view: a retreat holds the mission, a detour may abandon the view.
Other ==
  /\ Routed
  /\ decision.kind \notin {"REQUEST_INFORMATION", "REVISIT_REGION"}
  /\ held' = (decision.kind \in Retreats)
  /\ goal' \in IF decision.kind = "REPLAN" THEN {goal, "NONE"} ELSE {goal}
  /\ UNCHANGED <<historyVars, reached, unavailable>>

Next ==
  \/ \E r \in Requirements, grade \in Grades : Revise(r, grade)
  \/ GoalEnds \/ SurveyEnds
  \/ \E ctx \in Contexts : Decide(ctx)
  \/ Defer \/ Drop \/ Revisit \/ Gate \/ Refuse \/ NoPlan \/ Inline \/ Postpone \/ Launch \/ Other

Spec == Init /\ [][Next]_vars

-----------------------------------------------------------------------------
\* Deciding on one of these kinds.
Takes(kinds) == decision' # decision /\ decision'.kind \in kinds

\* The operator is the last resort: no escalation while every open critical requirement has an
\* autonomous path left, however often requests were made and whatever else is going on.
EscalationIsLastResort ==
  [][Takes({"ESCALATE_TO_OPERATOR"}) =>
       \A ctx \in Contexts : (\A r \in Open(ctx) : ~DeadEnd(r)) => ~Decide(ctx)]_vars

\* The gap of an uncalibrated source is closed by a newer revision of that belief and by nothing
\* the decision unit or the routing does, a request above all.
GapClosesByRevision ==
  [][\A r \in Requirements :
       Confirmed(r)' /\ ~Confirmed(r) => \E grade \in Grades : Revise(r, grade)]_vars

\* A reason to retreat that stays makes the vehicle hold after at most one report per requirement,
\* although a report outranks the retreat and is permitted without health, power or time.
RetreatIsBounded == retreatFor <= Cardinality(Requirements) + 1

\* While a belief is reported as not obtainable no view is asked for, of it or of any other.
UnavailableNotAsked ==
  [][Takes({"REQUEST_INFORMATION", "REVISIT_REGION"}) => unavailable = {}]_vars

\* The mission is not continued past an open critical requirement that could be asked about and
\* was not asked about in the window.
OpenIsAskedFirst ==
  [][Takes({"CONTINUE_MISSION"}) =>
       \A ctx \in Contexts :
         (\E r \in Open(ctx) : Askable(ctx, r) # {} /\ Tries({"REQUEST_INFORMATION"}, {r}) = 0)
           => ~Decide(ctx)]_vars

\* A gap is closed by a request that was carried out: one that the routing drops closes none.
ConfirmedByLook == \A r \in Requirements : Confirmed(r) => r \in reached
=============================================================================
