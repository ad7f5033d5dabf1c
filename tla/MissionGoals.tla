--------------------------- MODULE MissionGoals ---------------------------
(***************************************************************************)
(* The goals of a mission: the decision cycle that launches views, detours *)
(* and holds (src/conrad/orchestration/routing.py), the executive that     *)
(* hands them to the navigation stack (executive.py), the stack's verdict  *)
(* on them (robotics/navigation/stack.py) and the ledger of what became of *)
(* every view (view_execution.py), in the order of one tick (mission.py).  *)
(*                                                                         *)
(* The decision unit EGDC, the planner MCBR and the geometry are choices.  *)
(* A tick is a fixed sequence of stages; a stage may use a state that an   *)
(* earlier stage of the same tick has just replaced.                       *)
(***************************************************************************)
EXTENDS Integers, Sequences, FiniteSetsExt

CONSTANTS
  Beliefs,            \* the beliefs information may be needed about
  Needs,              \* the sets of beliefs a need may name
  Poses,              \* the view poses the planner may command
  MaxPlansPerNeed,    \* cfg.max_plans_per_need
  MaxViewAttempts,    \* view_execution.max_view_attempts
  InformationLimit,   \* decision_config.max_information_attempts
  Protocols,          \* the settings of view_execution a mission may be started with
  InspectionTimeout,  \* cfg.inspection_timeout_s, in control ticks
  Dwell               \* cfg.inspection_dwell_s, and the dwell of a revisit, in control ticks

ASSUME GoalAssumption ==
  /\ Needs \subseteq SUBSET Beliefs
  /\ {MaxPlansPerNeed, MaxViewAttempts, InformationLimit, InspectionTimeout, Dwell} \subseteq Nat \ {0}
  /\ Protocols \subseteq [execution : BOOLEAN, protection : BOOLEAN]
  /\ "NONE" \notin Poses

VARIABLES
  active,        \* the executive's active goal: purpose, target and age in ticks
  status,        \* the navigation stack's goal status
  arrivedFor,    \* ticks since it arrived
  view,          \* the open view record, NoView if none
  closed,        \* the records closed since the last reconciliation
  planAttempts,  \* plans charged, per need
  viewAttempts,  \* views accepted, per need
  priorViews,    \* the views the planner is told were taken, per pose
  unavailable,   \* the beliefs reported as not obtainable
  request,       \* the cycle's information request: did it do anything, does EGDC count it
  transitDone,   \* the lane survey is over
  navFailed,     \* the navigation module has failed
  held,          \* the runtime supervisor is in SAFE_HOLD
  stage,         \* where in its tick the mission is
  protocol       \* view_execution, fixed at the start

goalVars == <<active, status, arrivedFor, view, closed>>
attemptVars == <<planAttempts, viewAttempts>>
plannerVars == <<attemptVars, priorViews, unavailable>>
modeVars == <<transitDone, navFailed, held>>
vars == <<goalVars, plannerVars, request, modeVars, stage, protocol>>

\* view_execution.enabled, with its refund and drop switches on; protect_active_view.
ViewExecution == protocol.execution
ProtectActiveView == protocol.protection

Purposes == {"NONE", "TRANSIT", "HOLD", "INSPECT", "REVISIT", "SAFE_HOLD"}
Statuses == {"EXECUTING", "ARRIVED", "COMPLETE", "REJECTED"}
Stages == {"PERCEIVE", "FINISH", "RECONCILE", "ROUTE", "POLL", "CONTROL", "SUPERVISE", "ENDED"}

NoTarget == [need |-> {}, pose |-> "NONE"]
Targets == [need : Needs, pose : Poses]

NewView(target) == [target |-> target, reached |-> FALSE, dwelt |-> 0]
NoView == NewView(NoTarget)

\* The reasons that tell of the approach (APPROACH_REASONS), and the supervisor's hold.
Refunded ==
  {"ABANDONED_ROUTE_BLOCKED", "ABANDONED_NAV_REJECTED", "ABANDONED_TRAJECTORY_LOST",
   "ABANDONED_TIMEOUT", "ABANDONED_SAFE_HOLD"}

Outcomes ==
  Refunded \cup {"FLOWN", "ARRIVED_DWELL_SHORT", "ABANDONED_PREEMPTED", "ABANDONED_MISSION_END",
                 "COMPLETED_OFF_POSE"}

NoRequest == [acted |-> FALSE, counted |-> FALSE]
Carried == [acted |-> TRUE, counted |-> TRUE]
NotExecuted == [acted |-> FALSE, counted |-> FALSE]   \* mark_not_executed
Dropped == [acted |-> FALSE, counted |-> TRUE]

GoalTypeOK ==
  /\ active \in [purpose : Purposes, target : Targets \cup {NoTarget}, age : 0 .. InspectionTimeout + 1]
  /\ status \in Statuses
  /\ arrivedFor \in 0 .. Dwell
  /\ view = NoView \/ view \in [target : Targets, reached : BOOLEAN, dwelt : 0 .. Dwell]
  /\ closed \in Seq([target : Targets, outcome : Outcomes, flown : BOOLEAN])

TypeOK ==
  /\ GoalTypeOK
  /\ attemptVars \in [Needs -> 0 .. MaxPlansPerNeed] \X [Needs -> Nat]
  /\ priorViews \in [Poses -> Nat]
  /\ unavailable \subseteq Beliefs
  /\ request \in {NoRequest, Carried, Dropped}
  /\ modeVars \in BOOLEAN \X BOOLEAN \X BOOLEAN
  /\ stage \in Stages
  /\ protocol \in Protocols

-----------------------------------------------------------------------------
\* The position was reached and the aim held for the whole dwell.
Flown(v) == v.reached /\ v.dwelt >= Dwell

Busy == active.purpose \in {"INSPECT", "REVISIT", "SAFE_HOLD"}

\* Mutant: an inspection has no time limit.
GoalFinishedUntimed == status \in {"COMPLETE", "REJECTED"}

GoalFinished ==
  \/ status \in {"COMPLETE", "REJECTED"}
  \/ status = "ARRIVED" /\ active.purpose = "TRANSIT"
  \/ active.purpose = "INSPECT" /\ active.age > InspectionTimeout

\* Mutant: the goal's status is taken after the preemption.
CloseReasonPreemptFirst(purpose, preempt) ==
  IF preempt # "NONE" THEN preempt
  ELSE IF status = "COMPLETE" THEN "FLOWN" ELSE "ABANDONED_PREEMPTED"

\* Why the running view ends, decided before the stack sees the replacing goal.
CloseReason(purpose, preempt) ==
  CASE status = "COMPLETE" ->
         IF ~view.reached THEN "COMPLETED_OFF_POSE"
         ELSE IF Flown(view) THEN "FLOWN" ELSE "ARRIVED_DWELL_SHORT"
    [] status = "REJECTED" -> "ABANDONED_NAV_REJECTED"
    [] OTHER ->
         IF preempt # "NONE" THEN preempt
         ELSE IF purpose = "SAFE_HOLD" THEN "ABANDONED_SAFE_HOLD"
         ELSE IF active.age > InspectionTimeout THEN "ABANDONED_TIMEOUT" ELSE "ABANDONED_PREEMPTED"

Record(v, outcome) == [target |-> v.target, outcome |-> outcome, flown |-> Flown(v)]

\* What closing the open view, if there is one, appends to the ledger.
Closing(outcome) == IF view = NoView THEN <<>> ELSE <<Record(view, outcome)>>

\* Mutant: a refused goal leaves the running view open.
SetGoalKeepsView(purpose, target, preempt, accepted) ==
  /\ arrivedFor' = 0
  /\ status' = IF accepted THEN "EXECUTING" ELSE "REJECTED"
  /\ active' = IF accepted THEN [purpose |-> purpose, target |-> target, age |-> 0] ELSE active
  /\ view' = IF ~accepted THEN view ELSE IF target = NoTarget THEN NoView ELSE NewView(target)
  /\ closed' = IF accepted THEN closed \o Closing(CloseReason(purpose, preempt)) ELSE closed

(***************************************************************************)
(* MissionExecutive.set_goal with NavigationStack.set_goal. A refusal      *)
(* clears the stack's objective but not the executive's active goal; a     *)
(* view goal that is refused is opened and closed on the spot.             *)
(***************************************************************************)
SetGoal(purpose, target, preempt, accepted) ==
  /\ arrivedFor' = 0
  /\ IF accepted
       THEN /\ status' = "EXECUTING"
            /\ active' = [purpose |-> purpose, target |-> target, age |-> 0]
            /\ view' = IF target = NoTarget THEN NoView ELSE NewView(target)
            /\ closed' = closed \o Closing(CloseReason(purpose, preempt))
       ELSE /\ status' = "REJECTED"
            /\ view' = NoView
            /\ closed' = closed \o Closing("ABANDONED_TRAJECTORY_LOST")
                           \o (IF target = NoTarget THEN <<>>
                               ELSE <<Record(NewView(target), "ABANDONED_NAV_REJECTED")>>)
            /\ UNCHANGED active

SetPlainGoal(purpose, preempt) ==
  \E accepted \in BOOLEAN : SetGoal(purpose, NoTarget, preempt, accepted)

\* Mutant: the hook gives navigation no new goal.
SafeHoldSilent == held' = TRUE /\ UNCHANGED goalVars

\* RuntimeSupervisor.safe_hold and its hook: a failed navigation is not asked to hold.
SafeHold ==
  /\ held' = TRUE
  /\ IF held \/ navFailed THEN UNCHANGED goalVars ELSE SetPlainGoal("SAFE_HOLD", "NONE")

-----------------------------------------------------------------------------
\* MissionRuntime.start: nothing retries a transit goal the stack refuses.
Init ==
  /\ \/ active = [purpose |-> "TRANSIT", target |-> NoTarget, age |-> 0] /\ status = "EXECUTING"
     \/ active = [purpose |-> "NONE", target |-> NoTarget, age |-> 0] /\ status = "REJECTED"
  /\ arrivedFor = 0
  /\ view = NoView
  /\ closed = <<>>
  /\ planAttempts = [k \in Needs |-> 0]
  /\ viewAttempts = [k \in Needs |-> 0]
  /\ priorViews = [p \in Poses |-> 0]
  /\ unavailable = {}
  /\ request = NoRequest
  /\ transitDone = FALSE
  /\ navFailed = FALSE
  /\ held = FALSE
  /\ stage = "PERCEIVE"
  /\ protocol \in Protocols

\* Mutant: a held mission goes on deciding.
PerceiveHeld ==
  /\ stage = "PERCEIVE"
  /\ navFailed' \in {navFailed, TRUE}
  /\ stage' \in {"FINISH", "CONTROL"}
  /\ request' = NoRequest
  /\ UNCHANGED <<goalVars, plannerVars, transitDone, held>>

\* The observations, a position fix of which may crash navigation; is a decision due?
Perceive ==
  /\ stage = "PERCEIVE"
  /\ navFailed' \in {navFailed, TRUE}
  /\ stage' \in (IF held THEN {"CONTROL"} ELSE {"FINISH", "CONTROL"})
  /\ request' = NoRequest
  /\ UNCHANGED <<goalVars, plannerVars, transitDone, held>>

\* DecisionRouting.cycle, its first part: a goal that is over is replaced.
FinishGoal ==
  /\ stage = "FINISH"
  /\ stage' = "RECONCILE"
  /\ transitDone' = (transitDone \/ (GoalFinished /\ active.purpose = "TRANSIT"))
  /\ IF GoalFinished /\ active.purpose \in {"TRANSIT", "INSPECT", "REVISIT"}
       THEN SetPlainGoal(IF transitDone' THEN "HOLD" ELSE "TRANSIT", "NONE")
       ELSE UNCHANGED goalVars
  /\ UNCHANGED <<plannerVars, request, navFailed, held>>

\* Mutant: the slice of new records is one short.
ReconciledEarly == Len(closed) <= 1

\* No record has been closed since the last look.
Reconciled == closed = <<>>

LessOne(n) == IF n = 0 THEN 0 ELSE n - 1

\* DecisionRouting.reconcile_views: one turn of its loop over the new records, or its end.
Reconcile ==
  /\ stage = "RECONCILE"
  /\ IF Reconciled
       THEN stage' = "ROUTE" /\ UNCHANGED <<closed, planAttempts, priorViews>>
       ELSE LET rec == Head(closed)
                need == rec.target.need
                refunded == ViewExecution /\ rec.outcome \in Refunded
            IN /\ closed' = Tail(closed)
               /\ stage' = stage
               /\ priorViews' = IF refunded THEN [priorViews EXCEPT ![rec.target.pose] = LessOne(@)]
                                ELSE priorViews
               /\ planAttempts' = IF refunded /\ viewAttempts[need] < MaxViewAttempts
                                    THEN [planAttempts EXCEPT ![need] = LessOne(@)]
                                    ELSE planAttempts
  /\ UNCHANGED <<active, status, arrivedFor, view, viewAttempts, unavailable, request, modeVars>>

-----------------------------------------------------------------------------
(***************************************************************************)
(* DecisionRouting._route. An information request is deferred during the   *)
(* survey and while a goal is busy, unless it asks for a calibration.      *)
(***************************************************************************)
Exhausted(need) ==
  \/ planAttempts[need] >= Min({MaxPlansPerNeed, InformationLimit})
  \/ ViewExecution /\ viewAttempts[need] >= MaxViewAttempts

\* Mutant: accepted views are not capped.
CanPlanUncapped(need) == planAttempts[need] < MaxPlansPerNeed

CanPlan(need) ==
  /\ planAttempts[need] < MaxPlansPerNeed
  /\ ViewExecution => viewAttempts[need] < MaxViewAttempts

Welcome(calibration) == calibration \/ (transitDone /\ ~Busy)

\* No decision (EGDC failed), or one that is routed to BAAC, the operator or nowhere.
RouteElsewhere ==
  UNCHANGED <<goalVars, plannerVars, request, held>>

RouteSafetySupervisor ==
  /\ SafeHold
  /\ UNCHANGED <<plannerVars, request>>

RouteRevisit ==
  /\ IF Welcome(FALSE)
       THEN SetPlainGoal("REVISIT", "NONE") /\ request' = Carried
       ELSE request' = NotExecuted /\ UNCHANGED goalVars
  /\ UNCHANGED <<plannerVars, held>>

\* A route exists only for a goal that moves; a view under protection defers the detour, and
\* one that no leg of the route needs is none.
RouteReplan ==
  /\ active.purpose \in {"TRANSIT", "INSPECT", "REVISIT"}
  /\ IF ViewExecution /\ ProtectActiveView /\ Busy
       THEN request' = NotExecuted /\ UNCHANGED goalVars
       ELSE /\ request' = Carried
            /\ \/ UNCHANGED goalVars
               \/ active.purpose = "TRANSIT" /\ SetPlainGoal("TRANSIT", "NONE")
               \/ active.purpose # "TRANSIT" /\ SetPlainGoal("HOLD", "ABANDONED_ROUTE_BLOCKED")
  /\ UNCHANGED <<plannerVars, held>>

\* Deferred or refused by the sensing gate; a calibration that finds a busy goal gets no answer.
RequestDeclined(calibration) ==
  /\ request' = IF Welcome(calibration) /\ Busy THEN Dropped ELSE NotExecuted
  /\ UNCHANGED <<goalVars, plannerVars>>

\* Too many plans or views: the beliefs are reported as unavailable.
RequestExhausted(need) ==
  /\ ~CanPlan(need)
  /\ unavailable' = unavailable \cup need
  /\ request' = Carried
  /\ UNCHANGED <<goalVars, attemptVars, priorViews>>

Charged(need) == planAttempts[need] + 1

\* The planner failed or found no view.
PlanEmpty(need) ==
  /\ planAttempts' = [planAttempts EXCEPT ![need] = Charged(need)]
  /\ unavailable' = unavailable \cup
       (IF Charged(need) >= Min({MaxPlansPerNeed, InformationLimit}) THEN need ELSE {})
  /\ request' = Carried
  /\ UNCHANGED <<goalVars, viewAttempts, priorViews>>

AcceptView(need, pose) ==
  /\ unavailable' = unavailable \ need
  /\ viewAttempts' = [viewAttempts EXCEPT ![need] = @ + 1]
  /\ priorViews' = [priorViews EXCEPT ![pose] = @ + 1]

\* The calibration is taken from where the vehicle is.
PlanInline(need, pose) ==
  /\ planAttempts' = [planAttempts EXCEPT ![need] = Charged(need)]
  /\ AcceptView(need, pose)
  /\ request' = Carried
  /\ UNCHANGED goalVars

\* A calibration view during the survey is not flown; an intact belief gets its attempt back.
PlanDeferred(need, intact) ==
  /\ planAttempts' =
       [planAttempts EXCEPT ![need] = IF intact /\ ViewExecution THEN @ ELSE Charged(need)]
  /\ request' = NotExecuted
  /\ UNCHANGED <<goalVars, viewAttempts, priorViews, unavailable>>

LaunchView(need, pose) ==
  \E accepted \in BOOLEAN :
    /\ SetGoal("INSPECT", [need |-> need, pose |-> pose], "NONE", accepted)
    /\ planAttempts' = [planAttempts EXCEPT ![need] = Charged(need)]
    /\ IF accepted THEN AcceptView(need, pose)
       ELSE UNCHANGED <<viewAttempts, priorViews, unavailable>>
    /\ request' = Carried

\* DecisionRouting._inspect, with the planner's answer as a choice.
Inspect(need, calibration) ==
  /\ Welcome(calibration) /\ ~Busy
  /\ \/ RequestExhausted(need)
     \/ /\ CanPlan(need)
        /\ \/ PlanEmpty(need)
           \/ \E pose \in Poses :
                \/ calibration /\ PlanInline(need, pose)
                \/ (calibration => transitDone) /\ LaunchView(need, pose)
           \/ calibration /\ ~transitDone /\ \E intact \in BOOLEAN : PlanDeferred(need, intact)

RouteInformation ==
  /\ \E need \in Needs, calibration \in BOOLEAN :
       RequestDeclined(calibration) \/ Inspect(need, calibration)
  /\ UNCHANGED held

Route ==
  /\ stage = "ROUTE"
  /\ stage' = "POLL"
  /\ \/ RouteElsewhere
     \/ RouteSafetySupervisor
     \/ RouteRevisit
     \/ RouteReplan
     \/ RouteInformation
  /\ UNCHANGED <<transitDone, navFailed>>

\* MissionRuntime._poll_operator: the one request the inbox understands is safe_hold.
PollOperator ==
  /\ stage = "POLL"
  /\ stage' = "CONTROL"
  /\ SafeHold \/ UNCHANGED <<goalVars, held>>
  /\ UNCHANGED <<plannerVars, request, transitDone, navFailed>>

-----------------------------------------------------------------------------
\* The time an arrived goal has to be held for; HOLD and SAFE_HOLD ask for an hour.
HoldFor(purpose) == IF purpose = "TRANSIT" THEN 0 ELSE Dwell

\* NavigationStack._update_status, when the tick's reference follows the trajectory.
StatusAfter(near, over) ==
  CASE status = "EXECUTING" /\ near /\ over ->
         IF HoldFor(active.purpose) = 0 THEN "COMPLETE" ELSE "ARRIVED"
    [] status = "ARRIVED" /\ active.purpose \in {"INSPECT", "REVISIT"}
         /\ arrivedFor + 1 >= HoldFor(active.purpose) -> "COMPLETE"
    [] OTHER -> status

\* Time passes for an arrived goal whether or not the safety state lets the stack look.
Held(n) == IF status = "ARRIVED" THEN Min({n + 1, Dwell}) ELSE n

\* ViewLedger.update
ViewAfter(near, aimed) ==
  IF view = NoView \/ ~near THEN view
  ELSE [view EXCEPT !.reached = TRUE, !.dwelt = IF aimed THEN Min({@ + 1, Dwell}) ELSE @]

(***************************************************************************)
(* MissionExecutive.control_tick as the module "navigation". The safety    *)
(* supervisor may have the stack hold (moving = FALSE), and an exception   *)
(* may cut the tick short before the status is updated, before the view    *)
(* record is, or when the command is submitted.                            *)
(***************************************************************************)
Completions == {"ESTIMATE", "COMMAND", "SUBMIT", "ALL"}

ControlTick ==
  /\ stage = "CONTROL"
  /\ stage' = "SUPERVISE"
  /\ IF navFailed THEN UNCHANGED <<goalVars, navFailed>>
     ELSE \E near, over, aimed, moving \in BOOLEAN, reached \in Completions :
       /\ navFailed' = (reached # "ALL")
       /\ status' = IF moving /\ reached # "ESTIMATE" THEN StatusAfter(near, over) ELSE status
       /\ view' = IF reached \in {"SUBMIT", "ALL"} THEN ViewAfter(near, aimed) ELSE view
       /\ arrivedFor' = Held(arrivedFor)
       /\ UNCHANGED <<active, closed>>
  /\ UNCHANGED <<plannerVars, request, transitDone, held>>

\* RuntimeSupervisor.tick: a failed navigation holds the mission. The tick is over.
Supervise ==
  /\ stage = "SUPERVISE"
  /\ stage' = "PERCEIVE"
  /\ held' = (held \/ navFailed)
  /\ active' = IF active.purpose = "INSPECT"
                 THEN [active EXCEPT !.age = Min({@ + 1, InspectionTimeout + 1})] ELSE active
  /\ UNCHANGED <<status, arrivedFor, view, closed, plannerVars, request, transitDone, navFailed>>

\* MissionExecutive.close_views at the end: an aim held for any time counts as flown.
EndOutcome == IF status = "COMPLETE" /\ view.dwelt > 0 THEN "FLOWN" ELSE "ABANDONED_MISSION_END"

\* MissionRuntime.finish: the view is closed, then the supervisor stops through SAFE_HOLD.
Finish ==
  /\ stage = "PERCEIVE"
  /\ stage' = "ENDED"
  /\ held' = TRUE
  /\ LET ledger == closed \o Closing(EndOutcome) IN
     IF held \/ navFailed
       THEN closed' = ledger /\ view' = NoView /\ UNCHANGED <<active, status, arrivedFor>>
       ELSE \E accepted \in BOOLEAN :
              /\ status' = IF accepted THEN "EXECUTING" ELSE "REJECTED"
              /\ active' = IF accepted THEN [purpose |-> "SAFE_HOLD", target |-> NoTarget, age |-> 0]
                            ELSE active
              /\ arrivedFor' = 0 /\ view' = NoView /\ closed' = ledger
  /\ UNCHANGED <<plannerVars, request, transitDone, navFailed>>

Next ==
  /\ \/ Perceive \/ FinishGoal \/ Reconcile \/ Route \/ PollOperator
     \/ ControlTick \/ Supervise \/ Finish
  /\ UNCHANGED protocol

Spec == Init /\ [][Next]_vars

\* The control period repeats, and every few periods one of them is a decision period.
DecisionDue == Perceive /\ stage' = "FINISH" /\ UNCHANGED protocol

FairSpec == Spec /\ WF_vars(Next) /\ SF_vars(DecisionDue)

-----------------------------------------------------------------------------
\* The open record of the ledger is the view the vehicle is flying: there is one exactly
\* while an inspection runs, and a refused goal, which takes the trajectory away, closes it.
ViewMatchesGoal ==
  stage # "ENDED" =>
    IF active.purpose = "INSPECT" /\ status # "REJECTED"
      THEN view.target = active.target ELSE view = NoView

\* Refunds and inline calibrations included, no need spends more plans or is granted more
\* views than configured, and without the protocol a view always costs a plan.
AttemptsBounded ==
  \A k \in Needs :
    /\ planAttempts[k] <= MaxPlansPerNeed
    /\ viewAttempts[k] <= (IF ViewExecution THEN MaxViewAttempts ELSE planAttempts[k])

\* A view replaced before the mission's end is called flown only if the dwell was held, a
\* completed view was at its pose, and no other goal ever takes the place of a running view
\* without one of the named reasons.
OutcomesAreEarned ==
  \A i \in DOMAIN closed :
    /\ closed[i].outcome \notin {"COMPLETED_OFF_POSE", "ABANDONED_PREEMPTED"}
    /\ closed[i].outcome = "FLOWN" /\ stage # "ENDED" => closed[i].flown
    /\ closed[i].flown => closed[i].outcome # "ARRIVED_DWELL_SHORT"

\* A belief is reported as not obtainable only while some need that names it really has no
\* attempts left: no refund that comes later makes the report stale.
UnavailableMeansExhausted ==
  \A b \in unavailable : \E k \in Needs : b \in k /\ Exhausted(k)

\* In SAFE_HOLD the vehicle keeps its hold goal, or has no trajectory at all, unless
\* navigation itself is gone.
SafeHoldKept == held /\ ~navFailed => active.purpose = "SAFE_HOLD" \/ status = "REJECTED"

\* A held mission stays held and launches nothing: no goal, no plan and no view.
HoldIsFinal ==
  [][held => held' /\ active'.purpose = active.purpose /\ attemptVars' = attemptVars]_vars

\* A running inspection is over in the end, whatever the navigation stack makes of it.
InspectionEnds ==
  active.purpose = "INSPECT" /\ status # "REJECTED" ~>
    active.purpose # "INSPECT" \/ status = "REJECTED" \/ held
=============================================================================
