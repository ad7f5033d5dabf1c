------------------------- MODULE SafetySupervisor -------------------------
(***************************************************************************)
(* The deterministic safety supervisor of the navigation stack             *)
(* (src/conrad/robotics/safety/supervisor.py): every control tick maps the *)
(* monitored conditions to one safety state, the worst one wins, and leaks *)
(* and emergency stops latch until an operator resets them.                *)
(*                                                                         *)
(* Time stamps are kept relative to the present: lossFor is now minus      *)
(* _loss_since_ns, dwellLeft is _degraded_until_ns minus now, both cut off *)
(* where the code's comparisons stop telling values apart.                 *)
(***************************************************************************)
EXTENDS Integers, FiniteSets

CONSTANTS
  Thrusters,              \* the thruster ids of the RobotConfig
  SafeHoldAction,         \* RobotConfig.safety.safe_hold_action
  UntrustedHoldAction,    \* SafetyConfig.untrusted_state_hold_action
  BreachEscalates,        \* SafetyConfig.boundary_breach_escalates_to_estop
  RelocalizationTimeout,  \* ticks of lost localization before RETURN
  DegradedDwell           \* ticks DEGRADED is kept after its cause is gone

HoldActions == {"STATION_KEEP", "ZERO_THRUST", "SURFACE"}

\* Hold actions that close a control loop on the position estimate.
ClosedLoopActions == {"STATION_KEEP"}

ASSUME SafetyAssumption ==
  /\ SafeHoldAction \in HoldActions
  /\ UntrustedHoldAction \in HoldActions \ ClosedLoopActions
  /\ BreachEscalates \in BOOLEAN
  /\ RelocalizationTimeout \in Nat
  /\ DegradedDwell \in Nat

VARIABLES
  latched,     \* the latched overrides, cleared only by an operator
  lossFor,     \* ticks since localization was lost, NoLoss when it is not
  dwellLeft,   \* ticks DEGRADED must still be held
  assessment   \* the last assessment

supervisorVars == <<latched, lossFor, dwellLeft, assessment>>

NoLoss == -1

-----------------------------------------------------------------------------
SafetyStates == {"NORMAL", "DEGRADED", "HOLD", "RETURN", "RECOVER", "EMERGENCY_STOP"}

MotionStates == {"NORMAL", "DEGRADED", "HOLD"}

\* Mutant: a hold outranks an emergency stop.
SeverityHoldFirst(s) == IF s = "HOLD" THEN 6 ELSE IF s = "NORMAL" THEN 0 ELSE 1

Severity(s) ==
  CASE s = "NORMAL" -> 0
    [] s = "DEGRADED" -> 1
    [] s = "HOLD" -> 2
    [] s = "RETURN" -> 3
    [] s = "RECOVER" -> 4
    [] s = "EMERGENCY_STOP" -> 5

\* The worst of a set of conditions; no condition at all is NORMAL.
Worst(found) ==
  CHOOSE s \in found \cup {"NORMAL"} :
    \A t \in found \cup {"NORMAL"} : Severity(t) <= Severity(s)

Latches == {"LEAK", "OPERATOR_ESTOP", "BREACH_UNLOCALIZED"}

(***************************************************************************)
(* What one tick observes. estimate grades the pose sigma and the          *)
(* estimator's own verdict, region the inflated position against the       *)
(* mission boundary, reported are the thruster faults the allocator read   *)
(* at the start of the tick and faulted those the supervisor reads after   *)
(* it, other is the worst of the remaining monitors (depth, altitude,      *)
(* battery, clearance, tracking, sensor faults).                           *)
(***************************************************************************)
AllInputs ==
  [estimate : {"GOOD", "ELEVATED", "LOST", "MISSING"}, stale : BOOLEAN,
   region : {"INSIDE", "RISK", "OUTSIDE"}, leak : BOOLEAN, hwFault : BOOLEAN,
   reported : SUBSET Thrusters, faulted : SUBSET Thrusters,
   other : {"NORMAL", "DEGRADED", "HOLD", "RETURN"}]

\* No state estimate may be used as a control reference.
Untrusted(x) == x.estimate \in {"LOST", "MISSING"} \/ x.stale

Breach(x) == x.estimate # "MISSING" /\ x.region = "OUTSIDE" /\ Untrusted(x) /\ BreachEscalates

NewLatches(x) ==
  (IF Breach(x) THEN {"BREACH_UNLOCALIZED"} ELSE {}) \cup (IF x.leak THEN {"LEAK"} ELSE {})

LossAge(x) ==
  CASE x.estimate = "MISSING" -> lossFor
    [] x.estimate = "LOST" -> IF lossFor = NoLoss THEN 0 ELSE lossFor
    [] OTHER -> NoLoss

LatchState(code) == IF code = "LEAK" THEN "RECOVER" ELSE "EMERGENCY_STOP"

\* Mutant: the latches are graded before this tick's observations latch anything.
FoundLatchesFirst(x) ==
  {x.other}
    \cup {s \in {"HOLD"} : Untrusted(x) \/ x.hwFault \/ x.region # "INSIDE"}
    \cup {s \in {"DEGRADED"} : x.estimate = "ELEVATED" \/ x.faulted # {}}
    \cup {LatchState(code) : code \in latched}

\* The condition severities one tick finds.
Found(x) ==
  {x.other}
    \cup {s \in {"HOLD"} : Untrusted(x) \/ x.hwFault \/ x.region # "INSIDE"}
    \cup {s \in {"RETURN"} : x.estimate = "LOST" /\ LossAge(x) > RelocalizationTimeout}
    \cup {s \in {"DEGRADED"} : x.estimate = "ELEVATED" \/ x.faulted # {}}
    \cup {LatchState(code) : code \in latched \cup NewLatches(x)}

AssessedState(x) ==
  LET worst == Worst(Found(x)) IN IF worst = "NORMAL" /\ dwellLeft > 0 THEN "DEGRADED" ELSE worst

HoldActionFor(x) == IF Untrusted(x) THEN UntrustedHoldAction ELSE SafeHoldAction

ZeroRequired(x, state) ==
  \/ state \in {"EMERGENCY_STOP", "RECOVER"}
  \/ /\ state = "HOLD"
     /\ x.stale \/ x.estimate = "MISSING" \/ HoldActionFor(x) = "ZERO_THRUST"

Assessments ==
  [state : SafetyStates, action : HoldActions, zero : BOOLEAN,
   trusted : BOOLEAN, usable : BOOLEAN, faulted : SUBSET Thrusters]

AssessmentOf(x) ==
  LET state == AssessedState(x)
  IN [state |-> state, action |-> HoldActionFor(x), zero |-> ZeroRequired(x, state),
      trusted |-> ~Untrusted(x), usable |-> ~x.stale /\ x.estimate # "MISSING",
      faulted |-> x.faulted]

\* The stack answers these assessments with an explicit all-zero command.
StopDemanded(a) == a.zero \/ a.state \notin MotionStates

-----------------------------------------------------------------------------
SupervisorInit ==
  /\ latched = {}
  /\ lossFor = NoLoss
  /\ dwellLeft = 0
  /\ assessment = [state |-> "NORMAL", action |-> SafeHoldAction, zero |-> FALSE,
                   trusted |-> TRUE, usable |-> TRUE, faulted |-> {}]

\* Mutant: the dwell accumulates instead of being set anew.
AssessAccumulatesDwell(x) ==
  /\ latched' = latched \cup NewLatches(x)
  /\ lossFor' = LossAge(x)
  /\ dwellLeft' = IF Worst(Found(x)) = "DEGRADED" THEN dwellLeft + DegradedDwell ELSE dwellLeft
  /\ assessment' = AssessmentOf(x)

Assess(x) ==
  /\ latched' = latched \cup NewLatches(x)
  /\ lossFor' = LossAge(x)
  /\ dwellLeft' = IF Worst(Found(x)) = "DEGRADED" THEN DegradedDwell ELSE dwellLeft
  /\ assessment' = AssessmentOf(x)

EmergencyStop ==
  /\ latched' = latched \cup {"OPERATOR_ESTOP"}
  /\ UNCHANGED <<lossFor, dwellLeft, assessment>>

ResetLatch ==
  /\ latched' = {}
  /\ UNCHANGED <<lossFor, dwellLeft, assessment>>

\* One unit of time passes for the supervisor's two time stamps.
SupervisorAges ==
  /\ lossFor' = IF lossFor = NoLoss \/ lossFor > RelocalizationTimeout THEN lossFor ELSE lossFor + 1
  /\ dwellLeft' = IF dwellLeft > 0 THEN dwellLeft - 1 ELSE 0
  /\ UNCHANGED <<latched, assessment>>

\* Mutant: only the safety state is looked at, not the failed thrusters.
AuthorizeByState(drive, a) == StopDemanded(a) => drive = {}

\* Whether a command (the set of thrusters it drives) is authorized under a.
Authorize(drive, a) ==
  /\ drive \cap a.faulted = {}
  /\ StopDemanded(a) => drive = {}

SupervisorTypeOK ==
  /\ latched \subseteq Latches
  /\ lossFor \in {NoLoss} \cup 0 .. RelocalizationTimeout + 1
  /\ dwellLeft \in 0 .. DegradedDwell
  /\ assessment \in Assessments
=============================================================================
