------------------------- MODULE ControlLoopProofs -------------------------
(***************************************************************************)
(* Proofs about the execution plane, for every set of thrusters, every     *)
(* configuration the assumptions allow and every set of observations.      *)
(***************************************************************************)
EXTENDS ControlLoop, TLAPS

(***************************************************************************)
(* Worst really is the worst: the CHOOSE always has a candidate.           *)
(***************************************************************************)
LEMMA WorstIsMaximum ==
  ASSUME NEW F \in SUBSET SafetyStates
  PROVE  /\ Worst(F) \in SafetyStates
         /\ Worst(F) \in F \cup {"NORMAL"}
         /\ \A t \in F : Severity(t) <= Severity(Worst(F))
<1> DEFINE G == F \cup {"NORMAL"}
           Max(s) == \A t \in G : Severity(t) <= Severity(s)
<1>1. \A t \in G : t \in SafetyStates
  BY DEF SafetyStates
<1>2. \E s \in G : Max(s)
  <2>1. CASE "EMERGENCY_STOP" \in F
    <3>1. Max("EMERGENCY_STOP")
      BY <1>1 DEF SafetyStates, Severity
    <3> QED BY <2>1, <3>1
  <2>2. CASE "EMERGENCY_STOP" \notin F /\ "RECOVER" \in F
    <3>1. Max("RECOVER")
      BY <1>1, <2>2 DEF SafetyStates, Severity
    <3> QED BY <2>2, <3>1
  <2>3. CASE {"EMERGENCY_STOP", "RECOVER"} \cap F = {} /\ "RETURN" \in F
    <3>1. Max("RETURN")
      BY <1>1, <2>3 DEF SafetyStates, Severity
    <3> QED BY <2>3, <3>1
  <2>4. CASE {"EMERGENCY_STOP", "RECOVER", "RETURN"} \cap F = {} /\ "HOLD" \in F
    <3>1. Max("HOLD")
      BY <1>1, <2>4 DEF SafetyStates, Severity
    <3> QED BY <2>4, <3>1
  <2>5. CASE {"EMERGENCY_STOP", "RECOVER", "RETURN", "HOLD"} \cap F = {} /\ "DEGRADED" \in F
    <3>1. Max("DEGRADED")
      BY <1>1, <2>5 DEF SafetyStates, Severity
    <3> QED BY <2>5, <3>1
  <2>6. CASE {"EMERGENCY_STOP", "RECOVER", "RETURN", "HOLD", "DEGRADED"} \cap F = {}
    <3>1. Max("NORMAL")
      BY <1>1, <2>6 DEF SafetyStates, Severity
    <3> QED BY <3>1
  <2> QED BY <2>1, <2>2, <2>3, <2>4, <2>5, <2>6
<1>3. Worst(F) = CHOOSE s \in G : Max(s)
  BY DEF Worst
<1>4. Worst(F) \in G /\ Max(Worst(F))
  BY <1>2, <1>3, Zenon
<1> QED BY <1>1, <1>4

(***************************************************************************)
(* What one tick finds are safety states, and so is what it assesses.      *)
(***************************************************************************)
LEMMA FoundAreStates ==
  ASSUME NEW x \in AllInputs
  PROVE  Found(x) \subseteq SafetyStates
BY DEF AllInputs, Found, SafetyStates, LatchState

LEMMA AssessedAtLeast ==
  ASSUME NEW x \in AllInputs
  PROVE  /\ AssessedState(x) \in SafetyStates
         /\ \A t \in Found(x) : Severity(t) <= Severity(AssessedState(x))
<1>1. /\ Worst(Found(x)) \in SafetyStates
      /\ \A t \in Found(x) : Severity(t) <= Severity(Worst(Found(x)))
  BY FoundAreStates, WorstIsMaximum
<1>2. CASE Worst(Found(x)) = "NORMAL" /\ dwellLeft > 0
  <2>1. AssessedState(x) = "DEGRADED"
    BY <1>2 DEF AssessedState
  <2>2. \A t \in Found(x) : t \in SafetyStates
    BY FoundAreStates
  <2> QED BY <1>1, <1>2, <2>1, <2>2 DEF SafetyStates, Severity
<1>3. CASE ~(Worst(Found(x)) = "NORMAL" /\ dwellLeft > 0)
  <2>1. AssessedState(x) = Worst(Found(x))
    BY <1>3 DEF AssessedState
  <2> QED BY <1>1, <2>1
<1> QED BY <1>2, <1>3

LEMMA AssessmentType ==
  ASSUME NEW x \in AllInputs
  PROVE  AssessmentOf(x) \in Assessments
<1>1. AssessedState(x) \in SafetyStates
  BY AssessedAtLeast
<1>2. HoldActionFor(x) \in HoldActions
  BY SafetyAssumption DEF HoldActionFor
<1>3. ZeroRequired(x, AssessedState(x)) \in BOOLEAN
  BY Zenon DEF ZeroRequired
<1>4. x.faulted \in SUBSET Thrusters
  BY DEF AllInputs
<1> QED BY <1>1, <1>2, <1>3, <1>4 DEF AssessmentOf, Assessments

(***************************************************************************)
(* A latch forces a stop, and an estimate that is not trusted leaves only  *)
(* the open-loop ascent.                                                   *)
(***************************************************************************)
LEMMA LatchDemandsStop ==
  ASSUME NEW x \in AllInputs, latched \cup NewLatches(x) # {}
  PROVE  StopDemanded(AssessmentOf(x))
<1>1. PICK code \in latched \cup NewLatches(x) : TRUE
  OBVIOUS
<1>2. LatchState(code) \in Found(x) /\ LatchState(code) \in {"RECOVER", "EMERGENCY_STOP"}
  BY DEF Found, LatchState
<1>3. /\ AssessedState(x) \in SafetyStates
      /\ Severity(LatchState(code)) <= Severity(AssessedState(x))
  BY <1>2, AssessedAtLeast
<1>4. AssessedState(x) \notin MotionStates
  BY <1>2, <1>3 DEF SafetyStates, Severity, MotionStates
<1> QED BY <1>4 DEF StopDemanded, AssessmentOf

LEMMA UntrustedMotionIsAscent ==
  ASSUME NEW x \in AllInputs, Untrusted(x), ~StopDemanded(AssessmentOf(x))
  PROVE  AssessmentOf(x).usable /\ AssessmentOf(x).action = "SURFACE"
<1>1. "HOLD" \in Found(x)
  BY DEF Found
<1>2. /\ AssessedState(x) \in SafetyStates
      /\ Severity("HOLD") <= Severity(AssessedState(x))
  BY <1>1, AssessedAtLeast
<1>3. /\ AssessedState(x) \in MotionStates
      /\ ~ZeroRequired(x, AssessedState(x))
  BY DEF StopDemanded, AssessmentOf
<1>4. AssessedState(x) = "HOLD"
  BY <1>2, <1>3 DEF SafetyStates, Severity, MotionStates
<1>5. ~x.stale /\ x.estimate # "MISSING" /\ HoldActionFor(x) # "ZERO_THRUST"
  BY <1>3, <1>4 DEF ZeroRequired
<1>6. HoldActionFor(x) = "SURFACE"
  BY <1>5, SafetyAssumption DEF HoldActionFor, HoldActions, ClosedLoopActions
<1> QED BY <1>5, <1>6 DEF AssessmentOf

-----------------------------------------------------------------------------
(***************************************************************************)
(* Every step keeps the types.                                             *)
(***************************************************************************)
LEMMA TypeInit == Init => TypeOK
BY SafetyAssumption, LoopAssumption
   DEF Init, SupervisorInit, TypeOK, SupervisorTypeOK, Assessments, SafetyStates, NoLoss,
       NoDeadline, NotStopping, NoCommand

LEMMA AssessType ==
  ASSUME SupervisorTypeOK, NEW x \in AllInputs, Assess(x)
  PROVE  SupervisorTypeOK'
<1>1. latched' \subseteq Latches
  BY DEF Assess, SupervisorTypeOK, NewLatches, Latches
<1>2. lossFor' \in {NoLoss} \cup 0 .. RelocalizationTimeout + 1
  BY SafetyAssumption DEF Assess, SupervisorTypeOK, LossAge, NoLoss
<1>3. dwellLeft' \in 0 .. DegradedDwell
  BY SafetyAssumption DEF Assess, SupervisorTypeOK
<1>4. assessment' \in Assessments
  BY AssessmentType DEF Assess
<1> QED BY <1>1, <1>2, <1>3, <1>4 DEF SupervisorTypeOK, Latches, NoLoss, Assessments, SafetyStates, HoldActions

LEMMA TypeStep ==
  ASSUME TypeOK, NEW x \in Inputs, pending = NoCommand, NavStep(x)
  PROVE  TypeOK'
<1>1. x \in AllInputs
  BY LoopAssumption
<1>2. SupervisorTypeOK'
  BY <1>1, AssessType DEF TypeOK, NavStep
<1>3. pending' \in Commands \cup {NoCommand}
  <2>1. AssessmentOf(x).state \in SafetyStates
    BY <1>1, AssessedAtLeast DEF AssessmentOf
  <2>2. (x.stale \/ x.estimate = "MISSING") \in BOOLEAN /\ HealthFault(x) \in BOOLEAN
    BY Zenon DEF HealthFault
  <2>3. PICK drive \in SUBSET (IF StopDemanded(AssessmentOf(x)) THEN {} ELSE Thrusters \ x.reported) :
          pending' = IF Authorize(drive, AssessmentOf(x))
                       THEN [drive |-> drive, state |-> AssessmentOf(x).state, left |-> CommandTimeout,
                             stale |-> x.stale \/ x.estimate = "MISSING", fault |-> HealthFault(x)]
                       ELSE NoCommand
    BY DEF NavStep
  <2>4. drive \in SUBSET Thrusters
    BY <2>3
  <2>5. CommandTimeout \in 0 .. CommandTimeout
    BY LoopAssumption
  <2> QED BY <2>1, <2>2, <2>3, <2>4, <2>5 DEF Commands
<1>4. stopFor' \in {NotStopping} \cup 0 .. CommandTimeout + 1
  BY LoopAssumption DEF NavStep, TypeOK, NotStopping
<1> QED BY <1>2, <1>3, <1>4 DEF TypeOK, NavStep, Commands, NotStopping, NoDeadline, NoCommand, SafetyStates

LEMMA TypeSubmit ==
  ASSUME TypeOK, NEW stale \in BOOLEAN, NEW fault \in BOOLEAN, NEW accepts \in BOOLEAN,
         Submit(stale, fault, accepts)
  PROVE  TypeOK'
<1>1. pending \in Commands
  BY DEF TypeOK, Submit
<1>2. SupervisorTypeOK'
  BY DEF TypeOK, Submit, SupervisorTypeOK, supervisorVars, Latches, NoLoss, Assessments
<1>3. thrust' \subseteq Thrusters /\ deadlineIn' \in {NoDeadline} \cup 0 .. CommandTimeout
  BY <1>1 DEF TypeOK, Submit, Commands
<1> QED BY <1>2, <1>3 DEF TypeOK, Submit, NoDeadline, NotStopping

LEMMA TypeAdvance ==
  ASSUME TypeOK, Advance
  PROVE  TypeOK'
<1>1. SupervisorTypeOK'
  BY SafetyAssumption
     DEF TypeOK, Advance, SupervisorAges, SupervisorTypeOK, Latches, NoLoss, Assessments
<1>2. pending' \in Commands \cup {NoCommand}
  <2>1. CASE pending.left > 0
    <3>1. pending \in Commands
      BY <2>1 DEF TypeOK, NoCommand
    <3>2. pending.left - 1 \in 0 .. CommandTimeout
      BY <2>1, <3>1, LoopAssumption DEF Commands
    <3> QED BY <2>1, <3>1, <3>2 DEF Advance, Commands
  <2>2. CASE ~(pending.left > 0)
    BY <2>2 DEF Advance, TypeOK
  <2> QED BY <2>1, <2>2
<1>3. deadlineIn' \in {NoDeadline} \cup 0 .. CommandTimeout
  BY LoopAssumption DEF TypeOK, Advance, NoDeadline
<1>4. stopFor' \in {NotStopping} \cup 0 .. CommandTimeout + 1
  BY LoopAssumption DEF TypeOK, Advance, NotStopping
<1>5. thrust' \subseteq Thrusters
  BY DEF TypeOK, Advance
<1> QED BY <1>1, <1>2, <1>3, <1>4, <1>5 DEF TypeOK, NoDeadline, NotStopping

LEMMA TypeOperator ==
  ASSUME TypeOK, Operator
  PROVE  TypeOK'
BY DEF TypeOK, Operator, EmergencyStop, ResetLatch, SupervisorTypeOK, Latches, NoLoss, Assessments,
       NoDeadline, NotStopping

LEMMA TypeNext == TypeOK /\ [Next]_vars => TypeOK'
<1> SUFFICES ASSUME TypeOK, [Next]_vars PROVE TypeOK'
  OBVIOUS
<1>1. CASE Step
  BY <1>1, TypeStep DEF Step
<1>2. CASE Submission
  BY <1>2, TypeSubmit DEF Submission
<1>3. CASE Advance
  BY <1>3, TypeAdvance
<1>4. CASE Operator
  BY <1>4, TypeOperator
<1>5. CASE UNCHANGED vars
  BY <1>5 DEF vars, supervisorVars, TypeOK, SupervisorTypeOK
<1> QED BY <1>1, <1>2, <1>3, <1>4, <1>5 DEF Next

(***************************************************************************)
(* Type correctness of the execution plane.                                *)
(***************************************************************************)
THEOREM TypeCorrect == Spec => []TypeOK
BY TypeInit, TypeNext, PTL DEF Spec

-----------------------------------------------------------------------------
(***************************************************************************)
(* StopIsBounded is not inductive: it says nothing before the bound is     *)
(* reached. The inductive invariant says that the watchdog will stop what  *)
(* is driven before the stop has been demanded for too long, and that what *)
(* is on its way to the gateway is covered by the latest assessment.       *)
(***************************************************************************)
WatchdogInTime ==
  thrust # {} /\ stopFor # NotStopping => deadlineIn + stopFor <= CommandTimeout

PendingAuthorized ==
  /\ \A t \in pending.drive : MotionAuthorized(t)
  /\ pending.drive # {} => stopFor = NotStopping

LoopInvariant == TypeOK /\ ThrustHasDeadline /\ WatchdogInTime /\ PendingAuthorized

LEMMA LoopInit == Init => LoopInvariant
BY TypeInit DEF Init, LoopInvariant, ThrustHasDeadline, WatchdogInTime, PendingAuthorized, NoCommand

LEMMA LoopStep ==
  ASSUME LoopInvariant, NEW x \in Inputs, pending = NoCommand, NavStep(x)
  PROVE  ThrustHasDeadline' /\ WatchdogInTime' /\ PendingAuthorized'
<1> USE DEF LoopInvariant
<1> DEFINE a == AssessmentOf(x)
<1>1. x \in AllInputs
  BY LoopAssumption
<1>2. assessment' = a /\ UNCHANGED <<thrust, deadlineIn>>
  BY DEF NavStep, Assess
<1>3. ThrustHasDeadline'
  BY <1>2 DEF ThrustHasDeadline
<1>4. WatchdogInTime'
  <2>1. stopFor' \in {NotStopping, 0, stopFor}
    BY DEF NavStep
  <2>2. thrust # {} => deadlineIn \in 0 .. CommandTimeout
    BY DEF TypeOK, ThrustHasDeadline
  <2>3. CASE stopFor' = 0
    BY <1>2, <2>2, <2>3, LoopAssumption DEF WatchdogInTime
  <2>4. CASE stopFor' = stopFor
    BY <1>2, <2>4 DEF WatchdogInTime
  <2>5. CASE stopFor' = NotStopping
    BY <2>5 DEF WatchdogInTime
  <2> QED BY <2>1, <2>3, <2>4, <2>5
<1>5. PendingAuthorized'
  <2>1. PICK drive \in SUBSET (IF StopDemanded(a) THEN {} ELSE Thrusters \ x.reported) :
          pending' = IF Authorize(drive, a)
                       THEN [drive |-> drive, state |-> a.state, left |-> CommandTimeout,
                             stale |-> x.stale \/ x.estimate = "MISSING", fault |-> HealthFault(x)]
                       ELSE NoCommand
    BY DEF NavStep
  <2>2. CASE pending'.drive = {}
    BY <2>2 DEF PendingAuthorized
  <2>3. CASE pending'.drive # {}
    <3>1. pending'.drive = drive /\ Authorize(drive, a)
      BY <2>1, <2>3 DEF NoCommand
    <3>2. ~StopDemanded(a)
      BY <2>1, <2>3, <3>1
    <3>3. stopFor' = NotStopping
      BY <3>2 DEF NavStep
    <3>4. a.trusted \/ (a.usable /\ a.action = "SURFACE")
      <4>1. CASE Untrusted(x)
        BY <1>1, <3>2, <4>1, UntrustedMotionIsAscent
      <4>2. CASE ~Untrusted(x)
        BY <4>2 DEF AssessmentOf
      <4> QED BY <4>1, <4>2
    <3>5. \A t \in drive : t \notin a.faulted
      BY <3>1 DEF Authorize
    <3>6. \A t \in drive : MotionAuthorized(t)'
      BY <1>2, <3>2, <3>4, <3>5 DEF MotionAuthorized, StopDemanded
    <3> QED BY <3>1, <3>3, <3>6 DEF PendingAuthorized
  <2> QED BY <2>2, <2>3
<1> QED BY <1>3, <1>4, <1>5

LEMMA LoopSubmit ==
  ASSUME LoopInvariant, NEW stale \in BOOLEAN, NEW fault \in BOOLEAN, NEW accepts \in BOOLEAN,
         Submit(stale, fault, accepts)
  PROVE  ThrustHasDeadline' /\ WatchdogInTime' /\ PendingAuthorized'
<1> USE DEF LoopInvariant
<1> DEFINE sent == Admits(pending.state, pending.drive, pending.left, stale, fault) /\ accepts
<1>1. pending \in Commands
  BY DEF TypeOK, Submit
<1>2. PendingAuthorized'
  BY DEF Submit, PendingAuthorized, NoCommand
<1>3. CASE sent
  <2>1. thrust' = pending.drive /\ deadlineIn' = pending.left /\ stopFor' = stopFor
    BY <1>3 DEF Submit
  <2>2. pending.left \in 0 .. CommandTimeout
    BY <1>1 DEF Commands
  <2>3. ThrustHasDeadline'
    BY <2>1, <2>2, LoopAssumption DEF ThrustHasDeadline, NoDeadline
  <2>4. WatchdogInTime'
    BY <2>1 DEF WatchdogInTime, PendingAuthorized
  <2> QED BY <1>2, <2>3, <2>4
<1>4. CASE ~sent
  BY <1>2, <1>4 DEF Submit, ThrustHasDeadline, WatchdogInTime
<1> QED BY <1>3, <1>4

LEMMA LoopAdvance ==
  ASSUME LoopInvariant, Advance
  PROVE  ThrustHasDeadline' /\ WatchdogInTime' /\ PendingAuthorized'
<1> USE DEF LoopInvariant
<1>1. PendingAuthorized'
  <2>1. pending'.drive = pending.drive /\ assessment' = assessment
    BY DEF Advance, SupervisorAges, TypeOK, Commands, NoCommand
  <2>2. stopFor = NotStopping => stopFor' = NotStopping
    BY DEF Advance
  <2> QED BY <2>1, <2>2 DEF PendingAuthorized, MotionAuthorized
<1>2. CASE deadlineIn = 0
  BY <1>1, <1>2 DEF Advance, ThrustHasDeadline, WatchdogInTime
<1>3. CASE deadlineIn # 0
  <2>1. thrust' = thrust
    BY <1>3 DEF Advance
  <2>2. CASE thrust = {}
    BY <1>1, <2>1, <2>2 DEF ThrustHasDeadline, WatchdogInTime
  <2>3. CASE thrust # {}
    <3>1. deadlineIn \in 1 .. CommandTimeout /\ deadlineIn' = deadlineIn - 1
      BY <1>3, <2>3, LoopAssumption DEF Advance, TypeOK, ThrustHasDeadline, NoDeadline
    <3>2. ThrustHasDeadline'
      BY <3>1, LoopAssumption DEF ThrustHasDeadline, NoDeadline
    <3>3. WatchdogInTime'
      BY <2>3, <3>1, LoopAssumption DEF WatchdogInTime, Advance, TypeOK, NotStopping
    <3> QED BY <1>1, <3>2, <3>3
  <2> QED BY <2>2, <2>3
<1> QED BY <1>2, <1>3

LEMMA LoopNext == LoopInvariant /\ [Next]_vars => LoopInvariant'
<1> SUFFICES ASSUME LoopInvariant, [Next]_vars PROVE LoopInvariant'
  OBVIOUS
<1>1. TypeOK'
  BY TypeNext DEF LoopInvariant
<1>2. ThrustHasDeadline' /\ WatchdogInTime' /\ PendingAuthorized'
  <2>1. CASE Step
    BY <2>1, LoopStep DEF Step
  <2>2. CASE Submission
    BY <2>2, LoopSubmit DEF Submission
  <2>3. CASE Advance
    BY <2>3, LoopAdvance
  <2>4. CASE Operator
    BY <2>4 DEF LoopInvariant, Operator, EmergencyStop, ResetLatch, ThrustHasDeadline,
                WatchdogInTime, PendingAuthorized, MotionAuthorized
  <2>5. CASE UNCHANGED vars
    BY <2>5 DEF LoopInvariant, vars, supervisorVars, ThrustHasDeadline, WatchdogInTime,
                PendingAuthorized, MotionAuthorized
  <2> QED BY <2>1, <2>2, <2>3, <2>4, <2>5 DEF Next
<1> QED BY <1>1, <1>2 DEF LoopInvariant

LEMMA LoopInductive == Spec => []LoopInvariant
BY LoopInit, LoopNext, PTL DEF Spec

(***************************************************************************)
(* Thrust never outlives the deadline of the command that caused it.       *)
(***************************************************************************)
THEOREM ThrustAlwaysHasDeadline == Spec => []ThrustHasDeadline
BY LoopInductive, PTL DEF LoopInvariant

(***************************************************************************)
(* A stop the assessments keep demanding takes effect within               *)
(* command_timeout, whatever the gateway and the adapter refuse meanwhile. *)
(***************************************************************************)
THEOREM StopAlwaysBounded == Spec => []StopIsBounded
<1>1. LoopInvariant => StopIsBounded
  <2> SUFFICES ASSUME LoopInvariant, stopFor > CommandTimeout, thrust # {} PROVE FALSE
    BY DEF StopIsBounded
  <2>1. stopFor \in Nat /\ deadlineIn \in Nat
    BY LoopAssumption DEF LoopInvariant, TypeOK, ThrustHasDeadline, NotStopping, NoDeadline
  <2>2. deadlineIn + stopFor <= CommandTimeout
    BY <2>1 DEF LoopInvariant, WatchdogInTime, NotStopping
  <2> QED BY <2>1, <2>2, LoopAssumption
<1> QED BY <1>1, LoopInductive, PTL

(***************************************************************************)
(* A thruster only starts on the word of the latest assessment, in every   *)
(* configuration: with an estimate it may not trust the vehicle is moved   *)
(* by the open-loop ascent alone (authorize, HOLD hold actions).           *)
(***************************************************************************)
THEOREM MotionIsAuthorized == Spec => OnlyAuthorizedMotion
<1>1. LoopInvariant /\ [Next]_vars => [\A t \in thrust' \ thrust : MotionAuthorized(t)]_vars
  <2> SUFFICES ASSUME LoopInvariant, Next, NEW t \in thrust' \ thrust PROVE MotionAuthorized(t)
    OBVIOUS
  <2>1. CASE Step
    BY <2>1 DEF Step, NavStep
  <2>2. CASE Submission
    <3>1. t \in pending.drive
      BY <2>2 DEF Submission, Submit
    <3> QED BY <3>1 DEF LoopInvariant, PendingAuthorized
  <2>3. CASE Advance
    BY <2>3 DEF Advance
  <2>4. CASE Operator
    BY <2>4 DEF Operator
  <2> QED BY <2>1, <2>2, <2>3, <2>4 DEF Next
<1> QED BY <1>1, LoopInductive, PTL DEF Spec, OnlyAuthorizedMotion

(***************************************************************************)
(* While anything is latched, no command that drives a thruster is         *)
(* authorized, even after its cause is gone.                               *)
(***************************************************************************)
THEOREM LatchedMeansNoMotion == Spec => LatchForbidsMotion
<1>1. LoopInvariant /\ [Next]_vars
        => [pending = NoCommand /\ latched' # {} => pending'.drive = {}]_vars
  <2> SUFFICES ASSUME LoopInvariant, Next, pending = NoCommand, latched' # {}
               PROVE  pending'.drive = {}
    OBVIOUS
  <2>1. ASSUME NEW x \in Inputs, NavStep(x) PROVE pending'.drive = {}
    <3>1. x \in AllInputs /\ latched \cup NewLatches(x) # {}
      BY <2>1, LoopAssumption DEF NavStep, Assess
    <3>2. StopDemanded(AssessmentOf(x))
      BY <3>1, LatchDemandsStop
    <3> QED BY <2>1, <3>2 DEF NavStep, NoCommand
  <2>2. CASE Step
    BY <2>1, <2>2 DEF Step
  <2>3. CASE Submission
    BY <2>3 DEF Submission, Submit, NoCommand
  <2>4. CASE Advance
    BY <2>4 DEF Advance, NoCommand
  <2>5. CASE Operator
    BY <2>5 DEF Operator, NoCommand
  <2> QED BY <2>2, <2>3, <2>4, <2>5 DEF Next
<1> QED BY <1>1, LoopInductive, PTL DEF Spec, LatchForbidsMotion
=============================================================================
