------------------------ MODULE MissionRuntimeProofs ------------------------
(***************************************************************************)
(* Proofs about the mission loop: for every set of modules, every decision *)
(* and communication period, and all freshness windows that are no shorter *)
(* than the first for the decision unit and the planner, and no shorter    *)
(* than the second for BAAC.                                               *)
(***************************************************************************)
EXTENDS MissionRuntime, TLAPS

Preparing == {"BOOT", "SELF_TEST", "CONFIGURED", "CONNECTING", "READY"}

\* The stages of a tick in which a module called in an earlier one has been heard.
AfterDecide == {"CONTROL", "COMMS", "SUPERVISE", "ADVANCE"}
AfterControl == {"COMMS", "SUPERVISE", "ADVANCE"}
AfterComms == {"SUPERVISE", "ADVANCE"}
InMission == {"PERCEIVE", "DECIDE"} \cup AfterDecide

\* Nothing has failed and nothing is held before the mission runs.
StartIsClean == stage = "START" => failed = {} /\ state \in Preparing

\* What has not failed has been heard.
WorkingIsHeard ==
  stage \in InMission => \A m \in Modules \ failed : reported[m] = "AVAILABLE" /\ silentFor[m] \in Nat

\* An active mission decides as soon as it is due, and each decision hears EGDC and the planner.
DecidedInTime ==
  /\ stage \in AfterDecide /\ state \in Active => sinceDecision < DecisionPeriod
  /\ stage \in InMission /\ sinceDecision < DecisionPeriod =>
       \A m \in {egdc, mcbr} \ failed : silentFor[m] <= sinceDecision

\* The communication steps as soon as it is due, held or not, and each step hears BAAC.
CommunicatedInTime ==
  /\ stage \in AfterComms => sinceComms < CommsPeriod
  /\ stage \in InMission => baac \in failed \/ silentFor[baac] <= sinceComms

CalledInTick == stage \in AfterControl => navigation \in failed \/ silentFor[navigation] = 0

MissionInvariant ==
  /\ MissionTypeOK
  /\ StartIsClean
  /\ FailureSeenInTick
  /\ WorkingIsHeard
  /\ DecidedInTime
  /\ CommunicatedInTime
  /\ CalledInTick
-----------------------------------------------------------------------------
(***************************************************************************)
(* What a module call changes, whoever is called and whoever crashes.      *)
(***************************************************************************)
LEMMA CallFacts ==
  ASSUME NEW called \in SUBSET Modules, NEW crashing \in SUBSET called, Call(called, crashing),
         MissionTypeOK
  PROVE  /\ failed' \subseteq Modules /\ failed \subseteq failed'
         /\ reported' \in [Modules -> {"AVAILABLE", "DEGRADED", "UNAVAILABLE"}]
         /\ \A m \in Modules : silentFor'[m] \in Never .. Freshness[m] + 1
         /\ \A m \in failed : reported'[m] = reported[m]
         /\ \A m \in failed' \ failed : reported'[m] = "UNAVAILABLE"
         /\ \A m \in called \ failed' : reported'[m] = "AVAILABLE" /\ silentFor'[m] = 0
         /\ \A m \in Modules \ (called \cup failed') :
              reported'[m] = reported[m] /\ silentFor'[m] = silentFor[m]
BY RuntimeAssumption DEF Call, MissionTypeOK, RuntimeTypeOK, Never

LEMMA CallKeepsHealth ==
  ASSUME NEW called \in SUBSET Modules, NEW crashing \in SUBSET called, Call(called, crashing),
         MissionInvariant
  PROVE  /\ \A m \in failed' : Availability(m)' = "UNAVAILABLE"
         /\ stage \in InMission =>
              \A m \in Modules \ failed' : reported'[m] = "AVAILABLE" /\ silentFor'[m] \in Nat
         /\ \A m \in Modules \ failed' : silentFor'[m] = 0 \/ silentFor'[m] = silentFor[m]
<1>1. \A m \in failed : reported[m] = "UNAVAILABLE"
  BY DEF MissionInvariant, FailureSeenInTick, Availability
<1>2. MissionTypeOK /\ WorkingIsHeard
  BY DEF MissionInvariant
<1>3. \A m \in failed' : reported'[m] = "UNAVAILABLE"
  BY <1>1, <1>2, CallFacts
<1>4. ASSUME NEW m \in Modules \ failed'
      PROVE  /\ silentFor'[m] = 0 \/ silentFor'[m] = silentFor[m]
             /\ stage \in InMission => reported'[m] = "AVAILABLE" /\ silentFor'[m] \in Nat
  <2>1. CASE m \in called
    <3>1. \A n \in called \ failed' : reported'[n] = "AVAILABLE" /\ silentFor'[n] = 0
      BY <1>2, CallFacts
    <3> QED BY <2>1, <3>1, <1>4
  <2>2. CASE m \notin called
    BY <2>2, <1>2, <1>4, CallFacts DEF WorkingIsHeard
  <2> QED BY <2>1, <2>2
<1> QED BY <1>3, <1>4 DEF Availability

LEMMA NamedAreModules == {navigation, egdc, mcbr, baac} \cup Observers \subseteq Modules
BY MissionAssumption

(***************************************************************************)
(* The invariant holds at first and every step keeps it.                   *)
(***************************************************************************)
LEMMA MissionInvariantInit == MissionInit => MissionInvariant
BY RuntimeAssumption, MissionAssumption
   DEF MissionInit, RuntimeInit, MissionInvariant, MissionTypeOK, RuntimeTypeOK, StartIsClean,
       FailureSeenInTick, WorkingIsHeard, DecidedInTime, CommunicatedInTime, CalledInTick, Preparing,
       InMission, AfterDecide, AfterControl, AfterComms, RuntimeStates, Never

LEMMA PrepareKeeps ==
  ASSUME MissionInvariant, Prepare PROVE MissionInvariant'
<1> USE DEF MissionInvariant
<1>1. stage = "START" /\ failed' = failed /\ failed = {} /\ UNCHANGED <<healthVars, timers>>
  BY DEF Prepare, StartIsClean
<1>2. state \in Preparing /\ stage' \in {"START", "RAISED"}
  BY DEF Prepare, StartIsClean
<1>3. state' \in Preparing \cup {"FAILED"} /\ ready' \subseteq HardwareComponents
  BY <1>2 DEF Prepare, BeginSelfTest, EndSelfTest, BeginConnect, EndConnect, MarkReady, Go, Allowed,
              Preparing, MissionTypeOK, RuntimeTypeOK
<1>4. stage' = "START" => state' # "FAILED"
  BY DEF Prepare
<1>5. MissionTypeOK'
  BY <1>1, <1>2, <1>3 DEF MissionTypeOK, RuntimeTypeOK, Preparing, RuntimeStates, healthVars, timers
<1>6. StartIsClean'
  BY <1>1, <1>3, <1>4 DEF StartIsClean
<1>7. (FailureSeenInTick /\ WorkingIsHeard /\ DecidedInTime /\ CommunicatedInTime /\ CalledInTick)'
  BY <1>1, <1>2 DEF FailureSeenInTick, WorkingIsHeard, DecidedInTime, CommunicatedInTime, CalledInTick,
                   InMission, AfterDecide, AfterControl, AfterComms
<1> QED BY <1>5, <1>6, <1>7

LEMMA LaunchKeeps ==
  ASSUME MissionInvariant, Launch PROVE MissionInvariant'
<1> USE DEF MissionInvariant
<1>1. /\ failed' \subseteq {baac} /\ UNCHANGED timers /\ stage' = "PERCEIVE"
      /\ state' = "RUNNING" /\ ready' = ready
      /\ reported' = [m \in Modules |-> IF m \in failed' THEN "UNAVAILABLE" ELSE "AVAILABLE"]
      /\ silentFor' = [m \in Modules |-> 0]
  BY DEF Launch, Start, Go
<1>2. {egdc, mcbr, baac} \subseteq Modules
  BY NamedAreModules
<1>3. sinceDecision \in Nat /\ sinceComms \in Nat
  BY MissionAssumption DEF MissionTypeOK
<1>4. MissionTypeOK'
  BY <1>1, <1>2, RuntimeAssumption DEF MissionTypeOK, RuntimeTypeOK, RuntimeStates, Active, Never, timers
<1>5. (StartIsClean /\ WorkingIsHeard /\ CalledInTick)'
  BY <1>1 DEF StartIsClean, WorkingIsHeard, CalledInTick, AfterControl
<1>6. FailureSeenInTick'
  BY <1>1, <1>2 DEF FailureSeenInTick, Availability
<1>7. (DecidedInTime /\ CommunicatedInTime)'
  BY <1>1, <1>2, <1>3 DEF DecidedInTime, CommunicatedInTime, AfterDecide, AfterComms, timers
<1> QED BY <1>4, <1>5, <1>6, <1>7

\* Whoever is called and whoever crashes: BAAC is silent no longer than it was.
LEMMA CallKeepsComms ==
  ASSUME NEW called \in SUBSET Modules, NEW crashing \in SUBSET called, Call(called, crashing),
         MissionInvariant, stage \in InMission, UNCHANGED sinceComms
  PROVE  baac \in failed' \/ silentFor'[baac] <= sinceComms'
<1>1. baac \in Modules
  BY NamedAreModules
<1>2. MissionTypeOK /\ sinceComms \in Nat
  BY MissionAssumption DEF MissionInvariant, MissionTypeOK
<1>3. baac \in failed \/ silentFor[baac] <= sinceComms
  BY DEF MissionInvariant, CommunicatedInTime
<1>4. failed \subseteq failed'
  BY <1>2, CallFacts
<1>5. baac \in failed' \/ silentFor'[baac] = 0 \/ silentFor'[baac] = silentFor[baac]
  BY <1>1, CallKeepsHealth
<1> QED BY <1>2, <1>3, <1>4, <1>5

LEMMA PerceiveKeeps ==
  ASSUME MissionInvariant, Perceive PROVE MissionInvariant'
<1> USE DEF MissionInvariant
<1> PICK called \in SUBSET (Observers \cup {navigation, baac}) :
      \E crashing \in SUBSET called : Call(called, crashing)
  BY DEF Perceive
<1>1. PICK crashing \in SUBSET called : Call(called, crashing)
  OBVIOUS
<1>2. called \in SUBSET Modules
  BY NamedAreModules
<1>3. /\ stage = "PERCEIVE"
      /\ stage' \in {"RAISED", "DECIDE", "CONTROL"}
      /\ stage' = "CONTROL" => ~(state \in Active /\ sinceDecision >= DecisionPeriod)
      /\ UNCHANGED <<lifecycleVars, timers>>
  BY DEF Perceive
<1>4. MissionTypeOK'
  BY <1>1, <1>2, <1>3, CallFacts DEF MissionTypeOK, RuntimeTypeOK, lifecycleVars, timers
<1>5. (StartIsClean /\ FailureSeenInTick /\ WorkingIsHeard /\ CalledInTick)'
  BY <1>1, <1>2, <1>3, CallKeepsHealth
     DEF StartIsClean, FailureSeenInTick, WorkingIsHeard, CalledInTick, AfterControl,
         InMission, AfterDecide
<1>6. DecidedInTime'
  <2>1. sinceDecision \in Nat /\ DecisionPeriod \in Nat
    BY MissionAssumption DEF MissionTypeOK
  <2>2. ASSUME sinceDecision < DecisionPeriod, NEW m \in {egdc, mcbr} \ failed'
        PROVE  silentFor'[m] <= sinceDecision
    <3>1. m \in Modules \ failed' /\ m \in {egdc, mcbr} \ failed
      BY <1>1, <1>2, <2>2, NamedAreModules, CallFacts
    <3>2. silentFor[m] <= sinceDecision
      BY <1>3, <2>2, <3>1 DEF DecidedInTime, InMission
    <3> QED BY <1>1, <1>2, <2>1, <3>1, <3>2, CallKeepsHealth
  <2> QED BY <1>3, <2>1, <2>2 DEF DecidedInTime, AfterDecide, lifecycleVars, timers
<1>7. CommunicatedInTime'
  BY <1>1, <1>2, <1>3, CallKeepsComms DEF CommunicatedInTime, InMission, AfterComms, timers
<1> QED BY <1>4, <1>5, <1>6, <1>7

LEMMA DecideKeeps ==
  ASSUME MissionInvariant, Decide PROVE MissionInvariant'
<1> USE DEF MissionInvariant
<1> PICK context \in SUBSET Observers :
      \E crashing \in SUBSET ({egdc, mcbr} \cup context) : Call({egdc, mcbr} \cup context, crashing)
  BY DEF Decide
<1> DEFINE called == {egdc, mcbr} \cup context
<1>1. PICK crashing \in SUBSET called : Call(called, crashing)
  OBVIOUS
<1>2. called \in SUBSET Modules /\ {egdc, mcbr} \subseteq called
  BY NamedAreModules
<1> HIDE DEF called
<1>3. /\ stage = "DECIDE" /\ stage' \in {"CONTROL", "RAISED"}
      /\ state' \in {state, "SAFE_HOLD"} /\ sinceDecision' = 0 /\ ready' = ready
      /\ UNCHANGED sinceComms
  BY DEF Decide
<1>4. MissionTypeOK'
  <2>1. /\ failed' \subseteq Modules
        /\ reported' \in [Modules -> {"AVAILABLE", "DEGRADED", "UNAVAILABLE"}]
        /\ \A m \in Modules : silentFor'[m] \in Never .. Freshness[m] + 1
    BY <1>1, <1>2, CallFacts
  <2>2. state' \in RuntimeStates /\ sinceDecision' \in 0 .. DecisionPeriod
    BY <1>3, MissionAssumption DEF MissionTypeOK, RuntimeTypeOK, RuntimeStates
  <2> QED BY <1>3, <2>1, <2>2 DEF MissionTypeOK, RuntimeTypeOK
<1>5. (StartIsClean /\ FailureSeenInTick /\ WorkingIsHeard /\ CalledInTick)'
  BY <1>1, <1>2, <1>3, CallKeepsHealth
     DEF StartIsClean, FailureSeenInTick, WorkingIsHeard, CalledInTick, AfterControl,
         InMission, AfterDecide
<1>6. DecidedInTime'
  <2>1. \A m \in {egdc, mcbr} \ failed' : silentFor'[m] = 0
    BY <1>1, <1>2, CallFacts
  <2> QED BY <1>3, <2>1, MissionAssumption DEF DecidedInTime
<1>7. CommunicatedInTime'
  BY <1>1, <1>2, <1>3, CallKeepsComms DEF CommunicatedInTime, InMission, AfterDecide, AfterComms
<1> QED BY <1>4, <1>5, <1>6, <1>7

(***************************************************************************)
(* A call by name in a later stage: what was heard stays heard.            *)
(***************************************************************************)
LEMMA NamedCallKeeps ==
  ASSUME MissionInvariant, NEW m \in {navigation, baac}, NEW crashing \in SUBSET {m},
         Call({m}, crashing), stage \in AfterDecide, stage' \in AfterControl,
         UNCHANGED <<lifecycleVars, sinceDecision>>, sinceComms' \in 0 .. CommsPeriod
  PROVE  /\ (MissionTypeOK /\ StartIsClean /\ WorkingIsHeard /\ DecidedInTime)'
         /\ \A n \in failed' : Availability(n)' = "UNAVAILABLE"
         /\ m \in failed' \/ silentFor'[m] = 0
         /\ \A n \in Modules : n \in failed \/ silentFor[n] = 0 => n \in failed' \/ silentFor'[n] = 0
<1> USE DEF MissionInvariant
<1>1. {m} \in SUBSET Modules
  BY NamedAreModules
<1>2. MissionTypeOK'
  BY <1>1, CallFacts DEF MissionTypeOK, RuntimeTypeOK, lifecycleVars, AfterControl
<1>3. /\ (StartIsClean /\ WorkingIsHeard)'
      /\ \A n \in failed' : Availability(n)' = "UNAVAILABLE"
  BY <1>1, CallKeepsHealth DEF StartIsClean, WorkingIsHeard, InMission, AfterControl, AfterDecide
<1>4. \A n \in Modules : n \in failed \/ silentFor[n] = 0 => n \in failed' \/ silentFor'[n] = 0
  BY <1>1, CallKeepsHealth, CallFacts
<1>5. m \in failed' \/ silentFor'[m] = 0
  BY <1>1, CallFacts
<1>6. DecidedInTime'
  <2>1. sinceDecision \in Nat /\ DecisionPeriod \in Nat
    BY MissionAssumption DEF MissionTypeOK
  <2>2. ASSUME sinceDecision < DecisionPeriod, NEW n \in {egdc, mcbr} \ failed'
        PROVE  silentFor'[n] <= sinceDecision
    <3>1. n \in Modules \ failed' /\ n \in {egdc, mcbr} \ failed
      BY <1>1, <2>2, NamedAreModules, CallFacts
    <3>2. silentFor[n] <= sinceDecision
      BY <2>2, <3>1 DEF DecidedInTime, InMission
    <3> QED BY <1>1, <2>1, <3>1, <3>2, CallKeepsHealth
  <2> QED BY <2>1, <2>2 DEF DecidedInTime, AfterDecide, lifecycleVars
<1> QED BY <1>2, <1>3, <1>4, <1>5, <1>6

LEMMA ControlKeeps ==
  ASSUME MissionInvariant, Control PROVE MissionInvariant'
<1>1. PICK crashing \in SUBSET {navigation} : Call({navigation}, crashing)
  BY DEF Control
<1>2. stage = "CONTROL" /\ stage' = "COMMS" /\ UNCHANGED <<lifecycleVars, timers>>
  BY DEF Control
<1>3. sinceComms' \in 0 .. CommsPeriod
  BY <1>2 DEF MissionInvariant, MissionTypeOK, timers
<1>4. /\ (MissionTypeOK /\ StartIsClean /\ WorkingIsHeard /\ DecidedInTime)'
      /\ \A n \in failed' : Availability(n)' = "UNAVAILABLE"
      /\ navigation \in failed' \/ silentFor'[navigation] = 0
  BY <1>1, <1>2, <1>3, NamedCallKeeps DEF AfterDecide, AfterControl, timers
<1>5. CommunicatedInTime'
  <2>1. {navigation} \in SUBSET Modules /\ stage \in InMission /\ UNCHANGED sinceComms
    BY <1>2, NamedAreModules DEF InMission, AfterDecide, timers
  <2> QED BY <1>1, <1>2, <2>1, CallKeepsComms DEF CommunicatedInTime, AfterComms
<1> QED BY <1>2, <1>4, <1>5 DEF MissionInvariant, FailureSeenInTick, CalledInTick

LEMMA CommsKeeps ==
  ASSUME MissionInvariant, Comms PROVE MissionInvariant'
<1>1. stage = "COMMS" /\ stage' = "SUPERVISE" /\ UNCHANGED <<lifecycleVars, sinceDecision>>
  BY DEF Comms
<1>2. sinceComms \in 0 .. CommsPeriod /\ CommsPeriod \in Nat \ {0}
  BY MissionAssumption DEF MissionInvariant, MissionTypeOK
<1>3. navigation \in failed \/ silentFor[navigation] = 0
  BY <1>1 DEF MissionInvariant, CalledInTick, AfterControl
<1>4. CASE sinceComms >= CommsPeriod
  <2>1. PICK crashing \in SUBSET {baac} : Call({baac}, crashing)
    BY <1>4 DEF Comms
  <2>2. sinceComms' = 0 /\ sinceComms' \in 0 .. CommsPeriod
    BY <1>2, <1>4 DEF Comms
  <2>3. /\ (MissionTypeOK /\ StartIsClean /\ WorkingIsHeard /\ DecidedInTime)'
        /\ \A n \in failed' : Availability(n)' = "UNAVAILABLE"
        /\ baac \in failed' \/ silentFor'[baac] = 0
        /\ \A n \in Modules : n \in failed \/ silentFor[n] = 0 => n \in failed' \/ silentFor'[n] = 0
    BY <1>1, <2>1, <2>2, NamedCallKeeps DEF AfterDecide, AfterControl
  <2>4. CommunicatedInTime'
    BY <1>2, <2>2, <2>3 DEF CommunicatedInTime
  <2> QED
    BY <1>1, <1>3, <2>3, <2>4, NamedAreModules DEF MissionInvariant, FailureSeenInTick, CalledInTick
<1>5. CASE ~(sinceComms >= CommsPeriod)
  <2>1. UNCHANGED <<healthVars, failed, sinceComms>>
    BY <1>5 DEF Comms
  <2>2. \A n \in failed' : Availability(n)' = "UNAVAILABLE"
    BY <2>1 DEF MissionInvariant, FailureSeenInTick, Availability, healthVars
  <2>3. CommunicatedInTime'
    BY <1>1, <1>2, <1>5, <2>1
       DEF MissionInvariant, CommunicatedInTime, InMission, AfterDecide, AfterComms, healthVars
  <2> QED
    BY <1>1, <2>1, <2>2, <2>3
       DEF MissionInvariant, MissionTypeOK, RuntimeTypeOK, StartIsClean, FailureSeenInTick, WorkingIsHeard,
           DecidedInTime, CalledInTick, InMission, AfterDecide, AfterControl, lifecycleVars, healthVars
<1> QED BY <1>4, <1>5

LEMMA SuperviseKeeps ==
  ASSUME MissionInvariant, Supervise PROVE MissionInvariant'
<1> USE DEF MissionInvariant
<1>1. /\ stage = "SUPERVISE" /\ stage' = "ADVANCE" /\ UNCHANGED <<healthVars, failed, timers>>
      /\ ready' = ready
      /\ state' = IF state \in Active
                    THEN IF CriticalFailures # {} THEN "SAFE_HOLD"
                         ELSE IF Degraded # {} THEN "DEGRADED" ELSE "RUNNING"
                    ELSE state
  BY DEF Supervise, Tick, lifecycleVars
<1>2. state' \in RuntimeStates /\ (state' \in Active => state \in Active)
  BY <1>1 DEF MissionTypeOK, RuntimeTypeOK, RuntimeStates, Active
<1>3. (MissionTypeOK /\ StartIsClean /\ WorkingIsHeard /\ DecidedInTime /\ CommunicatedInTime /\ CalledInTick)'
  BY <1>1, <1>2 DEF MissionTypeOK, RuntimeTypeOK, StartIsClean, WorkingIsHeard, DecidedInTime,
                   CommunicatedInTime, CalledInTick, InMission, AfterDecide, AfterControl, AfterComms,
                   healthVars, timers
<1>4. FailureSeenInTick'
  <2>1. \A m \in Modules : Availability(m)' = Availability(m)
    BY <1>1 DEF Availability, healthVars
  <2>2. Degraded' = Degraded
    BY <2>1 DEF Degraded
  <2>3. \A m \in failed' : Availability(m)' = "UNAVAILABLE"
    BY <1>1, <2>1 DEF FailureSeenInTick, MissionTypeOK
  <2>4. navigation \in failed' => state' \notin Active
    <3>1. navigation \in failed => navigation \in CriticalFailures
      BY MissionAssumption DEF FailureSeenInTick, CriticalFailures
    <3> QED BY <1>1, <3>1 DEF Active
  <2>5. (state' = "RUNNING" => Degraded = {}) /\ (state' = "DEGRADED" => Degraded # {})
    BY <1>1 DEF Active
  <2> QED BY <2>2, <2>3, <2>4, <2>5 DEF FailureSeenInTick
<1> QED BY <1>3, <1>4

LEMMA AdvanceKeeps ==
  ASSUME MissionInvariant, Advance PROVE MissionInvariant'
<1> USE DEF MissionInvariant
<1>1. /\ stage = "ADVANCE" /\ stage' = "PERCEIVE"
      /\ silentFor' = [m \in Modules |-> Older(m)]
      /\ sinceDecision' = IF sinceDecision = DecisionPeriod THEN sinceDecision ELSE sinceDecision + 1
      /\ sinceComms' = sinceComms + 1
      /\ UNCHANGED <<lifecycleVars, reported, failed>>
  BY DEF Advance, Silence
<1>2. sinceDecision \in 0 .. DecisionPeriod /\ DecisionPeriod \in Nat
  BY MissionAssumption DEF MissionTypeOK
<1>3. sinceComms \in Nat /\ CommsPeriod \in Nat /\ sinceComms < CommsPeriod
  BY <1>1, MissionAssumption DEF MissionTypeOK, CommunicatedInTime, AfterComms
<1>4. ASSUME NEW m \in Modules
      PROVE  /\ Older(m) \in Never .. Freshness[m] + 1
             /\ silentFor[m] \in Nat => Older(m) \in Nat /\ Older(m) <= silentFor[m] + 1
  BY RuntimeAssumption DEF Older, Never, MissionTypeOK, RuntimeTypeOK
<1>5. MissionTypeOK'
  BY <1>3, <1>1, <1>2, <1>4 DEF MissionTypeOK, RuntimeTypeOK, lifecycleVars
<1>6. \A m \in failed' : Availability(m)' = "UNAVAILABLE"
  BY <1>1 DEF FailureSeenInTick, Availability
<1>7. (StartIsClean /\ FailureSeenInTick /\ WorkingIsHeard /\ CalledInTick)'
  BY <1>1, <1>4, <1>6 DEF StartIsClean, FailureSeenInTick, WorkingIsHeard, CalledInTick, InMission,
                         AfterDecide, AfterControl
<1>8. DecidedInTime'
  <2>1. ASSUME sinceDecision' < DecisionPeriod, NEW m \in {egdc, mcbr} \ failed
        PROVE  silentFor'[m] <= sinceDecision'
    <3>1. m \in Modules /\ silentFor[m] \in Nat
      BY <1>1, <2>1, NamedAreModules DEF WorkingIsHeard, InMission, AfterDecide
    <3>2. sinceDecision < DecisionPeriod /\ sinceDecision' = sinceDecision + 1
      BY <1>1, <1>2, <2>1
    <3>3. silentFor[m] <= sinceDecision
      BY <1>1, <2>1, <3>2 DEF DecidedInTime, InMission, AfterDecide
    <3> QED BY <1>1, <1>2, <1>4, <3>1, <3>2, <3>3
  <2> QED BY <1>1, <2>1 DEF DecidedInTime, AfterDecide
<1>9. CommunicatedInTime'
  <2>1. ASSUME baac \notin failed PROVE silentFor'[baac] <= sinceComms'
    <3>1. baac \in Modules /\ silentFor[baac] \in Nat
      BY <1>1, <2>1, NamedAreModules DEF WorkingIsHeard, InMission, AfterDecide
    <3>2. silentFor[baac] <= sinceComms
      BY <1>1, <2>1 DEF CommunicatedInTime, InMission, AfterDecide
    <3> QED BY <1>3, <1>1, <1>4, <3>1, <3>2
  <2> QED BY <1>1, <2>1 DEF CommunicatedInTime, AfterComms
<1> QED BY <1>5, <1>7, <1>8, <1>9

\* What happens between two ticks touches no module.
LEMMA BetweenTicksKeeps ==
  ASSUME MissionInvariant, stage = "PERCEIVE", stage' \in {"PERCEIVE", "FINISHED"},
         state' \in RuntimeStates, ready' = ready, UNCHANGED <<healthVars, failed, timers>>
  PROVE  MissionInvariant'
<1>1. \A m \in failed : Availability(m)' = Availability(m)
  BY DEF Availability, healthVars
<1> QED
  BY <1>1 DEF MissionInvariant, MissionTypeOK, RuntimeTypeOK, StartIsClean, FailureSeenInTick,
              WorkingIsHeard, DecidedInTime, CommunicatedInTime, CalledInTick, InMission, AfterDecide,
              AfterControl, AfterComms, healthVars, timers

LEMMA MissionStep == MissionInvariant /\ [MissionNext]_missionVars => MissionInvariant'
<1> SUFFICES ASSUME MissionInvariant, [MissionNext]_missionVars PROVE MissionInvariant'
  OBVIOUS
<1>1. CASE Human
  <2>1. state' \in RuntimeStates /\ ready' = ready
    BY <1>1 DEF Human, Operator, EnterSafeHold, Resume, Stop, Go, RuntimeStates, Active,
                MissionInvariant, MissionTypeOK, RuntimeTypeOK
  <2> QED BY <1>1, <2>1, BetweenTicksKeeps DEF Human
<1>2. CASE Finish
  <2>1. state' \in RuntimeStates /\ ready' = ready
    BY <1>2 DEF Finish, Stop, RuntimeStates, lifecycleVars, MissionInvariant, MissionTypeOK, RuntimeTypeOK
  <2> QED BY <1>2, <2>1, BetweenTicksKeeps DEF Finish
<1>3. CASE UNCHANGED missionVars
  <2>1. \A m \in Modules : Availability(m)' = Availability(m)
    BY <1>3 DEF missionVars, runtimeVars, lifecycleVars, healthVars, Availability
  <2>2. Degraded' = Degraded
    BY <2>1 DEF Degraded
  <2> QED
    BY <1>3, <2>1, <2>2
       DEF missionVars, timers, runtimeVars, lifecycleVars, healthVars, MissionInvariant, MissionTypeOK,
           RuntimeTypeOK, StartIsClean, FailureSeenInTick, WorkingIsHeard, DecidedInTime,
           CommunicatedInTime, CalledInTick
<1> QED
  BY <1>1, <1>2, <1>3, PrepareKeeps, LaunchKeeps, PerceiveKeeps, DecideKeeps, ControlKeeps, CommsKeeps,
     SuperviseKeeps, AdvanceKeeps
     DEF MissionNext

\* Every reachable state of the mission loop satisfies the inductive invariant.
THEOREM MissionInductive == MissionSpec => []MissionInvariant
BY MissionInvariantInit, MissionStep, PTL DEF MissionSpec

-----------------------------------------------------------------------------
(***************************************************************************)
(* Whoever crashes, in whatever stage: it is out of service from then on,  *)
(* the mission is held by the end of the tick when it was navigation, and  *)
(* is degraded exactly when some module is not available.                  *)
(***************************************************************************)
THEOREM FailuresAreSeen == MissionSpec => []FailureSeenInTick
BY MissionInductive, PTL DEF MissionInvariant

(***************************************************************************)
(* The schedule of the tick keeps what it calls by name inside its window, *)
(* whatever the decision and communication periods and however long the    *)
(* mission was held.                                                       *)
(***************************************************************************)
THEOREM ScheduleIsFresh == MissionSpec => []ScheduleKeepsFresh
<1>1. MissionInvariant => ScheduleKeepsFresh
  <2> SUFFICES ASSUME MissionInvariant, stage = "ADVANCE", state \in Active,
                      NEW m \in {navigation, egdc, mcbr, baac} \ failed
               PROVE  Availability(m) = "AVAILABLE"
    BY DEF ScheduleKeepsFresh
  <2> USE DEF MissionInvariant
  <2>1. /\ m \in Modules /\ reported[m] = "AVAILABLE" /\ silentFor[m] \in Nat
        /\ Freshness[m] \in Nat
    BY NamedAreModules, RuntimeAssumption DEF WorkingIsHeard, InMission, AfterDecide
  <2>2. silentFor[m] <= Freshness[m]
    <3>1. CASE m = navigation
      BY <2>1, <3>1 DEF CalledInTick, AfterControl
    <3>2. CASE m \in {egdc, mcbr}
      <4>1. sinceDecision < DecisionPeriod /\ silentFor[m] <= sinceDecision
        BY <3>2 DEF DecidedInTime, InMission, AfterDecide
      <4>2. sinceDecision \in Nat /\ DecisionPeriod \in Nat /\ DecisionPeriod <= Freshness[m]
        BY <3>2, MissionAssumption DEF MissionTypeOK
      <4> QED BY <2>1, <4>1, <4>2
    <3>3. CASE m = baac
      <4>1. sinceComms < CommsPeriod /\ silentFor[m] <= sinceComms
        BY <3>3 DEF CommunicatedInTime, InMission, AfterDecide, AfterComms
      <4>2. sinceComms \in Nat /\ CommsPeriod \in Nat /\ CommsPeriod <= Freshness[m]
        BY <3>3, MissionAssumption DEF MissionTypeOK
      <4> QED BY <2>1, <4>1, <4>2
    <3> QED BY <3>1, <3>2, <3>3
  <2> QED BY <2>1, <2>2 DEF Availability, Never
<1> QED BY <1>1, MissionInductive, PTL

(***************************************************************************)
(* Nothing the mission loop does releases a hold.                          *)
(***************************************************************************)
THEOREM HoldIsReleasedByHuman == MissionSpec => HoldNeedsHuman
<1>1. MissionInvariant /\ [MissionNext]_missionVars
        => [state = "SAFE_HOLD" /\ state' # "SAFE_HOLD" => Human \/ Finish]_missionVars
  <2> SUFFICES ASSUME MissionInvariant, MissionNext, state = "SAFE_HOLD", ~(Human \/ Finish)
               PROVE  state' = "SAFE_HOLD"
    OBVIOUS
  <2>1. stage # "START"
    BY DEF MissionInvariant, StartIsClean, Preparing
  <2>2. ~Prepare /\ ~Launch
    BY <2>1 DEF Prepare, Launch
  <2>3. CASE Decide
    BY <2>3 DEF Decide
  <2>4. CASE Supervise
    BY <2>4 DEF Supervise, Active, lifecycleVars
  <2>5. CASE Perceive \/ Control \/ Comms \/ Advance
    BY <2>5 DEF Perceive, Control, Comms, Advance, lifecycleVars
  <2> QED BY <2>2, <2>3, <2>4, <2>5 DEF MissionNext
<1> QED BY <1>1, MissionInductive, PTL DEF MissionSpec, HoldNeedsHuman
=============================================================================
