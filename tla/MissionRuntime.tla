-------------------------- MODULE MissionRuntime --------------------------
(***************************************************************************)
(* One mission as its driver steps it (src/conrad/orchestration/mission.py *)
(* and services.py): the modules run under the ModuleRunner, which turns   *)
(* an exception into a failed module; the supervisor judges the registry   *)
(* at the end of every tick. What is called outside the runner, the        *)
(* database above all, ends the loop when it raises.                       *)
(*                                                                         *)
(* After START a tick is the sequence of stages PERCEIVE, DECIDE, CONTROL, *)
(* COMMS and SUPERVISE; between two ticks time passes, and a human may     *)
(* call the supervisor.                                                    *)
(***************************************************************************)
EXTENDS RuntimeSupervisor

CONSTANTS
  navigation, egdc, mcbr, baac,  \* the modules the tick calls by name
  Observers,                     \* the modules that are called when there is something to observe
  DecisionPeriod,                \* ticks between two decisions
  CommsPeriod                    \* ticks between two communication steps

ASSUME MissionAssumption ==
  /\ Modules = {navigation, egdc, mcbr, baac} \cup Observers
  /\ Critical = {navigation}
  /\ {DecisionPeriod, CommsPeriod} \subseteq Nat \ {0}
  /\ \A m \in {egdc, mcbr} : Freshness[m] >= DecisionPeriod
  /\ Freshness[baac] >= CommsPeriod

VARIABLES
  failed,         \* ModuleRunner.failed
  sinceDecision,  \* ticks since the last decision cycle
  sinceComms,     \* ticks since the last communication step; the first one is due at once
  stage           \* where in its tick the mission is, "RAISED" once an exception has left it

timers == <<sinceDecision, sinceComms>>
missionVars == <<runtimeVars, failed, timers, stage>>

MissionTypeOK ==
  /\ RuntimeTypeOK
  /\ failed \subseteq Modules
  /\ sinceDecision \in 0 .. DecisionPeriod
  /\ sinceComms \in 0 .. CommsPeriod
  /\ stage \in {"START", "PERCEIVE", "DECIDE", "CONTROL", "COMMS", "SUPERVISE", "ADVANCE", "RAISED", "FINISHED"}

MissionInit ==
  /\ RuntimeInit
  /\ failed = {}
  /\ sinceDecision = 0
  /\ sinceComms = CommsPeriod
  /\ stage = "START"

-----------------------------------------------------------------------------
\* The driver of the mission calls start, whose self-test may fail and then ends it.
Prepare ==
  /\ stage = "START"
  /\ BeginSelfTest \/ EndSelfTest \/ BeginConnect \/ EndConnect \/ (state = "READY" /\ MarkReady)
  /\ stage' = IF state' = "FAILED" THEN "RAISED" ELSE "START"
  /\ UNCHANGED <<healthVars, failed, timers>>

\* Every registered module counts as heard, built or not; the first beliefs are then offered to BAAC,
\* which may crash on them.
Launch ==
  /\ stage = "START" /\ ready = HardwareComponents
  /\ \E hardware \in BOOLEAN : Start(hardware)
  /\ failed' \in SUBSET {baac}
  /\ reported' = [m \in Modules |-> IF m \in failed' THEN "UNAVAILABLE" ELSE "AVAILABLE"]
  /\ silentFor' = [m \in Modules |-> 0]
  /\ stage' = "PERCEIVE"
  /\ UNCHANGED timers

-----------------------------------------------------------------------------
\* Mutant: a failed module that is called again is heard again.
CallForgiving(called, crashing) ==
  /\ failed' = failed \cup (crashing \cap called)
  /\ reported' = [m \in Modules |-> IF m \notin called THEN reported[m]
                                   ELSE IF m \in crashing THEN "UNAVAILABLE" ELSE "AVAILABLE"]
  /\ silentFor' = [m \in Modules |-> IF m \in called \ crashing THEN 0 ELSE silentFor[m]]

(***************************************************************************)
(* ModuleRunner.call of each module of called: a failed one is not run, an *)
(* exception fails it for good, anything else is a heartbeat.              *)
(***************************************************************************)
Call(called, crashing) ==
  LET run == called \ failed IN
  /\ failed' = failed \cup (crashing \cap run)
  /\ reported' = [m \in Modules |-> IF m \notin run THEN reported[m]
                                   ELSE IF m \in crashing THEN "UNAVAILABLE" ELSE "AVAILABLE"]
  /\ silentFor' = [m \in Modules |-> IF m \in run \ crashing THEN 0 ELSE silentFor[m]]

\* The payload, the domain models, navigation for a position fix and BAAC for what is published;
\* storing the observations may raise.
Perceive ==
  /\ stage = "PERCEIVE"
  /\ \E called \in SUBSET (Observers \cup {navigation, baac}) :
       \E crashing \in SUBSET called : Call(called, crashing)
  /\ stage' \in {"RAISED", IF state \in Active /\ sinceDecision >= DecisionPeriod
                            THEN "DECIDE" ELSE "CONTROL"}
  /\ UNCHANGED <<lifecycleVars, timers>>

\* Mutant: a planner with nothing to do is not heard.
DecideSilentPlanner ==
  /\ stage = "DECIDE"
  /\ \E context \in SUBSET Observers :
       \E crashing \in SUBSET ({egdc} \cup context) : Call({egdc} \cup context, crashing)
  /\ state' \in {state, "SAFE_HOLD"}
  /\ sinceDecision' = 0
  /\ stage' \in {"CONTROL", "RAISED"}
  /\ UNCHANGED <<ready, sinceComms>>

(***************************************************************************)
(* The decision cycle: the ecological context for the other models, EGDC,  *)
(* the planner (heard even when idle), the decision or the operator asking *)
(* for a hold. The provenance and the commands are then flushed to the     *)
(* database outside the runner.                                            *)
(***************************************************************************)
Decide ==
  /\ stage = "DECIDE"
  /\ \E context \in SUBSET Observers :
       \E crashing \in SUBSET ({egdc, mcbr} \cup context) : Call({egdc, mcbr} \cup context, crashing)
  /\ state' \in {state, "SAFE_HOLD"}
  /\ sinceDecision' = 0
  /\ stage' \in {"CONTROL", "RAISED"}
  /\ UNCHANGED <<ready, sinceComms>>

Control ==
  /\ stage = "CONTROL"
  /\ \E crashing \in SUBSET {navigation} : Call({navigation}, crashing)
  /\ stage' = "COMMS"
  /\ UNCHANGED <<lifecycleVars, timers>>

\* Mutant: a link with nothing to send is not heard.
CommsSilentLink ==
  /\ stage = "COMMS"
  /\ IF sinceComms >= CommsPeriod
       THEN /\ \E called \in SUBSET {baac} : \E crashing \in SUBSET called : Call(called, crashing)
            /\ sinceComms' = 0
       ELSE UNCHANGED <<healthVars, failed, sinceComms>>
  /\ stage' = "SUPERVISE"
  /\ UNCHANGED <<lifecycleVars, sinceDecision>>

\* The communication steps when its period has come, in a hold too.
Comms ==
  /\ stage = "COMMS"
  /\ IF sinceComms >= CommsPeriod
       THEN /\ \E crashing \in SUBSET {baac} : Call({baac}, crashing)
            /\ sinceComms' = 0
       ELSE UNCHANGED <<healthVars, failed, sinceComms>>
  /\ stage' = "SUPERVISE"
  /\ UNCHANGED <<lifecycleVars, sinceDecision>>

\* Mutant: the supervisor judges a held mission too.
SuperviseAlways ==
  /\ stage = "SUPERVISE"
  /\ state' = IF CriticalFailures # {} THEN "SAFE_HOLD"
              ELSE IF Degraded # {} THEN "DEGRADED" ELSE "RUNNING"
  /\ stage' = "ADVANCE"
  /\ UNCHANGED <<ready, healthVars, failed, timers>>

Supervise ==
  /\ stage = "SUPERVISE"
  /\ IF state \in Active THEN Tick ELSE UNCHANGED lifecycleVars
  /\ stage' = "ADVANCE"
  /\ UNCHANGED <<healthVars, failed, timers>>

\* MissionSession.step: the world, and with it the clock, advances by a control period.
Advance ==
  /\ stage = "ADVANCE"
  /\ Silence
  /\ sinceDecision' = IF sinceDecision = DecisionPeriod THEN sinceDecision ELSE sinceDecision + 1
  /\ sinceComms' = sinceComms + 1
  /\ stage' = "PERCEIVE"
  /\ UNCHANGED <<lifecycleVars, reported, failed>>

\* A human between two ticks.
Human ==
  /\ stage = "PERCEIVE"
  /\ Operator
  /\ UNCHANGED <<healthVars, failed, timers, stage>>

\* MissionRuntime.finish, after the last step; a stopped runtime is not stopped again.
Finish ==
  /\ stage = "PERCEIVE"
  /\ IF state = "STOPPED" THEN UNCHANGED lifecycleVars ELSE Stop
  /\ stage' = "FINISHED"
  /\ UNCHANGED <<healthVars, failed, timers>>

MissionNext ==
  \/ Prepare \/ Launch
  \/ Perceive \/ Decide \/ Control \/ Comms \/ Supervise \/ Advance
  \/ Human \/ Finish

MissionSpec == MissionInit /\ [][MissionNext]_missionVars

-----------------------------------------------------------------------------
\* What the runner knows as failed the registry never shows as anything else, whatever is called
\* or heard later; by the end of the tick in which navigation fails the mission is held, and after
\* a tick it is degraded exactly when some module is: a failure and a recovery are seen in time.
FailureSeenInTick ==
  /\ \A m \in failed : Availability(m) = "UNAVAILABLE"
  /\ stage = "ADVANCE" =>
       /\ navigation \in failed => state \notin Active
       /\ state = "RUNNING" => Degraded = {}
       /\ state = "DEGRADED" => Degraded # {}

\* A mission whose modules all work is never degraded by its own schedule: after a tick what the
\* tick calls by name is inside its freshness window, although the decision unit, the planner and
\* the communication are called once in their periods only, in a hold nothing asked the first two,
\* and the hold may just have been resumed.
ScheduleKeepsFresh ==
  stage = "ADVANCE" /\ state \in Active =>
    \A m \in {navigation, egdc, mcbr, baac} \ failed : Availability(m) = "AVAILABLE"

\* A held mission is released by a human or the end of the mission, by nothing its own loop does.
HoldNeedsHuman == [][state = "SAFE_HOLD" /\ state' # "SAFE_HOLD" => Human \/ Finish]_missionVars

\* SS-06: a failure of the database reaches SAFE_HOLD.
DatabaseFailureHolds == stage = "RAISED" => state \notin Active
=============================================================================
