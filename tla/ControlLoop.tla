---------------------------- MODULE ControlLoop ----------------------------
(***************************************************************************)
(* The execution plane: one pass of NavigationStack.step, the submission   *)
(* by the mission executive, the command gateway and the hardware adapter  *)
(* with its command-timeout watchdog.                                      *)
(*                                                                         *)
(* A command is the set of thrusters it drives together with the safety    *)
(* state of its authorization and the time left to its deadline. Command   *)
(* ids are fresh UUIDs here, so the gateway's duplicate rule never fires;  *)
(* module CommandGateway covers it.                                        *)
(***************************************************************************)
EXTENDS SafetySupervisor, GatewayRules

CONSTANTS
  Inputs,           \* the observations a tick may make
  CommandTimeout,   \* safety.command_timeout_s, in ticks
  LockStep          \* the adapter's clock stands still during a tick

ASSUME LoopAssumption ==
  /\ Inputs \subseteq AllInputs
  /\ CommandTimeout \in Nat \ {0}
  /\ LockStep \in BOOLEAN

VARIABLES
  pending,     \* the authorized command on its way to the gateway
  thrust,      \* the thrusters driven now
  deadlineIn,  \* time left to the watchdog's deadline, NoDeadline if unset
  stopFor      \* history: how long every assessment has demanded a stop

vars == <<supervisorVars, pending, thrust, deadlineIn, stopFor>>

NoDeadline == -1
NotStopping == -1

NoCommand == [drive |-> {}, state |-> "NONE", left |-> 0, stale |-> FALSE, fault |-> FALSE]

Commands ==
  [drive : SUBSET Thrusters, state : SafetyStates, left : 0 .. CommandTimeout,
   stale : BOOLEAN, fault : BOOLEAN]

\* The overall health the adapters report: a failed thruster alone is not FAULT.
HealthFault(x) == x.leak \/ x.hwFault

Init ==
  /\ SupervisorInit
  /\ pending = NoCommand
  /\ thrust = {}
  /\ deadlineIn = NoDeadline
  /\ stopFor = NotStopping

(***************************************************************************)
(* NavigationStack.step: assess, then the explicit zero command or an      *)
(* allocation over the thrusters not reported failed, then authorize. The  *)
(* executive drops a command the supervisor refused.                       *)
(***************************************************************************)
NavStep(x) ==
  LET a == AssessmentOf(x)
      stop == StopDemanded(a)
      Command(drive) == [drive |-> drive, state |-> a.state, left |-> CommandTimeout,
                         stale |-> x.stale \/ x.estimate = "MISSING", fault |-> HealthFault(x)]
  IN /\ Assess(x)
     /\ \E drive \in SUBSET (IF stop THEN {} ELSE Thrusters \ x.reported) :
          pending' = IF Authorize(drive, a) THEN Command(drive) ELSE NoCommand
     /\ stopFor' = IF ~stop THEN NotStopping ELSE IF stopFor = NotStopping THEN 0 ELSE stopFor
     /\ UNCHANGED <<thrust, deadlineIn>>

\* Mutant: a refused command renews the deadline of the one in force.
SubmitRenewsDeadline(stale, fault, accepts) ==
  LET sent == Admits(pending.state, pending.drive, pending.left, stale, fault) /\ accepts
  IN /\ pending # NoCommand
     /\ IF LockStep THEN stale = pending.stale /\ fault = pending.fault ELSE pending.stale => stale
     /\ pending' = NoCommand
     /\ thrust' = IF sent THEN pending.drive ELSE thrust
     /\ deadlineIn' = IF sent \/ deadlineIn # NoDeadline THEN pending.left ELSE deadlineIn
     /\ UNCHANGED <<supervisorVars, stopFor>>

(***************************************************************************)
(* CommandGateway.submit and the adapter's send. The gateway reads the age *)
(* of the estimate and the health again: in lock step it sees what the     *)
(* tick saw, otherwise the estimate may have gone stale and the health may *)
(* have changed. The adapter may refuse what the gateway admitted.         *)
(***************************************************************************)
Submit(stale, fault, accepts) ==
  LET sent == Admits(pending.state, pending.drive, pending.left, stale, fault) /\ accepts
  IN /\ pending # NoCommand
     /\ IF LockStep THEN stale = pending.stale /\ fault = pending.fault
                    ELSE pending.stale => stale
     /\ pending' = NoCommand
     /\ thrust' = IF sent THEN pending.drive ELSE thrust
     /\ deadlineIn' = IF sent THEN pending.left ELSE deadlineIn
     /\ UNCHANGED <<supervisorVars, stopFor>>

\* Mutant: the watchdog forgets the deadline but leaves the thrusters alone.
AdvanceForgetsDeadline ==
  /\ LockStep => pending = NoCommand
  /\ deadlineIn' = IF deadlineIn \in {0, NoDeadline} THEN NoDeadline ELSE deadlineIn - 1
  /\ pending' = IF pending.left > 0 THEN [pending EXCEPT !.left = @ - 1] ELSE pending
  /\ stopFor' = IF stopFor \in {NotStopping, CommandTimeout + 1} THEN stopFor ELSE stopFor + 1
  /\ SupervisorAges
  /\ UNCHANGED thrust

\* Mutant: a command waiting at the gateway holds the watchdog off.
AdvanceYieldsToPending ==
  /\ LockStep => pending = NoCommand
  /\ IF deadlineIn = 0 /\ pending = NoCommand
       THEN thrust' = {} /\ deadlineIn' = NoDeadline
       ELSE /\ deadlineIn' = IF deadlineIn \in {0, NoDeadline} THEN deadlineIn ELSE deadlineIn - 1
            /\ UNCHANGED thrust
  /\ pending' = IF pending.left > 0 THEN [pending EXCEPT !.left = @ - 1] ELSE pending
  /\ stopFor' = IF stopFor \in {NotStopping, CommandTimeout + 1} THEN stopFor ELSE stopFor + 1
  /\ SupervisorAges

(***************************************************************************)
(* One physics step: the watchdog first, then time passes.                 *)
(***************************************************************************)
Advance ==
  /\ LockStep => pending = NoCommand
  /\ IF deadlineIn = 0
       THEN thrust' = {} /\ deadlineIn' = NoDeadline
       ELSE /\ deadlineIn' = IF deadlineIn = NoDeadline THEN NoDeadline ELSE deadlineIn - 1
            /\ UNCHANGED thrust
  /\ pending' = IF pending.left > 0 THEN [pending EXCEPT !.left = @ - 1] ELSE pending
  /\ stopFor' = IF stopFor \in {NotStopping, CommandTimeout + 1} THEN stopFor ELSE stopFor + 1
  /\ SupervisorAges

Operator == (EmergencyStop \/ ResetLatch) /\ UNCHANGED <<pending, thrust, deadlineIn, stopFor>>

Step == pending = NoCommand /\ \E x \in Inputs : NavStep(x)

Submission == \E stale, fault, accepts \in BOOLEAN : Submit(stale, fault, accepts)

Next == Step \/ Submission \/ Advance \/ Operator

Spec == Init /\ [][Next]_vars

\* Only the physics keeps running: the autonomy may have died at any point.
DeadAutonomySpec == Spec /\ WF_vars(Advance)

-----------------------------------------------------------------------------
TypeOK ==
  /\ SupervisorTypeOK
  /\ pending \in Commands \cup {NoCommand}
  /\ thrust \subseteq Thrusters
  /\ deadlineIn \in {NoDeadline} \cup 0 .. CommandTimeout
  /\ stopFor \in {NotStopping} \cup 0 .. CommandTimeout + 1

(***************************************************************************)
(* Once every assessment has demanded a stop for command_timeout, nothing  *)
(* is driven any more, whatever the gateway and the adapter refused in     *)
(* between (a refused zero command leaves the hardware on its last one).   *)
(***************************************************************************)
StopIsBounded == stopFor > CommandTimeout => thrust = {}

(***************************************************************************)
(* Thrust never outlives the deadline of the command that caused it        *)
(* (the command-timeout watchdog of SimRobotHardware.advance).             *)
(***************************************************************************)
ThrustHasDeadline == thrust # {} => deadlineIn # NoDeadline

(***************************************************************************)
(* A thruster only starts to be driven on the word of the latest           *)
(* assessment: it permits motion, does not list the thruster as failed,    *)
(* and rests on an estimate fit for use, or on the open-loop ascent that   *)
(* the configuration allows without one.                                   *)
(***************************************************************************)
MotionAuthorized(t) ==
  /\ ~StopDemanded(assessment)
  /\ t \notin assessment.faulted
  /\ assessment.trusted \/ (assessment.usable /\ assessment.action = "SURFACE")

OnlyAuthorizedMotion == [][\A t \in thrust' \ thrust : MotionAuthorized(t)]_vars

(***************************************************************************)
(* While anything is latched no command that drives a thruster is          *)
(* authorized, even after the condition that latched it is gone.           *)
(***************************************************************************)
LatchForbidsMotion ==
  [][pending = NoCommand /\ latched' # {} => pending'.drive = {}]_vars

\* An emergency stop brings the thrusters to rest unless the operator takes it back.
LatchStopsVehicle == latched # {} ~> (thrust = {} \/ latched = {})

\* If the autonomy stops submitting commands, the thrusters stop for good.
DeadmanStopsVehicle == <>[][~Submission]_vars => <>[](thrust = {})
=============================================================================
