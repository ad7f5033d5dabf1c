------------------------- MODULE RuntimeSupervisor -------------------------
(***************************************************************************)
(* The runtime's lifecycle state machine and the health registry it judges *)
(* by (src/conrad/runtime/supervisor.py, src/conrad/runtime/health.py).    *)
(*                                                                         *)
(* Every public call is one action. A call the code refuses by raising     *)
(* changes nothing, so it is the action being disabled. The self-test and  *)
(* the connection run foreign code in the middle and are two steps each.   *)
(***************************************************************************)
EXTENDS Integers, FiniteSets

CONSTANTS
  Modules,        \* the registered modules
  Critical,       \* those registered as critical
  Freshness,      \* the silence a module is allowed, in time steps
  SettingsPermit  \* command mode, hardware enable, lane and HIL evidence permit hardware

ASSUME RuntimeAssumption ==
  /\ Critical \subseteq Modules
  /\ Freshness \in [Modules -> Nat]
  /\ SettingsPermit \in BOOLEAN

VARIABLES
  state,      \* the RuntimeState
  reported,   \* what each module last reported of itself
  silentFor,  \* time since its last heartbeat, Never before the first
  ready       \* the hardware components marked healthy

healthVars == <<reported, silentFor>>
lifecycleVars == <<state, ready>>
runtimeVars == <<lifecycleVars, healthVars>>

Never == -1

HardwareComponents == {"adapter", "safety_supervisor", "command_gateway"}

Active == {"RUNNING", "DEGRADED"}

RuntimeStates ==
  {"BOOT", "SELF_TEST", "CONFIGURED", "CONNECTING", "READY", "SAFE_HOLD", "STOPPING", "STOPPED",
   "FAILED"} \cup Active

Allowed(s) ==
  CASE s = "BOOT" -> {"SELF_TEST"}
    [] s = "SELF_TEST" -> {"CONFIGURED"}
    [] s = "CONFIGURED" -> {"CONNECTING"}
    [] s = "CONNECTING" -> {"READY"}
    [] s = "READY" -> {"RUNNING", "STOPPING"}
    [] s = "RUNNING" -> {"DEGRADED", "SAFE_HOLD"}
    [] s = "DEGRADED" -> {"RUNNING", "SAFE_HOLD"}
    [] s = "SAFE_HOLD" -> {"STOPPING", "RUNNING"}
    [] s = "STOPPING" -> {"STOPPED"}
    [] OTHER -> {}

RuntimeTypeOK ==
  /\ state \in RuntimeStates
  /\ reported \in [Modules -> {"AVAILABLE", "DEGRADED", "UNAVAILABLE"}]
  /\ \A m \in Modules : silentFor[m] \in Never .. Freshness[m] + 1
  /\ ready \subseteq HardwareComponents

RuntimeInit ==
  /\ state = "BOOT"
  /\ reported = [m \in Modules |-> "UNAVAILABLE"]
  /\ silentFor = [m \in Modules |-> Never]
  /\ ready = {}

-----------------------------------------------------------------------------
(***************************************************************************)
(* The health registry.                                                    *)
(***************************************************************************)
Availability(m) ==
  IF reported[m] # "UNAVAILABLE" /\ (silentFor[m] = Never \/ silentFor[m] > Freshness[m])
    THEN "STALE" ELSE reported[m]

CriticalFailures == {m \in Critical : Availability(m) \in {"UNAVAILABLE", "STALE"}}

Degraded == {m \in Modules : Availability(m) # "AVAILABLE"}

\* Silence is counted up to the first value that makes the module stale.
Older(m) ==
  IF silentFor[m] = Never \/ silentFor[m] > Freshness[m] THEN silentFor[m] ELSE silentFor[m] + 1

Silence == silentFor' = [m \in Modules |-> Older(m)]

-----------------------------------------------------------------------------
(***************************************************************************)
(* The supervisor.                                                         *)
(***************************************************************************)
Go(new) == new \in Allowed(state) /\ state' = new

BeginSelfTest == Go("SELF_TEST") /\ UNCHANGED ready
EndSelfTest == state = "SELF_TEST" /\ (Go("CONFIGURED") \/ state' = "FAILED") /\ UNCHANGED ready
BeginConnect == Go("CONNECTING") /\ UNCHANGED ready
EndConnect == state = "CONNECTING" /\ (Go("READY") \/ state' = "FAILED") /\ UNCHANGED ready

\* The owner of the supervisor marks the components it has brought up.
MarkReady == ready' = HardwareComponents /\ UNCHANGED state

HardwareGatePasses == SettingsPermit /\ ready = HardwareComponents

Start(hardware) ==
  /\ hardware => HardwareGatePasses
  /\ Go("RUNNING")
  /\ UNCHANGED ready

\* Mutant: any degraded module is judged before the critical ones.
TickLenient ==
  /\ state \in Active
  /\ state' = IF Degraded # {} THEN "DEGRADED" ELSE "RUNNING"
  /\ UNCHANGED ready

\* RuntimeSupervisor.tick: it judges a runtime that is active, and no other.
Tick ==
  /\ state \in Active
  /\ state' = IF CriticalFailures # {} THEN "SAFE_HOLD"
              ELSE IF Degraded # {} THEN "DEGRADED" ELSE "RUNNING"
  /\ UNCHANGED ready

\* RuntimeSupervisor.safe_hold: a second hold is not an error.
EnterSafeHold ==
  /\ Go("SAFE_HOLD") \/ (state = "SAFE_HOLD" /\ UNCHANGED state)
  /\ UNCHANGED ready

Stop ==
  /\ state \in Active \cup {"SAFE_HOLD", "READY"}
  /\ state' = "STOPPED"
  /\ UNCHANGED ready

\* RuntimeSupervisor.operator on a started runtime: pause and safe_hold, resume, stop.
Resume ==
  /\ CriticalFailures = {}
  /\ Go("RUNNING")
  /\ UNCHANGED ready

Operator == EnterSafeHold \/ Resume \/ Stop
=============================================================================
