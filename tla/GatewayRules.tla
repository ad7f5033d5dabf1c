--------------------------- MODULE GatewayRules ---------------------------
(***************************************************************************)
(* The admission rules of the command gateway that depend on configuration *)
(* and on the safety state a command was authorized in                     *)
(* (src/conrad/runtime/command_gateway.py).                                *)
(***************************************************************************)
EXTENDS Integers

CONSTANTS
  Physical,         \* the adapter drives real hardware
  CommandMode,      \* runtime.command_mode
  HardwareEnable,   \* runtime.hardware_enable
  Lane,             \* run.lane
  HilEvidence,      \* a HIL evidence reference is configured
  Grounded          \* the RobotConfig has no ungrounded parameter

ASSUME GatewayAssumption ==
  /\ CommandMode \in {"disabled", "simulated", "hardware"}
  /\ Lane \in {"dev", "simulation", "hil", "physical"}
  /\ {Physical, HardwareEnable, HilEvidence, Grounded} \subseteq BOOLEAN

ModeAdmits ==
  /\ CommandMode # "disabled"
  /\ Physical => /\ CommandMode = "hardware" /\ HardwareEnable
                 /\ Lane \in {"hil", "physical"}
                 /\ Lane = "physical" => HilEvidence /\ Grounded
  /\ CommandMode = "hardware" => Physical

MotionPermitted == {"NORMAL", "DEGRADED", "HOLD"}

ZeroOnly == {"EMERGENCY_STOP", "RECOVER", "RETURN"}

\* The safety state recorded in the authorization admits what the command drives.
StateAdmits(state, drive) == state \in MotionPermitted \/ (state \in ZeroOnly /\ drive = {})

(***************************************************************************)
(* left is the time left to the command's deadline, stale whether the      *)
(* estimate's age is unknown or beyond its limit, fault whether the        *)
(* adapter reports overall health FAULT, all three read at submission.     *)
(***************************************************************************)
Admits(state, drive, left, stale, fault) ==
  /\ ModeAdmits
  /\ left > 0
  /\ StateAdmits(state, drive)
  /\ ~stale
  /\ fault => drive = {}
=============================================================================
