----------------------------- MODULE FlightRules -----------------------------
(***************************************************************************)
(* The decision rules of the flight computer: which readings are faults    *)
(* (health.hpp), how faults latch and clear (fault_manager.hpp), how the   *)
(* mode reacts (flight_mode.hpp) and what a command does                   *)
(* (command_processor.hpp).  The C++ classes have no thread of their own:  *)
(* each method is an operator from the object's state to its next state.   *)
(* The fault bit mask is the set of its faults.                            *)
(***************************************************************************)
EXTENDS Integers, FiniteSets

CONSTANTS
  minimum_telemetry_period_ms,
  maximum_telemetry_period_ms

ASSUME PeriodAssumption ==
  /\ minimum_telemetry_period_ms \in Nat \ {0}
  /\ maximum_telemetry_period_ms \in Nat
  /\ minimum_telemetry_period_ms <= maximum_telemetry_period_ms

Period == minimum_telemetry_period_ms .. maximum_telemetry_period_ms

-----------------------------------------------------------------------------
(* Health rules.                                                           *)

Fault == {"BatteryUndervoltage", "BoardUndertemperature", "BoardOvertemperature"}

minimum_battery_mv == 7000
minimum_temperature_centi_c == -1000
maximum_temperature_centi_c == 6000

SensorReadings == [battery_mv : 0 .. 65535,
                   board_temperature_centi_c : -32768 .. 32767,
                   solar_current_ma : 0 .. 65535]

Exceeded(fault, readings) ==
  CASE fault = "BatteryUndervoltage" ->
         readings.battery_mv < minimum_battery_mv
    [] fault = "BoardUndertemperature" ->
         readings.board_temperature_centi_c < minimum_temperature_centi_c
    [] fault = "BoardOvertemperature" ->
         readings.board_temperature_centi_c > maximum_temperature_centi_c

(* HealthMonitor::evaluate(): the active faults, empty when healthy.       *)
Evaluate(readings) == {fault \in Fault : Exceeded(fault, readings)}

-----------------------------------------------------------------------------
(* The flight mode state machine.                                          *)

FlightMode == {"Boot", "Safe", "Nominal"}

FlightEvent ==
  {"BootCompleted", "HealthConfirmed", "FaultDetected", "SafeModeRequested"}

(* dispatch() returns whether it changed the mode.                         *)
Dispatch(mode, event) ==
  CASE mode = "Boot" /\ event = "BootCompleted" -> "Safe"
    [] mode = "Safe" /\ event = "HealthConfirmed" -> "Nominal"
    [] mode = "Nominal" /\ event \in {"FaultDetected", "SafeModeRequested"} -> "Safe"
    [] OTHER -> mode

-----------------------------------------------------------------------------
(* The fault manager.                                                      *)

required_healthy_samples == 3

FaultManager == [faulted        : BOOLEAN,
                 latched_faults : SUBSET Fault,
                 healthy_streak : 0 .. required_healthy_samples]

NoEvent == "NoEvent"

(* Seeded defects: the streak survives a fault; only the first fault of an *)
(* episode is latched.                                                     *)
OnFaultKeepsStreak(manager, active) ==
  [manager |-> [faulted        |-> TRUE,
                latched_faults |-> manager.latched_faults \cup active,
                healthy_streak |-> manager.healthy_streak],
   event   |-> IF manager.faulted THEN NoEvent ELSE "FaultDetected"]

OnFaultFirstOnly(manager, active) ==
  [manager |-> [faulted        |-> TRUE,
                latched_faults |-> IF manager.latched_faults = {} THEN active
                                   ELSE manager.latched_faults,
                healthy_streak |-> 0],
   event   |-> IF manager.faulted THEN NoEvent ELSE "FaultDetected"]

OnFault(manager, active) ==
  [manager |-> [faulted        |-> TRUE,
                latched_faults |-> manager.latched_faults \cup active,
                healthy_streak |-> 0],
   event   |-> IF manager.faulted THEN NoEvent ELSE "FaultDetected"]

(* Seeded defect: confirms above the required streak, which saturates.     *)
OnHealthyTooStrict(manager) ==
  [manager |-> [manager EXCEPT !.healthy_streak =
                  IF @ < required_healthy_samples THEN @ + 1 ELSE @],
   event   |-> NoEvent]

OnHealthy(manager) ==
  LET streak == IF manager.healthy_streak < required_healthy_samples
                THEN manager.healthy_streak + 1
                ELSE manager.healthy_streak
  IN
  IF streak = required_healthy_samples
  THEN [manager |-> [faulted        |-> FALSE,
                     latched_faults |-> {},
                     healthy_streak |-> streak],
        event   |-> "HealthConfirmed"]
  ELSE [manager |-> [manager EXCEPT !.healthy_streak = streak],
        event   |-> NoEvent]

(* Seeded defect: counts healthy samples even when there was no fault.     *)
UpdateAlways(manager, active) ==
  IF active # {} THEN OnFault(manager, active) ELSE OnHealthy(manager)

(* update(): the manager's next state and the event it raises, if any.     *)
Update(manager, active) ==
  CASE active # {} -> OnFault(manager, active)
    [] active = {} /\ ~manager.faulted ->
         [manager |-> manager, event |-> NoEvent]
    [] active = {} /\ manager.faulted -> OnHealthy(manager)

-----------------------------------------------------------------------------
(* The command processor.                                                  *)

CommandId == {"Ping", "EnterSafeMode", "SetTelemetryPeriod"}

CommandAckStatus == {"Accepted", "RejectedByState", "InvalidArgument"}

EnterSafeMode(mode) ==
  LET next == Dispatch(mode, "SafeModeRequested") IN
  CASE mode = "Boot"    -> [status |-> "RejectedByState", mode |-> mode]
    [] mode = "Safe"    -> [status |-> "Accepted", mode |-> mode]
    [] mode = "Nominal" -> [status |-> IF next # mode THEN "Accepted"
                                       ELSE "RejectedByState",
                            mode   |-> next]

(* Seeded defect: clamps an invalid period and says it was accepted.       *)
SetClampedPeriod(period, requested) ==
  [status |-> "Accepted",
   period |-> IF requested < minimum_telemetry_period_ms
              THEN minimum_telemetry_period_ms
              ELSE IF requested > maximum_telemetry_period_ms
              THEN maximum_telemetry_period_ms
              ELSE requested]

SetTelemetryPeriod(period, requested) ==
  IF requested \in Period
  THEN [status |-> "Accepted", period |-> requested]
  ELSE [status |-> "InvalidArgument", period |-> period]

(* process(): the acknowledgement's status and the new mode and period.    *)
(* The command is one that decode_command() produced, so it is a member of *)
(* CommandId and InvalidCommand is not an outcome.                         *)
Process(command, mode, period) ==
  CASE command.command = "Ping" ->
         [status |-> "Accepted", mode |-> mode, period |-> period]
    [] command.command = "EnterSafeMode" ->
         LET r == EnterSafeMode(mode) IN
         [status |-> r.status, mode |-> r.mode, period |-> period]
    [] command.command = "SetTelemetryPeriod" ->
         LET r == SetTelemetryPeriod(period, command.period_ms) IN
         [status |-> r.status, mode |-> mode, period |-> r.period]
=============================================================================
