--------------------------- MODULE FlightComputer ---------------------------
(***************************************************************************)
(* main() of the flight computer (flight/src/main.cpp): one thread that    *)
(* drains ground commands from the UART, samples and reports when the      *)
(* telemetry deadline has passed, and sleeps.                              *)
(*                                                                         *)
(* Commands arrive as the events FrameStreamDecoder hands to the handler:  *)
(* a decoded command, or anything the handler only logs ("Damaged": noise, *)
(* a rejected frame, a frame decode_command() refuses).                    *)
(*                                                                         *)
(* k_uptime_get() is not a variable: `remaining` is the deadline minus the *)
(* current uptime, `lag` the current uptime minus the `now` that the loop  *)
(* captured.  Time passes between any two steps, never inside one.         *)
(***************************************************************************)
EXTENDS FlightRules, Sequences

CONSTANTS
  default_telemetry_period_ms, \* FlightConfiguration's initial value
  Scripts,         \* the sample tables a sensor source may replay
  Commands,        \* the decoded commands the ground may send
  SequenceModulus, \* 2^32 in the code: the telemetry sequence wraps
  RxDepth,         \* bound: events waiting in the UART
  MaxLate          \* bound: how far behind its deadline the loop may be

ASSUME DefaultAssumption == default_telemetry_period_ms \in Period

ASSUME ScriptAssumption ==
  \A script \in Scripts :
    /\ DOMAIN script = 1 .. Len(script)
    /\ Len(script) \in Nat \ {0}

ASSUME CommandAssumption ==
  \A command \in Commands :
    command.command \in CommandId /\ command.period_ms \in Nat

ASSUME BoundAssumption ==
  SequenceModulus \in Nat \ {0} /\ RxDepth \in Nat /\ MaxLate \in Nat

VARIABLES
  pc,            \* where main() is
  mode,          \* state_machine.mode_
  manager,       \* fault_manager
  period,        \* configuration.telemetry_period_ms
  remaining,     \* next_telemetry_deadline - k_uptime_get()
  lag,           \* k_uptime_get() - now, while the loop catches up
  script,        \* sensor_source.samples_
  next_sample,   \* sensor_source.next_sample_
  next_sequence, \* telemetry_collector.next_sequence_
  ready,         \* telemetry_link.ready_
  rx,            \* events the UART still holds
  downlink,      \* the last frame transmitted
  healthy_run,   \* history: healthy samples since the last unhealthy one
  dwell,         \* history: time since the first of them
  asked,         \* history: Safe was granted to the ground, and no Nominal since
  ground         \* history: mode and period as the downlink tells them

vars == <<pc, mode, manager, period, remaining, lag, script, next_sample,
          next_sequence, ready, rx, downlink, healthy_run, dwell, asked, ground>>

sensors == <<script, next_sample>>
outputs == <<downlink, ground>>
history == <<healthy_run, dwell, asked>>

Damaged == [command |-> "None"]
NoFrame == [kind |-> "none"]

(* SimulatedSensorSource::samples_.                                        *)
Sample(battery, temperature, solar) ==
  [battery_mv |-> battery, board_temperature_centi_c |-> temperature,
   solar_current_ma |-> solar]

SimulatedSamples ==
  << Sample(7400, 2200, 320), Sample(7380, 2250, 340), Sample(7360, 2300, 360),
     Sample(6900, 2400, 300), Sample(6800, 6100, 280), Sample(7340, 2350, 320),
     Sample(7320, 2400, 340), Sample(7300, 2450, 360) >>

-----------------------------------------------------------------------------
Init ==
  /\ pc = "boot"
  /\ mode = "Boot"
  /\ manager = [faulted |-> TRUE, latched_faults |-> {}, healthy_streak |-> 0]
  /\ period = default_telemetry_period_ms
  /\ remaining = 0
  /\ lag = 0
  /\ script \in Scripts
  /\ next_sample = 0
  /\ next_sequence = 0
  /\ ready \in BOOLEAN
  /\ rx = <<>>
  /\ downlink = NoFrame
  /\ healthy_run = 0
  /\ dwell = 0
  /\ asked = FALSE
  /\ ground = [mode |-> "Unknown", period |-> default_telemetry_period_ms]

(* Boot completes and the first deadline is set.                           *)
Boot ==
  /\ pc = "boot"
  /\ mode' = Dispatch(mode, "BootCompleted")
  /\ remaining' = period
  /\ pc' = "drain"
  /\ UNCHANGED <<manager, period, lag, sensors, next_sequence, ready, rx,
                 outputs, history>>

(* The handler only logs what is not a command.                            *)
IgnoreDamaged ==
  /\ pc = "drain" /\ ready
  /\ rx # <<>> /\ Head(rx) = Damaged
  /\ rx' = Tail(rx)
  /\ UNCHANGED <<pc, mode, manager, period, remaining, lag, sensors,
                 next_sequence, ready, outputs, history>>

Acknowledgement(command, status) ==
  [kind |-> "ack", sequence |-> command.sequence,
   command |-> command.command, status |-> status]

(* Safe is granted when it is entered, and also when it was on already.    *)
GrantsSafe(command, status) ==
  command.command = "EnterSafeMode" /\ status = "Accepted"

(* What an acknowledgement lets the ground conclude.                       *)
HearAck(command, status) ==
  CASE GrantsSafe(command, status) ->
         [ground EXCEPT !.mode = "Safe"]
    [] status = "Accepted" /\ command.command = "SetTelemetryPeriod" ->
         [ground EXCEPT !.period = command.period_ms]
    [] OTHER -> ground

(* Seeded defects: the deadline is not restarted, made to pass at once, or *)
(* restarted by every accepted command.                                    *)
KeepDeadline(command, status, new_period) == remaining

DeadlineNow(command, status, new_period) ==
  IF status = "Accepted" /\ command.command = "SetTelemetryPeriod"
  THEN 0
  ELSE remaining

RestartAlways(command, status, new_period) ==
  IF status = "Accepted" THEN new_period ELSE remaining

NewDeadline(command, status, new_period) ==
  IF status = "Accepted" /\ command.command = "SetTelemetryPeriod"
  THEN new_period
  ELSE remaining

(* handle_stream_event for a command: process, restart the deadline after  *)
(* an accepted period, acknowledge.                                        *)
HandleCommand(command) ==
  /\ pc = "drain" /\ ready
  /\ rx # <<>> /\ Head(rx) = command
  /\ LET outcome == Process(command, mode, period) IN
       /\ mode' = outcome.mode
       /\ period' = outcome.period
       /\ remaining' = NewDeadline(command, outcome.status, outcome.period)
       /\ downlink' = Acknowledgement(command, outcome.status)
       /\ ground' = HearAck(command, outcome.status)
       /\ asked' = (asked \/ GrantsSafe(command, outcome.status))
  /\ rx' = Tail(rx)
  /\ UNCHANGED <<pc, manager, lag, sensors, next_sequence, ready,
                 healthy_run, dwell>>

(* drain() returns: nothing to poll, or the UART never became ready.       *)
Drained ==
  /\ pc = "drain"
  /\ ~ready \/ rx = <<>>
  /\ pc' = "check"
  /\ UNCHANGED <<mode, manager, period, remaining, lag, sensors, next_sequence,
                 ready, rx, outputs, history>>

NotDue ==
  /\ pc = "check"
  /\ remaining > 0
  /\ pc' = "sleep"
  /\ UNCHANGED <<mode, manager, period, remaining, lag, sensors, next_sequence,
                 ready, rx, outputs, history>>

ReadSensors == script[next_sample + 1]

(* Seeded defect: the table is read past its end.                          *)
NextSampleUnwrapped == next_sample + 1

NextSample == IF next_sample + 1 = Len(script) THEN 0 ELSE next_sample + 1

(* Seeded defect: the event is raised but never dispatched.                *)
DispatchNothing(event) == mode

DispatchIfAny(event) == IF event = NoEvent THEN mode ELSE Dispatch(mode, event)

(* What TelemetryCollector::capture() leaves behind, rolling over.         *)
SequenceAfterCapture == (next_sequence + 1) % SequenceModulus

(* The deadline has passed: read, judge, react, report.                    *)
SampleAndReport ==
  /\ pc = "check"
  /\ remaining <= 0
  /\ next_sample' = NextSample
  /\ LET readings == ReadSensors
         active   == Evaluate(readings)
         outcome  == Update(manager, active)
     IN
       /\ manager' = outcome.manager
       /\ mode' = DispatchIfAny(outcome.event)
       /\ downlink' = IF ready
                      THEN [kind |-> "telemetry", sequence |-> next_sequence,
                            mode |-> mode', readings |-> readings,
                            fault_mask |-> manager'.latched_faults]
                      ELSE downlink
       /\ healthy_run' = CASE active # {} -> 0
                           [] active = {} /\ healthy_run < 3 -> healthy_run + 1
                           [] OTHER -> healthy_run
       /\ dwell' = IF active # {} \/ healthy_run = 0 THEN 0 ELSE dwell
  /\ next_sequence' = SequenceAfterCapture
  /\ ground' = IF ready THEN [ground EXCEPT !.mode = mode'] ELSE ground
  /\ asked' = (asked /\ mode' # "Nominal")
  /\ lag' = 0
  /\ pc' = "catchup"
  /\ UNCHANGED <<period, remaining, script, ready, rx>>

(* Seeded defect: the loop compares without advancing the deadline.        *)
CatchUpWithoutStep ==
  /\ pc = "catchup"
  /\ IF remaining + lag <= 0
     THEN UNCHANGED <<pc, lag>>
     ELSE pc' = "sleep" /\ lag' = 0
  /\ UNCHANGED <<mode, manager, period, remaining, sensors, next_sequence,
                 ready, rx, outputs, history>>

(* One turn of the do-while that moves the deadline past `now`.            *)
CatchUp ==
  /\ pc = "catchup"
  /\ remaining' = remaining + period
  /\ IF remaining' + lag <= 0
     THEN UNCHANGED <<pc, lag>>
     ELSE pc' = "sleep" /\ lag' = 0
  /\ UNCHANGED <<mode, manager, period, sensors, next_sequence, ready, rx,
                 outputs, history>>

(* k_sleep() returns.                                                      *)
Wake ==
  /\ pc = "sleep"
  /\ pc' = "drain"
  /\ UNCHANGED <<mode, manager, period, remaining, lag, sensors, next_sequence,
                 ready, rx, outputs, history>>

(* The ground sends, or the line corrupts.                                 *)
Arrive(event) ==
  /\ Len(rx) < RxDepth
  /\ rx' = Append(rx, event)
  /\ UNCHANGED <<pc, mode, manager, period, remaining, lag, sensors,
                 next_sequence, ready, outputs, history>>

(* A millisecond passes.                                                   *)
Elapse ==
  /\ pc # "boot"
  /\ remaining > -MaxLate
  /\ remaining' = remaining - 1
  /\ lag' = IF pc = "catchup" THEN lag + 1 ELSE lag
  /\ dwell' = IF healthy_run > 0 /\ dwell <= minimum_telemetry_period_ms
              THEN dwell + 1 ELSE dwell
  /\ UNCHANGED <<pc, mode, manager, period, sensors, next_sequence, ready, rx,
                 outputs, healthy_run, asked>>

HandleEvent == IgnoreDamaged \/ \E command \in Commands : HandleCommand(command)

Main == \/ Boot
        \/ HandleEvent \/ Drained
        \/ NotDue \/ SampleAndReport \/ CatchUp
        \/ Wake

Next == \/ Main
        \/ Elapse
        \/ \E event \in Commands \cup {Damaged} : Arrive(event)

(* The thread runs and time passes; nothing is promised of the ground.     *)
Spec == Init /\ [][Next]_vars /\ WF_vars(Main) /\ WF_vars(Elapse)

-----------------------------------------------------------------------------
(* Properties.                                                             *)

Telemetry ==
  [kind : {"telemetry"}, sequence : 0 .. (SequenceModulus - 1),
   mode : FlightMode, readings : UNION {{s[i] : i \in DOMAIN s} : s \in Scripts},
   fault_mask : SUBSET Fault]

Ack ==
  [kind : {"ack"}, sequence : {command.sequence : command \in Commands},
   command : CommandId, status : CommandAckStatus]

TypeOK ==
  /\ pc \in {"boot", "drain", "check", "catchup", "sleep"}
  /\ mode \in FlightMode
  /\ manager \in FaultManager
  /\ period \in Period
  /\ remaining \in Int
  /\ lag \in Nat
  /\ script \in Scripts
  /\ next_sample \in 0 .. (Len(script) - 1)
  /\ next_sequence \in 0 .. (SequenceModulus - 1)
  /\ ready \in BOOLEAN
  /\ rx \in Seq(Commands \cup {Damaged})
  /\ downlink \in {NoFrame} \cup Telemetry \cup Ack
  /\ healthy_run \in 0 .. 3
  /\ dwell \in Nat
  /\ asked \in BOOLEAN
  /\ ground \in [mode : FlightMode \cup {"Unknown"}, period : Period]

(* The mode and the fault manager never drift apart, although commands     *)
(* change the one behind the other's back: after boot the computer is in   *)
(* Nominal exactly when no fault is latched or being recovered from and    *)
(* the ground has not been granted Safe since it was last in Nominal.      *)
ModeAgreesWithFaults ==
  pc # "boot" =>
    mode = IF manager.faulted \/ asked THEN "Safe" ELSE "Nominal"

(* Whatever commands arrive in between, Nominal stands on at least three   *)
(* healthy samples in a row, the last one included, and on no latched      *)
(* fault.                                                                  *)
NominalIsEarned ==
  mode = "Nominal" => healthy_run >= 3 /\ manager.latched_faults = {}

(* A telemetry frame does not contradict itself: the mask holds every      *)
(* fault its own readings show, and a Nominal frame shows none.            *)
TelemetryHonest ==
  downlink.kind = "telemetry" =>
    /\ Evaluate(downlink.readings) \subseteq downlink.fault_mask
    /\ downlink.mode = "Nominal" => downlink.fault_mask = {}

(* The ground is never left with an outdated picture: every change of the  *)
(* mode or of the period is told by the frame of the same handler, so what *)
(* the frames sent so far imply is what holds.                             *)
GroundPictureExact ==
  /\ ready /\ ground.mode # "Unknown" => ground.mode = mode
  /\ ground.period = period

(* The next telemetry is never further away than the period in force, also *)
(* right after a shorter period was accepted.                              *)
DeadlineWithinPeriod == remaining <= period

(* Recovery takes more than one shortest period: the three healthy samples *)
(* cannot be squeezed together by a late loop that catches up, nor by      *)
(* commands that restart the deadline.                                     *)
RecoveryTakesTime ==
  [][mode = "Safe" /\ mode' = "Nominal" => dwell > minimum_telemetry_period_ms]_vars

(* A Safe mode granted to the ground.  While no fault is being handled it  *)
(* holds: the computer does not talk itself back into Nominal.  While one  *)
(* is being handled, be it older or newer than the grant, the grant counts *)
(* for nothing: the recovery ends Safe mode at its third healthy sample in *)
(* a row, no earlier and no later, for update() knows no grants.           *)
CommandedSafeHolds ==
  [][asked =>
       IF manager.faulted
       THEN mode' = "Nominal" <=> healthy_run' = required_healthy_samples
       ELSE mode' = "Safe"]_vars

(* Why the computer is in Safe: a fault being handled goes before a grant. *)
Reason == CASE manager.faulted             -> "fault"
            [] ~manager.faulted /\ asked   -> "ground"
            [] ~manager.faulted /\ ~asked  -> "none"

Contract == INSTANCE ModeContract WITH
  Required <- required_healthy_samples, reason <- Reason, healthy <- healthy_run

(* The mode does exactly what ModeContract says, whatever the monitor, the *)
(* latch, the state machine, the commands and the deadline do in between:  *)
(* Nominal at the third healthy sample and not later, Safe at the first    *)
(* fault, and a ground request counts only in Nominal.                     *)
ImplementsContract == Contract!Spec

(* The do-while always ends.                                               *)
CatchUpEnds == pc = "catchup" ~> pc = "sleep"

(* While the loop keeps coming back to the deadline check, telemetry keeps *)
(* being sampled, however far behind the loop has fallen.                  *)
TelemetryKeepsComing == []<>(pc = "check") => []<>(pc = "catchup")

(* With the simulated sensors every fault is temporary: as long as samples *)
(* are taken the computer returns to Nominal again and again.              *)
RecoversAgain == []<>(pc = "catchup") => []<>(mode = "Nominal")
=============================================================================
