------------------------ MODULE FlightComputerProofs ------------------------
(***************************************************************************)
(* For every sensor table, command set, range of periods and lateness: the *)
(* mode, the latched faults, the telemetry and the ground's picture agree, *)
(* and recovery takes time.                                                *)
(***************************************************************************)
EXTENDS FlightComputer, SequenceTheorems, TLAPS

(* The streak of the fault manager counts healthy samples while it is      *)
(* faulted; once it is not, at least three were healthy and nothing is     *)
(* latched.                                                                *)
StreakCounts ==
  IF manager.faulted
  THEN manager.healthy_streak = healthy_run /\ healthy_run < 3
  ELSE healthy_run = 3 /\ manager.latched_faults = {}

(* Before boot nothing has happened.                                       *)
Booting ==
  pc = "boot" =>
    /\ mode = "Boot" /\ manager.faulted /\ ~asked
    /\ remaining = 0
    /\ downlink = NoFrame /\ ground.mode = "Unknown"

(* Where the deadline is while the loop catches up.                        *)
LagBounded ==
  /\ pc # "catchup" => lag = 0
  /\ pc = "catchup" => remaining + lag <= 0

LongEnough == dwell > minimum_telemetry_period_ms

(* Where the deadline is relative to the first sample of a recovery.       *)
RecoverySpan ==
  /\ manager.faulted /\ healthy_run = 1 =>
       \/ LongEnough
       \/ pc = "catchup" /\ dwell = lag
       \/ pc # "catchup" /\ dwell + remaining > 0
  /\ manager.faulted /\ healthy_run = 2 =>
       /\ dwell > 0
       /\ \/ LongEnough
          \/ pc = "catchup" /\ dwell + remaining > 0
          \/ pc # "catchup" /\ dwell + remaining > minimum_telemetry_period_ms

(* The inductive invariant.                                                *)
IInv ==
  /\ TypeOK
  /\ Booting
  /\ ModeAgreesWithFaults
  /\ StreakCounts
  /\ TelemetryHonest
  /\ GroundPictureExact
  /\ DeadlineWithinPeriod
  /\ LagBounded
  /\ RecoverySpan

-----------------------------------------------------------------------------
(* Facts about the decision rules.                                         *)

(* The fault manager's next state and event, case by case.                 *)
LEMMA UpdateFacts ==
  ASSUME NEW m \in FaultManager, NEW active \in SUBSET Fault
  PROVE  /\ Update(m, active).manager \in FaultManager
         /\ active # {} =>
              /\ Update(m, active).manager.faulted
              /\ Update(m, active).manager.healthy_streak = 0
              /\ Update(m, active).manager.latched_faults
                   = m.latched_faults \cup active
              /\ Update(m, active).event
                   = IF m.faulted THEN NoEvent ELSE "FaultDetected"
         /\ active = {} /\ ~m.faulted =>
              Update(m, active) = [manager |-> m, event |-> NoEvent]
         /\ active = {} /\ m.faulted /\ m.healthy_streak < 2 =>
              /\ Update(m, active).manager.faulted
              /\ Update(m, active).manager.healthy_streak = m.healthy_streak + 1
              /\ Update(m, active).manager.latched_faults = m.latched_faults
              /\ Update(m, active).event = NoEvent
         /\ active = {} /\ m.faulted /\ m.healthy_streak = 2 =>
              /\ ~Update(m, active).manager.faulted
              /\ Update(m, active).manager.latched_faults = {}
              /\ Update(m, active).event = "HealthConfirmed"
<1>1. CASE active # {}
  <2>1. Update(m, active) = OnFault(m, active)
    BY <1>1 DEF Update
  <2>2. QED
    BY <1>1, <2>1 DEF OnFault, FaultManager, required_healthy_samples
<1>2. CASE active = {} /\ ~m.faulted
  <2>1. Update(m, active) = [manager |-> m, event |-> NoEvent]
    BY <1>2 DEF Update
  <2>2. QED
    BY <1>2, <2>1
<1>3. CASE active = {} /\ m.faulted
  <2>1. Update(m, active) = OnHealthy(m)
    BY <1>3 DEF Update
  <2>2. m.healthy_streak \in 0 .. 3 /\ m.latched_faults \in SUBSET Fault
    BY DEF FaultManager, required_healthy_samples
  <2>3. CASE m.healthy_streak < 2
    <3>1. /\ m.healthy_streak < 3 /\ m.healthy_streak + 1 # 3
          /\ m.healthy_streak + 1 \in 0 .. 3
      BY <2>2, <2>3
    <3>2. OnHealthy(m) = [manager |-> [m EXCEPT !.healthy_streak = m.healthy_streak + 1],
                          event   |-> NoEvent]
      BY <3>1 DEF OnHealthy, required_healthy_samples
    <3>3. [m EXCEPT !.healthy_streak = m.healthy_streak + 1]
            = [faulted        |-> m.faulted,
               latched_faults |-> m.latched_faults,
               healthy_streak |-> m.healthy_streak + 1]
      BY DEF FaultManager
    <3>4. m.faulted \in BOOLEAN
      BY DEF FaultManager
    <3>5. QED
      BY <1>3, <2>1, <2>2, <2>3, <3>1, <3>2, <3>3, <3>4
      DEF FaultManager, required_healthy_samples
  <2>4. CASE m.healthy_streak \in {2, 3}
    <3>1. (IF m.healthy_streak < 3 THEN m.healthy_streak + 1 ELSE m.healthy_streak) = 3
      BY <2>4
    <3>2. OnHealthy(m) = [manager |-> [faulted        |-> FALSE,
                                       latched_faults |-> {},
                                       healthy_streak |-> 3],
                          event   |-> "HealthConfirmed"]
      BY <3>1, Zenon DEF OnHealthy, required_healthy_samples
    <3>3. ~(m.healthy_streak < 2)
      BY <2>4
    <3>4. Update(m, active).manager = [faulted        |-> FALSE,
                                       latched_faults |-> {},
                                       healthy_streak |-> 3]
          /\ Update(m, active).event = "HealthConfirmed"
      BY <2>1, <3>2
    <3>5. Update(m, active).manager \in FaultManager
      BY <3>4 DEF FaultManager, required_healthy_samples
    <3>6. QED
      BY <1>3, <3>3, <3>4, <3>5
  <2>5. QED
    BY <2>2, <2>3, <2>4
<1>4. QED
  BY <1>1, <1>2, <1>3

(* A command cannot take the mode anywhere but to Safe, and the period     *)
(* nowhere but to a permitted value it asked for.                          *)
LEMMA ProcessFacts ==
  ASSUME NEW c \in Commands, NEW m \in {"Safe", "Nominal"}, NEW p \in Period
  PROVE  LET r == Process(c, m, p) IN
         /\ r.status \in CommandAckStatus
         /\ r.period \in Period
         /\ c.command = "EnterSafeMode" =>
              r.status = "Accepted" /\ r.mode = "Safe" /\ r.period = p
         /\ c.command # "EnterSafeMode" => r.mode = m
         /\ c.command = "SetTelemetryPeriod" /\ r.status = "Accepted" =>
              r.period = c.period_ms
         /\ ~(c.command = "SetTelemetryPeriod" /\ r.status = "Accepted") =>
              r.period = p
<1>1. c.command \in CommandId
  BY CommandAssumption
<1>2. CASE c.command = "Ping"
  BY <1>2 DEF Process, CommandAckStatus
<1>3. CASE c.command = "EnterSafeMode"
  <2>1. EnterSafeMode(m) = [status |-> "Accepted", mode |-> "Safe"]
    BY DEF EnterSafeMode, Dispatch
  <2>2. Process(c, m, p) = [status |-> "Accepted", mode |-> "Safe", period |-> p]
    BY <1>3, <2>1 DEF Process
  <2>3. QED
    BY <1>3, <2>2 DEF CommandAckStatus
<1>4. CASE c.command = "SetTelemetryPeriod"
  <2> DEFINE r == SetTelemetryPeriod(p, c.period_ms)
  <2>1. Process(c, m, p) = [status |-> r.status, mode |-> m, period |-> r.period]
    BY <1>4 DEF Process
  <2>2. \/ r = [status |-> "Accepted", period |-> c.period_ms] /\ c.period_ms \in Period
        \/ r = [status |-> "InvalidArgument", period |-> p]
    BY DEF SetTelemetryPeriod
  <2> HIDE DEF r
  <2>3. QED
    BY <1>4, <2>1, <2>2 DEF CommandAckStatus
<1>5. QED
  BY <1>1, <1>2, <1>3, <1>4 DEF CommandId

(* The sensor source always has a sample, and never leaves its table.      *)
LEMMA SensorFacts ==
  ASSUME TypeOK
  PROVE  /\ ReadSensors \in UNION {{t[i] : i \in DOMAIN t} : t \in Scripts}
         /\ NextSample \in 0 .. (Len(script) - 1)
<1>1. /\ script \in Scripts /\ DOMAIN script = 1 .. Len(script)
      /\ Len(script) \in Nat \ {0}
      /\ next_sample \in 0 .. (Len(script) - 1)
  BY ScriptAssumption DEF TypeOK
<1>2. next_sample + 1 \in DOMAIN script
  BY <1>1
<1>3. ReadSensors \in {script[i] : i \in DOMAIN script}
  BY <1>2 DEF ReadSensors
<1>4. NextSample \in 0 .. (Len(script) - 1)
  <2> DEFINE n == Len(script)
  <2>1. n \in Nat \ {0} /\ next_sample \in 0 .. (n - 1)
    BY <1>1
  <2>2. NextSample = IF next_sample + 1 = n THEN 0 ELSE next_sample + 1
    BY DEF NextSample
  <2> HIDE DEF n
  <2>3. NextSample \in 0 .. (n - 1)
    BY <2>1, <2>2
  <2>4. QED
    BY <2>3 DEF n
<1>5. QED
  BY <1>1, <1>3, <1>4

(* Every period is a positive number between the two limits.               *)
LEMMA PeriodPositive ==
  ASSUME NEW p \in Period
  PROVE  p \in Nat /\ p >= minimum_telemetry_period_ms /\ p > 0
  BY PeriodAssumption DEF Period

-----------------------------------------------------------------------------
(* The invariant holds initially and is kept by every action.              *)

(* The computer as constructed satisfies the invariant.                    *)
LEMMA InitIInv == Init => IInv
<1> SUFFICES ASSUME Init PROVE IInv
  OBVIOUS
<1>1. /\ Len(script) \in Nat \ {0} /\ SequenceModulus \in Nat \ {0}
      /\ default_telemetry_period_ms \in Period
  BY ScriptAssumption, BoundAssumption, DefaultAssumption DEF Init
<1>2. TypeOK
  <2>1. manager \in FaultManager
    BY DEF Init, FaultManager, required_healthy_samples
  <2>2. ground \in [mode : FlightMode \cup {"Unknown"}, period : Period]
    BY <1>1 DEF Init
  <2>3. next_sample \in 0 .. (Len(script) - 1) /\ next_sequence \in 0 .. (SequenceModulus - 1)
    BY <1>1 DEF Init
  <2>4. rx \in Seq(Commands \cup {Damaged})
    BY EmptySeq DEF Init
  <2>5. /\ pc \in {"boot", "drain", "check", "catchup", "sleep"}
        /\ mode \in FlightMode /\ period \in Period /\ script \in Scripts
        /\ ready \in BOOLEAN /\ asked \in BOOLEAN
        /\ downlink \in {NoFrame} \cup Telemetry \cup Ack
    BY <1>1 DEF Init, FlightMode
  <2>6. remaining \in Int /\ lag \in Nat /\ healthy_run \in 0 .. 3 /\ dwell \in Nat
    BY DEF Init
  <2>7. QED
    BY <2>1, <2>2, <2>3, <2>4, <2>5, <2>6 DEF TypeOK
<1>3. Booting /\ ModeAgreesWithFaults /\ StreakCounts
  BY DEF Init, Booting, ModeAgreesWithFaults, StreakCounts
<1>4. TelemetryHonest /\ GroundPictureExact
  BY DEF Init, TelemetryHonest, GroundPictureExact, NoFrame
<1>5. DeadlineWithinPeriod /\ LagBounded /\ RecoverySpan
  BY <1>1, PeriodPositive
  DEF Init, DeadlineWithinPeriod, LagBounded, RecoverySpan
<1>6. QED
  BY <1>2, <1>3, <1>4, <1>5 DEF IInv

(* A step that only moves pc, outside boot and catch-up, or only changes   *)
(* what the UART holds.                                                    *)
LEMMA QuietIInv ==
  ASSUME IInv,
         \/ pc' = pc
         \/ pc \in {"drain", "check", "sleep"} /\ pc' \in {"drain", "check", "sleep"},
         rx' \in Seq(Commands \cup {Damaged}),
         UNCHANGED <<mode, manager, period, remaining, lag, sensors, next_sequence,
                     ready, outputs, history>>
  PROVE  IInv'
<1> USE DEF sensors, outputs, history
<1>1. TypeOK'
  BY DEF IInv, TypeOK
<1>2. Booting' /\ ModeAgreesWithFaults' /\ StreakCounts'
  BY DEF IInv, Booting, ModeAgreesWithFaults, StreakCounts
<1>3. TelemetryHonest' /\ GroundPictureExact'
  BY DEF IInv, TelemetryHonest, GroundPictureExact
<1>4. DeadlineWithinPeriod' /\ LagBounded'
  BY DEF IInv, DeadlineWithinPeriod, LagBounded
<1>5. RecoverySpan'
  BY DEF IInv, RecoverySpan, LongEnough
<1>6. QED
  BY <1>1, <1>2, <1>3, <1>4, <1>5 DEF IInv

(* Completing boot keeps the invariant.                                    *)
LEMMA BootIInv ==
  ASSUME IInv, Boot
  PROVE  IInv'
<1> USE DEF sensors, outputs, history
<1>1. /\ TypeOK /\ Booting /\ StreakCounts /\ RecoverySpan
      /\ pc = "boot" /\ mode = "Boot" /\ manager.faulted /\ ~asked /\ lag = 0
      /\ period \in Nat /\ period > 0
  BY PeriodPositive DEF IInv, Boot, Booting, LagBounded, TypeOK
<1>2. mode' = "Safe" /\ pc' = "drain" /\ remaining' = period
  BY <1>1 DEF Boot, Dispatch
<1>3. TypeOK'
  BY <1>1, <1>2 DEF Boot, TypeOK, FlightMode
<1>4. Booting' /\ ModeAgreesWithFaults' /\ StreakCounts'
  BY <1>1, <1>2 DEF Boot, Booting, ModeAgreesWithFaults, StreakCounts
<1>5. TelemetryHonest' /\ GroundPictureExact'
  BY <1>1, <1>2 DEF IInv, Boot, Booting, TelemetryHonest, GroundPictureExact, NoFrame
<1>6. DeadlineWithinPeriod' /\ LagBounded'
  BY <1>1, <1>2 DEF Boot, DeadlineWithinPeriod, LagBounded
<1>7. RecoverySpan'
  <2>1. /\ healthy_run' = healthy_run /\ dwell' = dwell /\ manager' = manager
        /\ dwell \in Nat /\ remaining = 0
        /\ minimum_telemetry_period_ms \in Nat /\ period >= minimum_telemetry_period_ms
    BY <1>1, PeriodAssumption, PeriodPositive DEF Boot, Booting, TypeOK
  <2>2. QED
    BY <1>1, <1>2, <2>1 DEF RecoverySpan, LongEnough
<1>8. QED
  BY <1>3, <1>4, <1>5, <1>6, <1>7 DEF IInv

(* Every command, accepted or not, in every mode, keeps it.                *)
LEMMA HandleCommandIInv ==
  ASSUME IInv, NEW command \in Commands, HandleCommand(command)
  PROVE  IInv'
<1> DEFINE outcome == Process(command, mode, period)
<1> USE DEF sensors, outputs
<1>1. /\ TypeOK /\ ModeAgreesWithFaults /\ StreakCounts /\ TelemetryHonest
      /\ GroundPictureExact /\ DeadlineWithinPeriod /\ LagBounded /\ RecoverySpan
      /\ pc = "drain" /\ pc' = "drain" /\ ready /\ ready' = ready /\ lag' = lag
      /\ manager' = manager /\ healthy_run' = healthy_run /\ dwell' = dwell
      /\ script' = script /\ next_sample' = next_sample
      /\ next_sequence' = next_sequence
  BY DEF IInv, HandleCommand
<1>2. /\ mode' = outcome.mode /\ period' = outcome.period
      /\ remaining' = NewDeadline(command, outcome.status, outcome.period)
      /\ downlink' = Acknowledgement(command, outcome.status)
      /\ ground' = HearAck(command, outcome.status)
      /\ asked' = (asked \/ GrantsSafe(command, outcome.status))
      /\ rx # <<>> /\ rx' = Tail(rx)
  BY DEF HandleCommand
<1>3. mode \in {"Safe", "Nominal"} /\ period \in Period
  BY <1>1 DEF ModeAgreesWithFaults, TypeOK
<1> HIDE DEF outcome
<1>4. /\ outcome.status \in CommandAckStatus
      /\ period' \in Period
      /\ command.command = "EnterSafeMode" =>
           outcome.status = "Accepted" /\ mode' = "Safe" /\ period' = period
      /\ command.command # "EnterSafeMode" => mode' = mode
      /\ command.command = "SetTelemetryPeriod" /\ outcome.status = "Accepted" =>
           period' = command.period_ms
      /\ ~(command.command = "SetTelemetryPeriod" /\ outcome.status = "Accepted") =>
           period' = period
  BY <1>2, <1>3, ProcessFacts DEF outcome
<1>5. mode' \in {"Safe", "Nominal"}
  BY <1>3, <1>4
<1>6. \/ remaining' = remaining /\ period' = period
      \/ remaining' = period'
  BY <1>2, <1>4 DEF NewDeadline
<1>7. TypeOK'
  <2>1. rx' \in Seq(Commands \cup {Damaged})
    BY <1>1, <1>2, HeadTailProperties DEF TypeOK
  <2>2. command.command \in CommandId
    BY CommandAssumption
  <2>3. downlink' \in Ack
    BY <1>2, <1>4, <2>2 DEF Acknowledgement, Ack
  <2>4. ground' \in [mode : FlightMode \cup {"Unknown"}, period : Period]
    <3>1. ground \in [mode : FlightMode \cup {"Unknown"}, period : Period]
      BY <1>1 DEF TypeOK
    <3>2. CASE outcome.status = "Accepted" /\ command.command = "EnterSafeMode"
      <4>1. ground' = [ground EXCEPT !.mode = "Safe"]
        BY <1>2, <3>2 DEF HearAck, GrantsSafe
      <4>2. QED
        BY <3>1, <4>1 DEF FlightMode
    <3>3. CASE outcome.status = "Accepted" /\ command.command = "SetTelemetryPeriod"
      <4>1. ground' = [ground EXCEPT !.period = command.period_ms]
        BY <1>2, <3>3 DEF HearAck, GrantsSafe
      <4>2. command.period_ms \in Period
        BY <1>4, <3>3
      <4>3. QED
        BY <3>1, <4>1, <4>2
    <3>4. CASE /\ ~(outcome.status = "Accepted" /\ command.command = "EnterSafeMode")
               /\ ~(outcome.status = "Accepted" /\ command.command = "SetTelemetryPeriod")
      <4>1. ground' = ground
        BY <1>2, <3>4 DEF HearAck, GrantsSafe
      <4>2. QED
        BY <3>1, <4>1
    <3>5. QED
      BY <3>2, <3>3, <3>4
  <2>5. remaining' \in Int
    BY <1>1, <1>4, <1>6, PeriodPositive DEF TypeOK
  <2>6. mode' \in FlightMode /\ asked' \in BOOLEAN
    BY <1>1, <1>2, <1>5 DEF TypeOK, FlightMode, GrantsSafe
  <2>7. QED
    BY <1>1, <1>4, <2>1, <2>3, <2>4, <2>5, <2>6 DEF TypeOK
<1>8. Booting' /\ StreakCounts'
  BY <1>1 DEF Booting, StreakCounts
<1>9. ModeAgreesWithFaults'
  <2>1. CASE command.command = "EnterSafeMode"
    BY <1>1, <1>2, <1>3, <1>4, <2>1 DEF ModeAgreesWithFaults, GrantsSafe
  <2>2. CASE command.command # "EnterSafeMode"
    BY <1>1, <1>2, <1>4, <2>2 DEF ModeAgreesWithFaults, GrantsSafe
  <2>3. QED
    BY <2>1, <2>2
<1>10. TelemetryHonest'
  BY <1>2 DEF TelemetryHonest, Acknowledgement
<1>11. GroundPictureExact'
  <2>1. /\ ground.mode # "Unknown" => ground.mode = mode
        /\ ground.period = period
        /\ ground \in [mode : FlightMode \cup {"Unknown"}, period : Period]
    BY <1>1 DEF GroundPictureExact, TypeOK
  <2>2. CASE command.command = "EnterSafeMode"
    <3>1. ground' = [ground EXCEPT !.mode = "Safe"]
      BY <1>2, <1>4, <2>2 DEF HearAck, GrantsSafe
    <3>2. QED
      BY <1>4, <2>1, <2>2, <3>1 DEF GroundPictureExact
  <2>3. CASE command.command = "SetTelemetryPeriod" /\ outcome.status = "Accepted"
    <3>1. ground' = [ground EXCEPT !.period = command.period_ms]
      BY <1>2, <2>3 DEF HearAck, GrantsSafe
    <3>2. ground'.mode = ground.mode /\ ground'.period = period' /\ mode' = mode
      BY <1>4, <2>1, <2>3, <3>1
    <3>3. QED
      BY <2>1, <3>2 DEF GroundPictureExact
  <2>4. CASE /\ command.command # "EnterSafeMode"
             /\ ~(command.command = "SetTelemetryPeriod" /\ outcome.status = "Accepted")
    <3>1. ground' = ground
      BY <1>2, <2>4 DEF HearAck, GrantsSafe
    <3>2. QED
      BY <1>4, <2>1, <2>4, <3>1 DEF GroundPictureExact
  <2>5. QED
    BY <2>2, <2>3, <2>4
<1>12. DeadlineWithinPeriod' /\ LagBounded'
  <2>1. period' \in Nat
    BY <1>4, PeriodPositive
  <2>2. QED
    BY <1>1, <1>6, <2>1 DEF DeadlineWithinPeriod, LagBounded
<1>13. RecoverySpan'
  <2>1. CASE remaining' = remaining /\ period' = period
    BY <1>1, <2>1 DEF RecoverySpan, LongEnough
  <2>2. CASE remaining' = period'
    <3>1. /\ period' \in Nat /\ period' >= minimum_telemetry_period_ms /\ period' > 0
          /\ dwell \in Nat /\ minimum_telemetry_period_ms \in Nat
      BY <1>1, <1>4, PeriodPositive, PeriodAssumption DEF TypeOK
    <3>2. /\ dwell + period' > 0
          /\ dwell > 0 => dwell + period' > minimum_telemetry_period_ms
      <4> DEFINE p == period'
      <4>1. p \in Nat /\ p >= minimum_telemetry_period_ms /\ p > 0
        BY <3>1
      <4> HIDE DEF p
      <4>2. dwell + p > 0 /\ (dwell > 0 => dwell + p > minimum_telemetry_period_ms)
        BY <3>1, <4>1
      <4>3. QED
        BY <4>2 DEF p
    <3>3. dwell' + remaining' = dwell + period'
      BY <1>1, <2>2
    <3>4. QED
      BY <1>1, <3>2, <3>3 DEF RecoverySpan, LongEnough
  <2>3. QED
    BY <1>6, <2>1, <2>2
<1>14. QED
  BY <1>7, <1>8, <1>9, <1>10, <1>11, <1>12, <1>13 DEF IInv

(* The four things a sample can do.                                        *)
LEMMA SampleCases ==
  ASSUME TypeOK, ModeAgreesWithFaults, StreakCounts, SampleAndReport
  PROVE  \/ /\ Evaluate(ReadSensors) # {} /\ manager'.faulted /\ manager'.healthy_streak = 0
            /\ Evaluate(ReadSensors) \subseteq manager'.latched_faults
            /\ mode' = "Safe" /\ asked' = asked /\ healthy_run' = 0
         \/ /\ Evaluate(ReadSensors) = {} /\ ~manager.faulted /\ manager' = manager
            /\ mode' = mode /\ asked' = asked /\ healthy_run' = healthy_run
         \/ /\ Evaluate(ReadSensors) = {} /\ manager.faulted /\ healthy_run < 2
            /\ manager'.faulted /\ manager'.healthy_streak = healthy_run + 1
            /\ mode' = "Safe" /\ asked' = asked /\ healthy_run' = healthy_run + 1
         \/ /\ Evaluate(ReadSensors) = {} /\ manager.faulted /\ healthy_run = 2
            /\ ~manager'.faulted /\ manager'.latched_faults = {}
            /\ mode' = "Nominal" /\ asked' = FALSE /\ healthy_run' = 3
<1> DEFINE active == Evaluate(ReadSensors)
           outcome == Update(manager, active)
<1>1. /\ StreakCounts
      /\ manager' = outcome.manager
      /\ mode' = DispatchIfAny(outcome.event)
      /\ healthy_run' = CASE active # {} -> 0
                          [] active = {} /\ healthy_run < 3 -> healthy_run + 1
                          [] OTHER -> healthy_run
      /\ asked' = (asked /\ mode' # "Nominal")
  BY DEF SampleAndReport
<1>2. active \in SUBSET Fault /\ manager \in FaultManager
  BY DEF Evaluate, TypeOK
<1>3. /\ mode \in {"Safe", "Nominal"} /\ asked \in BOOLEAN
      /\ mode = IF manager.faulted \/ asked THEN "Safe" ELSE "Nominal"
      /\ healthy_run \in 0 .. 3
  BY DEF ModeAgreesWithFaults, TypeOK, SampleAndReport
<1> HIDE DEF active, outcome
<1>4. CASE active # {}
  <2>1. /\ outcome.manager.faulted /\ outcome.manager.healthy_streak = 0
        /\ outcome.manager.latched_faults = manager.latched_faults \cup active
        /\ outcome.event = IF manager.faulted THEN NoEvent ELSE "FaultDetected"
    BY <1>2, <1>4, UpdateFacts DEF outcome
  <2>2. mode' = "Safe"
    BY <1>1, <1>3, <2>1 DEF DispatchIfAny, Dispatch, NoEvent
  <2>3. healthy_run' = 0
    BY <1>1, <1>4
  <2>4. asked' = asked
    BY <1>1, <1>3, <2>2
  <2>5. QED
    BY <1>1, <1>4, <2>1, <2>2, <2>3, <2>4 DEF active
<1>5. CASE active = {} /\ ~manager.faulted
  <2>1. outcome = [manager |-> manager, event |-> NoEvent]
    BY <1>2, <1>5, UpdateFacts DEF outcome
  <2>2. mode' = mode /\ manager' = manager
    BY <1>1, <2>1 DEF DispatchIfAny
  <2>3. healthy_run = 3
    BY <1>1, <1>5 DEF StreakCounts
  <2>4. healthy_run' = healthy_run
    BY <1>1, <1>5, <2>3
  <2>5. asked' = asked
    BY <1>1, <1>3, <1>5, <2>2
  <2>6. QED
    BY <1>5, <2>2, <2>4, <2>5 DEF active
<1>6. CASE active = {} /\ manager.faulted /\ healthy_run < 2
  <2>1. manager.healthy_streak = healthy_run
    BY <1>1, <1>6 DEF StreakCounts
  <2>2. /\ outcome.manager.faulted
        /\ outcome.manager.healthy_streak = healthy_run + 1
        /\ outcome.event = NoEvent
    BY <1>2, <1>6, <2>1, UpdateFacts DEF outcome
  <2>3. mode' = "Safe"
    BY <1>1, <1>3, <1>6, <2>2 DEF DispatchIfAny
  <2>4. healthy_run' = healthy_run + 1
    BY <1>1, <1>3, <1>6
  <2>5. asked' = asked
    BY <1>1, <1>3, <2>3
  <2>6. QED
    BY <1>1, <1>6, <2>2, <2>3, <2>4, <2>5 DEF active
<1>7. CASE active = {} /\ manager.faulted /\ ~(healthy_run < 2)
  <2>1. manager.healthy_streak = healthy_run /\ healthy_run = 2
    BY <1>1, <1>3, <1>7 DEF StreakCounts
  <2>2. /\ ~outcome.manager.faulted /\ outcome.manager.latched_faults = {}
        /\ outcome.event = "HealthConfirmed"
    BY <1>2, <1>7, <2>1, UpdateFacts DEF outcome
  <2>3. mode' = "Nominal"
    BY <1>1, <1>3, <1>7, <2>2 DEF DispatchIfAny, Dispatch, NoEvent
  <2>4. healthy_run' = 3
    BY <1>1, <1>7, <2>1
  <2>5. asked' = FALSE
    BY <1>1, <2>3
  <2>6. QED
    BY <1>1, <1>7, <2>1, <2>2, <2>3, <2>4, <2>5 DEF active
<1>8. QED
  BY <1>4, <1>5, <1>6, <1>7

(* A sample with its fault handling, mode change and report keeps it.      *)
LEMMA SampleAndReportIInv ==
  ASSUME IInv, SampleAndReport
  PROVE  IInv'
<1> DEFINE active == Evaluate(ReadSensors)
           outcome == Update(manager, active)
<1>1. /\ TypeOK /\ ModeAgreesWithFaults /\ StreakCounts /\ TelemetryHonest
      /\ GroundPictureExact /\ DeadlineWithinPeriod /\ LagBounded /\ RecoverySpan
      /\ pc = "check" /\ pc' = "catchup" /\ remaining <= 0 /\ lag' = 0
      /\ period' = period /\ remaining' = remaining /\ script' = script
      /\ ready' = ready /\ rx' = rx
      /\ next_sample' = NextSample
      /\ next_sequence' = (next_sequence + 1) % SequenceModulus
  BY DEF IInv, SampleAndReport, SequenceAfterCapture
<1>2. /\ manager' = outcome.manager
      /\ mode' = DispatchIfAny(outcome.event)
      /\ downlink' = IF ready
                     THEN [kind |-> "telemetry", sequence |-> next_sequence,
                           mode |-> mode', readings |-> ReadSensors,
                           fault_mask |-> manager'.latched_faults]
                     ELSE downlink
      /\ healthy_run' = CASE active # {} -> 0
                          [] active = {} /\ healthy_run < 3 -> healthy_run + 1
                          [] OTHER -> healthy_run
      /\ dwell' = IF active # {} \/ healthy_run = 0 THEN 0 ELSE dwell
      /\ ground' = IF ready THEN [ground EXCEPT !.mode = mode'] ELSE ground
      /\ asked' = (asked /\ mode' # "Nominal")
  BY DEF SampleAndReport
<1>3. active \in SUBSET Fault /\ manager \in FaultManager
  BY <1>1 DEF Evaluate, TypeOK
<1>4. /\ mode \in {"Safe", "Nominal"} /\ asked \in BOOLEAN
      /\ mode = IF manager.faulted \/ asked THEN "Safe" ELSE "Nominal"
      /\ healthy_run \in 0 .. 3 /\ dwell \in Nat
  BY <1>1 DEF ModeAgreesWithFaults, TypeOK
<1> HIDE DEF active, outcome
<1>5. manager' \in FaultManager
  BY <1>2, <1>3, UpdateFacts DEF outcome
<1>6. \/ /\ active # {} /\ manager'.faulted /\ manager'.healthy_streak = 0
         /\ active \subseteq manager'.latched_faults
         /\ mode' = "Safe" /\ asked' = asked /\ healthy_run' = 0
      \/ /\ active = {} /\ ~manager.faulted /\ manager' = manager
         /\ mode' = mode /\ asked' = asked /\ healthy_run' = healthy_run
      \/ /\ active = {} /\ manager.faulted /\ healthy_run < 2
         /\ manager'.faulted /\ manager'.healthy_streak = healthy_run + 1
         /\ mode' = "Safe" /\ asked' = asked /\ healthy_run' = healthy_run + 1
      \/ /\ active = {} /\ manager.faulted /\ healthy_run = 2
         /\ ~manager'.faulted /\ manager'.latched_faults = {}
         /\ mode' = "Nominal" /\ asked' = FALSE /\ healthy_run' = 3
  BY <1>1, SampleCases DEF active
<1>7. mode' \in {"Safe", "Nominal"} /\ asked' \in BOOLEAN /\ healthy_run' \in 0 .. 3
  <2>1. mode' \in {"Safe", "Nominal"}
    BY <1>4, <1>6
  <2>2. asked' \in BOOLEAN
    BY <1>4, <1>6
  <2>3. healthy_run' \in 0 .. 3
    BY <1>4, <1>6
  <2>4. QED
    BY <2>1, <2>2, <2>3
<1>8. ModeAgreesWithFaults' /\ Booting'
  BY <1>1, <1>4, <1>6 DEF ModeAgreesWithFaults, Booting
<1>9. StreakCounts'
  BY <1>1, <1>4, <1>6 DEF StreakCounts
<1>10. TypeOK'
  <2>1. /\ ReadSensors \in UNION {{t[i] : i \in DOMAIN t} : t \in Scripts}
        /\ NextSample \in 0 .. (Len(script) - 1)
    BY <1>1, SensorFacts
  <2>2. manager'.latched_faults \in SUBSET Fault
    BY <1>5 DEF FaultManager
  <2>3. downlink' \in {NoFrame} \cup Telemetry \cup Ack
    <3>1. next_sequence \in 0 .. (SequenceModulus - 1) /\ mode' \in FlightMode
      BY <1>1, <1>7 DEF TypeOK, FlightMode
    <3>2. CASE ready
      BY <1>2, <2>1, <2>2, <3>1, <3>2 DEF Telemetry
    <3>3. CASE ~ready
      BY <1>1, <1>2, <3>3 DEF TypeOK
    <3>4. QED
      BY <3>2, <3>3
  <2>4. ground' \in [mode : FlightMode \cup {"Unknown"}, period : Period]
    BY <1>1, <1>2, <1>7 DEF TypeOK, FlightMode
  <2>5. next_sequence' \in 0 .. (SequenceModulus - 1)
    BY <1>1, BoundAssumption DEF TypeOK
  <2>6. dwell' \in Nat
    BY <1>2, <1>4
  <2>7. mode' \in FlightMode
    BY <1>7 DEF FlightMode
  <2>8. QED
    BY <1>1, <1>5, <1>7, <2>1, <2>3, <2>4, <2>5, <2>6, <2>7 DEF TypeOK
<1>11. TelemetryHonest'
  <2>1. CASE ready
    <3>1. /\ downlink'.readings = ReadSensors /\ downlink'.mode = mode'
          /\ downlink'.fault_mask = manager'.latched_faults
      BY <1>2, <2>1
    <3>2. active \subseteq manager'.latched_faults
      BY <1>6
    <3>3. mode' = "Nominal" => manager'.latched_faults = {}
      BY <1>1, <1>4, <1>6 DEF StreakCounts
    <3>4. QED
      BY <3>1, <3>2, <3>3 DEF TelemetryHonest, active
  <2>2. CASE ~ready
    BY <1>1, <1>2, <2>2 DEF TelemetryHonest
  <2>3. QED
    BY <2>1, <2>2
<1>12. GroundPictureExact'
  <2>1. ground \in [mode : FlightMode \cup {"Unknown"}, period : Period]
    BY <1>1 DEF TypeOK
  <2>2. CASE ready
    <3>1. ground'.mode = mode' /\ ground'.period = ground.period
      BY <1>2, <2>1, <2>2
    <3>2. QED
      BY <1>1, <3>1 DEF GroundPictureExact
  <2>3. CASE ~ready
    BY <1>1, <1>2, <2>3 DEF GroundPictureExact
  <2>4. QED
    BY <2>2, <2>3
<1>13. DeadlineWithinPeriod' /\ LagBounded'
  <2>1. remaining \in Int
    BY <1>1 DEF TypeOK
  <2>2. QED
    BY <1>1, <2>1 DEF DeadlineWithinPeriod, LagBounded
<1>14. RecoverySpan'
  <2> SUFFICES ASSUME manager'.faulted, healthy_run' \in {1, 2}
               PROVE  /\ healthy_run' = 1 => dwell' = lag'
                      /\ healthy_run' = 2 =>
                           /\ dwell' > 0
                           /\ LongEnough' \/ dwell' + remaining' > 0
    BY <1>1 DEF RecoverySpan
  <2>1. active = {} /\ manager.faulted /\ healthy_run' = healthy_run + 1
    BY <1>1, <1>4, <1>6 DEF StreakCounts
  <2>2. CASE healthy_run = 0
    BY <1>1, <1>2, <2>1, <2>2
  <2>3. CASE healthy_run = 1
    <3>1. dwell' = dwell /\ dwell \in Nat /\ remaining \in Int
          /\ minimum_telemetry_period_ms \in Nat /\ minimum_telemetry_period_ms > 0
      BY <1>1, <1>2, <1>4, <2>1, <2>3, PeriodAssumption DEF TypeOK
    <3>2. dwell > minimum_telemetry_period_ms \/ dwell + remaining > 0
      BY <1>1, <2>1, <2>3 DEF RecoverySpan, LongEnough
    <3>3. dwell > 0
      BY <1>1, <3>1, <3>2
    <3>4. QED
      BY <1>1, <2>1, <2>3, <3>1, <3>2, <3>3 DEF LongEnough
  <2>4. QED
    BY <1>4, <2>1, <2>2, <2>3
<1>15. QED
  BY <1>8, <1>9, <1>10, <1>11, <1>12, <1>13, <1>14 DEF IInv

(* One turn of the catch-up loop keeps it.                                 *)
LEMMA CatchUpIInv ==
  ASSUME IInv, CatchUp
  PROVE  IInv'
<1> USE DEF sensors, outputs, history
<1>1. /\ TypeOK /\ ModeAgreesWithFaults /\ StreakCounts /\ LagBounded /\ RecoverySpan
      /\ pc = "catchup" /\ remaining + lag <= 0
      /\ remaining \in Int /\ lag \in Nat /\ dwell \in Nat
      /\ healthy_run' = healthy_run /\ dwell' = dwell /\ manager' = manager
      /\ period' = period
      /\ \/ remaining + period + lag <= 0 /\ pc' = pc /\ lag' = lag
         \/ remaining + period + lag > 0 /\ pc' = "sleep" /\ lag' = 0
  BY DEF IInv, CatchUp, LagBounded, TypeOK, Period
<1>2. /\ remaining' = remaining + period
      /\ period \in Nat /\ period >= minimum_telemetry_period_ms
      /\ minimum_telemetry_period_ms \in Nat \ {0}
  BY PeriodPositive, PeriodAssumption DEF IInv, TypeOK, CatchUp
<1>3. TypeOK'
  BY <1>1, <1>2 DEF CatchUp, TypeOK
<1>4. Booting' /\ ModeAgreesWithFaults' /\ StreakCounts'
  BY <1>1 DEF CatchUp, Booting, ModeAgreesWithFaults, StreakCounts
<1>5. TelemetryHonest' /\ GroundPictureExact'
  BY DEF IInv, CatchUp, TelemetryHonest, GroundPictureExact
<1>6. DeadlineWithinPeriod'
  BY <1>1, <1>2 DEF DeadlineWithinPeriod
<1>7. LagBounded'
  BY <1>1, <1>2 DEF LagBounded
<1>8. RecoverySpan'
  <2>1. CASE LongEnough
    <3>1. LongEnough' /\ dwell > 0
      BY <1>1, <1>2, <2>1 DEF LongEnough
    <3>2. QED
      BY <1>1, <3>1 DEF RecoverySpan
  <2>2. CASE ~LongEnough
    <3>1. manager.faulted /\ healthy_run = 1 => dwell = lag
      BY <1>1, <2>2 DEF RecoverySpan
    <3>2. manager.faulted /\ healthy_run = 2 => dwell > 0 /\ dwell + remaining > 0
      BY <1>1, <2>2 DEF RecoverySpan
    <3>3. dwell + remaining > 0 => dwell + (remaining + period) > minimum_telemetry_period_ms
      BY <1>1, <1>2
    <3>4. CASE remaining + period + lag <= 0 /\ pc' = pc /\ lag' = lag
      <4>1. dwell + remaining > 0 => dwell + (remaining + period) > 0
        BY <1>1, <1>2
      <4>2. QED
        BY <1>1, <1>2, <3>1, <3>2, <3>4, <4>1 DEF RecoverySpan
    <3>5. CASE remaining + period + lag > 0 /\ pc' = "sleep" /\ lag' = 0
      <4>1. dwell = lag => dwell + (remaining + period) > 0
        BY <1>1, <1>2, <3>5
      <4>2. QED
        BY <1>1, <1>2, <3>1, <3>2, <3>3, <3>5, <4>1 DEF RecoverySpan
    <3>6. QED
      BY <1>1, <3>4, <3>5
  <2>3. QED
    BY <2>1, <2>2
<1>9. QED
  BY <1>3, <1>4, <1>5, <1>6, <1>7, <1>8 DEF IInv

(* A millisecond passing, at any point of the loop, keeps it.              *)
LEMMA ElapseIInv ==
  ASSUME IInv, Elapse
  PROVE  IInv'
<1> USE DEF sensors, outputs
<1>1. /\ TypeOK /\ ModeAgreesWithFaults /\ StreakCounts /\ LagBounded /\ RecoverySpan
      /\ pc # "boot" /\ pc' = pc /\ remaining \in Int /\ lag \in Nat /\ dwell \in Nat
      /\ period \in Nat
      /\ minimum_telemetry_period_ms \in Nat
      /\ healthy_run' = healthy_run /\ manager' = manager /\ period' = period
      /\ healthy_run \in 0 .. 3
  BY PeriodPositive, PeriodAssumption DEF IInv, TypeOK, Elapse
<1>2. /\ remaining' = remaining - 1
      /\ lag' = IF pc = "catchup" THEN lag + 1 ELSE lag
      /\ dwell' = IF healthy_run > 0 /\ dwell <= minimum_telemetry_period_ms
                  THEN dwell + 1 ELSE dwell
  BY DEF Elapse
<1>3. remaining' \in Int /\ lag' \in Nat /\ dwell' \in Nat
  BY <1>1, <1>2
<1>4. TypeOK'
  BY <1>1, <1>3 DEF Elapse, TypeOK
<1>5. Booting' /\ ModeAgreesWithFaults' /\ StreakCounts'
  BY <1>1 DEF Elapse, Booting, ModeAgreesWithFaults, StreakCounts
<1>6. TelemetryHonest' /\ GroundPictureExact'
  BY DEF IInv, Elapse, TelemetryHonest, GroundPictureExact
<1>7. DeadlineWithinPeriod'
  BY <1>1, <1>2 DEF IInv, DeadlineWithinPeriod
<1>8. LagBounded'
  BY <1>1, <1>2 DEF LagBounded
<1>9. RecoverySpan'
  <2>1. CASE healthy_run \notin {1, 2}
    BY <1>1, <2>1 DEF RecoverySpan
  <2>2. CASE healthy_run \in {1, 2} /\ LongEnough
    <3>1. dwell' = dwell
      BY <1>1, <1>2, <2>2 DEF LongEnough
    <3>2. LongEnough' /\ dwell' > 0
      BY <1>1, <2>2, <3>1 DEF LongEnough
    <3>3. QED
      BY <1>1, <3>2 DEF RecoverySpan
  <2>3. CASE healthy_run \in {1, 2} /\ ~LongEnough
    <3>1. dwell' = dwell + 1
      BY <1>1, <1>2, <2>3 DEF LongEnough
    <3>2. dwell' + remaining' = dwell + remaining /\ dwell' > 0
      BY <1>1, <1>2, <3>1
    <3>3. pc = "catchup" /\ dwell = lag => dwell' = lag'
      BY <1>2, <3>1
    <3>4. QED
      BY <1>1, <2>3, <3>2, <3>3 DEF RecoverySpan
  <2>4. QED
    BY <2>1, <2>2, <2>3
<1>10. QED
  BY <1>4, <1>5, <1>6, <1>7, <1>8, <1>9 DEF IInv

(* Every step keeps the invariant.                                         *)
LEMMA NextIInv ==
  ASSUME IInv, [Next]_vars
  PROVE  IInv'
<1>1. CASE Boot
  BY <1>1, BootIInv
<1>2. CASE IgnoreDamaged
  <2>1. rx \in Seq(Commands \cup {Damaged}) /\ rx # <<>> /\ rx' = Tail(rx)
    BY <1>2 DEF IInv, TypeOK, IgnoreDamaged
  <2>2. rx' \in Seq(Commands \cup {Damaged})
    BY <2>1, HeadTailProperties
  <2>3. QED
    BY <1>2, <2>2, QuietIInv DEF IgnoreDamaged
<1>3. ASSUME NEW command \in Commands, HandleCommand(command) PROVE IInv'
  BY <1>3, HandleCommandIInv
<1>4. CASE Drained \/ NotDue \/ Wake
  <2>1. rx' \in Seq(Commands \cup {Damaged})
    BY <1>4 DEF IInv, TypeOK, Drained, NotDue, Wake
  <2>2. pc \in {"drain", "check", "sleep"} /\ pc' \in {"drain", "check", "sleep"}
    BY <1>4 DEF Drained, NotDue, Wake
  <2>3. QED
    BY <1>4, <2>1, <2>2, QuietIInv DEF Drained, NotDue, Wake
<1>5. CASE SampleAndReport
  BY <1>5, SampleAndReportIInv
<1>6. CASE CatchUp
  BY <1>6, CatchUpIInv
<1>7. CASE Elapse
  BY <1>7, ElapseIInv
<1>8. ASSUME NEW event \in Commands \cup {Damaged}, Arrive(event) PROVE IInv'
  <2>1. rx' \in Seq(Commands \cup {Damaged})
    BY <1>8, AppendProperties DEF IInv, TypeOK, Arrive
  <2>2. QED
    BY <1>8, <2>1, QuietIInv DEF Arrive
<1>9. CASE UNCHANGED vars
  <2>1. rx' \in Seq(Commands \cup {Damaged})
    BY <1>9 DEF IInv, TypeOK, vars
  <2>2. QED
    BY <1>9, <2>1, QuietIInv DEF vars, sensors, outputs, history
<1>10. QED
  BY <1>1, <1>2, <1>3, <1>4, <1>5, <1>6, <1>7, <1>8, <1>9
  DEF Next, Main, HandleEvent

(* Every reachable state of the flight computer satisfies the inductive    *)
(* invariant.                                                              *)
THEOREM Invariance == Spec => []IInv
<1>1. Init => IInv
  BY InitIInv
<1>2. IInv /\ [Next]_vars => IInv'
  BY NextIInv
<1>3. QED
  BY <1>1, <1>2, PTL DEF Spec

-----------------------------------------------------------------------------
(* The properties, for every sensor table, command set and period range.   *)

(* The variables keep their types.                                         *)
THEOREM TypeCorrect == Spec => []TypeOK
  BY Invariance, PTL DEF IInv

(* Mode, latched faults and ground requests never drift apart.             *)
THEOREM ModeFollowsFaults == Spec => []ModeAgreesWithFaults
  BY Invariance, PTL DEF IInv

(* Nominal stands on three healthy samples and no latched fault.           *)
THEOREM NominalEarned == Spec => []NominalIsEarned
<1>1. IInv => NominalIsEarned
  BY DEF IInv, Booting, ModeAgreesWithFaults, StreakCounts, NominalIsEarned
<1>2. QED
  BY <1>1, Invariance, PTL

(* No telemetry frame contradicts itself.                                  *)
THEOREM TelemetryIsHonest == Spec => []TelemetryHonest
  BY Invariance, PTL DEF IInv

(* What the ground was told is what holds.                                 *)
THEOREM GroundIsInformed == Spec => []GroundPictureExact
  BY Invariance, PTL DEF IInv

(* The next telemetry is at most one period in force away.                 *)
THEOREM DeadlineBounded == Spec => []DeadlineWithinPeriod
  BY Invariance, PTL DEF IInv

(* No step but a third healthy sample enters Nominal, and that one comes   *)
(* more than the shortest period after the first.                          *)
THEOREM RecoveryIsSlow == Spec => RecoveryTakesTime
<1>1. IInv /\ [Next]_vars =>
        [mode = "Safe" /\ mode' = "Nominal" => dwell > minimum_telemetry_period_ms]_vars
  <2> SUFFICES ASSUME IInv, Next, mode = "Safe", mode' = "Nominal"
               PROVE  dwell > minimum_telemetry_period_ms
    OBVIOUS
  <2>1. CASE SampleAndReport
    <3>1. /\ TypeOK /\ StreakCounts /\ RecoverySpan /\ ModeAgreesWithFaults
          /\ pc = "check" /\ remaining <= 0
          /\ mode' = DispatchIfAny(Update(manager, Evaluate(ReadSensors)).event)
      BY <2>1 DEF IInv, SampleAndReport
    <3>2. /\ Evaluate(ReadSensors) \in SUBSET Fault /\ manager \in FaultManager
          /\ healthy_run \in 0 .. 3
      BY <3>1 DEF TypeOK, Evaluate
    <3>3. Update(manager, Evaluate(ReadSensors)).event = "HealthConfirmed"
      BY <3>1 DEF DispatchIfAny, Dispatch
    <3>4. Evaluate(ReadSensors) = {} /\ manager.faulted /\ ~(manager.healthy_streak < 2)
      BY <3>2, <3>3, UpdateFacts DEF NoEvent
    <3>5. healthy_run = 2
      BY <3>1, <3>2, <3>4 DEF StreakCounts
    <3>6. LongEnough \/ dwell + remaining > minimum_telemetry_period_ms
      BY <3>1, <3>4, <3>5 DEF RecoverySpan
    <3>7. dwell \in Nat /\ remaining \in Int /\ minimum_telemetry_period_ms \in Nat
      BY <3>1, PeriodAssumption DEF TypeOK
    <3>8. QED
      BY <3>1, <3>6, <3>7 DEF LongEnough
  <2>2. ASSUME NEW command \in Commands, HandleCommand(command) PROVE FALSE
    <3>1. /\ mode' = Process(command, mode, period).mode
          /\ period \in Period
      BY <2>2 DEF IInv, TypeOK, HandleCommand
    <3>2. Process(command, mode, period).mode = "Safe"
      BY <3>1, ProcessFacts
    <3>3. QED
      BY <3>1, <3>2
  <2>3. CASE Boot
    BY <2>3 DEF Boot, Dispatch
  <2>4. QED
    BY <2>1, <2>2, <2>3
    DEF Next, Main, HandleEvent, IgnoreDamaged, Drained, NotDue, CatchUp, Wake,
        Arrive, Elapse
<1>2. QED
  BY <1>1, Invariance, PTL DEF Spec, RecoveryTakesTime

(* A granted Safe mode is left only at the third healthy sample after a    *)
(* fault, and at once then.                                                *)
THEOREM SafeHolds == Spec => CommandedSafeHolds
<1> DEFINE Kept == IF manager.faulted
                   THEN mode' = "Nominal" <=> healthy_run' = required_healthy_samples
                   ELSE mode' = "Safe"
<1>1. IInv /\ [Next]_vars => [asked => Kept]_vars
  <2> SUFFICES ASSUME IInv, Next, asked PROVE Kept
    OBVIOUS
  <2>1. /\ pc # "boot" /\ mode = "Safe" /\ period \in Period
        /\ healthy_run \in 0 .. 3
        /\ manager.faulted => healthy_run < 3
    BY DEF IInv, Booting, ModeAgreesWithFaults, StreakCounts, TypeOK
  <2>2. CASE SampleAndReport
    <3>1. TypeOK /\ ModeAgreesWithFaults /\ StreakCounts
      BY DEF IInv
    <3>2. \/ mode' = "Safe" /\ healthy_run' = 0
          \/ ~manager.faulted /\ mode' = mode
          \/ /\ manager.faulted /\ healthy_run < 2
             /\ mode' = "Safe" /\ healthy_run' = healthy_run + 1
          \/ manager.faulted /\ mode' = "Nominal" /\ healthy_run' = 3
      BY <2>2, <3>1, SampleCases
    <3>3. CASE ~manager.faulted
      BY <2>1, <3>2, <3>3
    <3>4. CASE manager.faulted /\ mode' = "Safe" /\ healthy_run' # 3
      BY <3>4 DEF required_healthy_samples
    <3>5. CASE manager.faulted /\ mode' = "Nominal" /\ healthy_run' = 3
      BY <3>5 DEF required_healthy_samples
    <3> HIDE DEF Kept
    <3>6. QED
      BY <2>1, <3>2, <3>3, <3>4, <3>5
  <2>3. ASSUME NEW command \in Commands, HandleCommand(command) PROVE Kept
    <3>1. mode' = Process(command, mode, period).mode /\ healthy_run' = healthy_run
      BY <2>3 DEF HandleCommand
    <3>2. Process(command, mode, period).mode = "Safe"
      BY <2>1, ProcessFacts
    <3>3. QED
      BY <2>1, <3>1, <3>2 DEF required_healthy_samples
  <2>4. CASE mode' = mode /\ healthy_run' = healthy_run
    BY <2>1, <2>4 DEF required_healthy_samples
  <2>5. QED
    BY <2>1, <2>2, <2>3, <2>4
    DEF Next, Main, HandleEvent, Boot, IgnoreDamaged, Drained, NotDue, CatchUp, Wake,
        Arrive, Elapse, history
<1>2. QED
  BY <1>1, Invariance, PTL DEF Spec, CommandedSafeHolds

-----------------------------------------------------------------------------
(* The refinement.                                                         *)

(* A step that leaves mode, manager, healthy_run and asked alone stutters.  *)
LEMMA Stutters ==
  ASSUME UNCHANGED <<mode, manager, healthy_run, asked>>
  PROVE  UNCHANGED <<mode, Reason, healthy_run>>
  BY DEF Reason

(* Every sample is a sample of the contract or invisible.                  *)
LEMMA SampleRefines ==
  ASSUME IInv, SampleAndReport
  PROVE  Contract!Next \/ UNCHANGED <<mode, Reason, healthy_run>>
<1>1. /\ TypeOK /\ ModeAgreesWithFaults /\ StreakCounts /\ pc = "check"
      /\ healthy_run \in 0 .. 3
  BY DEF IInv, TypeOK, SampleAndReport
<1>2. mode \in {"Safe", "Nominal"} /\ asked \in BOOLEAN
  BY <1>1 DEF ModeAgreesWithFaults, TypeOK
<1>3. \/ healthy_run' = 0 /\ mode' = "Safe" /\ manager'.faulted
      \/ mode' = mode /\ manager' = manager /\ asked' = asked /\ healthy_run' = healthy_run
      \/ /\ manager.faulted /\ healthy_run < 2
         /\ manager'.faulted /\ mode' = "Safe" /\ healthy_run' = healthy_run + 1
      \/ /\ manager.faulted /\ healthy_run = 2
         /\ ~manager'.faulted /\ mode' = "Nominal" /\ asked' = FALSE /\ healthy_run' = 3
  BY <1>1, SampleCases, Zenon
<1>4. CASE healthy_run' = 0 /\ mode' = "Safe" /\ manager'.faulted
  BY <1>2, <1>4 DEF Reason, Contract!Next, Contract!UnhealthySample
<1>5. CASE mode' = mode /\ manager' = manager /\ asked' = asked /\ healthy_run' = healthy_run
  <2>1. UNCHANGED <<mode, manager, healthy_run, asked>>
    BY <1>5, Zenon
  <2>2. QED
    BY <2>1, Stutters
<1>6. CASE /\ manager.faulted /\ healthy_run < 2
           /\ manager'.faulted /\ mode' = "Safe" /\ healthy_run' = healthy_run + 1
  <2>1. mode = "Safe" /\ Reason = "fault" /\ Reason' = "fault"
    BY <1>1, <1>6 DEF Reason, ModeAgreesWithFaults
  <2>2. healthy_run + 1 # 3 /\ healthy_run < 3
    BY <1>1, <1>6
  <2>3. QED
    BY <1>6, <2>1, <2>2
    DEF Contract!Next, Contract!HealthySample, required_healthy_samples
<1>7. CASE /\ manager.faulted /\ healthy_run = 2
           /\ ~manager'.faulted /\ mode' = "Nominal" /\ asked' = FALSE /\ healthy_run' = 3
  <2>1. mode = "Safe" /\ Reason = "fault" /\ Reason' = "none"
    BY <1>1, <1>7 DEF Reason, ModeAgreesWithFaults
  <2>2. QED
    BY <1>7, <2>1
    DEF Contract!Next, Contract!HealthySample, required_healthy_samples
<1>8. QED
  BY <1>3, <1>4, <1>5, <1>6, <1>7

(* Every command is a ground request in Nominal or invisible: a grant in   *)
(* Safe gives no new reason to be there.                                   *)
LEMMA CommandRefines ==
  ASSUME IInv, NEW command \in Commands, HandleCommand(command)
  PROVE  Contract!Next \/ UNCHANGED <<mode, Reason, healthy_run>>
<1> DEFINE outcome == Process(command, mode, period)
<1>1. /\ ModeAgreesWithFaults /\ pc = "drain" /\ period \in Period /\ asked \in BOOLEAN
      /\ manager' = manager /\ healthy_run' = healthy_run
      /\ mode' = outcome.mode
      /\ asked' = (asked \/ GrantsSafe(command, outcome.status))
  BY DEF IInv, TypeOK, HandleCommand
<1>2. /\ mode \in {"Safe", "Nominal"}
      /\ mode = IF manager.faulted \/ asked THEN "Safe" ELSE "Nominal"
  BY <1>1 DEF ModeAgreesWithFaults
<1>3. \/ mode' = mode /\ asked' = asked
      \/ mode' = "Safe" /\ asked'
  <2>1. /\ command.command = "EnterSafeMode" =>
             outcome.status = "Accepted" /\ outcome.mode = "Safe"
        /\ command.command # "EnterSafeMode" => outcome.mode = mode
    BY <1>1, <1>2, ProcessFacts
  <2> HIDE DEF outcome
  <2>2. CASE command.command = "EnterSafeMode"
    BY <1>1, <2>1, <2>2 DEF GrantsSafe
  <2>3. CASE command.command # "EnterSafeMode"
    <3>1. ~GrantsSafe(command, outcome.status)
      BY <2>3 DEF GrantsSafe
    <3>2. asked' = asked
      BY <1>1, <3>1, Zenon
    <3>3. QED
      BY <1>1, <2>1, <2>3, <3>2
  <2>4. QED
    BY <2>2, <2>3
<1>4. CASE mode' = mode /\ asked' = asked
  <2>1. UNCHANGED <<mode, manager, healthy_run, asked>>
    BY <1>1, <1>4
  <2>2. QED
    BY <2>1, Stutters
<1>5. CASE mode' = "Safe" /\ asked' /\ manager.faulted
  <2>1. mode = "Safe"
    BY <1>2, <1>5
  <2>2. QED
    BY <1>1, <1>5, <2>1 DEF Reason
<1>6. CASE mode' = "Safe" /\ asked' /\ ~manager.faulted /\ asked
  <2>1. mode = "Safe"
    BY <1>2, <1>6
  <2>2. QED
    BY <1>1, <1>6, <2>1 DEF Reason
<1>7. CASE mode' = "Safe" /\ asked' /\ ~manager.faulted /\ ~asked
  <2>1. mode = "Nominal" /\ Reason' = "ground"
    BY <1>1, <1>2, <1>7 DEF Reason
  <2>2. QED
    BY <1>1, <1>7, <2>1 DEF Contract!Next, Contract!GroundRequest
<1>8. QED
  BY <1>3, <1>4, <1>5, <1>6, <1>7

(* The whole main loop, with its monitor, latch, state machine, commands,  *)
(* deadline and catching up, implements the contract of ModeContract.      *)
THEOREM ContractImplemented == Spec => ImplementsContract
<1>1. Init => Contract!Init
  BY DEF Init, Contract!Init, Reason
<1>2. IInv /\ [Next]_vars => [Contract!Next]_<<mode, Reason, healthy_run>>
  <2> SUFFICES ASSUME IInv, [Next]_vars
               PROVE  [Contract!Next]_<<mode, Reason, healthy_run>>
    OBVIOUS
  <2>1. CASE Boot
    <3>1. mode = "Boot" /\ mode' = "Safe" /\ manager' = manager /\ asked' = asked
          /\ healthy_run' = healthy_run
      BY <2>1 DEF IInv, Booting, Boot, Dispatch, history
    <3>2. QED
      BY <3>1 DEF Reason, Contract!Next, Contract!Boot
  <2>2. ASSUME NEW command \in Commands, HandleCommand(command)
        PROVE  [Contract!Next]_<<mode, Reason, healthy_run>>
    BY <2>2, CommandRefines
  <2>3. CASE SampleAndReport
    BY <2>3, SampleRefines
  <2>4. CASE \/ IgnoreDamaged \/ Drained \/ NotDue \/ CatchUp \/ Wake \/ Elapse
             \/ \E event \in Commands \cup {Damaged} : Arrive(event)
             \/ UNCHANGED vars
    <3>1. UNCHANGED <<mode, manager, healthy_run, asked>>
      BY <2>4 DEF IgnoreDamaged, Drained, NotDue, CatchUp, Wake, Elapse, Arrive,
                  history, vars
    <3>2. QED
      BY <3>1, Stutters
  <2>5. QED
    BY <2>1, <2>2, <2>3, <2>4 DEF Next, Main, HandleEvent
<1>3. QED
  BY <1>1, <1>2, Invariance, PTL DEF Spec, ImplementsContract, Contract!Spec
=============================================================================
