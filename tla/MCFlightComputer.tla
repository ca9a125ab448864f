-------------------------- MODULE MCFlightComputer --------------------------
(***************************************************************************)
(* Small instances of FlightComputer: periods of 2 to 3 ticks, at most one *)
(* event waiting in the UART, a loop that may be up to 4 ticks late.       *)
(***************************************************************************)
EXTENDS FlightComputer

Good == Sample(7400, 2200, 320)
Flat == Sample(6999, 2200, 0)
Hot  == Sample(7000, 6001, 320)
Cold == Sample(7000, -1001, 0)

MixedScripts ==
  { <<Good, Good, Good, Flat, Hot>>,
    <<Good, Good, Cold, Good, Good, Good>>,
    <<Hot>> }
SimulatedScript == {SimulatedSamples}

Command(id, period_ms) == [sequence |-> 7, command |-> id, period_ms |-> period_ms]
Ping == Command("Ping", 0)
Safe == Command("EnterSafeMode", 0)
SetPeriod(period_ms) == Command("SetTelemetryPeriod", period_ms)

AllCommands == {Ping, Safe, SetPeriod(1), SetPeriod(2), SetPeriod(3), SetPeriod(4)}
QuietCommands == {Ping, Safe}
PeriodCommands == {SetPeriod(3)}
=============================================================================
