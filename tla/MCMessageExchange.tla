-------------------------- MODULE MCMessageExchange --------------------------
(***************************************************************************)
(* Messages at the edges of their fields, and foreign frames: payloads of  *)
(* each message, cut or lengthened or with an undefined code, under every  *)
(* type.  The assumptions are the known bytes of command_codec_test.cpp    *)
(* and telemetry_codec_test.cpp.                                           *)
(***************************************************************************)
EXTENDS MessageExchange, SequencesExt

Edges == {1, 2147483647}

SmallCommands ==
  [sequence : Edges, command : DOMAIN CommandCode \cup {"Undefined"},
   period_ms : {0, 250, 2147483647}]

SmallAcks ==
  [sequence : Edges, command : DOMAIN CommandCode \cup {"Undefined"},
   status : DOMAIN AckStatusCode \cup {"Undefined"}]

SmallTelemetry ==
  [sequence : {12}, uptime_ms : {<<0, 0, 0, 0>>, <<65535, 1, 256, 32768>>},
   flight_mode : DOMAIN FlightModeCode \cup {"Undefined"},
   battery_mv : {0, 65535}, solar_current_ma : {320},
   board_temperature_centi_c : {-32768, -1, 0, 32767},
   latched_fault_mask : {{}, {0, 2}, {3}, {31}}]

SomeTelemetry ==
  [sequence |-> 12, uptime_ms |-> <<5012, 0, 0, 0>>, flight_mode |-> "Nominal",
   battery_mv |-> 7500, solar_current_ma |-> 320,
   board_temperature_centi_c |-> -250, latched_fault_mask |-> {0}]

TelemetryPayload == TelemetryFrame(SomeTelemetry).payload

Payloads ==
  {<<>>, <<0>>, <<1>>, <<2>>, <<4>>, <<3>>, <<1, 0>>, <<3, 4>>, <<4, 0>>, <<0, 0>>,
   <<3, 1, 0, 0, 0>>, <<2, 1, 0, 0, 0>>, <<3, 1, 0, 0>>, <<3, 1, 0, 0, 0, 0>>,
   TelemetryPayload, Front(TelemetryPayload), Append(TelemetryPayload, 0),
   [TelemetryPayload EXCEPT ![9] = 3], [TelemetryPayload EXCEPT ![16] = 8],
   [TelemetryPayload EXCEPT ![19] = 128]}

SmallForeign == {MakeFrame(type, 7, payload) : type \in MessageType, payload \in Payloads}

ASSUME GoldenCommand ==
  EncodeCommand([sequence |-> 305419896, command |-> "SetTelemetryPeriod",
                 period_ms |-> 287454020]) =
    <<165, 90, 1, 16, 5, 0, 120, 86, 52, 18, 3, 68, 51, 34, 17, 235, 167>>

ASSUME GoldenAck ==
  EncodeAck([sequence |-> 305419896, command |-> "SetTelemetryPeriod",
             status |-> "InvalidArgument"]) =
    <<165, 90, 1, 17, 2, 0, 120, 86, 52, 18, 3, 2, 100, 151>>

ASSUME GoldenTelemetry ==
  EncodeTelemetry([sequence |-> 305419896, uptime_ms |-> <<1800, 1286, 772, 258>>,
                   flight_mode |-> "Safe", battery_mv |-> 7200,
                   board_temperature_centi_c |-> -1234, solar_current_ma |-> 300,
                   latched_fault_mask |-> {0, 2}]) =
    <<165, 90, 1, 1, 19, 0, 120, 86, 52, 18, 8, 7, 6, 5, 4, 3, 2, 1, 1,
      32, 28, 46, 251, 44, 1, 5, 0, 0, 0, 72, 118>>
=============================================================================
