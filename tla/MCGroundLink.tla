---------------------------- MODULE MCGroundLink ----------------------------
(***************************************************************************)
(* Commands whose frames differ in length.  SetSyncPeriod: its period      *)
(* begins with the sync pair and has the checksum 23 in the frame with     *)
(* sequence 1: within a broken frame its last six bytes are the header of  *)
(* a frame that would have a payload of 23 bytes.  SetSlowPeriod: its      *)
(* frame with sequence 1 ends in the first sync byte, so that a fragment   *)
(* that lacks only this byte is completed by the command behind it.        *)
(***************************************************************************)
EXTENDS GroundLink

Request(command, period_ms) == [command |-> command, period_ms |-> period_ms]

Ping == Request("Ping", 0)
SetSyncPeriod == Request("SetTelemetryPeriod", 347298469)
SetSlowPeriod == Request("SetTelemetryPeriod", 314)

(* Without and with a command that can swallow the first byte of another.  *)
SomeRequests == {Ping, SetSyncPeriod}
Swallowing == {Ping, SetSyncPeriod, SetSlowPeriod}
=============================================================================
