---------------------------- MODULE ModeContract ----------------------------
(***************************************************************************)
(* What the flight computer promises about its mode, without commands,     *)
(* deadlines, latches or streaks: the mode is a matter of why the computer *)
(* is in Safe.  A fault holds it there until enough healthy samples in a   *)
(* row, whatever the ground asks for meanwhile; a request of the ground    *)
(* counts in Nominal, and then holds until the next fault and the recovery *)
(* from it.                                                                *)
(***************************************************************************)
EXTENDS Naturals

CONSTANT Required \* healthy samples in a row that end a fault

VARIABLES
  mode,   \* "Boot", "Safe", "Nominal"
  reason, \* why it is not Nominal: "fault", "ground", "none"
  healthy \* healthy samples in a row, counted up to Required

Init == mode = "Boot" /\ reason = "fault" /\ healthy = 0

Boot == mode = "Boot" /\ mode' = "Safe" /\ UNCHANGED <<reason, healthy>>

UnhealthySample ==
  /\ mode # "Boot"
  /\ mode' = "Safe" /\ reason' = "fault" /\ healthy' = 0

HealthySample ==
  /\ mode # "Boot"
  /\ healthy' = IF healthy < Required THEN healthy + 1 ELSE healthy
  /\ IF reason = "fault" /\ healthy' = Required
     THEN mode' = "Nominal" /\ reason' = "none"
     ELSE UNCHANGED <<mode, reason>>

GroundRequest ==
  /\ mode = "Nominal"
  /\ mode' = "Safe" /\ reason' = "ground" /\ UNCHANGED healthy

Next == Boot \/ UnhealthySample \/ HealthySample \/ GroundRequest

Spec == Init /\ [][Next]_<<mode, reason, healthy>>
=============================================================================
