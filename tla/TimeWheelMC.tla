---------------------------- MODULE TimeWheelMC ----------------------------
(* The timer wheel under names of its own, so that it can stand beside the   *)
(* sorted list, whose operations have the same names.                        *)

CONSTANTS N, SI, WheelTimers, Timeouts

VARIABLES slots, cur_slot, rotation, time_slot, asked

Wheel == INSTANCE TimeWheel WITH Timers <- WheelTimers

ASSUME WheelAssumption == Wheel!Parameters

WheelSpec == Wheel!Spec

(* The variables keep their types (lines 56 to 152): in particular every     *)
(* slot is one of the N, and no rotation falls below 0.                      *)
WheelTypeOK == Wheel!TypeOK

(* A timer is in no slot but the one it names (lines 94 to 112, 128).        *)
InOneSlot == Wheel!InOneSlot

(* The wheel implements the countdown: each callback runs on the tick that   *)
(* the timeout given to add_timer asks for (lines 60 to 71, 121 to 152).     *)
FiresOnItsTick == Wheel!FiresOnItsTick

=============================================================================
