--------------------------- MODULE TapController ---------------------------
(***************************************************************************)
(* The sixteen states of the target's JTAG test access port (TAP) and the   *)
(* move each rising TCK edge makes, chosen by the TMS level.  The state     *)
(* names are those of jtag_tap_state_t in jtag_driver.c.  The automaton     *)
(* itself lives in the target (IEEE 1149.1), outside the firmware.          *)
(***************************************************************************)

Bit == {0, 1}

TapStates ==
  { "TAP_RESET", "TAP_IDLE",
    "TAP_DR_SELECT", "TAP_DR_CAPTURE", "TAP_DR_SHIFT", "TAP_DR_EXIT1",
    "TAP_DR_PAUSE", "TAP_DR_EXIT2", "TAP_DR_UPDATE",
    "TAP_IR_SELECT", "TAP_IR_CAPTURE", "TAP_IR_SHIFT", "TAP_IR_EXIT1",
    "TAP_IR_PAUSE", "TAP_IR_EXIT2", "TAP_IR_UPDATE" }

ShiftStates == {"TAP_DR_SHIFT", "TAP_IR_SHIFT"}

\* The successor of each state when TMS is high at the rising edge.
OnOne ==
  [ TAP_RESET      |-> "TAP_RESET",     TAP_IDLE       |-> "TAP_DR_SELECT",
    TAP_DR_SELECT  |-> "TAP_IR_SELECT", TAP_DR_CAPTURE |-> "TAP_DR_EXIT1",
    TAP_DR_SHIFT   |-> "TAP_DR_EXIT1",  TAP_DR_EXIT1   |-> "TAP_DR_UPDATE",
    TAP_DR_PAUSE   |-> "TAP_DR_EXIT2",  TAP_DR_EXIT2   |-> "TAP_DR_UPDATE",
    TAP_DR_UPDATE  |-> "TAP_DR_SELECT",
    TAP_IR_SELECT  |-> "TAP_RESET",     TAP_IR_CAPTURE |-> "TAP_IR_EXIT1",
    TAP_IR_SHIFT   |-> "TAP_IR_EXIT1",  TAP_IR_EXIT1   |-> "TAP_IR_UPDATE",
    TAP_IR_PAUSE   |-> "TAP_IR_EXIT2",  TAP_IR_EXIT2   |-> "TAP_IR_UPDATE",
    TAP_IR_UPDATE  |-> "TAP_DR_SELECT" ]

\* The successor of each state when TMS is low at the rising edge.
OnZero ==
  [ TAP_RESET      |-> "TAP_IDLE",       TAP_IDLE       |-> "TAP_IDLE",
    TAP_DR_SELECT  |-> "TAP_DR_CAPTURE", TAP_DR_CAPTURE |-> "TAP_DR_SHIFT",
    TAP_DR_SHIFT   |-> "TAP_DR_SHIFT",   TAP_DR_EXIT1   |-> "TAP_DR_PAUSE",
    TAP_DR_PAUSE   |-> "TAP_DR_PAUSE",   TAP_DR_EXIT2   |-> "TAP_DR_SHIFT",
    TAP_DR_UPDATE  |-> "TAP_IDLE",
    TAP_IR_SELECT  |-> "TAP_IR_CAPTURE", TAP_IR_CAPTURE |-> "TAP_IR_SHIFT",
    TAP_IR_SHIFT   |-> "TAP_IR_SHIFT",   TAP_IR_EXIT1   |-> "TAP_IR_PAUSE",
    TAP_IR_PAUSE   |-> "TAP_IR_PAUSE",   TAP_IR_EXIT2   |-> "TAP_IR_SHIFT",
    TAP_IR_UPDATE  |-> "TAP_IDLE" ]

TapStep(s, tms) == IF tms = 1 THEN OnOne[s] ELSE OnZero[s]
============================================================================
