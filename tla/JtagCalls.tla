----------------------------- MODULE JtagCalls -----------------------------
(***************************************************************************)
(* The requests that make the firmware toggle the JTAG pins, as records:    *)
(* the calls of jtag_driver.c and the two pin loops dap_main.c runs itself  *)
(* (DAP_SWJ_SEQUENCE and one sequence of DAP_JTAG_SEQUENCE).                *)
(***************************************************************************)
EXTENDS JtagTarget

CONSTANTS
  GotoTargets,  \* the TAP states jtag_goto_state is asked for
  TmsStrings,   \* the TMS bit strings of DAP_SWJ_SEQUENCE
  TdiStrings    \* the TDI bit strings that are shifted

ASSUME CallAssumption ==
  /\ GotoTargets \subseteq TapStates
  /\ TmsStrings \subseteq Seq(Bit)
  /\ TdiStrings \subseteq Seq(Bit)

Call(op, state, tms, tdi, cap) ==
  [op |-> op, state |-> state, tms |-> tms, tdi |-> tdi, cap |-> cap]

NoCall == Call("none", "TAP_RESET", <<>>, <<>>, FALSE)

\* jtag_gpio_init, and the SRST pulse of DAP_RESET_TARGET.
InitCall  == Call("init", "TAP_RESET", <<>>, <<>>, FALSE)
ResetCall == Call("reset", "TAP_RESET", <<>>, <<>>, FALSE)

\* jtag_goto_state(s); for TAP_IDLE it does exactly what jtag_tap_reset does.
GotoCall(s) == Call("goto", s, <<>>, <<>>, FALSE)

\* The TMS-only loop of DAP_SWJ_SEQUENCE (jtag_clock_cycles with equal bits).
TmsCall(tms) == Call("tms", "TAP_RESET", tms, <<>>, FALSE)

\* jtag_shift_data: TMS is low but for the last bit, which carries last_tms.
ShiftTms(n, last) == [i \in 1..n |-> IF last /\ i = n THEN 1 ELSE 0]

ShiftCall(tdi, last, cap) ==
  Call("shift", "TAP_RESET", ShiftTms(Len(tdi), last), tdi, cap)

\* One sequence of DAP_JTAG_SEQUENCE: TMS holds one level throughout.
SequenceCall(tdi, tms, cap) ==
  Call("sequence", "TAP_RESET", [i \in 1..Len(tdi) |-> tms], tdi, cap)

\* Mutant: a reset of four ones, too short from some states.
WalkTmsShort == <<0, 0, 1, 1, 1, 1, 0, 1, 1, 0, 0, 1, 1, 0>>

\* jtag_goto_state: six ones and a zero (jtag_tap_reset), then one fixed walk.
WalkTms == <<1, 1, 1, 1, 1, 1, 0, 1, 1, 0, 0, 1, 1, 0>>

\* The cycle of the walk after which the call returns.
WalkLength(s) ==
  CASE s = "TAP_IDLE"       -> 7
    [] s = "TAP_DR_SELECT"  -> 8
    [] s = "TAP_IR_SELECT"  -> 9
    [] s = "TAP_IR_CAPTURE" -> 10
    [] s = "TAP_IR_SHIFT"   -> 11
    [] OTHER                -> 14

DataOps == {"shift", "sequence"}

Calls ==
  {InitCall, ResetCall}
    \cup { GotoCall(s) : s \in GotoTargets }
    \cup { TmsCall(tms) : tms \in TmsStrings }
    \cup { ShiftCall(tdi, last, cap) : tdi \in TdiStrings, last \in BOOLEAN, cap \in BOOLEAN }
    \cup { SequenceCall(tdi, tms, cap) : tdi \in TdiStrings, tms \in Bit, cap \in BOOLEAN }
============================================================================
