---------------------------- MODULE JtagTarget -----------------------------
(***************************************************************************)
(* The device on the other end of the JTAG cable, as far as the probe can   *)
(* tell: a TAP and the scan register between TDI and TDO.  It is not part   *)
(* of the firmware; the model follows how jtag_driver.c and dap_main.c      *)
(* drive and sample it.  One register stands for the instruction and the    *)
(* data register: no path leads from one scan column to the other without   *)
(* passing a capture, which reloads it.                                     *)
(***************************************************************************)
EXTENDS TapController, Integers, Sequences

CONSTANTS
  IrCapture,   \* what the target loads in Capture-IR
  DrCapture    \* what the target loads in Capture-DR

NonEmptyBits == { s \in Seq(Bit) : Len(s) > 0 }

ASSUME CaptureAssumption == IrCapture \in NonEmptyBits /\ DrCapture \in NonEmptyBits

\* The target after a rising TCK edge that finds these TMS and TDI levels.
RisingEdge(t, tms, tdi) ==
  [ tap |-> TapStep(t.tap, tms),
    sr  |-> CASE t.tap = "TAP_IR_CAPTURE" -> IrCapture
              [] t.tap = "TAP_DR_CAPTURE" -> DrCapture
              [] t.tap \in ShiftStates    -> Append(Tail(t.sr), tdi)
              [] OTHER                    -> t.sr ]

\* The level on the TDO wire after a falling edge: outside the shift states
\* the target lets go of it and the probe's pull-up holds it high.
TdoLevel(t) == IF t.tap \in ShiftStates THEN Head(t.sr) ELSE 1

\* Target and TDO string after n clock cycles with these TMS and TDI strings.
Scan(t, tms, tdi) ==
  LET run[k \in 0..Len(tms)] ==
        IF k = 0 THEN [t |-> t, tdo |-> <<>>]
        ELSE LET p == run[k - 1] IN
             [t |-> RisingEdge(p.t, tms[k], tdi[k]), tdo |-> Append(p.tdo, TdoLevel(p.t))]
  IN  run[Len(tms)]

\* A target the probe may meet when it is plugged in: any TAP state.
PowerUpTargets ==
  [tap : TapStates \ {"TAP_IR_SHIFT"}, sr : {DrCapture}]
    \cup [tap : {"TAP_IR_SHIFT"}, sr : {IrCapture}]
============================================================================
