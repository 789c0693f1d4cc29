---------------------------- MODULE MCJtagDriver ---------------------------
(***************************************************************************)
(* A small instance of JtagDriver: bytes of two bits, a two-bit scan        *)
(* register, and strings that leave a byte empty, full and partly filled.   *)
(***************************************************************************)
EXTENDS JtagDriver

MCIrCapture == <<1, 0>>
MCDrCapture == <<0, 1>>
MCGotoTargets == {"TAP_IDLE", "TAP_DR_SELECT", "TAP_IR_SELECT",
                  "TAP_IR_CAPTURE", "TAP_IR_SHIFT", "TAP_DR_SHIFT"}
MCTmsStrings == {<<>>, <<0>>, <<1>>}
MCTdiStrings == {<<0, 1, 1>>}
============================================================================
