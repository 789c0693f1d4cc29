---------------------------- MODULE JtagService ----------------------------
(***************************************************************************)
(* What the pin driver promises its callers: each call happens to the       *)
(* target at once.  jtag_goto_state leaves the TAP where it says whatever   *)
(* the TAP did before; a shift applies its whole TMS and TDI strings and    *)
(* hands back the TDO string, packed in bytes.                              *)
(***************************************************************************)
EXTENDS JtagCalls

CONSTANT ByteBits   \* bits in a byte of TDO data: 8 in the code

VARIABLES
  driven,    \* the probe's pins are outputs
  target,    \* the target's TAP and scan register
  tdo_data   \* the TDO bytes of the last call

vars == <<driven, target, tdo_data>>

\* The states jtag_goto_state can stop in; a request for any other ends in
\* Run-Test/Idle ("simplified: uses full reset + path").
Landing(s) ==
  IF s \in {"TAP_DR_SELECT", "TAP_IR_SELECT", "TAP_IR_CAPTURE", "TAP_IR_SHIFT"}
    THEN s ELSE "TAP_IDLE"

\* A bit string cut in bytes, low bit first, the last one filled with zeros.
Packed(bits) ==
  [ k \in 1 .. ((Len(bits) + ByteBits - 1) \div ByteBits) |->
      [ j \in 1..ByteBits |->
          LET i == (k - 1) * ByteBits + j IN IF i <= Len(bits) THEN bits[i] ELSE 0 ] ]

Init == driven = FALSE /\ target \in PowerUpTargets /\ tdo_data = <<>>

\* jtag_gpio_init puts the pins in charge without a clock edge.
Connect == driven' = TRUE /\ tdo_data' = <<>> /\ UNCHANGED target

ResetTarget == tdo_data' = <<>> /\ UNCHANGED <<driven, target>>

Goto(s) ==
  /\ driven
  /\ target'.tap = Landing(s)
  /\ Landing(s) = "TAP_IR_SHIFT" => target'.sr = IrCapture
  /\ tdo_data' = <<>>
  /\ UNCHANGED driven

\* The strings of the call c, with TDI held at `level` when c carries no data.
Apply(c, level) ==
  LET tdi == IF c.op \in DataOps THEN c.tdi ELSE [i \in 1..Len(c.tms) |-> level]
      r   == Scan(target, c.tms, tdi)
  IN  /\ driven
      /\ target' = r.t
      /\ tdo_data' = IF c.cap THEN Packed(r.tdo) ELSE <<>>
      /\ UNCHANGED driven

\* Before the first jtag_gpio_init no call reaches the target, and the bits
\* read are whatever the input register shows.
NotConnected(c) ==
  /\ ~driven
  /\ \E bits \in [1..Len(c.tdi) -> Bit] : tdo_data' = IF c.cap THEN Packed(bits) ELSE <<>>
  /\ UNCHANGED <<driven, target>>

Next ==
  \/ Connect
  \/ ResetTarget
  \/ \E s \in GotoTargets : Goto(s)
  \/ \E c \in Calls, level \in Bit : c.op \in DataOps \cup {"tms"} /\ Apply(c, level)
  \/ \E c \in Calls : NotConnected(c)

Spec == Init /\ [][Next]_vars
============================================================================
