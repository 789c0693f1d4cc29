------------------------------ MODULE DapProbe ------------------------------
(***************************************************************************)
(* The command processor and the target together: DapCommands, whose steps  *)
(* here make the calls of the pin driver that the handlers make, each of    *)
(* them at once as JtagService promises.  A DAP transfer is four calls for  *)
(* each word: to Shift-IR, the instruction, to Shift-DR, 35 bits of data;   *)
(* and a fifth back to Run-Test/Idle.                                       *)
(***************************************************************************)
EXTENDS DapCommands, JtagCalls

CONSTANT ByteBits   \* bits in a byte: 8

VARIABLES
  driven,     \* the probe's pins are outputs
  target,     \* external: the target's TAP and scan register
  tdo_data,   \* the TDO bytes of the last captured sequence
  scans       \* history: the TAP's state at each of this command's data scans

pins == <<driven, target, tdo_data>>
probe == <<vars, pins, scans>>

Jtag == INSTANCE JtagService

PinsQuiet == UNCHANGED <<pins, scans>>

ProbeInit == Init /\ Jtag!Init /\ scans = <<>>
----------------------------------------------------------------------------
\* The target after n cycles of jtag_goto_state(s), TDI held where it is.
Walked(t, s) ==
  Scan(t, SubSeq(WalkTms, 1, WalkLength(s)), [i \in 1..WalkLength(s) |-> 1]).t

\* ir_bits: 0x0A for the debug port, 0x0B for the access port.
IrBits(ap) == <<ap, 1, 0, 1>>

\* Bits of dr_tdi that are shifted; its word is stored in bits 9 to 40.
ScanBits == 1..35

\* dr_tdi: the start bit, A[3:2], RnW; the word from the next byte on.  The bits
\* the request chooses, address and word, are all x here.
DrBits(read, x) ==
  [ i \in ScanBits |-> CASE i = 1       -> 1
                         [] i = 4       -> read
                         [] i \in 5..8  -> 0
                         [] OTHER       -> x ]

\* Mutant: the way back to Run-Test/Idle is left out.
LeftThere(t) == t

BackToIdle(t) == Walked(t, "TAP_IDLE")

\* One word: where the data scan began, what came back, the target after it.
Word(t, ap, dr_tdi) ==
  LET loaded == Scan(Walked(t, "TAP_IR_SHIFT"), ShiftTms(4, TRUE), IrBits(ap)).t
      from   == Walked(loaded, "TAP_DR_SHIFT")
      scan   == Scan(from, ShiftTms(35, TRUE), dr_tdi)
  IN  [from |-> from.tap, dr_tdo |-> scan.tdo, after |-> BackToIdle(scan.t)]

\* Mutant: only the lowest acknowledge bit is looked at.
AcknowledgedLoosely(dr_tdo) == dr_tdo[2] = 1

\* Bits 1 to 3 of the first byte read are 0b001.
Acknowledged(dr_tdo) == dr_tdo[2] = 1 /\ dr_tdo[3] = 0 /\ dr_tdo[4] = 0

\* One word goes to or comes from the target; ok says how it was acknowledged.
\* Without pins the input register shows anything.
Transferred(read, ok) ==
  \/ /\ ~driven /\ UNCHANGED <<target, scans>>
  \/ /\ driven
     /\ \E ap, x \in Bit :
          LET w == Word(target, ap, DrBits(read, x))
          IN  /\ target' = w.after
              /\ ok = Acknowledged(w.dr_tdo)
              /\ scans' = Append(scans, w.from)
----------------------------------------------------------------------------
\* jtag_gpio_init and jtag_tap_reset.
ProbeConnect ==
  /\ Connect
  /\ IF req_len < 2
       THEN PinsQuiet
       ELSE /\ driven' = TRUE /\ target' = Walked(target, "TAP_IDLE")
            /\ tdo_data' = <<>> /\ UNCHANGED scans

\* DAP_SWJ_SEQUENCE clocks its TMS string; the other short commands leave the
\* target alone, DAP_RESET_TARGET but for SRST.
ProbeSimple ==
  /\ Simple
  /\ \/ PinsQuiet
     \/ /\ cmd = "DAP_SWJ_SEQUENCE" /\ req_len >= 2
        /\ \E tms \in TmsStrings, level \in Bit :
             Jtag!Apply(TmsCall(tms), level) \/ Jtag!NotConnected(TmsCall(tms))
        /\ UNCHANGED scans

\* One sequence of DAP_JTAG_SEQUENCE: as many bytes as its bits take up.
ProbeSequence ==
  /\ SequenceStep
  /\ \E tdi \in TdiStrings, tms \in Bit, cap \in BOOLEAN :
       /\ req_pos' = req_pos + 1 + (Len(tdi) + ByteBits - 1) \div ByteBits
       /\ (owed' # owed) = cap
       /\ \/ Jtag!Apply(SequenceCall(tdi, tms, cap), 0)
          \/ Jtag!NotConnected(SequenceCall(tdi, tms, cap))
  /\ UNCHANGED scans

\* DAP_TRANSFER looks at the acknowledgement of a read only.
ProbeTransfer ==
  /\ TransferTurn
  /\ \E ok \in BOOLEAN :
       \/ /\ TransferRead /\ Transferred(1, ok)
          /\ resp_status' = IF ok THEN resp_status ELSE "FAULT"
       \/ TransferWrite /\ Transferred(0, ok)
  /\ UNCHANGED <<driven, tdo_data>>

\* DAP_TRANSFER_BLOCK looks at none.
ProbeBlock ==
  /\ BlockStep
  /\ \E ok \in BOOLEAN : Transferred(IF rnw THEN 1 ELSE 0, ok)
  /\ UNCHANGED <<driven, tdo_data>>

ProbeCopy == Copy /\ scans' = <<>> /\ UNCHANGED pins

ProbeNext ==
  \/ ProbeConnect \/ ProbeSimple \/ ProbeSequence \/ ProbeTransfer \/ ProbeBlock \/ ProbeCopy
  \/ /\ \/ Receive \/ Info \/ Disconnect \/ SwjClk \/ BeginLoop
        \/ SequenceEnd \/ TransferEnd \/ BlockEnd
     /\ PinsQuiet

ProbeSpec == ProbeInit /\ [][ProbeNext]_probe
----------------------------------------------------------------------------
\* No word is answered as read without a fault unless it came through Shift-DR:
\* the bits clocked elsewhere read as ones, which is no acknowledgement.
NoFalseRead ==
  pc = "copy" /\ cmd = "DAP_TRANSFER" /\ resp_count > 0 /\ resp_status = "OK" =>
    \A i \in 1..Len(scans) : scans[i] = "TAP_DR_SHIFT"

\* Transfers leave the TAP in Run-Test/Idle for the raw sequences that follow,
\* whatever state they found it in.
TransferLeavesIdle == scans # <<>> => target.tap = "TAP_IDLE"

\* What the comment in dap_handle_transfer says of each word: "2. Go to DR-SHIFT,
\* shift the 35-bit transfer".
ScansDataRegister == \A i \in 1..Len(scans) : scans[i] = "TAP_DR_SHIFT"
=============================================================================
