----------------------------- MODULE JtagDriver ----------------------------
(***************************************************************************)
(* The bit-banging JTAG driver, one GPIO store or load at a time: a call    *)
(* sets TMS and TDI while TCK is low, raises TCK, reads TDO, lowers TCK,    *)
(* and packs what it read.  The target moves on the rising edge and changes *)
(* TDO on the falling one.  Calls run inside the USB interrupt, which       *)
(* nothing else that touches these pins can interrupt: one at a time.       *)
(***************************************************************************)
EXTENDS JtagCalls

CONSTANT
  ByteBits     \* bits in a byte of TDO data: 8 in the code

ASSUME DriverAssumption == ByteBits \in Nat \ {0}

VARIABLES
  odr,                \* output register: the levels of TCK, TMS, TDI, SRST
  driven,             \* the pins are outputs (GPIOB has its clock since boot)
  current_tap_state,
  call,               \* the call in progress
  at,                 \* its clock cycle, from 1
  stage,              \* its next step
  tdo_byte,           \* bits read into the byte being filled
  tdo_data,           \* bytes completed
  target,             \* external: TAP and scan register
  tdo,                \* external: the level on the TDO wire
  before              \* history: driven, target, tdo_data when the call began

pins   == <<odr, driven>>
buffer == <<tdo_byte, tdo_data>>
wire   == <<target, tdo>>
vars   == <<odr, driven, current_tap_state, call, at, stage,
            tdo_byte, tdo_data, target, tdo, before>>

----------------------------------------------------------------------------
\* What the code stores in current_tap_state after cycle i of the walk.
WalkMark(i, old) ==
  CASE i = 7  -> "TAP_IDLE"
    [] i = 8  -> "TAP_DR_SELECT"
    [] i = 9  -> "TAP_IR_SELECT"
    [] i = 10 -> "TAP_IR_CAPTURE"
    [] i = 11 -> "TAP_IR_SHIFT"
    [] i = 14 -> "TAP_IDLE"
    [] OTHER  -> old

Cycles(c) == IF c.op = "goto" THEN WalkLength(c.state) ELSE Len(c.tms)
TmsAt(c, i) == IF c.op = "goto" THEN WalkTms[i] ELSE c.tms[i]

\* The byte in progress after a bit was added to it.
Rest(byte) == IF Len(byte) = ByteBits THEN <<>> ELSE byte

ZeroFilled(byte) == [j \in 1..ByteBits |-> IF j <= Len(byte) THEN byte[j] ELSE 0]

\* Mutant: the bits of an unfinished byte are dropped.
FlushedNone(data, byte) == data

Flushed(data, byte) == IF byte = <<>> THEN data ELSE Append(data, ZeroFilled(byte))

\* Mutant: the clock is left high.
ClockStaysHigh(levels) == levels

ClockLow(levels) == [levels EXCEPT !.tck = 0]

NextCycle(i) == i + 1
----------------------------------------------------------------------------
Init ==
  /\ odr = [tck |-> 0, tms |-> 0, tdi |-> 0, srst |-> 0]
  /\ driven = FALSE
  /\ current_tap_state = "TAP_RESET"
  /\ call = NoCall /\ at = 1 /\ stage = "setup"
  /\ tdo_byte = <<>> /\ tdo_data = <<>>
  /\ target \in PowerUpTargets
  /\ tdo = TdoLevel(target)
  /\ before = [driven |-> driven, target |-> target, tdo_data |-> tdo_data]

Begin(c) ==
  /\ call = NoCall
  /\ call' = c
  /\ at' = 1
  /\ stage' = IF c.op \in {"init", "reset"} THEN c.op ELSE "setup"
  /\ tdo_byte' = <<>> /\ tdo_data' = <<>>
  /\ before' = [driven |-> driven, target |-> target, tdo_data |-> tdo_data]
  /\ UNCHANGED <<pins, current_tap_state, wire>>

----------------------------------------------------------------------------
\* jtag_gpio_init makes the pins outputs before it stores their levels.
InitPins ==
  /\ call.op = "init" /\ stage = "init"
  /\ driven' = TRUE
  /\ stage' = "levels"
  /\ UNCHANGED <<odr, current_tap_state, call, at, buffer, wire, before>>

\* Mutant: SRST left out of the second store.
InitialLevelsNoSrst == [tck |-> 0, tms |-> 1, tdi |-> 1, srst |-> odr.srst]

InitialLevels == [tck |-> 0, tms |-> 1, tdi |-> 1, srst |-> 1]

InitLevels ==
  /\ call.op = "init" /\ stage = "levels"
  /\ odr' = InitialLevels
  /\ current_tap_state' = "TAP_RESET"
  /\ call' = NoCall /\ stage' = "setup"
  /\ UNCHANGED <<driven, at, buffer, wire, before>>

\* jtag_srst_assert, the 10 ms loop, jtag_srst_deassert.
SrstAssert ==
  /\ call.op = "reset" /\ stage = "reset"
  /\ odr' = [odr EXCEPT !.srst = 0]
  /\ stage' = "release"
  /\ UNCHANGED <<driven, current_tap_state, call, at, buffer, wire, before>>

SrstDeassert ==
  /\ call.op = "reset" /\ stage = "release"
  /\ odr' = [odr EXCEPT !.srst = 1]
  /\ call' = NoCall /\ stage' = "setup"
  /\ UNCHANGED <<driven, current_tap_state, at, buffer, wire, before>>

----------------------------------------------------------------------------
\* Both stores of a cycle's TMS and TDI levels: TCK is low around them.
Setup ==
  /\ call # NoCall /\ stage = "setup" /\ at <= Cycles(call)
  /\ odr' = [odr EXCEPT !.tms = TmsAt(call, at),
                       !.tdi = IF call.op \in DataOps THEN call.tdi[at] ELSE @]
  /\ stage' = "rise"
  /\ UNCHANGED <<driven, current_tap_state, call, at, buffer, wire, before>>

Rise ==
  /\ stage = "rise"
  /\ odr' = [odr EXCEPT !.tck = 1]
  /\ target' = IF driven THEN RisingEdge(target, odr.tms, odr.tdi) ELSE target
  /\ stage' = IF call.cap THEN "sample" ELSE "fall"
  /\ UNCHANGED <<driven, current_tap_state, call, at, buffer, tdo, before>>

\* Reads TDO; the eighth bit completes a byte.
Sample ==
  /\ stage = "sample"
  /\ \E level \in IF driven THEN {tdo} ELSE Bit :
       LET byte == Append(tdo_byte, level) IN
       /\ tdo_byte' = Rest(byte)
       /\ tdo_data' = IF Len(byte) = ByteBits THEN Append(tdo_data, byte) ELSE tdo_data
  /\ stage' = "fall"
  /\ UNCHANGED <<pins, current_tap_state, call, at, wire, before>>

Fall ==
  /\ stage = "fall"
  /\ odr' = ClockLow(odr)
  /\ tdo' = IF driven THEN TdoLevel(target) ELSE tdo
  /\ current_tap_state' =
       IF call.op = "goto" THEN WalkMark(at, current_tap_state) ELSE current_tap_state
  /\ at' = NextCycle(at)
  /\ stage' = "setup"
  /\ UNCHANGED <<driven, call, buffer, target, before>>

\* After the last cycle: the bits of an unfinished byte are flushed.
Return ==
  /\ call # NoCall /\ stage = "setup" /\ at > Cycles(call)
  /\ tdo_data' = Flushed(tdo_data, tdo_byte)
  /\ tdo_byte' = <<>>
  /\ call' = NoCall
  /\ UNCHANGED <<pins, current_tap_state, at, stage, wire, before>>

Step == InitPins \/ InitLevels \/ SrstAssert \/ SrstDeassert
          \/ Setup \/ Rise \/ Sample \/ Fall \/ Return

Next == \/ \E c \in Calls : Begin(c)
        \/ Step

Spec == Init /\ [][Next]_vars
----------------------------------------------------------------------------
CallType ==
  [ op    : {"none", "init", "reset", "goto", "tms"} \cup DataOps,
    state : TapStates,
    tms   : Seq(Bit),
    tdi   : Seq(Bit),
    cap   : BOOLEAN ]

ByteType == [1..ByteBits -> Bit]

\* Every variable has its type; a byte in progress is never full.
TypeOK ==
  /\ odr \in [tck : Bit, tms : Bit, tdi : Bit, srst : Bit]
  /\ driven \in BOOLEAN
  /\ current_tap_state \in TapStates
  /\ call \in CallType
  /\ call.op \in DataOps => Len(call.tdi) = Len(call.tms)
  /\ at \in Nat \ {0}
  /\ stage \in {"init", "levels", "reset", "release", "setup", "rise", "sample", "fall"}
  /\ tdo_byte \in Seq(Bit) /\ Len(tdo_byte) < ByteBits
  /\ tdo_data \in Seq(ByteType)
  /\ target \in [tap : TapStates, sr : NonEmptyBits]
  /\ tdo \in Bit

\* TMS and TDI change only while TCK is low before and after: the target
\* never sees them move at, or just behind, the edge it samples them on
\* (dap_main.c: "Set TDI/TMS while TCK is low").
StableWhileHigh ==
  [][(odr'.tms # odr.tms \/ odr'.tdi # odr.tdi) => odr.tck = 0 /\ odr'.tck = 0]_vars

\* When jtag_goto_state returns, current_tap_state names the state the target
\* is really in, whatever state it was in before and however it got there;
\* and the states the walk can stop in are reached when asked for.
LandsWhereTracked ==
  [][(call.op = "goto" /\ call' = NoCall /\ driven) =>
        /\ target'.tap = current_tap_state'
        /\ WalkLength(call.state) # 14 => target'.tap = call.state]_vars

\* Once the pins are driven and no initialisation is going on, SRST is low only
\* inside the pulse of DAP_RESET_TARGET, and TCK rests low between calls.
QuietLines ==
  driven /\ call.op # "init" =>
    /\ odr.srst = 0 => call.op = "reset"
    /\ odr.tck = 1 => call # NoCall /\ stage \in {"sample", "fall"}

\* Seen when it returns, a call is one step of the abstract service: the whole
\* TMS and TDI strings applied, the whole TDO string handed back in bytes.
Service == INSTANCE JtagService WITH
  driven   <- IF call = NoCall THEN driven   ELSE before.driven,
  target   <- IF call = NoCall THEN target   ELSE before.target,
  tdo_data <- IF call = NoCall THEN tdo_data ELSE before.tdo_data

ImplementsService == Service!Spec
============================================================================
