-------------------------- MODULE JtagDriverProofs -------------------------
(***************************************************************************)
(* Theorems about JtagDriver for every set of calls, byte width and target. *)
(* The argument: a call is only in the stages of its own kind, TCK is high  *)
(* exactly between Rise and Fall, and along the walk of jtag_goto_state the *)
(* TAP is first ever closer to Test-Logic-Reset and then in a known state.  *)
(* A call that clocks strings follows their course, whose end is the scan   *)
(* that JtagService makes at once.                                          *)
(***************************************************************************)
EXTENDS JtagDriver, WellFoundedInduction, SequenceTheorems, TLAPS

----------------------------------------------------------------------------
\* The number of TMS = 1 edges from a TAP state to Test-Logic-Reset.
ToReset ==
  [ TAP_RESET      |-> 0, TAP_IDLE       |-> 3,
    TAP_DR_SELECT  |-> 2, TAP_DR_CAPTURE |-> 5, TAP_DR_SHIFT |-> 5,
    TAP_DR_EXIT1   |-> 4, TAP_DR_PAUSE   |-> 5, TAP_DR_EXIT2 |-> 4,
    TAP_DR_UPDATE  |-> 3,
    TAP_IR_SELECT  |-> 1, TAP_IR_CAPTURE |-> 5, TAP_IR_SHIFT |-> 5,
    TAP_IR_EXIT1   |-> 4, TAP_IR_PAUSE   |-> 5, TAP_IR_EXIT2 |-> 4,
    TAP_IR_UPDATE  |-> 3 ]

\* The TAP states of the walk after its reset, from edge 7 on.
WalkState(k) ==
  CASE k = 7  -> "TAP_IDLE"
    [] k = 8  -> "TAP_DR_SELECT"
    [] k = 9  -> "TAP_IR_SELECT"
    [] k = 10 -> "TAP_IR_CAPTURE"
    [] k = 11 -> "TAP_IR_SHIFT"
    [] k = 12 -> "TAP_IR_EXIT1"
    [] k = 13 -> "TAP_IR_UPDATE"
    [] OTHER  -> "TAP_IDLE"

\* Where the TAP may be after k edges of the walk.
OnWalk(k, tap) ==
  /\ k <= 5 => ToReset[tap] <= 5 - k
  /\ k = 6  => tap = "TAP_RESET"
  /\ k >= 7 => tap = WalkState(k)

\* What current_tap_state holds after k whole cycles of the walk.
Marked(k, state) ==
  /\ k \in 7..11 => state = WalkState(k)
  /\ k = 14      => state = "TAP_IDLE"

PinOps == {"goto", "tms"} \cup DataOps

\* Each stage belongs to one kind of call, and the cycle counter to the call.
StageInv ==
  /\ call.op = "none" <=> call = NoCall
  /\ call.op \in {"none"} \cup PinOps <=> stage \in {"setup", "rise", "sample", "fall"}
  /\ call = NoCall => stage = "setup"
  /\ stage \in {"init", "levels"} => call.op = "init"
  /\ stage \in {"reset", "release"} => call.op = "reset"
  /\ stage \in {"rise", "sample", "fall"} => at <= Cycles(call)
  /\ call.op \in PinOps => at <= Cycles(call) + 1
  /\ stage = "sample" => call.cap

\* TCK is high exactly between Rise and Fall.
ClockInv == odr.tck = 1 <=> stage \in {"sample", "fall"}

\* Edges of the walk the target has seen.
Edges == IF stage \in {"sample", "fall"} THEN at ELSE at - 1

WalkInv ==
  /\ stage = "rise" => odr.tms = TmsAt(call, at)
  /\ call.op = "goto" /\ driven => OnWalk(Edges, target.tap)
  /\ call.op = "goto" => Marked(at - 1, current_tap_state)

SrstInv == driven /\ call.op \notin {"init", "reset"} => odr.srst = 1

IInv == TypeOK /\ StageInv /\ ClockInv /\ WalkInv /\ SrstInv

----------------------------------------------------------------------------
\* A TMS = 1 edge leads one step closer to Test-Logic-Reset, from any state.
LEMMA OneEdgeCloser ==
  ASSUME NEW s \in TapStates
  PROVE  /\ ToReset[s] \in 0..5
         /\ TapStep(s, 1) \in TapStates
         /\ TapStep(s, 0) \in TapStates
         /\ ToReset[s] = 0 <=> s = "TAP_RESET"
         /\ ToReset[TapStep(s, 1)] = IF ToReset[s] = 0 THEN 0 ELSE ToReset[s] - 1
  BY DEF TapStates, ToReset, TapStep, OnOne, OnZero

\* The TMS bits of the walk: six ones, then its path.
LEMMA WalkBits ==
  ASSUME NEW i \in 1..14
  PROVE  /\ WalkTms[i] \in Bit
         /\ i <= 6 => WalkTms[i] = 1
         /\ i \in {8, 9, 12, 13} => WalkTms[i] = 1
         /\ i \in {7, 10, 11, 14} => WalkTms[i] = 0
  BY DEF WalkTms, Bit

\* The walk has between 7 and 14 cycles.
LEMMA WalkLengths ==
  ASSUME NEW s
  PROVE  WalkLength(s) \in {7, 8, 9, 10, 11, 14}
  BY DEF WalkLength

\* One edge of the walk.
LEMMA WalkEdge ==
  ASSUME NEW k \in 1..14, NEW s \in TapStates, OnWalk(k - 1, s)
  PROVE  OnWalk(k, TapStep(s, WalkTms[k]))
  <1>1. CASE k <= 6
    <2>1. WalkTms[k] = 1
      BY <1>1, WalkBits
    <2>2. ToReset[s] <= 6 - k
      BY <1>1 DEF OnWalk
    <2>3. k = 6 => TapStep(s, 1) = "TAP_RESET"
      BY <2>2, OneEdgeCloser
    <2>4. k <= 5 => ToReset[TapStep(s, 1)] <= 5 - k
      BY <2>2, OneEdgeCloser
    <2>5. QED
      BY <1>1, <2>1, <2>3, <2>4 DEF OnWalk
  <1>2. CASE k > 6
    BY <1>2, WalkBits DEF OnWalk, WalkState, TapStep, OnOne, OnZero, TapStates
  <1>3. QED
    BY <1>1, <1>2

\* Every call of the model is a record of the right type.
LEMMA CallsTyped ==
  ASSUME NEW c \in Calls
  PROVE  /\ c \in CallType
         /\ c.op # "none"
         /\ c.op \in DataOps => Len(c.tdi) = Len(c.tms)
  <1> USE CallAssumption DEF Call, CallType, TapStates, DataOps
  <1>0. <<>> \in Seq(Bit)
    OBVIOUS
  <1>1. CASE c \in {InitCall, ResetCall}
    <2>1. CASE c = InitCall
      BY <1>0, <2>1 DEF InitCall
    <2>2. CASE c = ResetCall
      BY <1>0, <2>2 DEF ResetCall
    <2>3. QED
      BY <1>1, <2>1, <2>2
  <1>2. CASE c \in { GotoCall(s) : s \in GotoTargets }
    <2>1. PICK s \in GotoTargets : c = GotoCall(s)
      BY <1>2
    <2>2. QED
      BY <1>0, <2>1 DEF GotoCall
  <1>3. CASE c \in { TmsCall(tms) : tms \in TmsStrings }
    <2>1. PICK tms \in TmsStrings : c = TmsCall(tms)
      BY <1>3
    <2>2. QED
      BY <1>0, <2>1 DEF TmsCall
  <1>4. CASE c \in { ShiftCall(tdi, last, cap) : tdi \in TdiStrings,
                                               last \in BOOLEAN, cap \in BOOLEAN }
    <2>1. PICK tdi \in TdiStrings, last \in BOOLEAN, cap \in BOOLEAN :
            c = ShiftCall(tdi, last, cap)
      BY <1>4
    <2>2. Len(tdi) \in Nat /\ tdi \in Seq(Bit)
      OBVIOUS
    <2>3. ShiftTms(Len(tdi), last) \in Seq(Bit) /\ Len(ShiftTms(Len(tdi), last)) = Len(tdi)
      BY <2>2 DEF ShiftTms, Bit
    <2>4. QED
      BY <2>1, <2>2, <2>3 DEF ShiftCall
  <1>5. CASE c \in { SequenceCall(tdi, tms, cap) : tdi \in TdiStrings,
                                                 tms \in Bit, cap \in BOOLEAN }
    <2>1. PICK tdi \in TdiStrings, tms \in Bit, cap \in BOOLEAN :
            c = SequenceCall(tdi, tms, cap)
      BY <1>5
    <2> DEFINE held == [i \in 1..Len(tdi) |-> tms]
    <2>2. Len(tdi) \in Nat /\ tdi \in Seq(Bit)
      OBVIOUS
    <2>3. held \in Seq(Bit) /\ Len(held) = Len(tdi)
      BY <2>2
    <2>4. QED
      BY <2>1, <2>2, <2>3 DEF SequenceCall
  <1>6. QED
    BY <1>1, <1>2, <1>3, <1>4, <1>5 DEF Calls

\* The target stays a TAP with a scan register, whatever levels it sees.
LEMMA RisingEdgeTyped ==
  ASSUME NEW t \in [tap : TapStates, sr : NonEmptyBits], NEW tms \in Bit, NEW tdi \in Bit
  PROVE  RisingEdge(t, tms, tdi) \in [tap : TapStates, sr : NonEmptyBits]
  <1>1. TapStep(t.tap, tms) \in TapStates
    BY OneEdgeCloser DEF Bit
  <1>2. Append(Tail(t.sr), tdi) \in NonEmptyBits
    <2>1. t.sr \in Seq(Bit) /\ t.sr # <<>>
      BY DEF NonEmptyBits
    <2>2. Tail(t.sr) \in Seq(Bit)
      BY <2>1
    <2>3. QED
      BY <2>2 DEF NonEmptyBits
  <1>3. QED
    BY <1>1, <1>2, CaptureAssumption DEF RisingEdge, ShiftStates

\* The level on TDO is a bit.
LEMMA TdoLevelTyped ==
  ASSUME NEW t \in [tap : TapStates, sr : NonEmptyBits]
  PROVE  TdoLevel(t) \in Bit
  BY DEF TdoLevel, NonEmptyBits, Bit

----------------------------------------------------------------------------
\* The initial states satisfy the inductive invariant.
LEMMA InitTyped == Init => IInv
  <1> SUFFICES ASSUME Init PROVE IInv
    OBVIOUS
  <1>1. NoCall \in CallType /\ NoCall.op = "none" /\ NoCall.cap = FALSE
    BY DEF NoCall, Call, CallType, TapStates
  <1>2. target \in [tap : TapStates, sr : NonEmptyBits]
    BY CaptureAssumption DEF Init, PowerUpTargets, TapStates
  <1>3. tdo \in Bit
    BY <1>2, TdoLevelTyped DEF Init
  <1>4. tdo_byte \in Seq(Bit) /\ Len(tdo_byte) < ByteBits /\ tdo_data \in Seq(ByteType)
    BY DriverAssumption DEF Init
  <1>5. TypeOK
    <2>1. odr \in [tck : Bit, tms : Bit, tdi : Bit, srst : Bit]
      BY DEF Init, Bit
    <2>2. current_tap_state \in TapStates
      BY DEF Init, TapStates
    <2>3. driven \in BOOLEAN
      BY DEF Init
    <2>4. at \in Nat \ {0}
      BY DEF Init
    <2>5. call \in CallType /\ call.op \notin DataOps
      BY <1>1 DEF Init, DataOps
    <2>6. QED
      BY <1>2, <1>3, <1>4, <2>1, <2>2, <2>3, <2>4, <2>5 DEF Init, TypeOK
  <1>6. QED
    BY <1>1, <1>5 DEF IInv, Init, StageInv, ClockInv, WalkInv, SrstInv, PinOps, DataOps, Marked

\* The cycle in progress has a TMS bit and, for a data call, a TDI bit.
LEMMA CycleBits ==
  ASSUME TypeOK, call.op \in PinOps, at <= Cycles(call)
  PROVE  /\ TmsAt(call, at) \in Bit
         /\ call.op \in DataOps => call.tdi[at] \in Bit
  <1>1. CASE call.op = "goto"
    <2>1. at \in 1..14
      BY <1>1, WalkLengths DEF TypeOK, Cycles
    <2>2. QED
      BY <1>1, <2>1, WalkBits DEF TmsAt, DataOps
  <1>2. CASE call.op # "goto"
    <2>1. call.tms \in Seq(Bit) /\ call.tdi \in Seq(Bit) /\ at \in 1..Len(call.tms)
      BY <1>2 DEF TypeOK, Cycles, CallType
    <2>2. QED
      BY <1>2, <2>1 DEF TmsAt, TypeOK
  <1>3. QED
    BY <1>1, <1>2

\* Every step keeps every variable in its type.
LEMMA TypeStep ==
  ASSUME IInv, [Next]_vars
  PROVE  TypeOK'
  <1> USE DEF IInv
  <1>0. NoCall \in CallType /\ NoCall.op = "none"
    BY DEF NoCall, Call, CallType, TapStates
  <1>1. ASSUME NEW c \in Calls, Begin(c) PROVE TypeOK'
    BY <1>1, CallsTyped, DriverAssumption
    DEF Begin, TypeOK, pins, wire, CallType, DataOps
  <1>2. CASE InitPins
    BY <1>2 DEF InitPins, TypeOK, buffer, wire
  <1>3. CASE InitLevels
    BY <1>0, <1>3 DEF InitLevels, InitialLevels, TypeOK, buffer, wire, Bit, TapStates, DataOps
  <1>4. CASE SrstAssert
    BY <1>4 DEF SrstAssert, TypeOK, buffer, wire, Bit
  <1>5. CASE SrstDeassert
    BY <1>0, <1>5 DEF SrstDeassert, TypeOK, buffer, wire, Bit, DataOps
  <1>6. CASE Setup
    <2>1. call.op \in PinOps
      BY <1>6 DEF Setup, StageInv, TypeOK, PinOps
    <2>2. odr' \in [tck : Bit, tms : Bit, tdi : Bit, srst : Bit]
      BY <1>6, <2>1, CycleBits DEF Setup, TypeOK
    <2>3. QED
      BY <1>6, <2>2 DEF Setup, TypeOK, buffer, wire
  <1>7. CASE Rise
    <2>1. target' \in [tap : TapStates, sr : NonEmptyBits]
      BY <1>7, RisingEdgeTyped DEF Rise, TypeOK
    <2>2. QED
      BY <1>7, <2>1 DEF Rise, TypeOK, buffer, Bit
  <1>8. CASE Sample
    <2>1. PICK level \in Bit :
            /\ tdo_byte' = Rest(Append(tdo_byte, level))
            /\ tdo_data' = IF Len(Append(tdo_byte, level)) = ByteBits
                             THEN Append(tdo_data, Append(tdo_byte, level)) ELSE tdo_data
      BY <1>8 DEF Sample, TypeOK
    <2> DEFINE byte == Append(tdo_byte, level)
    <2>2. byte \in Seq(Bit) /\ Len(byte) = Len(tdo_byte) + 1 /\ Len(byte) <= ByteBits
      BY DriverAssumption DEF TypeOK
    <2>3. Len(byte) = ByteBits => byte \in ByteType
      BY <2>2, LenProperties DEF ByteType
    <2>4. tdo_byte' \in Seq(Bit) /\ Len(tdo_byte') < ByteBits
      BY <2>1, <2>2, DriverAssumption DEF Rest
    <2>5. tdo_data' \in Seq(ByteType)
      BY <2>1, <2>3 DEF TypeOK
    <2>6. QED
      BY <1>8, <2>4, <2>5 DEF Sample, TypeOK, pins, wire
  <1>9. CASE Fall
    <2>1. tdo' \in Bit
      BY <1>9, TdoLevelTyped DEF Fall, TypeOK
    <2>2. current_tap_state' \in TapStates
      BY <1>9 DEF Fall, TypeOK, WalkMark, TapStates
    <2>3. QED
      BY <1>9, <2>1, <2>2 DEF Fall, ClockLow, NextCycle, TypeOK, buffer, Bit
  <1>10. CASE Return
    <2>1. tdo_byte # <<>> => ZeroFilled(tdo_byte) \in ByteType
      BY DEF ZeroFilled, ByteType, TypeOK, Bit
    <2>2. tdo_data' \in Seq(ByteType)
      BY <1>10, <2>1 DEF Return, Flushed, TypeOK
    <2>3. QED
      BY <1>0, <1>10, <2>2, DriverAssumption DEF Return, TypeOK, pins, wire, DataOps
  <1>11. CASE UNCHANGED vars
    BY <1>11 DEF vars, TypeOK
  <1>12. QED
    BY <1>1, <1>2, <1>3, <1>4, <1>5, <1>6, <1>7, <1>8, <1>9, <1>10, <1>11 DEF Next, Step

\* A cycle's stages follow each other with TCK at the level each expects.
LEMMA StageStep ==
  ASSUME IInv, [Next]_vars
  PROVE  StageInv' /\ ClockInv'
  <1> USE DEF IInv, StageInv, ClockInv, PinOps, DataOps
  <1>0. NoCall.op = "none"
    BY DEF NoCall, Call
  <1>1. ASSUME NEW c \in Calls, Begin(c) PROVE StageInv' /\ ClockInv'
    <2>1. c \in CallType /\ c.op # "none"
      BY CallsTyped
    <2>2. Cycles(c) \in Nat
      BY <2>1, WalkLengths DEF Cycles, CallType
    <2>3. StageInv'
      BY <1>0, <1>1, <2>1, <2>2 DEF Begin, CallType
    <2>4. ClockInv'
      BY <1>0, <1>1 DEF Begin, pins
    <2>5. QED
      BY <2>3, <2>4
  <1>2. CASE InitPins
    BY <1>0, <1>2 DEF InitPins
  <1>3. CASE InitLevels
    BY <1>0, <1>3 DEF InitLevels, InitialLevels
  <1>4. CASE SrstAssert
    BY <1>0, <1>4 DEF SrstAssert, TypeOK
  <1>5. CASE SrstDeassert
    BY <1>0, <1>5 DEF SrstDeassert, TypeOK
  <1>6. CASE Setup
    BY <1>0, <1>6 DEF Setup, TypeOK, Cycles
  <1>7. CASE Rise
    BY <1>0, <1>7 DEF Rise, TypeOK, Cycles
  <1>8. CASE Sample
    BY <1>0, <1>8 DEF Sample, TypeOK, pins, Cycles
  <1>9. CASE Fall
    <2>1. Cycles(call) \in Nat
      <3>1. WalkLength(call.state) \in Nat
        BY WalkLengths
      <3>2. Len(call.tms) \in Nat
        BY DEF TypeOK, CallType
      <3>3. QED
        BY <3>1, <3>2 DEF Cycles
    <2>2. StageInv'
      BY <1>0, <1>9, <2>1 DEF Fall, NextCycle, TypeOK, Cycles
    <2>3. ClockInv'
      BY <1>9 DEF Fall, ClockLow, TypeOK
    <2>4. QED
      BY <2>2, <2>3
  <1>10. CASE Return
    BY <1>0, <1>10 DEF Return, pins
  <1>11. CASE UNCHANGED vars
    BY <1>11 DEF vars, Cycles
  <1>12. QED
    BY <1>1, <1>2, <1>3, <1>4, <1>5, <1>6, <1>7, <1>8, <1>9, <1>10, <1>11 DEF Next, Step

\* SRST goes low in a target reset, or before the pins' first levels.
LEMMA SrstStep ==
  ASSUME IInv, [Next]_vars
  PROVE  SrstInv'
  <1> USE DEF IInv, SrstInv, StageInv
  <1>0. NoCall.op = "none"
    BY DEF NoCall, Call
  <1>1. ASSUME NEW c \in Calls, Begin(c) PROVE SrstInv'
    BY <1>0, <1>1 DEF Begin, pins
  <1>2. CASE InitPins \/ SrstAssert
    BY <1>2 DEF InitPins, SrstAssert
  <1>3. CASE InitLevels \/ SrstDeassert
    <2>1. odr'.srst = 1
      BY <1>3 DEF InitLevels, InitialLevels, SrstDeassert, TypeOK
    <2>2. QED
      BY <2>1
  <1>4. CASE Setup \/ Rise \/ Fall
    BY <1>4 DEF Setup, Rise, Fall, ClockLow, TypeOK
  <1>5. CASE Sample \/ Return \/ UNCHANGED vars
    BY <1>0, <1>5 DEF Sample, Return, pins, vars, PinOps, DataOps
  <1>6. QED
    BY <1>1, <1>2, <1>3, <1>4, <1>5 DEF Next, Step

\* The target is where the walk has taken it, edge by edge.
LEMMA WalkStep ==
  ASSUME IInv, [Next]_vars
  PROVE  WalkInv'
  <1>a. target.tap \in TapStates
    BY DEF IInv, TypeOK
  <1>b. ToReset[target.tap] <= 5
    BY <1>a, OneEdgeCloser
  <1> USE DEF IInv, WalkInv
  <1>0. NoCall.op = "none"
    BY DEF NoCall, Call
  <1>1. ASSUME NEW c \in Calls, Begin(c) PROVE WalkInv'
    <2>1. target' = target /\ at' = 1 /\ stage' \in {"init", "reset", "setup"}
      BY <1>1, CallsTyped DEF Begin, wire, CallType
    <2>2. QED
      BY <1>b, <2>1 DEF OnWalk, Edges, Marked
  <1>2. CASE InitPins \/ InitLevels \/ SrstAssert \/ SrstDeassert
    BY <1>0, <1>2 DEF InitPins, InitLevels, SrstAssert, SrstDeassert, StageInv
  <1>3. CASE Setup
    BY <1>3 DEF Setup, TypeOK, Edges, buffer, wire, TmsAt
  <1>4. CASE Rise
    <2>1. CASE call.op = "goto" /\ driven
      <3>1. at \in 1..14
        <4>1. at <= WalkLength(call.state) /\ at \in Nat \ {0}
          BY <1>4, <2>1 DEF Rise, StageInv, Cycles, TypeOK
        <4>2. QED
          BY <4>1, WalkLengths
      <3>2. OnWalk(at - 1, target.tap) /\ odr.tms = WalkTms[at]
        BY <1>4, <2>1 DEF Rise, Edges, TmsAt
      <3>3. OnWalk(at, target'.tap)
        BY <1>4, <2>1, <3>1, <3>2, WalkEdge DEF Rise, RisingEdge, TypeOK
      <3>4. QED
        BY <1>4, <2>1, <3>3 DEF Rise, Edges
    <2>2. CASE ~(call.op = "goto" /\ driven)
      BY <1>4, <2>2 DEF Rise
    <2>3. QED
      BY <2>1, <2>2
  <1>5. CASE Sample
    BY <1>5 DEF Sample, Edges, pins, wire, TmsAt
  <1>6. CASE Fall
    <2>1. CASE call.op = "goto"
      <3>1. at \in 1..14
        BY <1>6, <2>1, WalkLengths DEF Fall, StageInv, Cycles, TypeOK
      <3>2. Marked(at, current_tap_state')
        BY <1>6, <2>1, <3>1 DEF Fall, Marked, WalkMark, WalkState
      <3>3. driven => OnWalk(Edges', target'.tap)
        BY <1>6, <2>1, <3>1 DEF Fall, Edges, NextCycle
      <3>4. QED
        BY <1>6, <2>1, <3>1, <3>2, <3>3 DEF Fall, NextCycle
    <2>2. CASE call.op # "goto"
      BY <1>6, <2>2 DEF Fall
    <2>3. QED
      BY <2>1, <2>2
  <1>7. CASE Return
    BY <1>0, <1>7 DEF Return
  <1>8. CASE UNCHANGED vars
    BY <1>8 DEF vars, Edges, TmsAt
  <1>9. QED
    BY <1>1, <1>2, <1>3, <1>4, <1>5, <1>6, <1>7, <1>8 DEF Next, Step

\* The inductive invariant.
THEOREM Invariance == Spec => []IInv
  <1>1. Init => IInv
    BY InitTyped
  <1>2. IInv /\ [Next]_vars => IInv'
    BY TypeStep, StageStep, WalkStep, SrstStep DEF IInv
  <1>3. QED
    BY <1>1, <1>2, PTL DEF Spec

----------------------------------------------------------------------------
\* The driver's variables keep their types: in particular the byte in progress
\* is never full and the target's scan register never empty.
THEOREM TypeCorrect == Spec => []TypeOK
  <1>1. IInv => TypeOK
    BY DEF IInv
  <1>2. QED
    BY <1>1, Invariance, PTL

\* TMS and TDI move only while TCK is low, for every call.
THEOREM LevelsStable == Spec => StableWhileHigh
  <1> DEFINE Stable == (odr'.tms # odr.tms \/ odr'.tdi # odr.tdi) => odr.tck = 0 /\ odr'.tck = 0
  <1>1. IInv /\ [Next]_vars => [Stable]_vars
    <2> SUFFICES ASSUME IInv, [Next]_vars PROVE [Stable]_vars
      OBVIOUS
    <2> USE DEF IInv, ClockInv, TypeOK, Bit
    <2>1. ASSUME NEW c \in Calls, Begin(c) PROVE Stable
      BY <2>1 DEF Begin, pins
    <2>2. CASE InitPins \/ Sample \/ Return
      BY <2>2 DEF InitPins, Sample, Return, pins
    <2>3. CASE InitLevels
      BY <2>3 DEF InitLevels, InitialLevels
    <2>4. CASE SrstAssert \/ SrstDeassert
      BY <2>4 DEF SrstAssert, SrstDeassert
    <2>5. CASE Setup
      BY <2>5 DEF Setup
    <2>6. CASE Rise
      BY <2>6 DEF Rise
    <2>7. CASE Fall
      BY <2>7 DEF Fall, ClockLow
    <2>8. QED
      BY <2>1, <2>2, <2>3, <2>4, <2>5, <2>6, <2>7 DEF Next, Step
  <1>2. QED
    BY <1>1, Invariance, PTL DEF Spec, StableWhileHigh

\* jtag_goto_state, with any request, from any TAP state: current_tap_state is
\* where the target is, and the five states the walk stops in are reached.
THEOREM GotoLands == Spec => LandsWhereTracked
  <1> DEFINE Lands == (call.op = "goto" /\ call' = NoCall /\ driven) =>
                        /\ target'.tap = current_tap_state'
                        /\ WalkLength(call.state) # 14 => target'.tap = call.state
  <1>0. NoCall.op = "none"
    BY DEF NoCall, Call
  <1>1. IInv /\ [Next]_vars => [Lands]_vars
    <2> SUFFICES ASSUME IInv, [Next]_vars, call.op = "goto", call' = NoCall, driven
                 PROVE  /\ target'.tap = current_tap_state'
                        /\ WalkLength(call.state) # 14 => target'.tap = call.state
      OBVIOUS
    <2>1. Return
      <3>1. call # NoCall /\ call' # call
        BY <1>0
      <3>2. \A c \in Calls : ~Begin(c)
        BY <3>1 DEF Begin
      <3>3. ~(InitPins \/ InitLevels \/ SrstAssert \/ SrstDeassert)
        BY DEF InitPins, InitLevels, SrstAssert, SrstDeassert
      <3>4. ~(Setup \/ Rise \/ Sample \/ Fall)
        BY <3>1 DEF Setup, Rise, Sample, Fall
      <3>5. Next
        <4>1. ~(UNCHANGED vars)
          BY <3>1 DEF vars
        <4> QED BY <4>1
      <3>6. Step
        BY <3>2, <3>5, Zenon DEF Next
      <3> QED BY <3>3, <3>4, <3>6, Zenon DEF Step
    <2>2. at = WalkLength(call.state) + 1 /\ Edges = at - 1
      BY <2>1, WalkLengths DEF Return, IInv, StageInv, Cycles, TypeOK, PinOps, Edges
    <2>3. target' = target /\ current_tap_state' = current_tap_state
      BY <2>1 DEF Return, wire
    <2>4. target.tap = WalkState(at - 1) /\ Marked(at - 1, current_tap_state)
      BY <2>2, WalkLengths DEF IInv, WalkInv, OnWalk
    <2>5. target.tap = current_tap_state
      BY <2>2, <2>4, WalkLengths DEF Marked, WalkState
    <2>6. WalkLength(call.state) # 14 => target.tap = call.state
      BY <2>2, <2>4 DEF WalkState, WalkLength
    <2>7. QED
      BY <2>3, <2>5, <2>6
  <1>2. QED
    BY <1>1, Invariance, PTL DEF Spec, LandsWhereTracked

\* SRST is low only in a target reset, and TCK rests low between calls.
THEOREM LinesQuiet == Spec => []QuietLines
  <1>1. IInv => QuietLines
    BY DEF IInv, QuietLines, SrstInv, ClockInv, StageInv, TypeOK, Bit, PinOps, NoCall, Call
  <1>2. QED
    BY <1>1, Invariance, PTL
----------------------------------------------------------------------------
(* A scan, and the calls that make one: the refinement of JtagService. *)

\* A set of numbers has a least one.
LEMMA Smallest ==
  ASSUME NEW S \in SUBSET Nat, S # {}
  PROVE  \E x \in S : \A y \in S : x <= y
<1>1. PICK x \in S : \A y \in S : <<y, x>> \notin OpToRel(<, Nat)
  BY NatLessThanWellFounded, WFMin
<1>2. ASSUME NEW y \in S PROVE x <= y
  <2>1. y < x => <<y, x>> \in OpToRel(<, Nat)
    BY Zenon DEF OpToRel
  <2>2. ~(y < x)
    BY <1>1, <2>1
  <2> QED BY <2>2
<1> QED BY <1>2

\* One cycle of a scan, and the first n of them: target and TDO string after each.
Cycle(p, tms, tdi, k) ==
  [t |-> RisingEdge(p.t, tms[k], tdi[k]), tdo |-> Append(p.tdo, TdoLevel(p.t))]

Course(f, n, t, tms, tdi) ==
  f = [k \in 0..n |-> IF k = 0 THEN [t |-> t, tdo |-> <<>>] ELSE Cycle(f[k - 1], tms, tdi, k)]

\* The recursive function of Scan exists, for strings of every length.
LEMMA CourseExists ==
  ASSUME NEW t, NEW tms, NEW tdi, NEW n \in Nat
  PROVE  \E f : Course(f, n, t, tms, tdi)
<1> DEFINE S == { m \in Nat : ~ \E f : Course(f, m, t, tms, tdi) }
<1>1. SUFFICES ASSUME S # {} PROVE FALSE
  OBVIOUS
<1>2. PICK m \in S : \A y \in S : m <= y
  BY <1>1, Smallest
<1>3. CASE m = 0
  <2>1. Course([k \in 0..0 |-> [t |-> t, tdo |-> <<>>]], 0, t, tms, tdi)
    <3> DEFINE f == [k \in 0..0 |-> [t |-> t, tdo |-> <<>>]]
    <3>1. \A k \in 0..0 : k = 0
      OBVIOUS
    <3> QED BY <3>1 DEF Course
  <2> QED BY <1>3, <2>1
<1>4. CASE m # 0
  <2>1. m \in Nat /\ m - 1 \in Nat /\ m - 1 \notin S
    BY <1>2, <1>4
  <2>2. PICK f : Course(f, m - 1, t, tms, tdi)
    BY <2>1
  <2> DEFINE g == [k \in 0..m |-> IF k = m THEN Cycle(f[m - 1], tms, tdi, m) ELSE f[k]]
  <2>3. \A k \in 0..(m - 1) :
          f[k] = IF k = 0 THEN [t |-> t, tdo |-> <<>>] ELSE Cycle(f[k - 1], tms, tdi, k)
    BY <2>2 DEF Course
  <2>4. ASSUME NEW k \in 0..m
        PROVE  g[k] = IF k = 0 THEN [t |-> t, tdo |-> <<>>] ELSE Cycle(g[k - 1], tms, tdi, k)
    <3>1. CASE k = m
      <4>1. g[k] = Cycle(f[m - 1], tms, tdi, m) /\ g[k - 1] = f[m - 1]
        BY <2>1, <3>1
      <4> QED BY <1>4, <3>1, <4>1
    <3>2. CASE k # m
      <4>1. k \in 0..(m - 1) /\ g[k] = f[k]
        BY <2>1, <3>2
      <4>2. k # 0 => g[k - 1] = f[k - 1]
        BY <2>1, <3>2
      <4> QED BY <2>3, <4>1, <4>2
    <3> QED BY <3>1, <3>2
  <2>5. g = [k \in 0..m |-> g[k]]
    OBVIOUS
  <2> HIDE DEF g
  <2>6. Course(g, m, t, tms, tdi)
    BY <2>4, <2>5 DEF Course
  <2> QED BY <1>2, <2>6
<1> QED BY <1>3, <1>4

Cycled(f, n, tms, tdi) == \A k \in 1..n : f[k] = Cycle(f[k - 1], tms, tdi, k)

\* What a course is made of.
LEMMA CourseCycles ==
  ASSUME NEW f, NEW n \in Nat, NEW t, NEW tms, NEW tdi, Course(f, n, t, tms, tdi)
  PROVE  f[0] = [t |-> t, tdo |-> <<>>] /\ Cycled(f, n, tms, tdi)
<1>1. f[0] = [t |-> t, tdo |-> <<>>]
  BY DEF Course
<1>2. \A k \in 1..n : k \in 0..n /\ k # 0
  OBVIOUS
<1> QED BY <1>1, <1>2 DEF Course, Cycled

\* Two courses of the same strings end alike.
LEMMA SameCourse ==
  ASSUME NEW n \in Nat, NEW t, NEW tms, NEW tdi,
         NEW f, Course(f, n, t, tms, tdi), NEW g, Course(g, n, t, tms, tdi)
  PROVE  f[n] = g[n]
<1>1. f[0] = g[0]
  BY CourseCycles
<1>2. Cycled(f, n, tms, tdi) /\ Cycled(g, n, tms, tdi)
  BY CourseCycles
<1>3. ASSUME NEW k \in 1..n
      PROVE  f[k] = Cycle(f[k - 1], tms, tdi, k) /\ g[k] = Cycle(g[k - 1], tms, tdi, k)
  BY <1>2 DEF Cycled
<1> DEFINE S == { k \in 0..n : f[k] # g[k] }
<1>4. S = {}
  <2>1. SUFFICES ASSUME S # {} PROVE FALSE
    OBVIOUS
  <2>2. PICK m \in S : \A y \in S : m <= y
    <3>1. S \in SUBSET Nat
      OBVIOUS
    <3> QED BY <2>1, <3>1, Smallest
  <2>3. m \in 1..n /\ m - 1 \in 0..n /\ m - 1 \notin S
    BY <1>1, <2>2
  <2>4. f[m - 1] = g[m - 1]
    BY <2>3
  <2>5. f[m] = Cycle(f[m - 1], tms, tdi, m) /\ g[m] = Cycle(g[m - 1], tms, tdi, m)
    BY <1>3, <2>3
  <2>6. f[m] = g[m]
    BY <2>4, <2>5
  <2> QED BY <2>2, <2>6
<1> QED BY <1>4

\* A scan comes to the end of its course, and has only one.
LEMMA ScanCourse ==
  ASSUME NEW t, NEW tms, NEW tdi, Len(tms) \in Nat,
         NEW f, Course(f, Len(tms), t, tms, tdi)
  PROVE  Scan(t, tms, tdi) = f[Len(tms)]
<1> DEFINE n == Len(tms)
<1>1. PICK g : Course(g, n, t, tms, tdi) /\ Scan(t, tms, tdi) = g[n]
  BY DEF Course, Cycle, Scan
<1>2. n \in Nat /\ Course(f, n, t, tms, tdi)
  OBVIOUS
<1> HIDE DEF n
<1>3. f[n] = g[n]
  BY <1>1, <1>2, SameCourse
<1> QED BY <1>1, <1>3 DEF n


----------------------------------------------------------------------------
\* A place in a string of K bytes of b bits.
LEMMA Place ==
  ASSUME NEW K \in Nat, NEW b \in Nat, NEW k \in 1..K, NEW j \in 1..b
  PROVE  (k - 1) * b + j \in 1..(K * b)
<1>1. (k - 1) * b \in Nat
  OBVIOUS
<1>2. (K - k) * b \in Nat
  OBVIOUS
<1>3. K * b = (K - k) * b + (k - 1) * b + b
  OBVIOUS
<1> QED BY <1>1, <1>2, <1>3

\* Division with remainder.
LEMMA Quotient ==
  ASSUME NEW q \in Nat, NEW b \in Nat \ {0}, NEW r \in 0..(b - 1)
  PROVE  (q * b + r) \div b = q
<1> DEFINE a == q * b + r
           d == a \div b
<1>1. a \in Nat
  <2>1. q * b \in Nat
    OBVIOUS
  <2> QED BY <2>1
<1>2. d \in Int /\ b * d <= a /\ a < b * d + b
  BY <1>1
<1>3. a = q * b + r
  OBVIOUS
<1> HIDE DEF a, d
<1>4. ~(d < q)
  <2>1. SUFFICES ASSUME d < q PROVE FALSE
    OBVIOUS
  <2>2. (q - d - 1) * b \in Nat
    BY <1>2, <2>1
  <2>3. (q - d - 1) * b = q * b - b * d - b
    BY <1>2
  <2> QED BY <1>1, <1>2, <1>3, <2>2, <2>3
<1>5. ~(q < d)
  <2>1. SUFFICES ASSUME q < d PROVE FALSE
    OBVIOUS
  <2>2. (d - q - 1) * b \in Nat
    BY <1>2, <2>1
  <2>3. (d - q - 1) * b = b * d - q * b - b
    BY <1>2
  <2> QED BY <1>1, <1>2, <1>3, <2>2, <2>3
<1>6. d = q
  BY <1>2, <1>4, <1>5
<1> QED BY <1>6 DEF a, d

\* The bits read so far, cut into whole bytes and the one in progress.
Cut(bits, data, byte) ==
  /\ Len(bits) = Len(data) * ByteBits + Len(byte)
  /\ \A k \in 1..Len(data), j \in 1..ByteBits : data[k][j] = bits[(k - 1) * ByteBits + j]
  /\ \A j \in 1..Len(byte) : byte[j] = bits[Len(data) * ByteBits + j]

\* One more bit, in the byte in progress or completing it.
LEMMA CutGrows ==
  ASSUME NEW bits \in Seq(Bit), NEW data \in Seq(ByteType), NEW byte \in Seq(Bit),
         Len(byte) < ByteBits, Cut(bits, data, byte), NEW level \in Bit
  PROVE  Cut(Append(bits, level),
             IF Len(Append(byte, level)) = ByteBits THEN Append(data, Append(byte, level)) ELSE data,
             Rest(Append(byte, level)))
<1> DEFINE more == Append(bits, level)
           next == Append(byte, level)
           L    == Len(data)
           B    == Len(byte)
           b    == ByteBits
<1>1. /\ L \in Nat /\ B \in Nat /\ b \in Nat \ {0} /\ B < b /\ L * b \in Nat
      /\ Len(bits) = L * b + B
  BY DriverAssumption DEF Cut
<1>2. /\ Len(more) = L * b + B + 1 /\ more[L * b + B + 1] = level
      /\ \A i \in 1..(L * b + B) : more[i] = bits[i]
  BY <1>1
<1>3. Len(next) = B + 1 /\ next[B + 1] = level /\ \A j \in 1..B : next[j] = byte[j]
  OBVIOUS
<1>4. /\ \A k \in 1..L, j \in 1..b : data[k][j] = bits[(k - 1) * b + j]
      /\ \A j \in 1..B : byte[j] = bits[L * b + j]
  BY DEF Cut
<1>5. next \in Seq(Bit) /\ more \in Seq(Bit)
  OBVIOUS
<1> HIDE DEF more, next, L, B, b
<1>6. ASSUME NEW k \in 1..L, NEW j \in 1..b PROVE data[k][j] = more[(k - 1) * b + j]
  <2>1. (k - 1) * b + j \in 1..(L * b)
    BY <1>1, Place
  <2>2. (k - 1) * b + j \in 1..(L * b + B)
    BY <1>1, <2>1
  <2> QED BY <1>2, <1>4, <2>2
<1>7. ASSUME NEW j \in 1..(B + 1) PROVE next[j] = more[L * b + j]
  <2>1. CASE j = B + 1
    <3>1. L * b + j = L * b + B + 1
      BY <1>1, <2>1
    <3> QED BY <1>2, <1>3, <2>1, <3>1
  <2>2. CASE j # B + 1
    <3>1. j \in 1..B
      BY <1>1, <2>2
    <3>2. L * b + j \in 1..(L * b + B)
      BY <1>1, <3>1
    <3> QED BY <1>2, <1>3, <1>4, <3>1, <3>2
  <2> QED BY <2>1, <2>2
<1>8. CASE B + 1 = b
  <2> DEFINE all == Append(data, next)
  <2>1. /\ Len(all) = L + 1 /\ all[L + 1] = next
        /\ \A k \in 1..L : all[k] = data[k]
    BY DEF L
  <2>2. Rest(next) = <<>> /\ Len(Rest(next)) = 0
    BY <1>3, <1>8 DEF Rest, b
  <2>3. Len(more) = (L + 1) * b + 0
    BY <1>1, <1>2, <1>8
  <2> HIDE DEF all
  <2>4. ASSUME NEW k \in 1..(L + 1), NEW j \in 1..b PROVE all[k][j] = more[(k - 1) * b + j]
    <3>1. CASE k = L + 1
      <4>1. (k - 1) * b + j = L * b + j
        BY <1>1, <3>1
      <4> QED BY <1>7, <1>8, <2>1, <3>1, <4>1
    <3>2. CASE k # L + 1
      <4>1. k \in 1..L
        BY <1>1, <3>2
      <4> QED BY <1>6, <2>1, <4>1
    <3> QED BY <3>1, <3>2
  <2>5. Cut(more, all, Rest(next))
    BY <1>1, <2>1, <2>2, <2>3, <2>4 DEF Cut, b
  <2> QED BY <1>3, <1>8, <2>5 DEF more, next, all, b
<1>9. CASE B + 1 # b
  <2>1. Rest(next) = next
    BY <1>3, <1>9 DEF Rest, b
  <2>2. Len(more) = L * b + Len(next)
    BY <1>1, <1>2, <1>3
  <2>3. Cut(more, data, next)
    BY <1>3, <1>6, <1>7, <2>2 DEF Cut, b, L
  <2> QED BY <1>3, <1>9, <2>1, <2>3 DEF more, next, b
<1> QED BY <1>8, <1>9

\* The bytes handed back are the bits packed.
LEMMA CutPacked ==
  ASSUME NEW bits \in Seq(Bit), NEW data \in Seq(ByteType), NEW byte \in Seq(Bit),
         Len(byte) < ByteBits, Cut(bits, data, byte)
  PROVE  Flushed(data, byte) = Service!Packed(bits)
<1> DEFINE L == Len(data)
           B == Len(byte)
           b == ByteBits
           Q == (Len(bits) + b - 1) \div b
           P == Service!Packed(bits)
<1>1. /\ L \in Nat /\ B \in Nat /\ b \in Nat \ {0} /\ B < b /\ L * b \in Nat
      /\ Len(bits) = L * b + B
  BY DriverAssumption DEF Cut
<1>2. /\ \A k \in 1..L, j \in 1..b : data[k][j] = bits[(k - 1) * b + j]
      /\ \A j \in 1..B : byte[j] = bits[L * b + j]
  BY DEF Cut
<1>3. P = [ k \in 1..Q |-> [ j \in 1..b |->
              IF (k - 1) * b + j <= Len(bits) THEN bits[(k - 1) * b + j] ELSE 0 ] ]
  BY DEF Service!Packed
<1>4. /\ data = [k \in 1..L |-> data[k]]
      /\ \A k \in 1..L : data[k] = [j \in 1..b |-> data[k][j]]
  <2>1. data \in [1..L -> ByteType]
    BY LenProperties
  <2> QED BY <2>1 DEF ByteType
<1>5. (B = 0 <=> byte = <<>>)
  OBVIOUS
<1> HIDE DEF P, Q
<1>6. Q = IF B = 0 THEN L ELSE L + 1
  <2>1. CASE B = 0
    <3> DEFINE r == b - 1
    <3>1. Len(bits) + b - 1 = L * b + r /\ r \in 0..(b - 1)
      BY <1>1, <2>1
    <3> HIDE DEF r, L, b
    <3>2. (L * b + r) \div b = L
      BY <1>1, <3>1, Quotient
    <3> QED BY <2>1, <3>1, <3>2 DEF Q
  <2>2. CASE B # 0
    <3> DEFINE r == B - 1
               q == L + 1
    <3>1. Len(bits) + b - 1 = q * b + r /\ r \in 0..(b - 1) /\ q \in Nat
      BY <1>1, <2>2
    <3> HIDE DEF r, q, b
    <3>2. (q * b + r) \div b = q
      BY <1>1, <3>1, Quotient
    <3> QED BY <2>2, <3>1, <3>2 DEF Q, q
  <2> QED BY <2>1, <2>2
<1> HIDE DEF L, B, b
<1>7. ASSUME NEW k \in 1..L
      PROVE  data[k] = [ j \in 1..b |->
               IF (k - 1) * b + j <= Len(bits) THEN bits[(k - 1) * b + j] ELSE 0 ]
  <2>1. ASSUME NEW j \in 1..b PROVE (k - 1) * b + j <= Len(bits)
    <3>1. (k - 1) * b + j \in 1..(L * b)
      BY <1>1, Place
    <3> QED BY <1>1, <3>1
  <2>2. \A j \in 1..b :
          data[k][j] = IF (k - 1) * b + j <= Len(bits) THEN bits[(k - 1) * b + j] ELSE 0
    BY <1>2, <2>1
  <2> QED BY <1>4, <2>2
<1>8. CASE B = 0
  <2>1. P = data
    BY <1>3, <1>4, <1>6, <1>7, <1>8
  <2> QED BY <1>5, <1>8, <2>1 DEF Flushed, P
<1>9. CASE B # 0
  <2> DEFINE last == ZeroFilled(byte)
  <2>1. last = [ j \in 1..b |->
          IF ((L + 1) - 1) * b + j <= Len(bits) THEN bits[((L + 1) - 1) * b + j] ELSE 0 ]
    <3>1. last = [j \in 1..b |-> IF j <= B THEN byte[j] ELSE 0]
      BY DEF ZeroFilled, b, B
    <3>2. ASSUME NEW j \in 1..b
          PROVE  (IF j <= B THEN byte[j] ELSE 0) =
                   (IF ((L + 1) - 1) * b + j <= Len(bits) THEN bits[((L + 1) - 1) * b + j] ELSE 0)
      <4>1. ((L + 1) - 1) * b + j = L * b + j
        BY <1>1
      <4>2. L * b + j <= Len(bits) <=> j <= B
        BY <1>1
      <4>3. j <= B => j \in 1..B
        BY <1>1
      <4> QED BY <1>2, <4>1, <4>2, <4>3
    <3> QED BY <3>1, <3>2
  <2> HIDE DEF last
  <2>2. Append(data, last) = [k \in 1..(L + 1) |-> IF k = L + 1 THEN last ELSE data[k]]
    <3> DEFINE all == Append(data, last)
    <3>1. last \in ByteType
      <4>1. \A j \in 1..Len(byte) : byte[j] \in Bit
        OBVIOUS
      <4> QED BY <1>1, <4>1 DEF last, ZeroFilled, ByteType, Bit, B
    <3>2. all \in Seq(ByteType) /\ Len(all) = L + 1
      BY <3>1 DEF L
    <3>3. all = [k \in 1..(L + 1) |-> all[k]]
      <4>1. all \in [1..(L + 1) -> ByteType]
        BY <3>2, LenProperties
      <4> QED BY <4>1
    <3>4. \A k \in 1..(L + 1) : all[k] = IF k = L + 1 THEN last ELSE data[k]
      BY <3>1 DEF L
    <3> QED BY <3>3, <3>4
  <2>3. ASSUME NEW k \in 1..(L + 1)
        PROVE  P[k] = IF k = L + 1 THEN last ELSE data[k]
    <3>1. P[k] = [ j \in 1..b |->
            IF (k - 1) * b + j <= Len(bits) THEN bits[(k - 1) * b + j] ELSE 0 ]
      BY <1>3, <1>6, <1>9
    <3>2. CASE k = L + 1
      BY <2>1, <3>1, <3>2
    <3>3. CASE k # L + 1
      <4>1. k \in 1..L
        BY <1>1, <3>3
      <4> QED BY <1>7, <3>1, <3>3, <4>1
    <3> QED BY <3>2, <3>3
  <2>4. P = [k \in 1..(L + 1) |-> P[k]]
    BY <1>3, <1>6, <1>9
  <2>5. P = Append(data, last)
    BY <2>2, <2>3, <2>4
  <2> QED BY <1>5, <1>9, <2>5 DEF Flushed, P, last
<1> QED BY <1>8, <1>9

----------------------------------------------------------------------------
\* TDI along a call that clocks strings: its data, or the level it found.
Tdi == IF call.op \in DataOps THEN call.tdi ELSE [i \in 1..Len(call.tms) |-> odr.tdi]

StringOps == {"tms"} \cup DataOps

\* Bits the call has read.
Sampled == IF stage = "fall" THEN at ELSE at - 1

\* The target is where f, the course of the whole strings, was after the edges it has
\* seen; the bits read so far are those of the course.
Follows(f, bits) ==
  /\ Course(f, Len(call.tms), before.target, call.tms, Tdi)
  /\ driven => target = f[Edges].t
  /\ driven /\ stage = "sample" => tdo = TdoLevel(f[at - 1].t)
  /\ call.cap => /\ bits \in Seq(Bit) /\ Len(bits) = Sampled
                 /\ Cut(bits, tdo_data, tdo_byte)
                 /\ driven => bits = f[Sampled].tdo

\* A call that clocks strings follows their course.
CourseInv == call.op \in StringOps => \E f, bits : Follows(f, bits)

\* What a call has left as it found it.
FoundInv ==
  call # NoCall =>
    /\ call \in Calls
    /\ ~call.cap => tdo_data = <<>> /\ tdo_byte = <<>>
    /\ call.op # "init" => driven = before.driven
    /\ ~driven \/ call.op \in {"init", "reset"} => target = before.target

\* The levels at an edge, and on TDO after a falling one; what the walk loads; the
\* pins of a call of jtag_gpio_init between its two stores.
LevelInv ==
  /\ stage = "rise" /\ call.op \in DataOps => odr.tdi = call.tdi[at]
  /\ ~driven \/ stage \notin {"sample", "fall"} => tdo = TdoLevel(target)
  /\ call.op = "goto" /\ driven /\ Edges = 11 => target.sr = IrCapture
  /\ stage = "levels" => driven

SInv == CourseInv /\ FoundInv /\ LevelInv

\* What the kinds of call carry.
LEMMA CallKinds ==
  ASSUME NEW c \in Calls
  PROVE  /\ c.op \in {"init", "reset", "goto"} \cup StringOps
         /\ c.op \notin DataOps => ~c.cap /\ c.tdi = <<>>
         /\ c.op = "goto" => c.state \in GotoTargets
<1> USE DEF Call, DataOps, StringOps
<1>1. CASE c = InitCall \/ c = ResetCall
  BY <1>1 DEF InitCall, ResetCall
<1>2. CASE c \in { GotoCall(s) : s \in GotoTargets }
  <2>1. PICK s \in GotoTargets : c = GotoCall(s)
    BY <1>2
  <2> QED BY <2>1 DEF GotoCall
<1>3. CASE c \in { TmsCall(tms) : tms \in TmsStrings }
  <2>1. PICK tms \in TmsStrings : c = TmsCall(tms)
    BY <1>3
  <2> QED BY <2>1 DEF TmsCall
<1>4. CASE c \in { ShiftCall(tdi, last, cap) : tdi \in TdiStrings,
                                             last \in BOOLEAN, cap \in BOOLEAN }
  <2>1. PICK tdi \in TdiStrings, last \in BOOLEAN, cap \in BOOLEAN : c = ShiftCall(tdi, last, cap)
    BY <1>4
  <2>2. c.op = "shift"
    BY <2>1 DEF ShiftCall
  <2> QED BY <2>2
<1>5. CASE c \in { SequenceCall(tdi, tms, cap) : tdi \in TdiStrings,
                                               tms \in Bit, cap \in BOOLEAN }
  <2>1. PICK tdi \in TdiStrings, tms \in Bit, cap \in BOOLEAN : c = SequenceCall(tdi, tms, cap)
    BY <1>5
  <2>2. c.op = "sequence"
    BY <2>1 DEF SequenceCall
  <2> QED BY <2>2
<1> QED BY <1>1, <1>2, <1>3, <1>4, <1>5 DEF Calls

\* The initial states.
LEMMA InitServed == Init => SInv
<1> SUFFICES ASSUME Init PROVE SInv
  OBVIOUS
<1>1. call = NoCall /\ call.op = "none" /\ stage = "setup" /\ tdo = TdoLevel(target)
  BY DEF Init, NoCall, Call
<1> QED BY <1>1 DEF SInv, CourseInv, FoundInv, LevelInv, StringOps, DataOps

\* A step that leaves call, target and the bits read alone.
LEMMA FollowsStill ==
  ASSUME NEW f, NEW bits, Follows(f, bits),
         UNCHANGED <<call, before, driven, target, buffer>>, Tdi' = Tdi,
         Edges' = Edges, call.cap => Sampled' = Sampled,
         (driven /\ stage = "sample" => tdo = TdoLevel(f[at - 1].t))'
  PROVE  Follows(f, bits)'
<1>1. call' = call /\ before' = before /\ driven' = driven /\ target' = target
      /\ tdo_byte' = tdo_byte /\ tdo_data' = tdo_data
  BY DEF buffer
<1>2. Course(f, Len(call.tms), before.target, call.tms, Tdi)'
  BY <1>1 DEF Follows
<1>3. (driven => target = f[Edges].t)'
  BY <1>1 DEF Follows
<1>4. (call.cap => /\ bits \in Seq(Bit) /\ Len(bits) = Sampled
                   /\ Cut(bits, tdo_data, tdo_byte)
                   /\ driven => bits = f[Sampled].tdo)'
  BY <1>1 DEF Follows
<1> QED BY <1>2, <1>3, <1>4 DEF Follows

\* A call begins: the course of its strings exists, and no bit has been read.
LEMMA BeginServed ==
  ASSUME IInv, SInv, NEW c \in Calls, Begin(c)
  PROVE  SInv'
<1>1. /\ call = NoCall /\ call' = c /\ at' = 1 /\ tdo_byte' = <<>> /\ tdo_data' = <<>>
      /\ stage' \in {"init", "reset", "setup"}
      /\ before' = [driven |-> driven, target |-> target, tdo_data |-> tdo_data]
      /\ odr' = odr /\ driven' = driven /\ target' = target /\ tdo' = tdo
  BY DEF Begin, pins, wire, SInv, CallKinds
<1>2. c \in CallType
  BY CallsTyped
<1>3. before'.driven = driven /\ before'.target = target
  BY <1>1
<1>4. FoundInv'
  BY <1>1, <1>3 DEF FoundInv
<1>5. LevelInv'
  <2>1. stage = "setup"
    BY <1>1 DEF IInv, StageInv
  <2>2. tdo = TdoLevel(target)
    BY <2>1 DEF SInv, LevelInv
  <2>3. Edges' = 0
    BY <1>1 DEF Edges
  <2> QED BY <1>1, <2>2, <2>3 DEF LevelInv
<1>6. CourseInv'
  <2>1. SUFFICES ASSUME c.op \in StringOps PROVE (\E f, bits : Follows(f, bits))'
    BY <1>1 DEF CourseInv
  <2> DEFINE n == Len(c.tms)
  <2>2. n \in Nat
    BY <1>2 DEF CallType
  <2>3. PICK f : Course(f, n, target, c.tms, Tdi')
    BY <2>2, CourseExists
  <2>4. f[0] = [t |-> target, tdo |-> <<>>]
    BY <2>2, <2>3, CourseCycles
  <2>5. f[0].t = target /\ f[0].tdo = <<>>
    BY <2>4
  <2>6. Edges' = 0 /\ Sampled' = 0
    BY <1>1 DEF Edges, Sampled
  <2>7. Cut(<<>>, <<>>, <<>>) /\ <<>> \in Seq(Bit) /\ Len(<<>>) = 0
    BY DriverAssumption DEF Cut
  <2>8. Course(f, Len(call.tms), before.target, call.tms, Tdi)'
    BY <1>1, <1>3, <2>3
  <2>9. Follows(f, <<>>)'
    BY <1>1, <2>5, <2>6, <2>7, <2>8 DEF Follows
  <2> QED BY <2>9
<1> QED BY <1>4, <1>5, <1>6 DEF SInv

\* The rising edge takes the target one cycle along the course.
LEMMA RiseFollows ==
  ASSUME IInv, SInv, Rise, call.op \in StringOps, NEW f, NEW bits, Follows(f, bits)
  PROVE  Follows(f, bits)'
<1>1. /\ stage = "rise" /\ odr' = [odr EXCEPT !.tck = 1] /\ stage' \in {"sample", "fall"}
      /\ stage' = "sample" <=> call.cap
      /\ target' = IF driven THEN RisingEdge(target, odr.tms, odr.tdi) ELSE target
      /\ driven' = driven /\ call' = call /\ at' = at /\ tdo' = tdo /\ before' = before
      /\ tdo_byte' = tdo_byte /\ tdo_data' = tdo_data
  BY DEF Rise, buffer
<1>2. call.tms \in Seq(Bit) /\ Len(call.tms) \in Nat /\ at \in 1..Len(call.tms)
  <2>1. call.tms \in Seq(Bit) /\ at \in Nat \ {0}
    BY DEF IInv, TypeOK, CallType
  <2>2. at <= Len(call.tms)
    BY <1>1 DEF IInv, StageInv, Cycles, StringOps, DataOps
  <2> QED BY <2>1, <2>2
<1>3. odr.tms = call.tms[at]
  BY <1>1 DEF IInv, WalkInv, TmsAt, StringOps, DataOps
<1>4. odr.tdi = Tdi[at]
  <2>1. CASE call.op \in DataOps
    BY <1>1, <2>1 DEF SInv, LevelInv, Tdi
  <2>2. CASE call.op \notin DataOps
    BY <1>2, <2>2 DEF Tdi
  <2> QED BY <2>1, <2>2
<1>5. Tdi' = Tdi
  BY <1>1 DEF Tdi, IInv, TypeOK
<1>6. Edges = at - 1 /\ Edges' = at
  BY <1>1 DEF Edges
<1>7. f[at] = Cycle(f[at - 1], call.tms, Tdi, at)
  <2> DEFINE n == Len(call.tms)
  <2>1. Course(f, n, before.target, call.tms, Tdi) /\ n \in Nat /\ at \in 1..n
    BY <1>2 DEF Follows
  <2> HIDE DEF n
  <2>2. Cycled(f, n, call.tms, Tdi)
    BY <2>1, CourseCycles
  <2> QED BY <2>1, <2>2 DEF Cycled
<1>8. driven => target' = f[at].t
  BY <1>1, <1>3, <1>4, <1>6, <1>7 DEF Follows, Cycle
<1>9. driven => tdo' = TdoLevel(f[at - 1].t)
  BY <1>1, <1>6 DEF Follows, SInv, LevelInv
<1>10. call.cap => Sampled' = Sampled
  BY <1>1 DEF Sampled
<1>11. Course(f, Len(call.tms), before.target, call.tms, Tdi)'
  BY <1>1, <1>5 DEF Follows
<1>12. (call.cap => /\ bits \in Seq(Bit) /\ Len(bits) = Sampled
                    /\ Cut(bits, tdo_data, tdo_byte)
                    /\ driven => bits = f[Sampled].tdo)'
  BY <1>1, <1>10 DEF Follows
<1>13. (driven => target = f[Edges].t)' /\ (driven /\ stage = "sample" => tdo = TdoLevel(f[at - 1].t))'
  BY <1>1, <1>6, <1>8, <1>9
<1> QED BY <1>11, <1>12, <1>13 DEF Follows

\* Reading TDO takes the next bit of the course.
LEMMA SampleFollows ==
  ASSUME IInv, SInv, Sample, call.op \in StringOps, NEW f, NEW bits, Follows(f, bits)
  PROVE  \E more : Follows(f, more)'
<1>1. PICK level \in IF driven THEN {tdo} ELSE Bit :
        LET byte == Append(tdo_byte, level) IN
        /\ tdo_byte' = Rest(byte)
        /\ tdo_data' = IF Len(byte) = ByteBits THEN Append(tdo_data, byte) ELSE tdo_data
  BY DEF Sample
<1>2. /\ stage = "sample" /\ stage' = "fall" /\ odr' = odr /\ driven' = driven /\ call' = call
      /\ at' = at /\ target' = target /\ tdo' = tdo /\ before' = before
  BY DEF Sample, pins, wire
<1>3. level \in Bit /\ (driven => level = tdo)
  BY <1>1 DEF IInv, TypeOK
<1>4. call.cap
  BY <1>2 DEF IInv, StageInv
<1>5. /\ bits \in Seq(Bit) /\ Len(bits) = at - 1 /\ Cut(bits, tdo_data, tdo_byte)
      /\ driven => bits = f[at - 1].tdo
  BY <1>2, <1>4 DEF Follows, Sampled
<1>6. Cut(Append(bits, level), tdo_data', tdo_byte')
  BY <1>1, <1>3, <1>5, CutGrows DEF IInv, TypeOK
<1>7. Append(bits, level) \in Seq(Bit) /\ Len(Append(bits, level)) = at
  <2>1. at \in Nat
    BY DEF IInv, TypeOK
  <2> QED BY <1>3, <1>5, <2>1
<1>8. driven => Append(bits, level) = f[at].tdo
  <2>1. SUFFICES ASSUME driven PROVE Append(bits, level) = f[at].tdo
    OBVIOUS
  <2> DEFINE n == Len(call.tms)
  <2>2. n \in Nat /\ at \in 1..n
    <3>1. call.tms \in Seq(Bit) /\ at \in Nat \ {0}
      BY DEF IInv, TypeOK, CallType
    <3>2. at <= Len(call.tms)
      BY <1>2 DEF IInv, StageInv, Cycles, StringOps, DataOps
    <3> QED BY <3>1, <3>2
  <2>3. Course(f, n, before.target, call.tms, Tdi)
    BY DEF Follows
  <2> HIDE DEF n
  <2>4. f[at] = Cycle(f[at - 1], call.tms, Tdi, at)
    <3>1. Cycled(f, n, call.tms, Tdi)
      BY <2>2, <2>3, CourseCycles
    <3> QED BY <2>2, <3>1 DEF Cycled
  <2>5. f[at].tdo = Append(f[at - 1].tdo, TdoLevel(f[at - 1].t))
    BY <2>4 DEF Cycle
  <2>6. tdo = TdoLevel(f[at - 1].t)
    BY <1>2, <2>1 DEF Follows
  <2> QED BY <1>3, <1>5, <2>1, <2>5, <2>6
<1>9. Tdi' = Tdi
  BY <1>2 DEF Tdi
<1>10. Edges' = Edges /\ Sampled' = at
  BY <1>2 DEF Edges, Sampled
<1>11. Course(f, Len(call.tms), before.target, call.tms, Tdi)'
  BY <1>2, <1>9 DEF Follows
<1>12. (driven => target = f[Edges].t)' /\ (driven /\ stage = "sample" => tdo = TdoLevel(f[at - 1].t))'
  BY <1>2, <1>10 DEF Follows
<1>13. Follows(f, Append(bits, level))'
  BY <1>2, <1>6, <1>7, <1>8, <1>10, <1>11, <1>12 DEF Follows
<1> QED BY <1>13

\* Every step of a call keeps to its course.
LEMMA CourseStep ==
  ASSUME IInv, SInv, Step
  PROVE  CourseInv'
<1>0. NoCall.op \notin StringOps
  BY DEF NoCall, Call, StringOps, DataOps
<1>1. CASE InitPins \/ InitLevels \/ SrstAssert \/ SrstDeassert \/ Return
  <2>1. call'.op \notin StringOps
    BY <1>0, <1>1 DEF InitPins, InitLevels, SrstAssert, SrstDeassert, Return, StringOps, DataOps
  <2> QED BY <2>1 DEF CourseInv
<1>2. CASE Setup \/ Rise \/ Sample \/ Fall
  <2>0. call' = call
    BY <1>2 DEF Setup, Rise, Sample, Fall
  <2>1. SUFFICES ASSUME call.op \in StringOps PROVE (\E f, bits : Follows(f, bits))'
    BY <2>0 DEF CourseInv
  <2>2. PICK f, bits : Follows(f, bits)
    BY <2>1 DEF SInv, CourseInv
  <2>3. CASE Setup
    <3>1. /\ stage = "setup" /\ stage' = "rise"
          /\ UNCHANGED <<call, before, driven, target, buffer, at>>
          /\ odr' = [odr EXCEPT !.tms = TmsAt(call, at),
                               !.tdi = IF call.op \in DataOps THEN call.tdi[at] ELSE @]
      BY <2>3 DEF Setup, wire
    <3>2. call.op \notin DataOps => odr'.tdi = odr.tdi
      BY <3>1 DEF IInv, TypeOK
    <3>3. Tdi' = Tdi
      BY <3>1, <3>2 DEF Tdi
    <3>4. Edges' = Edges /\ Sampled' = Sampled
      BY <3>1 DEF Edges, Sampled
    <3>5. (driven /\ stage = "sample" => tdo = TdoLevel(f[at - 1].t))'
      BY <3>1
    <3> QED BY <2>2, <3>1, <3>3, <3>4, <3>5, FollowsStill
  <2>4. CASE Rise
    BY <2>1, <2>2, <2>4, RiseFollows
  <2>5. CASE Sample
    BY <2>1, <2>2, <2>5, SampleFollows
  <2>6. CASE Fall
    <3>1. /\ stage = "fall" /\ stage' = "setup" /\ at' = at + 1
          /\ UNCHANGED <<call, before, driven, target, buffer>>
          /\ odr' = [odr EXCEPT !.tck = 0]
      BY <2>6 DEF Fall, ClockLow, NextCycle
    <3>2. at \in Nat
      BY DEF IInv, TypeOK
    <3>3. Tdi' = Tdi
      BY <3>1 DEF Tdi, IInv, TypeOK
    <3>4. Edges' = Edges /\ Sampled' = Sampled
      BY <3>1, <3>2 DEF Edges, Sampled
    <3>5. (driven /\ stage = "sample" => tdo = TdoLevel(f[at - 1].t))'
      BY <3>1
    <3> QED BY <2>2, <3>1, <3>3, <3>4, <3>5, FollowsStill
  <2> QED BY <1>2, <2>3, <2>4, <2>5, <2>6
<1> QED BY <1>1, <1>2 DEF Step

\* A call leaves alone what it does not drive or read.
LEMMA FoundStep ==
  ASSUME IInv, SInv, Step
  PROVE  FoundInv'
<1> USE DEF SInv, FoundInv, IInv, StageInv
<1>1. CASE InitPins \/ SrstAssert
  <2>1. /\ call' = call /\ before' = before /\ target' = target /\ tdo_data' = tdo_data
        /\ tdo_byte' = tdo_byte /\ call.op \in {"init", "reset"}
        /\ call.op = "reset" => driven' = driven
    BY <1>1 DEF InitPins, SrstAssert, buffer, wire
  <2> QED BY <2>1
<1>2. CASE InitLevels \/ SrstDeassert \/ Return
  BY <1>2 DEF InitLevels, SrstDeassert, Return
<1>3. CASE Setup \/ Fall
  <2>1. /\ call' = call /\ before' = before /\ target' = target /\ tdo_data' = tdo_data
        /\ tdo_byte' = tdo_byte /\ driven' = driven
    BY <1>3 DEF Setup, Fall, buffer, wire
  <2> QED BY <2>1
<1>4. CASE Rise
  <2>1. /\ call' = call /\ before' = before /\ tdo_data' = tdo_data /\ tdo_byte' = tdo_byte
        /\ driven' = driven /\ (~driven => target' = target) /\ stage = "rise"
    BY <1>4 DEF Rise, buffer
  <2>2. call.op \notin {"init", "reset"}
    BY <2>1 DEF PinOps, DataOps
  <2> QED BY <2>1, <2>2
<1>5. CASE Sample
  <2>1. /\ call' = call /\ before' = before /\ driven' = driven /\ target' = target
        /\ stage = "sample"
    BY <1>5 DEF Sample, pins, wire
  <2>2. call.cap
    BY <2>1
  <2> QED BY <2>1, <2>2
<1> QED BY <1>1, <1>2, <1>3, <1>4, <1>5 DEF Step

\* The levels follow the call.
LEMMA LevelStep ==
  ASSUME IInv, SInv, Step
  PROVE  LevelInv'
<1>0. NoCall.op \notin DataOps \cup {"goto"}
  BY DEF NoCall, Call, DataOps
<1> USE DEF SInv, LevelInv
<1>1. CASE InitPins \/ InitLevels \/ SrstAssert \/ SrstDeassert
  <2>1. /\ target' = target /\ tdo' = tdo /\ stage' \in {"levels", "setup", "release"}
        /\ stage' = "levels" => driven'
        /\ call'.op # "goto" /\ stage \in {"init", "levels", "reset", "release"}
    BY <1>0, <1>1 DEF InitPins, InitLevels, SrstAssert, SrstDeassert, wire
  <2> QED BY <2>1
<1>2. CASE Return
  <2>1. target' = target /\ tdo' = tdo /\ stage' = "setup" /\ stage = "setup" /\ call' = NoCall
    BY <1>2 DEF Return, wire
  <2> QED BY <1>0, <2>1
<1>3. CASE Setup
  <2>1. /\ target' = target /\ tdo' = tdo /\ stage' = "rise" /\ stage = "setup" /\ call' = call
        /\ at' = at /\ driven' = driven
        /\ odr' = [odr EXCEPT !.tms = TmsAt(call, at),
                             !.tdi = IF call.op \in DataOps THEN call.tdi[at] ELSE @]
    BY <1>3 DEF Setup, wire
  <2>2. call.op \in DataOps => odr'.tdi = call.tdi[at]
    BY <2>1 DEF IInv, TypeOK
  <2>3. Edges' = Edges
    BY <2>1 DEF Edges
  <2> QED BY <2>1, <2>2, <2>3
<1>4. CASE Rise
  <2>1. /\ stage = "rise" /\ stage' \in {"sample", "fall"} /\ tdo' = tdo /\ call' = call
        /\ driven' = driven /\ at' = at
        /\ target' = IF driven THEN RisingEdge(target, odr.tms, odr.tdi) ELSE target
    BY <1>4 DEF Rise
  <2>2. Edges' = at /\ Edges = at - 1
    BY <2>1 DEF Edges
  <2>3. call.op = "goto" /\ driven /\ at = 11 => target'.sr = IrCapture
    <3>1. SUFFICES ASSUME call.op = "goto", driven, at = 11 PROVE target'.sr = IrCapture
      OBVIOUS
    <3>2. OnWalk(Edges, target.tap) /\ Edges = 10
      BY <2>2, <3>1 DEF IInv, WalkInv
    <3>3. target.tap = "TAP_IR_CAPTURE"
      BY <3>2 DEF OnWalk, WalkState
    <3>4. target' = RisingEdge(target, odr.tms, odr.tdi)
      BY <2>1, <3>1
    <3>5. RisingEdge(target, odr.tms, odr.tdi).sr = IrCapture
      BY <3>3 DEF RisingEdge, ShiftStates
    <3> QED BY <3>4, <3>5
  <2> QED BY <2>1, <2>2, <2>3
<1>5. CASE Sample
  <2>1. /\ stage = "sample" /\ stage' = "fall" /\ UNCHANGED <<target, tdo, call, driven, at>>
    BY <1>5 DEF Sample, pins, wire
  <2>2. Edges' = Edges
    BY <2>1 DEF Edges
  <2> QED BY <2>1, <2>2
<1>6. CASE Fall
  <2>1. /\ stage = "fall" /\ stage' = "setup" /\ UNCHANGED <<target, call, driven>>
        /\ at' = at + 1 /\ tdo' = IF driven THEN TdoLevel(target) ELSE tdo
    BY <1>6 DEF Fall, NextCycle
  <2>2. Edges' = Edges
    <3>1. at \in Nat
      BY DEF IInv, TypeOK
    <3> QED BY <2>1, <3>1 DEF Edges
  <2> QED BY <2>1, <2>2
<1> QED BY <1>1, <1>2, <1>3, <1>4, <1>5, <1>6 DEF Step

\* What a call does to the target and what it has read, for strings of any length.
THEOREM ServiceInvariance == Spec => []SInv
<1>1. Init => SInv
  BY InitServed
<1>2. IInv /\ SInv /\ [Next]_vars => SInv'
  <2>1. SUFFICES ASSUME IInv, SInv, [Next]_vars PROVE SInv'
    OBVIOUS
  <2>2. ASSUME NEW c \in Calls, Begin(c) PROVE SInv'
    BY <2>1, <2>2, BeginServed
  <2>3. CASE Step
    BY <2>1, <2>3, CourseStep, FoundStep, LevelStep DEF SInv
  <2>4. CASE UNCHANGED vars
    <3>1. Tdi' = Tdi /\ Edges' = Edges /\ Sampled' = Sampled
      BY <2>4 DEF vars, Tdi, Edges, Sampled
    <3>2. CourseInv'
      <4>1. SUFFICES ASSUME call.op \in StringOps PROVE (\E f, bits : Follows(f, bits))'
        BY <2>4 DEF CourseInv, vars
      <4>2. PICK f, bits : Follows(f, bits)
        BY <2>1, <4>1 DEF SInv, CourseInv
      <4>3. Follows(f, bits)'
        BY <2>4, <3>1, <4>2 DEF vars, Follows
      <4> QED BY <4>3
    <3>3. FoundInv' /\ LevelInv'
      BY <2>1, <2>4, <3>1 DEF SInv, FoundInv, LevelInv, vars
    <3> QED BY <3>2, <3>3 DEF SInv
  <2> QED BY <2>1, <2>2, <2>3, <2>4 DEF Next
<1> QED BY <1>1, <1>2, Invariance, PTL DEF Spec

\* A call not yet returned has not happened; what it returns with is one step of the
\* service.
LEMMA ServiceScan ==
  ASSUME NEW t, NEW tms, NEW tdi
  PROVE  Service!Scan(t, tms, tdi) = Scan(t, tms, tdi)
BY DEF Service!Scan, Scan, Service!RisingEdge, RisingEdge, Service!TdoLevel, TdoLevel,
       Service!TapStep, TapStep, Service!OnOne, OnOne, Service!OnZero, OnZero,
       Service!ShiftStates, ShiftStates

\* The steps within a call.
LEMMA WithinCall ==
  ASSUME call # NoCall, UNCHANGED <<call, before>>
  PROVE  UNCHANGED Service!vars
BY DEF Service!vars

\* The two modules mean the same calls.
LEMMA ServiceNames == Service!Calls = Calls /\ Service!DataOps = DataOps /\ Service!Bit = Bit
BY DEF Service!Calls, Calls, Service!InitCall, InitCall, Service!ResetCall, ResetCall,
       Service!GotoCall, GotoCall, Service!TmsCall, TmsCall, Service!ShiftCall, ShiftCall,
       Service!SequenceCall, SequenceCall, Service!ShiftTms, ShiftTms, Service!Call, Call,
       Service!DataOps, DataOps, Service!Bit, Bit

\* jtag_goto_state returns.
LEMMA GotoServed ==
  ASSUME IInv, SInv, Return, call.op = "goto", driven
  PROVE  Service!Next
<1>1. /\ call # NoCall /\ call' = NoCall /\ at > Cycles(call) /\ stage = "setup"
      /\ target' = target /\ driven' = driven /\ tdo_data' = Flushed(tdo_data, tdo_byte)
  BY DEF Return, pins, wire
<1>2. call \in Calls /\ tdo_data = <<>> /\ tdo_byte = <<>> /\ before.driven
  <2>1. call \in Calls
    BY <1>1 DEF SInv, FoundInv
  <2>2. ~call.cap
    BY <2>1, CallKinds DEF DataOps
  <2> QED BY <1>1, <2>1, <2>2 DEF SInv, FoundInv
<1>3. at = WalkLength(call.state) + 1 /\ Edges = WalkLength(call.state)
  BY <1>1, WalkLengths DEF IInv, StageInv, Cycles, TypeOK, PinOps, Edges
<1>4. target.tap = WalkState(WalkLength(call.state))
  BY <1>3, WalkLengths DEF IInv, WalkInv, OnWalk
<1>5. target.tap = Service!Landing(call.state)
  BY <1>4 DEF WalkState, WalkLength, Service!Landing
<1>6. Service!Landing(call.state) = "TAP_IR_SHIFT" => target.sr = IrCapture
  <2>1. Service!Landing(call.state) = "TAP_IR_SHIFT" => WalkLength(call.state) = 11
    BY DEF Service!Landing, WalkLength
  <2> QED BY <1>3, <2>1 DEF SInv, LevelInv
<1>7. Flushed(tdo_data, tdo_byte) = <<>>
  BY <1>2 DEF Flushed
<1>8. call.state \in GotoTargets
  BY <1>2, CallKinds
<1>9. Service!Goto(call.state)
  BY <1>1, <1>2, <1>5, <1>6, <1>7 DEF Service!Goto
<1> QED BY <1>8, <1>9 DEF Service!Next

\* A call that clocks strings returns: all of them applied, all bits packed.
LEMMA StringServed ==
  ASSUME IInv, SInv, Return, call.op \in StringOps, driven
  PROVE  Service!Next
<1>1. /\ call # NoCall /\ call' = NoCall /\ at > Cycles(call) /\ stage = "setup"
      /\ target' = target /\ driven' = driven /\ tdo_data' = Flushed(tdo_data, tdo_byte)
  BY DEF Return, pins, wire
<1>2. call \in Calls /\ before.driven
  BY <1>1 DEF SInv, FoundInv, StringOps, DataOps
<1>3. PICK f, bits : Follows(f, bits)
  BY DEF SInv, CourseInv
<1> DEFINE n == Len(call.tms)
<1>4. n \in Nat /\ at - 1 = n /\ Edges = n /\ Sampled = n
  <2>1. n \in Nat /\ at \in Nat
    BY DEF IInv, TypeOK, CallType
  <2>2. Cycles(call) = n /\ at <= Cycles(call) + 1
    BY DEF Cycles, StringOps, DataOps, IInv, StageInv, PinOps
  <2> QED BY <1>1, <2>1, <2>2 DEF Edges, Sampled
<1> DEFINE r == Scan(before.target, call.tms, Tdi)
<1>5. r = f[n]
  BY <1>3, <1>4, ScanCourse DEF Follows
<1>6. target' = r.t
  BY <1>1, <1>3, <1>4, <1>5 DEF Follows
<1>7. tdo_data' = IF call.cap THEN Service!Packed(r.tdo) ELSE <<>>
  <2>1. CASE call.cap
    <3>1. bits \in Seq(Bit) /\ Cut(bits, tdo_data, tdo_byte) /\ bits = r.tdo
      BY <1>3, <1>4, <1>5, <2>1 DEF Follows
    <3>2. Flushed(tdo_data, tdo_byte) = Service!Packed(bits)
      BY <3>1, CutPacked DEF IInv, TypeOK
    <3> QED BY <1>1, <2>1, <3>1, <3>2
  <2>2. CASE ~call.cap
    <3>1. tdo_data = <<>> /\ tdo_byte = <<>>
      BY <1>1, <2>2 DEF SInv, FoundInv
    <3> QED BY <1>1, <2>2, <3>1 DEF Flushed
  <2> QED BY <2>1, <2>2
<1>8. odr.tdi \in Bit
  BY DEF IInv, TypeOK
<1>9. Service!Apply(call, odr.tdi)
  <2>1. Service!Scan(before.target, call.tms, Tdi) = r
    BY ServiceScan
  <2>2. Tdi = IF call.op \in Service!DataOps THEN call.tdi
              ELSE [i \in 1..Len(call.tms) |-> odr.tdi]
    BY DEF Tdi, DataOps, Service!DataOps
  <2> HIDE DEF r, n
  <2> QED BY <1>1, <1>2, <1>6, <1>7, <2>1, <2>2 DEF Service!Apply
<1>10. call \in Service!Calls /\ odr.tdi \in Service!Bit
       /\ call.op \in Service!DataOps \cup {"tms"}
  BY <1>2, <1>8, ServiceNames DEF StringOps
<1> QED BY <1>9, <1>10 DEF Service!Next

\* What a caller of the service sees of a call that returns unheard.
LEMMA Unheard ==
  ASSUME call # NoCall, call' = NoCall, ~before.driven, driven' = before.driven, target' = before.target,
         call \in Calls, NEW bits \in [1..Len(call.tdi) -> Bit],
         tdo_data' = IF call.cap THEN Service!Packed(bits) ELSE <<>>
  PROVE  Service!Next
<1>1. ~(IF call = NoCall THEN driven ELSE before.driven)
  BY Zenon
<1>2. \E b \in [1..Len(call.tdi) -> Service!Bit] :
        (IF call = NoCall THEN tdo_data ELSE before.tdo_data)'
          = IF call.cap THEN Service!Packed(b) ELSE <<>>
  BY ServiceNames
<1>3. UNCHANGED (IF call = NoCall THEN target ELSE before.target)
  OBVIOUS
<1>4. UNCHANGED (IF call = NoCall THEN driven ELSE before.driven)
  BY Zenon
<1>5. Service!NotConnected(call)
  BY <1>1, <1>2, <1>3, <1>4, Zenon DEF Service!NotConnected
<1> QED BY <1>5, ServiceNames DEF Service!Next

\* A call returns that never reached the target.
LEMMA UnheardServed ==
  ASSUME IInv, SInv, Return, ~driven
  PROVE  Service!Next
<1>1. /\ call # NoCall /\ call' = NoCall /\ at > Cycles(call) /\ stage = "setup"
      /\ target' = target /\ driven' = driven /\ tdo_data' = Flushed(tdo_data, tdo_byte)
  BY DEF Return, pins, wire
<1>2. call.op \notin {"init", "reset"} /\ call \in Calls
  BY <1>1 DEF SInv, FoundInv, IInv, StageInv, PinOps, DataOps
<1>3. target = before.target /\ driven = before.driven
  BY <1>1, <1>2 DEF SInv, FoundInv
<1>4. driven' = before.driven /\ target' = before.target /\ ~before.driven
  BY <1>1, <1>3, Zenon
<1>5. CASE ~call.cap
  <2>1. tdo_data' = <<>>
    BY <1>1, <1>5 DEF SInv, FoundInv, Flushed
  <2>2. PICK bits \in [1..Len(call.tdi) -> Bit] : TRUE
    <3>1. [i \in 1..Len(call.tdi) |-> 0] \in [1..Len(call.tdi) -> Bit]
      BY DEF Bit
    <3> QED BY <3>1
  <2>3. tdo_data' = IF call.cap THEN Service!Packed(bits) ELSE <<>>
    BY <1>5, <2>1
  <2> QED BY <1>1, <1>2, <1>4, <2>2, <2>3, Unheard
<1>6. CASE call.cap
  <2>1. call.op \in StringOps /\ call.op \in DataOps
    BY <1>2, <1>6, CallKinds DEF StringOps, DataOps
  <2>2. PICK f, bits : Follows(f, bits)
    BY <2>1 DEF SInv, CourseInv
  <2> DEFINE n == Len(call.tdi)
  <2>3. n \in Nat /\ Sampled = n
    <3>1. n \in Nat /\ at \in Nat /\ n = Len(call.tms)
      BY <2>1 DEF IInv, TypeOK, CallType
    <3>2. Cycles(call) = n /\ at <= Cycles(call) + 1
      BY <2>1, <3>1 DEF Cycles, StringOps, DataOps, IInv, StageInv, PinOps
    <3> QED BY <1>1, <3>1, <3>2 DEF Sampled
  <2>4. bits \in Seq(Bit) /\ Len(bits) = n /\ Cut(bits, tdo_data, tdo_byte)
    BY <1>6, <2>2, <2>3 DEF Follows
  <2>5. bits \in [1..n -> Bit]
    BY <2>4, LenProperties
  <2>6. tdo_data' = Service!Packed(bits)
    BY <1>1, <2>4, CutPacked DEF IInv, TypeOK
  <2>7. tdo_data' = IF call.cap THEN Service!Packed(bits) ELSE <<>>
    BY <1>6, <2>6
  <2> QED BY <1>1, <1>2, <1>4, <2>5, <2>7, Unheard
<1> QED BY <1>5, <1>6

\* Every step is one of the service, or none of it.
LEMMA StepServed ==
  ASSUME IInv, SInv, [Next]_vars
  PROVE  [Service!Next]_Service!vars
<1>1. ASSUME NEW c \in Calls, Begin(c) PROVE UNCHANGED Service!vars
  <2>1. /\ call = NoCall /\ call' = c /\ UNCHANGED <<driven, target>>
        /\ before' = [driven |-> driven, target |-> target, tdo_data |-> tdo_data]
    BY <1>1 DEF Begin, pins, wire
  <2>2. c # NoCall
    BY CallsTyped DEF NoCall, Call
  <2>3. before'.driven = driven /\ before'.target = target /\ before'.tdo_data = tdo_data
    BY <2>1
  <2> QED BY <2>1, <2>2, <2>3 DEF Service!vars
<1>2. CASE InitPins \/ SrstAssert \/ Setup \/ Rise \/ Sample \/ Fall
  <2>1. call' = call /\ before' = before
    BY <1>2 DEF InitPins, SrstAssert, Setup, Rise, Sample, Fall
  <2>2. call # NoCall
    BY <1>2 DEF InitPins, SrstAssert, Setup, Rise, Sample, Fall, IInv, StageInv, NoCall, Call
  <2> QED BY <2>1, <2>2, WithinCall
<1>3. CASE InitLevels \/ SrstDeassert
  <2>1. /\ call # NoCall /\ call' = NoCall /\ UNCHANGED <<driven, target, tdo_data>>
        /\ call.op \in {"init", "reset"}
    BY <1>3 DEF InitLevels, SrstDeassert, buffer, wire, NoCall, Call
  <2>2. /\ tdo_data = <<>> /\ target = before.target
        /\ call.op = "reset" => driven = before.driven
    <3>1. call \in Calls
      BY <2>1 DEF SInv, FoundInv
    <3>2. ~call.cap
      BY <2>1, <3>1, CallKinds DEF DataOps
    <3> QED BY <2>1, <3>2 DEF SInv, FoundInv
  <2>3. CASE InitLevels
    <3>1. driven
      BY <2>3 DEF InitLevels, SInv, LevelInv
    <3>2. driven = TRUE
      BY <3>1, Zenon DEF IInv, TypeOK
    <3>3. Service!Connect
      BY <2>1, <2>2, <3>2 DEF Service!Connect
    <3> QED BY <3>3 DEF Service!Next
  <2>4. CASE SrstDeassert
    <3>1. call.op = "reset"
      BY <2>4 DEF SrstDeassert
    <3>2. Service!ResetTarget
      BY <2>1, <2>2, <3>1 DEF Service!ResetTarget
    <3> QED BY <3>2 DEF Service!Next
  <2> QED BY <1>3, <2>3, <2>4
<1>4. CASE Return
  <2>1. call # NoCall
    BY <1>4 DEF Return
  <2>2. call.op \in {"goto"} \cup StringOps
    BY <1>4, <2>1 DEF Return, IInv, StageInv, PinOps, StringOps, DataOps
  <2> QED BY <1>4, <2>2, GotoServed, StringServed, UnheardServed
<1>5. CASE UNCHANGED vars
  BY <1>5 DEF vars, Service!vars
<1> QED BY <1>1, <1>2, <1>3, <1>4, <1>5 DEF Next, Step

\* The driver does to the target, with every GPIO access in its place, what JtagService
\* says it does at once, for calls with strings of any length and bytes of any width.
THEOREM Refinement == Spec => ImplementsService
<1>1. Init => Service!Init
  <2>1. SUFFICES ASSUME Init PROVE Service!Init
    OBVIOUS
  <2>2. PowerUpTargets = Service!PowerUpTargets
    BY DEF PowerUpTargets, Service!PowerUpTargets, TapStates, Service!TapStates
  <2> QED BY <2>1, <2>2 DEF Init, Service!Init
<1>2. IInv /\ SInv /\ [Next]_vars => [Service!Next]_Service!vars
  BY StepServed
<1> QED BY <1>1, <1>2, Invariance, ServiceInvariance, PTL DEF Spec, Service!Spec, ImplementsService
=============================================================================
