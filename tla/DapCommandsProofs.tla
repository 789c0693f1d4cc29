------------------------- MODULE DapCommandsProofs -------------------------
(***************************************************************************)
(* What holds of the command handlers for every report size, buffer size    *)
(* and request.  The inductive invariant says, loop by loop, how far the    *)
(* response index can have run ahead of the bytes of the request parsed.    *)
(***************************************************************************)
EXTENDS DapProbe, WellFoundedInduction, SequenceTheorems, TLAPS

\* Nothing is stored before a handler starts.
BeforeHandler ==
  pc \in {"idle", "dispatch"} =>
    top = 0 - 1 /\ owed = <<>> /\ resp_count = 0 /\ resp_len = 0

\* The loop that runs is that of the command.
LoopOfCommand == pc \in Loops => LoopOf(cmd) = pc

\* What the captured sequences left in the buffer, and the request bytes that
\* paid for it.
SequenceInv ==
  pc = "sequence" =>
    /\ req_pos <= req_len /\ 2 + resp_idx <= req_pos
    /\ resp_idx = Len(owed) /\ top <= 1 + resp_idx /\ resp_count = 0
    /\ \A k \in 1..Len(owed) : resp_buffer[1 + k] = owed[k] /\ owed[k].by = "tdo"

\* Every word read by a transfer took a byte of the request.
TransferInv ==
  pc = "transfer" =>
    /\ 3 <= req_pos /\ req_pos <= req_len
    /\ resp_idx = 3 + 4 * resp_count /\ resp_count <= req_pos - 3
    /\ top <= 2 + resp_idx

\* The index of a block is even and no multiple of 4, and its last word ends
\* with the buffer.
BlockInv ==
  pc = "block" =>
    /\ resp_idx = 2 + 4 * resp_count
    /\ top <= 1 + resp_idx /\ (resp_count > 0 => resp_idx <= RespSize - 2)

CopyInv ==
  pc = "copy" => SequenceFits /\ OwedInOrder /\ ReplyFresh

IInv ==
  /\ TypeOK /\ BeforeHandler /\ LoopOfCommand
  /\ SequenceInv /\ TransferInv /\ BlockInv /\ CopyInv
  /\ StoresInBounds /\ ClockAgrees
----------------------------------------------------------------------------
\* jtag_set_clock never sets a divider below 2.
LEMMA DividerRange ==
  ASSUME NEW khz \in Nat
  PROVE  Divider(khz) \in Nat /\ Divider(khz) >= 2
<1> DEFINE clk == IF khz = 0 THEN 1 ELSE IF khz > 10000 THEN 10000 ELSE khz
<1>1. clk \in Nat \ {0}
  OBVIOUS
<1>2. 10000 \div clk \in Int
  BY <1>1
<1> QED BY <1>2 DEF Divider

\* The marks a handler leaves are marks.
LEMMA MarkTyped ==
  /\ Old \in Marks
  /\ \A by \in {"header", "info", "tdo", "word"}, n, k \in Nat :
       Mark(by, n, k) \in Marks /\ Mark(by, n, k) # Old /\ Mark(by, n, k).by = by
BY DEF Old, Mark, Marks

\* A store changes the bytes it covers and no other.
LEMMA StoredBytes ==
  ASSUME TypeOK, NEW i \in Nat, NEW n \in Nat, n > 0, NEW part \in Nat,
         NEW by \in {"header", "info", "tdo", "word"},
         Stored(i, n, by, part)
  PROVE  /\ resp_buffer' \in [0..(RespSize - 1) -> Marks]
         /\ top' \in Int /\ (top' = top \/ top' = i + n - 1) /\ i + n - 1 <= top' /\ top <= top'
         /\ \A j \in 0..(RespSize - 1) :
              resp_buffer'[j] = IF j \in i..(i + n - 1) THEN Mark(by, part, j - i)
                                                        ELSE resp_buffer[j]
<1>1. \A j \in 0..(RespSize - 1) :
        j \in i..(i + n - 1) => j - i \in Nat /\ Mark(by, part, j - i) \in Marks
  BY MarkTyped, SizeAssumption
<1>2. resp_buffer' \in [0..(RespSize - 1) -> Marks]
  BY <1>1 DEF Stored, TypeOK
<1>3. top' \in Int /\ (top' = top \/ top' = i + n - 1) /\ i + n - 1 <= top' /\ top <= top'
  BY DEF Stored, TypeOK
<1>4. \A j \in 0..(RespSize - 1) :
        resp_buffer'[j] = IF j \in i..(i + n - 1) THEN Mark(by, part, j - i) ELSE resp_buffer[j]
  BY DEF Stored
<1> QED BY <1>2, <1>3, <1>4

\* The bare header: two bytes of its own.
LEMMA HeaderReply ==
  ASSUME TypeOK, BeforeHandler, pc = "dispatch", WriteResponse
  PROVE  /\ resp_buffer' \in [0..(RespSize - 1) -> Marks]
         /\ top' = 1 /\ resp_len' = 2 /\ pc' = "copy" /\ resp_count' = 0 /\ owed' = <<>>
         /\ UNCHANGED <<cmd, req_len, left, req_pos, rnw, resp_idx, resp_status>>
         /\ \A j \in 0..1 : resp_buffer'[j] # Old
<1>1. Stored(0, 2, "header", 0)
  BY DEF WriteResponse
<1>2. /\ resp_buffer' \in [0..(RespSize - 1) -> Marks]
      /\ top' \in Int /\ (top' = top \/ top' = 1) /\ 1 <= top'
      /\ \A j \in 0..(RespSize - 1) :
           resp_buffer'[j] = IF j \in 0..1 THEN Mark("header", 0, j - 0) ELSE resp_buffer[j]
  BY <1>1, StoredBytes
<1>3. \A j \in 0..1 : resp_buffer'[j] # Old
  BY <1>2, MarkTyped, SizeAssumption
<1> QED BY <1>2, <1>3 DEF WriteResponse, BeforeHandler, loop

----------------------------------------------------------------------------
\* Init => IInv.
LEMMA InitInv == Init => IInv
<1> SUFFICES ASSUME Init PROVE IInv
  OBVIOUS
<1>1. resp_buffer \in [0..(RespSize - 1) -> Marks]
  BY MarkTyped DEF Init, AllOld
<1>2. /\ pc = "idle" /\ cmd = "none" /\ req_len = 0 /\ owed = <<>> /\ top = 0 - 1
      /\ left = 0 /\ req_pos = 0 /\ rnw = FALSE /\ resp_idx = 0 /\ resp_count = 0
      /\ resp_status = "OK" /\ resp_len = 0 /\ jtag_clk_div = 5
      /\ dap_state = [connected |-> FALSE, port |-> "DISABLED", clock_khz |-> 1000]
  BY DEF Init
<1>3. dap_state \in DapState
  BY <1>2 DEF DapState
<1>4. TypeOK
  <2>1. rnw \in BOOLEAN
    BY <1>2, Zenon
  <2>4. owed \in Seq(Marks)
    <3>1. <<>> \in Seq(Marks)
      OBVIOUS
    <3> QED BY <1>2, <3>1
  <2>2. req_len \in 0..PacketSize /\ top \in Int
    BY <1>2, SizeAssumption
  <2>3. cmd \in Commands \cup {"none"} /\ pc \in {"idle", "dispatch", "copy"} \cup Loops
    BY <1>2
  <2> QED BY <1>1, <1>2, <1>3, <2>1, <2>2, <2>3, <2>4 DEF TypeOK
<1> QED BY <1>2, <1>4, SizeAssumption DEF IInv, BeforeHandler, LoopOfCommand, Loops,
             SequenceInv, TransferInv, BlockInv, CopyInv, StoresInBounds, ClockAgrees

\* What the handlers that answer with a bare header leave behind.
LEMMA HeaderStep ==
  ASSUME IInv, pc = "dispatch", WriteResponse,
         dap_state' \in DapState,
         (jtag_clk_div \in Nat /\ jtag_clk_div >= 2)', ClockAgrees'
  PROVE  IInv'
<1>1. /\ resp_buffer' \in [0..(RespSize - 1) -> Marks]
      /\ top' = 1 /\ resp_len' = 2 /\ pc' = "copy" /\ resp_count' = 0 /\ owed' = <<>>
      /\ UNCHANGED <<cmd, req_len, left, req_pos, rnw, resp_idx, resp_status>>
      /\ \A j \in 0..1 : resp_buffer'[j] # Old
  BY HeaderReply DEF IInv
<1>2. TypeOK'
  BY <1>1 DEF IInv, TypeOK
<1>3. CopyInv'
  BY <1>1 DEF CopyInv, SequenceFits, OwedInOrder, ReplyFresh, Stale
<1> QED BY <1>1, <1>2, <1>3, SizeAssumption DEF IInv, BeforeHandler, LoopOfCommand, Loops,
             SequenceInv, TransferInv, BlockInv, StoresInBounds

\* IInv is preserved by the commands that run no loop.
LEMMA PlainStep ==
  ASSUME IInv, Receive \/ Simple \/ Info \/ Connect \/ Disconnect \/ SwjClk
  PROVE  IInv'
<1>1. CASE Receive
  <2>1. TypeOK'
    BY <1>1, SizeAssumption DEF IInv, TypeOK, Receive, dap, out, loop
  <2>2. ClockAgrees' /\ StoresInBounds' /\ BeforeHandler'
    BY <1>1 DEF IInv, Receive, dap, out, loop, ClockAgrees, StoresInBounds, BeforeHandler
  <2> QED BY <1>1, <2>1, <2>2 DEF IInv, Receive, LoopOfCommand, Loops,
               SequenceInv, TransferInv, BlockInv, CopyInv
<1>2. CASE Simple
  <2>1. pc = "dispatch" /\ WriteResponse /\ UNCHANGED dap
    BY <1>2 DEF Simple
  <2> QED BY <2>1, HeaderStep DEF IInv, TypeOK, dap, ClockAgrees
<1>3. CASE Info
  <2>1. pc = "dispatch" /\ UNCHANGED dap /\ cmd = "DAP_INFO"
    BY <1>3 DEF Info
  <2>2. CASE WriteResponse
    BY <2>1, <2>2, HeaderStep DEF IInv, TypeOK, dap, ClockAgrees
  <2>3. ASSUME NEW n \in InfoLens, Stored(0, n + 2, "info", 0), resp_len' = n + 2,
               pc' = "copy", UNCHANGED <<cmd, req_len, loop, owed>>
        PROVE  IInv'
    <3>1. n \in Nat /\ n + 2 <= PacketSize /\ n + 2 > 0
      BY SizeAssumption
    <3>2. /\ resp_buffer' \in [0..(RespSize - 1) -> Marks]
          /\ top' \in Int /\ (top' = top \/ top' = n + 1)
          /\ \A j \in 0..(RespSize - 1) :
               resp_buffer'[j] = IF j \in 0..(0 + (n + 2) - 1) THEN Mark("info", 0, j - 0)
                                                             ELSE resp_buffer[j]
      BY <2>3, <3>1, StoredBytes DEF IInv
    <3>3. ASSUME NEW j \in 0..(n + 1)
          PROVE  resp_buffer'[j] # Old
      <4>1. j \in Nat /\ j \in 0..(RespSize - 1) /\ j \in 0..(0 + (n + 2) - 1) /\ j - 0 = j
        BY <3>1, SizeAssumption
      <4>2. resp_buffer'[j] = Mark("info", 0, j)
        BY <3>2, <4>1
      <4> QED BY <4>1, <4>2, MarkTyped
    <3>4. TypeOK'
      BY <2>1, <2>3, <3>1, <3>2 DEF IInv, TypeOK, dap, loop
    <3>5. CopyInv'
      BY <2>1, <2>3, <3>1, <3>3 DEF CopyInv, SequenceFits, OwedInOrder, ReplyFresh, Stale
    <3>6. ClockAgrees' /\ StoresInBounds'
      BY <2>1, <3>1, <3>2, SizeAssumption DEF IInv, ClockAgrees, StoresInBounds, dap
    <3> QED BY <2>3, <3>4, <3>5, <3>6 DEF IInv, BeforeHandler, LoopOfCommand, Loops,
                 SequenceInv, TransferInv, BlockInv
  <2> QED BY <1>3, <2>2, <2>3 DEF Info
<1>4. CASE Connect
  <2>1. pc = "dispatch" /\ WriteResponse
    BY <1>4 DEF Connect
  <2>2. Divider(1000) \in Nat /\ Divider(1000) >= 2
    BY DividerRange
  <2>3. dap_state' \in DapState
    <3>1. [connected |-> TRUE, port |-> "JTAG", clock_khz |-> 1000] \in DapState
      BY DEF DapState
    <3>2. dap_state \in DapState
      BY DEF IInv, TypeOK
    <3>3. CASE req_len < 2
      BY <1>4, <3>2, <3>3 DEF Connect, dap
    <3>4. CASE ~(req_len < 2)
      BY <1>4, <3>1, <3>4 DEF Connect
    <3> QED BY <3>3, <3>4
  <2>4. (jtag_clk_div \in Nat /\ jtag_clk_div >= 2)' /\ ClockAgrees'
    BY <1>4, <2>2 DEF Connect, IInv, TypeOK, ClockAgrees, dap
  <2> QED BY <2>1, <2>3, <2>4, HeaderStep
<1>5. CASE Disconnect
  <2>1. pc = "dispatch" /\ WriteResponse
    BY <1>5 DEF Disconnect
  <2>2. dap_state' \in DapState
    BY <1>5 DEF Disconnect, IInv, TypeOK, DapState
  <2>3. (jtag_clk_div \in Nat /\ jtag_clk_div >= 2)' /\ ClockAgrees'
    BY <1>5 DEF Disconnect, IInv, TypeOK, ClockAgrees
  <2> QED BY <2>1, <2>2, <2>3, HeaderStep
<1>6. CASE SwjClk
  <2>1. pc = "dispatch" /\ WriteResponse
    BY <1>6 DEF SwjClk
  <2>2. CASE req_len < 5
    BY <1>6, <2>1, <2>2, HeaderStep DEF SwjClk, IInv, TypeOK, ClockAgrees, dap
  <2>3. CASE ~(req_len < 5)
    <3>1. PICK khz \in ClocksKhz : /\ dap_state' = [dap_state EXCEPT !.clock_khz = khz]
                                   /\ jtag_clk_div' = Divider(khz)
      BY <1>6, <2>3 DEF SwjClk
    <3>2. khz \in Nat /\ Divider(khz) \in Nat /\ Divider(khz) >= 2
      BY SizeAssumption, DividerRange
    <3>3. dap_state' \in DapState
          /\ dap_state'.clock_khz = khz
      BY <3>1, <3>2 DEF IInv, TypeOK, DapState
    <3> QED BY <2>1, <3>1, <3>2, <3>3, HeaderStep DEF ClockAgrees
  <2> QED BY <2>2, <2>3
<1> QED BY <1>1, <1>2, <1>3, <1>4, <1>5, <1>6

----------------------------------------------------------------------------
\* A handler that loops starts within the request, its index where the header
\* it has in mind ends.
LEMMA BeginStep ==
  ASSUME IInv, BeginLoop
  PROVE  IInv'
<1>1. pc = "dispatch" /\ UNCHANGED dap /\ LoopOf(cmd) \in Loops
  BY DEF BeginLoop
<1>2. CASE req_len < ShortestRequest(LoopOf(cmd))
  BY <1>1, <1>2, HeaderStep DEF BeginLoop, IInv, TypeOK, dap, ClockAgrees
<1>3. CASE ~(req_len < ShortestRequest(LoopOf(cmd)))
  <2>1. /\ left' \in 0..255 /\ rnw' \in BOOLEAN /\ pc' = LoopOf(cmd)
        /\ req_pos' = FirstByte(LoopOf(cmd)) /\ resp_idx' = FirstIndex(LoopOf(cmd))
        /\ resp_count' = 0 /\ resp_status' = "OK"
        /\ UNCHANGED <<out, cmd, req_len, owed>>
    BY <1>3, SizeAssumption DEF BeginLoop
  <2>2. req_pos' \in {2, 3, 4} /\ resp_idx' \in {0, 2, 3}
    BY <2>1 DEF FirstByte, FirstIndex
  <2>3. TypeOK'
    BY <1>1, <2>1, <2>2 DEF IInv, TypeOK, dap, out
  <2>4. SequenceInv' /\ TransferInv' /\ BlockInv'
    BY <1>1, <1>3, <2>1, <2>2 DEF IInv, TypeOK, BeforeHandler, SequenceInv, TransferInv,
         BlockInv, ShortestRequest, FirstByte, FirstIndex, out
  <2> QED BY <1>1, <2>1, <2>3, <2>4 DEF IInv, LoopOfCommand, Loops, BeforeHandler, CopyInv,
               StoresInBounds, ClockAgrees, dap, out
<1> QED BY <1>2, <1>3

\* The captured bytes go behind those of the sequences before.
LEMMA SequenceStepInv ==
  ASSUME IInv, SequenceStep
  PROVE  IInv'
<1>1. /\ pc = "sequence" /\ left > 0 /\ req_pos < req_len
      /\ UNCHANGED <<dap, pc, cmd, req_len, rnw, resp_count, resp_status, resp_len>>
      /\ left' = left - 1
  BY DEF SequenceStep, RequestLeft, OneDone
<1>2. PICK bytes \in ByteLens, capture \in BOOLEAN :
        /\ req_pos + 1 + bytes <= req_len
        /\ req_pos' = req_pos + 1 + bytes
        /\ IF capture
             THEN /\ Stored(2 + resp_idx, bytes, "tdo", left)
                  /\ resp_idx' = resp_idx + bytes
                  /\ owed' = owed \o [k \in 1..bytes |-> Mark("tdo", left, k - 1)]
             ELSE UNCHANGED <<resp_buffer, top, resp_idx, owed>>
  <2>1. PICK bytes \in ByteLens, capture \in BOOLEAN :
          /\ ~SequenceTruncated(bytes)
          /\ req_pos' = req_pos + 1 + bytes
          /\ IF capture
               THEN /\ Stored(2 + resp_idx, bytes, "tdo", left)
                    /\ resp_idx' = resp_idx + bytes
                    /\ owed' = owed \o [k \in 1..bytes |-> Mark("tdo", left, k - 1)]
               ELSE UNCHANGED <<resp_buffer, top, resp_idx, owed>>
    BY DEF SequenceStep, AfterCapture
  <2>2. bytes \in 1..8 /\ (~SequenceTruncated(bytes) => req_pos + 1 + bytes <= req_len)
    BY SizeAssumption DEF SequenceTruncated, IInv, TypeOK
  <2> QED BY <2>1, <2>2
<1>3. bytes \in 1..8
  BY SizeAssumption
<1>4. CASE ~capture
  <2>1. UNCHANGED <<resp_buffer, top, resp_idx, owed>>
    BY <1>2, <1>4
  <2>2. TypeOK'
    BY <1>1, <1>2, <1>3, <2>1 DEF IInv, TypeOK, dap
  <2>3. SequenceInv'
    BY <1>1, <1>2, <1>3, <2>1 DEF IInv, TypeOK, SequenceInv
  <2> QED BY <1>1, <2>1, <2>2, <2>3 DEF IInv, BeforeHandler, LoopOfCommand, TransferInv,
               BlockInv, CopyInv, StoresInBounds, ClockAgrees, dap
<1>5. CASE capture
  <2> DEFINE got == [k \in 1..bytes |-> Mark("tdo", left, k - 1)]
  <2>1. Stored(2 + resp_idx, bytes, "tdo", left) /\ resp_idx' = resp_idx + bytes /\ owed' = owed \o got
    BY <1>2, <1>5
  <2>2. resp_idx \in Nat /\ left \in Nat /\ req_pos \in Nat /\ req_len \in 0..PacketSize /\ owed \in Seq(Marks)
    BY DEF IInv, TypeOK
  <2>3. /\ resp_buffer' \in [0..(RespSize - 1) -> Marks]
        /\ top' \in Int /\ (top' = top \/ top' = 2 + resp_idx + bytes - 1)
        /\ \A j \in 0..(RespSize - 1) :
             resp_buffer'[j] = IF j \in (2 + resp_idx)..(2 + resp_idx + bytes - 1)
                                 THEN Mark("tdo", left, j - (2 + resp_idx)) ELSE resp_buffer[j]
    BY <1>3, <2>1, <2>2, StoredBytes DEF IInv
  <2>4. /\ \A k \in 1..bytes : got[k] \in Marks /\ got[k].by = "tdo"
        /\ got \in Seq(Marks) /\ Len(got) = bytes
    <3>1. \A k \in 1..bytes : Mark("tdo", left, k - 1) \in Marks /\ Mark("tdo", left, k - 1).by = "tdo"
      BY <1>3, <2>2, MarkTyped
    <3> QED BY <1>3, <3>1
  <2> HIDE DEF got
  <2>4a. /\ owed' \in Seq(Marks) /\ Len(owed') = Len(owed) + Len(got)
         /\ \A k \in 1..(Len(owed) + Len(got)) :
              owed'[k] = IF k <= Len(owed) THEN owed[k] ELSE got[k - Len(owed)]
    BY <2>1, <2>2, <2>4, ConcatProperties
  <2>5. owed' \in Seq(Marks) /\ Len(owed') = Len(owed) + bytes
    BY <2>4, <2>4a
  <2>6. TypeOK'
    BY <1>1, <1>2, <1>3, <2>1, <2>2, <2>3, <2>5 DEF IInv, TypeOK, dap
  <2>7. /\ req_pos <= req_len /\ 2 + resp_idx <= req_pos /\ resp_idx = Len(owed)
        /\ top <= 1 + resp_idx /\ resp_count = 0
        /\ \A k \in 1..Len(owed) : resp_buffer[1 + k] = owed[k] /\ owed[k].by = "tdo"
    BY <1>1 DEF IInv, SequenceInv
  <2>8. req_pos' <= req_len /\ 2 + resp_idx' <= req_pos' /\ resp_idx' = Len(owed') /\ top' <= 1 + resp_idx'
    <3>1. req_pos' = req_pos + 1 + bytes /\ req_pos + 1 + bytes <= req_len
      BY <1>2
    <3>2. top \in Int /\ req_len' = req_len
      BY <1>1 DEF IInv, TypeOK
    <3>3. resp_idx' = resp_idx + bytes
      BY <2>1
    <3>4. Len(owed) \in Nat /\ top' \in Int
      BY <2>2, <2>3
    <3>5. resp_idx \in Nat /\ resp_idx = Len(owed) /\ top <= 1 + resp_idx
      BY <2>2, <2>7
    <3>6. Len(owed') = Len(owed) + bytes
      BY <2>5
    <3>7. top' = top \/ top' = 2 + resp_idx + bytes - 1
      BY <2>3
    <3>8. resp_idx' = Len(owed')
      BY <3>3, <3>5, <3>6
    <3>9. top' <= 1 + resp_idx'
      BY <1>3, <3>2, <3>3, <3>5, <3>7
    <3>10. 2 + resp_idx <= req_pos /\ req_pos \in Nat
      BY <2>2, <2>7
    <3>11. req_pos' <= req_len /\ 2 + resp_idx' <= req_pos'
      BY <1>3, <3>1, <3>3, <3>5, <3>10
    <3> QED BY <3>2, <3>8, <3>9, <3>11
  <2>9. ASSUME NEW k \in 1..Len(owed')
        PROVE  resp_buffer'[1 + k] = owed'[k] /\ owed'[k].by = "tdo"
    <3>1. k \in Nat /\ 1 + k \in 0..(RespSize - 1)
      BY <1>2, <1>3, <2>2, <2>5, <2>7, SizeAssumption
    <3>2. CASE k <= Len(owed)
      <4>1. owed'[k] = owed[k]
        BY <2>4, <2>5, <2>4a, <3>2
      <4>2. resp_buffer'[1 + k] = resp_buffer[1 + k]
        BY <2>2, <2>3, <2>7, <3>1, <3>2
      <4> QED BY <2>7, <3>1, <3>2, <4>1, <4>2
    <3>3. CASE k > Len(owed)
      <4>1. k - Len(owed) \in 1..bytes /\ owed'[k] = got[k - Len(owed)]
        BY <2>2, <2>4, <2>5, <2>4a, <3>1, <3>3
      <4>2. resp_buffer'[1 + k] = Mark("tdo", left, (1 + k) - (2 + resp_idx))
        BY <1>3, <2>2, <2>3, <2>5, <2>7, <3>1, <3>3
      <4>3. (1 + k) - (2 + resp_idx) = (k - Len(owed)) - 1
        BY <2>2, <2>7, <3>1
      <4>4. got[k - Len(owed)] = Mark("tdo", left, (k - Len(owed)) - 1)
        BY <4>1 DEF got
      <4> QED BY <2>4, <4>1, <4>2, <4>3, <4>4
    <3> QED BY <2>2, <3>1, <3>2, <3>3
  <2>10. SequenceInv'
    BY <1>1, <2>7, <2>8, <2>9 DEF SequenceInv
  <2>11. StoresInBounds'
    BY <1>1, <2>6, <2>8, SizeAssumption DEF StoresInBounds, TypeOK
  <2> QED BY <1>1, <2>6, <2>10, <2>11 DEF IInv, BeforeHandler, LoopOfCommand, TransferInv,
               BlockInv, CopyInv, ClockAgrees, dap
<1> QED BY <1>4, <1>5

\* The header closes a DAP_JTAG_SEQUENCE answer that grew behind it.
LEMMA SequenceEndInv ==
  ASSUME IInv, SequenceEnd
  PROVE  IInv'
<1>1. /\ pc = "sequence" /\ Stored(0, 2, "header", 0) /\ resp_len' = resp_idx + 2 /\ pc' = "copy"
      /\ UNCHANGED <<dap, cmd, req_len, loop, owed>>
  BY DEF SequenceEnd
<1>2. /\ resp_buffer' \in [0..(RespSize - 1) -> Marks]
      /\ top' \in Int /\ (top' = top \/ top' = 1)
      /\ \A j \in 0..(RespSize - 1) :
           resp_buffer'[j] = IF j \in 0..1 THEN Mark("header", 0, j - 0) ELSE resp_buffer[j]
  BY <1>1, StoredBytes DEF IInv
<1>3. TypeOK'
  BY <1>1, <1>2 DEF IInv, TypeOK, dap, loop
<1>4. /\ req_pos <= req_len /\ 2 + resp_idx <= req_pos /\ resp_idx = Len(owed)
      /\ top <= 1 + resp_idx /\ resp_count = 0
      /\ \A k \in 1..Len(owed) : resp_buffer[1 + k] = owed[k] /\ owed[k].by = "tdo"
  BY <1>1 DEF IInv, SequenceInv
<1>5. /\ resp_idx \in Nat /\ Len(owed) \in Nat /\ req_pos \in Nat /\ req_len \in 0..PacketSize
      /\ owed' = owed /\ resp_count' = 0
  BY <1>1, <1>4 DEF IInv, TypeOK, loop
<1>6. ASSUME NEW k \in 1..Len(owed)
      PROVE  resp_buffer'[1 + k] = owed[k] /\ owed[k].by = "tdo"
  <2>1. k \in Nat /\ 1 + k \in 0..(RespSize - 1) /\ ~(1 + k \in 0..1)
    BY <1>4, <1>5, SizeAssumption
  <2> QED BY <1>2, <1>4, <2>1
<1>7. ASSUME NEW j \in 0..(resp_len' - 1)
      PROVE  resp_buffer'[j] # Old
  <2>1. CASE j \in 0..1
    <3>1. j \in 0..(RespSize - 1) /\ j - 0 \in Nat
      BY <2>1, SizeAssumption
    <3> QED BY <1>2, <2>1, <3>1, MarkTyped
  <2>2. CASE ~(j \in 0..1)
    <3>1. j - 1 \in 1..Len(owed) /\ j = 1 + (j - 1)
      BY <1>1, <1>4, <1>5, <2>2
    <3>2. resp_buffer'[j] = owed[j - 1] /\ owed[j - 1].by = "tdo"
      BY <1>6, <3>1
    <3> QED BY <3>2 DEF Old, Mark
  <2> QED BY <2>1, <2>2
<1>8. SequenceFits' /\ OwedInOrder' /\ ReplyFresh'
  BY <1>1, <1>4, <1>5, <1>6, <1>7 DEF SequenceFits, OwedInOrder, ReplyFresh, Stale
<1>9. StoresInBounds'
  BY <1>2, <1>4, <1>5, SizeAssumption DEF IInv, StoresInBounds
<1> QED BY <1>1, <1>3, <1>8, <1>9 DEF IInv, BeforeHandler, LoopOfCommand, Loops, SequenceInv,
             TransferInv, BlockInv, CopyInv, ClockAgrees, dap

\* A request holds too few transfers for its words to reach the buffer's end.
LEMMA TransferRoom ==
  ASSUME TypeOK, TransferInv, pc = "transfer"
  PROVE  RoomForWord /\ (req_pos < req_len => resp_idx + 6 < RespSize)
<1>1. /\ 3 <= req_pos /\ req_pos <= req_len /\ req_len <= PacketSize /\ 4 * PacketSize <= RespSize
      /\ resp_idx = 3 + 4 * resp_count /\ resp_count <= req_pos - 3
      /\ req_pos \in Nat /\ req_len \in Nat /\ resp_count \in Nat /\ PacketSize \in Nat
      /\ RespSize \in Nat /\ WordBytes = 4
  BY SizeAssumption DEF TypeOK, TransferInv
<1> QED BY <1>1 DEF RoomForWord

\* A word stored moves the index and the count together.
LEMMA StoreWordStep ==
  ASSUME TypeOK, pc \in Loops, StoreWord, top <= FirstIndex(pc) + resp_idx - 1
  PROVE  /\ resp_buffer' \in [0..(RespSize - 1) -> Marks] /\ top' \in Int
         /\ resp_idx' \in Nat /\ resp_count' \in Nat
         /\ top' <= FirstIndex(pc) + resp_idx' - 1
         /\ RoomForWord => resp_idx' = resp_idx + 4 /\ resp_count' = resp_count + 1
         /\ ~RoomForWord => UNCHANGED <<top, resp_idx, resp_count>>
<1>1. FirstIndex(pc) \in Nat /\ resp_idx \in Nat /\ resp_count \in Nat /\ top \in Int
  BY DEF FirstIndex, TypeOK
<1>2. CASE RoomForWord
  <2>1. /\ Stored(FirstIndex(pc) + resp_idx, 4, "word", resp_count)
        /\ resp_idx' = resp_idx + 4 /\ resp_count' = resp_count + 1
    BY <1>2, SizeAssumption DEF StoreWord, WordIndex
  <2>2. /\ resp_buffer' \in [0..(RespSize - 1) -> Marks] /\ top' \in Int
        /\ top' = top \/ top' = FirstIndex(pc) + resp_idx + 4 - 1
    <3>1. FirstIndex(pc) + resp_idx \in Nat
      BY <1>1
    <3> QED BY <1>1, <2>1, <3>1, StoredBytes
  <2> QED BY <1>1, <1>2, <2>1, <2>2
<1>3. CASE ~RoomForWord
  BY <1>1, <1>3 DEF StoreWord, TypeOK
<1> QED BY <1>2, <1>3

\* One transfer takes a byte of the request and at most one word of room.
LEMMA TransferStepInv ==
  ASSUME IInv, TransferStep
  PROVE  IInv'
<1>1. /\ pc = "transfer" /\ left > 0 /\ req_pos < req_len /\ left' = left - 1
      /\ TransferRead \/ TransferWrite
      /\ UNCHANGED <<dap, pc, cmd, req_len, rnw, resp_len, owed>>
  BY DEF TransferStep, TransferTurn, RequestLeft, OneDone
<1>2. /\ 3 <= req_pos /\ req_pos <= req_len /\ resp_idx = 3 + 4 * resp_count
      /\ resp_count <= req_pos - 3 /\ top <= 2 + resp_idx
      /\ req_pos \in Nat /\ req_len \in Nat /\ resp_idx \in Nat /\ resp_count \in Nat /\ top \in Int
      /\ FirstIndex(pc) = 3
  BY <1>1 DEF IInv, TypeOK, TransferInv, FirstIndex
<1>3. RoomForWord /\ resp_idx + 6 < RespSize
  BY <1>1, TransferRoom DEF IInv
<1>4. CASE TransferRead
  <2>1. StoreWord /\ req_pos' = req_pos + 1 /\ resp_status' \in {resp_status, "FAULT"}
    BY <1>4 DEF TransferRead
  <2>2. /\ resp_buffer' \in [0..(RespSize - 1) -> Marks] /\ top' \in Int
        /\ resp_idx' = resp_idx + 4 /\ resp_count' = resp_count + 1 /\ top' <= 2 + resp_idx'
    <3>1. pc \in Loops /\ top <= FirstIndex(pc) + resp_idx - 1
      BY <1>1, <1>2 DEF Loops
    <3>2. top' \in Int /\ top' <= FirstIndex(pc) + resp_idx' - 1 /\ resp_idx' = resp_idx + 4
      BY <1>3, <2>1, <3>1, StoreWordStep DEF IInv
    <3> QED BY <1>2, <1>3, <2>1, <3>1, <3>2, StoreWordStep DEF IInv
  <2>3. TypeOK'
    BY <1>1, <1>2, <2>1, <2>2 DEF IInv, TypeOK, dap
  <2>4. TransferInv'
    BY <1>1, <1>2, <2>1, <2>2 DEF TransferInv
  <2>5. StoresInBounds'
    BY <1>2, <1>3, <2>2, SizeAssumption DEF StoresInBounds
  <2> QED BY <1>1, <2>3, <2>4, <2>5 DEF IInv, BeforeHandler, LoopOfCommand, SequenceInv,
               BlockInv, CopyInv, ClockAgrees, dap
<1>5. CASE TransferWrite
  <2>1. UNCHANGED <<resp_buffer, top, resp_idx, resp_count, resp_status>>
    BY <1>5 DEF TransferWrite
  <2>2. req_pos' \in Nat /\ req_pos < req_pos' /\ req_pos' <= req_len
    BY <1>1, <1>2, <1>5, SizeAssumption DEF TransferWrite, WordTaken
  <2>3. TypeOK'
    BY <1>1, <2>1, <2>2 DEF IInv, TypeOK, dap
  <2>4. TransferInv'
    <3>1. resp_count <= req_pos' - 3 /\ 3 <= req_pos'
      <4>1. resp_count <= req_pos - 3 /\ 3 <= req_pos /\ req_pos \in Nat /\ resp_count \in Nat
        BY <1>2
      <4>2. \A words, old, new \in Nat :
              words <= old - 3 /\ 3 <= old /\ old < new => words <= new - 3 /\ 3 <= new
        OBVIOUS
      <4> QED BY <2>2, <4>1, <4>2
    <3>2. req_len' = req_len /\ resp_idx' = resp_idx /\ resp_count' = resp_count /\ top' = top
      BY <1>1, <2>1
    <3> QED BY <1>2, <2>2, <3>1, <3>2 DEF TransferInv
  <2> QED BY <1>1, <2>1, <2>3, <2>4 DEF IInv, BeforeHandler, LoopOfCommand, SequenceInv,
               BlockInv, CopyInv, ClockAgrees, StoresInBounds, dap
<1> QED BY <1>1, <1>4, <1>5

\* The answer of a transfer is as long as its index, header or not.
LEMMA TransferEndInv ==
  ASSUME IInv, TransferEnd
  PROVE  IInv'
<1>1. /\ pc = "transfer" /\ Stored(0, 3, "header", 0) /\ resp_len' = resp_idx /\ pc' = "copy"
      /\ resp_status' \in {"OK", "FAULT", "ERROR"}
      /\ UNCHANGED <<dap, cmd, req_len, left, req_pos, rnw, resp_idx, resp_count, owed>>
  BY DEF TransferEnd, IInv, TypeOK
<1>2. /\ resp_buffer' \in [0..(RespSize - 1) -> Marks]
      /\ top' \in Int /\ (top' = top \/ top' = 2)
      /\ \A j \in 0..(RespSize - 1) :
           resp_buffer'[j] = IF j \in 0..2 THEN Mark("header", 0, j - 0) ELSE resp_buffer[j]
  BY <1>1, StoredBytes DEF IInv
<1>3. TypeOK'
  BY <1>1, <1>2 DEF IInv, TypeOK, dap
<1>4. cmd' = "DAP_TRANSFER"
  BY <1>1 DEF IInv, LoopOfCommand, Loops, LoopOf
<1>5. resp_count = 0 => resp_len' = 3
  BY <1>1 DEF IInv, TransferInv
<1>6. \A j \in 0..2 : resp_buffer'[j] # Old
  <2>1. \A j \in 0..2 : j \in 0..(RespSize - 1)
    BY SizeAssumption
  <2>2. QED
    BY <1>2, <2>1, MarkTyped
<1>7. ReplyFresh'
  BY <1>1, <1>5, <1>6 DEF ReplyFresh, Stale
<1>8. StoresInBounds'
  BY <1>2, SizeAssumption DEF IInv, StoresInBounds
<1> QED BY <1>1, <1>3, <1>4, <1>7, <1>8 DEF IInv, BeforeHandler, LoopOfCommand, Loops,
             SequenceInv, TransferInv, BlockInv, CopyInv, SequenceFits, OwedInOrder, ClockAgrees, dap

\* The last word of a block that still has room ends at the buffer's last byte.
LEMMA BlockStepInv ==
  ASSUME IInv, BlockStep
  PROVE  IInv'
<1>1. /\ pc = "block" /\ left > 0 /\ left' = left - 1
      /\ UNCHANGED <<dap, pc, cmd, req_len, rnw, resp_status, resp_len, owed>>
  BY DEF BlockStep, OneDone
<1>2. /\ resp_idx = 2 + 4 * resp_count /\ top <= 1 + resp_idx
      /\ resp_idx \in Nat /\ resp_count \in Nat /\ top \in Int
      /\ FirstIndex(pc) = 2
  BY <1>1 DEF IInv, TypeOK, BlockInv, FirstIndex
<1>3. CASE rnw
  <2>1. StoreWord /\ req_pos' = req_pos
    BY <1>3 DEF BlockStep
  <2>2. pc \in Loops /\ top <= FirstIndex(pc) + resp_idx - 1
    BY <1>1, <1>2 DEF Loops
  <2>3. /\ resp_buffer' \in [0..(RespSize - 1) -> Marks] /\ top' \in Int
        /\ resp_idx' \in Nat /\ resp_count' \in Nat
        /\ top' <= FirstIndex(pc) + resp_idx' - 1
        /\ RoomForWord => resp_idx' = resp_idx + 4 /\ resp_count' = resp_count + 1
        /\ ~RoomForWord => UNCHANGED <<top, resp_idx, resp_count>>
    BY <2>1, <2>2, StoreWordStep DEF IInv
  <2>4. TypeOK'
    BY <1>1, <1>2, <2>1, <2>3 DEF IInv, TypeOK, dap
  <2>5. BlockInv' /\ StoresInBounds'
    <3>1. CASE RoomForWord
      <4>1. resp_idx + 4 < RespSize /\ RespSize \in Nat /\ RespSize % 4 = 0
        BY <3>1, SizeAssumption DEF RoomForWord
      <4>2. resp_idx + 4 <= RespSize - 2
        BY <1>2, <4>1
      <4>3. /\ resp_idx' = 2 + 4 * resp_count' /\ resp_idx' <= RespSize - 2
            /\ top' <= 1 + resp_idx' /\ top' < RespSize
        BY <1>2, <2>3, <3>1, <4>1, <4>2
      <4> QED BY <4>3 DEF BlockInv, StoresInBounds
    <3>2. CASE ~RoomForWord
      BY <1>1, <2>3, <3>2 DEF IInv, BlockInv, StoresInBounds
    <3> QED BY <3>1, <3>2
  <2> QED BY <1>1, <2>4, <2>5 DEF IInv, BeforeHandler, LoopOfCommand, SequenceInv,
               TransferInv, CopyInv, ClockAgrees, dap
<1>4. CASE ~rnw
  <2>1. UNCHANGED <<resp_buffer, top, resp_idx, resp_count>> /\ req_pos' = req_pos + WordTaken(req_pos)
    BY <1>4 DEF BlockStep
  <2>2. req_pos' \in Nat
    BY <2>1, SizeAssumption DEF WordTaken, IInv, TypeOK
  <2>3. TypeOK'
    BY <1>1, <2>1, <2>2 DEF IInv, TypeOK, dap
  <2> QED BY <1>1, <2>1, <2>3 DEF IInv, BeforeHandler, LoopOfCommand, SequenceInv,
               TransferInv, BlockInv, CopyInv, ClockAgrees, StoresInBounds, dap
<1> QED BY <1>3, <1>4

\* Two header bytes, and an answer of two bytes if no word was read.
LEMMA BlockEndInv ==
  ASSUME IInv, BlockEnd
  PROVE  IInv'
<1>1. /\ pc = "block" /\ Stored(0, 2, "header", 0) /\ resp_len' = resp_idx /\ pc' = "copy"
      /\ UNCHANGED <<dap, cmd, req_len, loop, owed>>
  BY DEF BlockEnd
<1>2. /\ resp_buffer' \in [0..(RespSize - 1) -> Marks]
      /\ top' \in Int /\ (top' = top \/ top' = 1)
      /\ \A j \in 0..(RespSize - 1) :
           resp_buffer'[j] = IF j \in 0..1 THEN Mark("header", 0, j - 0) ELSE resp_buffer[j]
  BY <1>1, StoredBytes DEF IInv
<1>3. TypeOK'
  BY <1>1, <1>2 DEF IInv, TypeOK, dap, loop
<1>4. cmd' = "DAP_TRANSFER_BLOCK"
  BY <1>1 DEF IInv, LoopOfCommand, Loops, LoopOf
<1>5. resp_count = 0 => resp_len' = 2
  BY <1>1 DEF IInv, BlockInv
<1>6. \A j \in 0..1 : resp_buffer'[j] # Old
  <2>1. \A j \in 0..1 : j \in 0..(RespSize - 1)
    BY SizeAssumption
  <2>2. QED
    BY <1>2, <2>1, MarkTyped
<1>7. ReplyFresh'
  BY <1>1, <1>5, <1>6 DEF ReplyFresh, Stale, loop
<1>8. StoresInBounds'
  BY <1>2, SizeAssumption DEF IInv, StoresInBounds
<1> QED BY <1>1, <1>3, <1>4, <1>7, <1>8 DEF IInv, BeforeHandler, LoopOfCommand, Loops,
             SequenceInv, TransferInv, BlockInv, CopyInv, SequenceFits, OwedInOrder, ClockAgrees, dap

\* The answer is copied out and the next command starts over.
LEMMA CopyStep ==
  ASSUME IInv, Copy
  PROVE  IInv'
<1>1. /\ resp_buffer' = AllOld /\ top' = 0 - 1 /\ pc' = "idle" /\ cmd' = "none" /\ req_len' = 0
      /\ left' = 0 /\ req_pos' = 0 /\ rnw' = FALSE /\ resp_idx' = 0 /\ resp_count' = 0
      /\ resp_status' = "OK" /\ resp_len' = 0 /\ owed' = <<>>
      /\ dap_state' = dap_state /\ jtag_clk_div' = jtag_clk_div
  BY DEF Copy, dap
<1>2. resp_buffer' \in [0..(RespSize - 1) -> Marks]
  BY <1>1, MarkTyped DEF AllOld
<1>3. rnw' \in BOOLEAN
  BY <1>1, Zenon
<1>4. req_len' \in 0..PacketSize /\ top' \in Int
  BY <1>1, SizeAssumption
<1>5. owed' \in Seq(Marks)
  <2>1. <<>> \in Seq(Marks)
    OBVIOUS
  <2> QED BY <1>1, <2>1
<1>6. TypeOK'
  BY <1>1, <1>2, <1>3, <1>4, <1>5 DEF IInv, TypeOK
<1> QED BY <1>1, <1>6, SizeAssumption DEF IInv, BeforeHandler, LoopOfCommand, Loops,
             SequenceInv, TransferInv, BlockInv, CopyInv, StoresInBounds, ClockAgrees
----------------------------------------------------------------------------
\* Init, and every step of every handler.
THEOREM Invariance == Spec => []IInv
<1>1. Init => IInv
  BY InitInv
<1>2. IInv /\ [Next]_vars => IInv'
  <2> SUFFICES ASSUME IInv, [Next]_vars PROVE IInv'
    OBVIOUS
  <2>1. CASE Receive \/ Simple \/ Info \/ Connect \/ Disconnect \/ SwjClk
    BY <2>1, PlainStep
  <2>2. CASE BeginLoop
    BY <2>2, BeginStep
  <2>3. CASE SequenceStep
    BY <2>3, SequenceStepInv
  <2>4. CASE SequenceEnd
    BY <2>4, SequenceEndInv
  <2>5. CASE TransferStep
    BY <2>5, TransferStepInv
  <2>6. CASE TransferEnd
    BY <2>6, TransferEndInv
  <2>7. CASE BlockStep
    BY <2>7, BlockStepInv
  <2>8. CASE BlockEnd
    BY <2>8, BlockEndInv
  <2>9. CASE Copy
    BY <2>9, CopyStep
  <2>10. CASE UNCHANGED vars
    BY <2>10 DEF vars, dap, out, loop, IInv, TypeOK, BeforeHandler, LoopOfCommand, SequenceInv,
         TransferInv, BlockInv, CopyInv, SequenceFits, OwedInOrder, ReplyFresh, Stale,
         StoresInBounds, ClockAgrees
  <2> QED BY <2>1, <2>2, <2>3, <2>4, <2>5, <2>6, <2>7, <2>8, <2>9, <2>10 DEF Next, Process
<1> QED BY <1>1, <1>2, PTL DEF Spec

\* Every variable keeps its type.
THEOREM TypeCorrect == Spec => []TypeOK
BY Invariance, PTL DEF IInv

\* No handler stores past resp_buffer, for any size of it and of a report.
THEOREM BufferSafe == Spec => []StoresInBounds
BY Invariance, PTL DEF IInv

\* The room check of dap_handle_transfer never fails.
THEOREM WordsKept == Spec => []NoWordDropped
<1>1. IInv => NoWordDropped
  BY TransferRoom DEF IInv, NoWordDropped
<1> QED BY <1>1, Invariance, PTL

\* A DAP_JTAG_SEQUENCE answer fits where its request did, and holds the
\* captured bytes in order.
THEOREM SequenceAnswers == Spec => [](SequenceFits /\ OwedInOrder)
<1>1. IInv => SequenceFits /\ OwedInOrder
  BY DEF IInv, CopyInv, SequenceFits, OwedInOrder
<1> QED BY <1>1, Invariance, PTL

\* Nothing of an earlier answer is in one that reads no word.
THEOREM AnswersFresh == Spec => []ReplyFresh
<1>1. IInv => ReplyFresh
  BY DEF IInv, CopyInv, ReplyFresh
<1> QED BY <1>1, Invariance, PTL

\* A connected probe clocks at the frequency it keeps in dap_state.
THEOREM ClockKept == Spec => []ClockAgrees
BY Invariance, PTL DEF IInv
----------------------------------------------------------------------------
(* The command processor and the target together: DapProbe. *)

\* The handlers of DapProbe are those of DapCommands: what is proved of them holds
\* with the target, too.
THEOREM ProbeIsCommands == ProbeSpec => Spec
<1>1. ProbeInit => Init
  BY DEF ProbeInit
<1>2. [ProbeNext]_probe => [Next]_vars
  <2>1. SUFFICES ASSUME [ProbeNext]_probe PROVE [Next]_vars
    OBVIOUS
  <2>2. CASE UNCHANGED probe
    BY <2>2 DEF probe
  <2>3. CASE ProbeNext
    BY <2>3, Zenon DEF ProbeNext, ProbeConnect, ProbeSimple, ProbeSequence, ProbeTransfer, ProbeBlock,
         ProbeCopy, TransferStep, Next, Process
  <2>4. QED
    BY <2>1, <2>2, <2>3
<1> QED BY <1>1, <1>2, PTL DEF ProbeSpec, Spec

\* A set of numbers has a least one.
LEMMA Smallest ==
  ASSUME NEW S \in SUBSET Nat, S # {}
  PROVE  \E x \in S : \A y \in S : x <= y
<1>1. PICK x \in S : \A y \in S : <<y, x>> \notin OpToRel(<, Nat)
  BY NatLessThanWellFounded, WFMin
<1>2. ASSUME NEW y \in S PROVE x <= y
  <2>1. y < x => <<y, x>> \in OpToRel(<, Nat)
    BY Zenon DEF OpToRel
  <2>2. ~(y < x)
    BY <1>1, <2>1
  <2> QED BY <2>2
<1> QED BY <1>2

\* One cycle of a scan, and the first n of them: target and TDO string after each.
Cycle(p, tms, tdi, k) ==
  [t |-> RisingEdge(p.t, tms[k], tdi[k]), tdo |-> Append(p.tdo, TdoLevel(p.t))]

Course(f, n, t, tms, tdi) ==
  f = [k \in 0..n |-> IF k = 0 THEN [t |-> t, tdo |-> <<>>] ELSE Cycle(f[k - 1], tms, tdi, k)]

\* The recursive function of Scan exists, for strings of every length.
LEMMA CourseExists ==
  ASSUME NEW t, NEW tms, NEW tdi, NEW n \in Nat
  PROVE  \E f : Course(f, n, t, tms, tdi)
<1> DEFINE S == { m \in Nat : ~ \E f : Course(f, m, t, tms, tdi) }
<1>1. SUFFICES ASSUME S # {} PROVE FALSE
  OBVIOUS
<1>2. PICK m \in S : \A y \in S : m <= y
  BY <1>1, Smallest
<1>3. CASE m = 0
  <2>1. Course([k \in 0..0 |-> [t |-> t, tdo |-> <<>>]], 0, t, tms, tdi)
    <3> DEFINE f == [k \in 0..0 |-> [t |-> t, tdo |-> <<>>]]
    <3>1. \A k \in 0..0 : k = 0
      OBVIOUS
    <3> QED BY <3>1 DEF Course
  <2> QED BY <1>3, <2>1
<1>4. CASE m # 0
  <2>1. m \in Nat /\ m - 1 \in Nat /\ m - 1 \notin S
    BY <1>2, <1>4
  <2>2. PICK f : Course(f, m - 1, t, tms, tdi)
    BY <2>1
  <2> DEFINE g == [k \in 0..m |-> IF k = m THEN Cycle(f[m - 1], tms, tdi, m) ELSE f[k]]
  <2>3. \A k \in 0..(m - 1) :
          f[k] = IF k = 0 THEN [t |-> t, tdo |-> <<>>] ELSE Cycle(f[k - 1], tms, tdi, k)
    BY <2>2 DEF Course
  <2>4. ASSUME NEW k \in 0..m
        PROVE  g[k] = IF k = 0 THEN [t |-> t, tdo |-> <<>>] ELSE Cycle(g[k - 1], tms, tdi, k)
    <3>1. CASE k = m
      <4>1. g[k] = Cycle(f[m - 1], tms, tdi, m) /\ g[k - 1] = f[m - 1]
        BY <2>1, <3>1
      <4> QED BY <1>4, <3>1, <4>1
    <3>2. CASE k # m
      <4>1. k \in 0..(m - 1) /\ g[k] = f[k]
        BY <2>1, <3>2
      <4>2. k # 0 => g[k - 1] = f[k - 1]
        BY <2>1, <3>2
      <4> QED BY <2>3, <4>1, <4>2
    <3> QED BY <3>1, <3>2
  <2>5. g = [k \in 0..m |-> g[k]]
    OBVIOUS
  <2> HIDE DEF g
  <2>6. Course(g, m, t, tms, tdi)
    BY <2>4, <2>5 DEF Course
  <2> QED BY <1>2, <2>6
<1> QED BY <1>3, <1>4

\* What a course is made of.
LEMMA CourseCycles ==
  ASSUME NEW f, NEW n \in Nat, NEW t, NEW tms, NEW tdi, Course(f, n, t, tms, tdi)
  PROVE  /\ f[0] = [t |-> t, tdo |-> <<>>]
         /\ \A k \in 1..n : f[k] = Cycle(f[k - 1], tms, tdi, k)
<1>1. f[0] = [t |-> t, tdo |-> <<>>]
  BY DEF Course
<1>2. \A k \in 1..n : k \in 0..n /\ k # 0
  OBVIOUS
<1> QED BY <1>1, <1>2 DEF Course

\* What a scan comes to: the end of its course.
LEMMA ScanCourse ==
  ASSUME NEW t, NEW tms, NEW tdi, Len(tms) \in Nat
  PROVE  \E f : Course(f, Len(tms), t, tms, tdi) /\ Scan(t, tms, tdi) = f[Len(tms)]
<1>1. PICK f : Course(f, Len(tms), t, tms, tdi)
  BY CourseExists
<1> QED BY <1>1 DEF Course, Cycle, Scan

\* A TAP goes from a state to a state.
LEMMA TapKept ==
  ASSUME NEW s \in TapStates, NEW tms
  PROVE  TapStep(s, tms) \in TapStates
BY DEF TapStep, TapStates, OnOne, OnZero

\* Along a scan the TAP is in one of its states, and bit j of the TDO string is the
\* level before cycle j.
Traced(f, n) ==
  \A k \in 0..n :
    /\ f[k].t.tap \in TapStates
    /\ Len(f[k].tdo) = k
    /\ \A j \in 1..k : f[k].tdo[j] = TdoLevel(f[j - 1].t)

\* That of every course is.
LEMMA AlongCourse ==
  ASSUME NEW t, t.tap \in TapStates, NEW tms, NEW tdi, NEW n \in Nat, NEW f,
         Course(f, n, t, tms, tdi)
  PROVE  Traced(f, n)
<1> DEFINE Levels == { TdoLevel(f[k].t) : k \in 0..n }
           Good(k) == /\ f[k].t.tap \in TapStates
                      /\ f[k].tdo \in Seq(Levels)
                      /\ Len(f[k].tdo) = k
                      /\ \A j \in 1..k : f[k].tdo[j] = TdoLevel(f[j - 1].t)
           S == { k \in 0..n : ~Good(k) }
<1>1. /\ f[0] = [t |-> t, tdo |-> <<>>]
      /\ \A k \in 1..n : f[k] = Cycle(f[k - 1], tms, tdi, k)
  BY CourseCycles
<1>2. SUFFICES ASSUME S # {} PROVE FALSE
  BY DEF Traced
<1>3. PICK m \in S : \A y \in S : m <= y
  <2>1. S \in SUBSET Nat
    OBVIOUS
  <2> QED BY <1>2, <2>1, Smallest
<1>4. Good(0)
  <2>1. f[0].t = t /\ f[0].tdo = <<>>
    BY <1>1
  <2>2. <<>> \in Seq(Levels) /\ Len(<<>>) = 0
    OBVIOUS
  <2> QED BY <2>1, <2>2
<1>5. m \in 1..n /\ m - 1 \in 0..n /\ Good(m - 1)
  <2>1. m \in 0..n /\ ~Good(m)
    BY <1>3
  <2> HIDE DEF Good
  <2>2. m # 0
    BY <1>4, <2>1
  <2>3. m \in 1..n /\ m - 1 \in 0..n
    BY <2>1, <2>2
  <2>4. m - 1 \notin S
    BY <1>3, <2>1
  <2> QED BY <2>3, <2>4
<1>6. f[m] = Cycle(f[m - 1], tms, tdi, m)
  BY <1>1, <1>5
<1>7. f[m].t.tap = TapStep(f[m - 1].t.tap, tms[m])
  BY <1>6 DEF Cycle, RisingEdge
<1>8. f[m].tdo = Append(f[m - 1].tdo, TdoLevel(f[m - 1].t))
  BY <1>6 DEF Cycle
<1>9. f[m].t.tap \in TapStates
  BY <1>5, <1>7, TapKept
<1>10. TdoLevel(f[m - 1].t) \in Levels
  BY <1>5
<1>11. f[m].tdo \in Seq(Levels) /\ Len(f[m].tdo) = m
  <2> DEFINE p == f[m - 1].tdo
             level == TdoLevel(f[m - 1].t)
  <2>1. p \in Seq(Levels) /\ Len(p) = m - 1 /\ level \in Levels /\ f[m].tdo = Append(p, level)
    BY <1>5, <1>8, <1>10
  <2> HIDE DEF p, level, Levels
  <2> QED BY <1>5, <2>1
<1>12. ASSUME NEW j \in 1..m PROVE f[m].tdo[j] = TdoLevel(f[j - 1].t)
  <2> DEFINE p == f[m - 1].tdo
             level == TdoLevel(f[m - 1].t)
  <2>1. /\ p \in Seq(Levels) /\ Len(p) = m - 1 /\ level \in Levels /\ f[m].tdo = Append(p, level)
        /\ level = TdoLevel(f[m - 1].t)
        /\ \A i \in 1..(m - 1) : p[i] = TdoLevel(f[i - 1].t)
    BY <1>5, <1>8, <1>10
  <2> HIDE DEF p, level, Levels
  <2>2. CASE j = m
    BY <1>5, <2>1, <2>2
  <2>3. CASE j # m
    <3>1. j \in 1..(m - 1)
      BY <1>5, <2>3
    <3>2. Append(p, level)[j] = p[j]
      BY <1>5, <2>1, <3>1
    <3> QED BY <2>1, <3>1, <3>2
  <2> QED BY <2>2, <2>3
<1>13. Good(m)
  BY <1>9, <1>11, <1>12
<1> QED BY <1>3, <1>13

\* The same of the scan as a whole.
LEMMA ScanTyped ==
  ASSUME NEW t, t.tap \in TapStates, NEW tms, NEW tdi, Len(tms) \in Nat
  PROVE  Scan(t, tms, tdi).t.tap \in TapStates
<1> DEFINE n == Len(tms)
<1>1. PICK f : Course(f, n, t, tms, tdi) /\ Scan(t, tms, tdi) = f[n]
  BY ScanCourse
<1>2. n \in Nat
  OBVIOUS
<1> HIDE DEF n
<1>3. Traced(f, n)
  BY <1>1, <1>2, AlongCourse
<1>4. n \in 0..n
  BY <1>2
<1> QED BY <1>1, <1>3, <1>4 DEF Traced

\* The cycles of a scan, seen from the TAP.
TapPath(g, n, t, tms, scan) ==
  /\ g[0] = t.tap
  /\ \A k \in 0..n : g[k] \in TapStates
  /\ \A k \in 1..n : g[k] = TapStep(g[k - 1], tms[k])
  /\ scan.t.tap = g[n]
  /\ \A k \in 1..n : g[k - 1] \notin ShiftStates => scan.tdo[k] = 1

\* Every scan has them.
LEMMA TapCourse ==
  ASSUME NEW t, t.tap \in TapStates, NEW tms, NEW tdi, NEW n \in Nat, Len(tms) = n
  PROVE  \E g : TapPath(g, n, t, tms, Scan(t, tms, tdi))
<1>1. PICK f : Course(f, n, t, tms, tdi) /\ Scan(t, tms, tdi) = f[n]
  <2>1. Len(tms) \in Nat
    OBVIOUS
  <2> QED BY <2>1, ScanCourse
<1>2. /\ f[0] = [t |-> t, tdo |-> <<>>]
      /\ \A k \in 1..n : f[k] = Cycle(f[k - 1], tms, tdi, k)
  BY <1>1, CourseCycles
<1>3. Traced(f, n)
  BY <1>1, AlongCourse
<1> DEFINE g == [k \in 0..n |-> f[k].t.tap]
<1>4. \A k \in 0..n : g[k] = f[k].t.tap
  OBVIOUS
<1> HIDE DEF g
<1>5. g[0] = t.tap /\ \A k \in 0..n : g[k] \in TapStates
  <2>1. 0 \in 0..n /\ f[0].t = t
    BY <1>2
  <2> QED BY <1>3, <1>4, <2>1 DEF Traced
<1>6. ASSUME NEW k \in 1..n
      PROVE  /\ g[k] = TapStep(g[k - 1], tms[k])
             /\ g[k - 1] \notin ShiftStates => Scan(t, tms, tdi).tdo[k] = 1
  <2>1. k \in 0..n /\ k - 1 \in 0..n /\ n \in 0..n
    OBVIOUS
  <2>2. f[k] = Cycle(f[k - 1], tms, tdi, k)
    BY <1>2
  <2>3. f[k].t.tap = TapStep(f[k - 1].t.tap, tms[k])
    BY <2>2 DEF Cycle, RisingEdge
  <2>4. g[k] = TapStep(g[k - 1], tms[k])
    BY <1>4, <2>1, <2>3
  <2>5. Scan(t, tms, tdi).tdo[k] = TdoLevel(f[k - 1].t)
    BY <1>1, <1>3, <2>1 DEF Traced
  <2>6. f[k - 1].t.tap \notin ShiftStates => TdoLevel(f[k - 1].t) = 1
    BY DEF TdoLevel
  <2> QED BY <1>4, <2>1, <2>4, <2>5, <2>6
<1>7. Scan(t, tms, tdi).t.tap = g[n]
  BY <1>1, <1>4
<1> QED BY <1>5, <1>6, <1>7 DEF TapPath

\* The moves of the walk from Run-Test/Idle to Shift-IR and back.
LEMMA WalkMoves ==
  /\ TapStep("TAP_IDLE", 0) = "TAP_IDLE"
  /\ TapStep("TAP_IDLE", 1) = "TAP_DR_SELECT"
  /\ TapStep("TAP_DR_SELECT", 1) = "TAP_IR_SELECT"
  /\ TapStep("TAP_IR_SELECT", 0) = "TAP_IR_CAPTURE"
  /\ TapStep("TAP_IR_CAPTURE", 0) = "TAP_IR_SHIFT"
  /\ TapStep("TAP_IR_SHIFT", 1) = "TAP_IR_EXIT1"
  /\ TapStep("TAP_IR_EXIT1", 1) = "TAP_IR_UPDATE"
  /\ TapStep("TAP_IR_UPDATE", 0) = "TAP_IDLE"
BY DEF TapStep, OnOne, OnZero

\* Six ones reach Test-Logic-Reset from every state, a zero Run-Test/Idle.
LEMMA ResetWalk ==
  ASSUME NEW g, g[0] \in TapStates,
         \A k \in 1..6 : g[k] = TapStep(g[k - 1], 1), g[7] = TapStep(g[6], 0)
  PROVE  g[7] = "TAP_IDLE"
<1>1. g[1] \in {"TAP_RESET", "TAP_DR_SELECT", "TAP_IR_SELECT", "TAP_DR_EXIT1", "TAP_DR_UPDATE",
                "TAP_DR_EXIT2", "TAP_IR_EXIT1", "TAP_IR_UPDATE", "TAP_IR_EXIT2"}
  <2>1. g[1] = TapStep(g[0], 1)
    OBVIOUS
  <2> QED BY <2>1 DEF TapStep, TapStates, OnOne
<1>2. g[2] \in {"TAP_RESET", "TAP_IR_SELECT", "TAP_DR_UPDATE", "TAP_DR_SELECT", "TAP_IR_UPDATE"}
  <2>1. g[2] = TapStep(g[1], 1)
    OBVIOUS
  <2> QED BY <1>1, <2>1 DEF TapStep, OnOne
<1>3. g[3] \in {"TAP_RESET", "TAP_IR_SELECT", "TAP_DR_SELECT"}
  <2>1. g[3] = TapStep(g[2], 1)
    OBVIOUS
  <2> QED BY <1>2, <2>1 DEF TapStep, OnOne
<1>4. g[4] \in {"TAP_RESET", "TAP_IR_SELECT"}
  <2>1. g[4] = TapStep(g[3], 1)
    OBVIOUS
  <2> QED BY <1>3, <2>1 DEF TapStep, OnOne
<1>5. g[5] = "TAP_RESET" /\ g[6] = "TAP_RESET"
  <2>1. g[5] = TapStep(g[4], 1) /\ g[6] = TapStep(g[5], 1)
    OBVIOUS
  <2> QED BY <1>4, <2>1 DEF TapStep, OnOne
<1> QED BY <1>5 DEF TapStep, OnZero

\* The beginning of a string.
LEMMA Beginning ==
  ASSUME NEW S, NEW seq \in Seq(S), NEW n \in 0..Len(seq)
  PROVE  Len(SubSeq(seq, 1, n)) = n /\ \A k \in 1..n : SubSeq(seq, 1, n)[k] = seq[k]
OBVIOUS

\* jtag_goto_state, asked for Run-Test/Idle or for Shift-DR, ends in Run-Test/Idle.
LEMMA WalkEndsIdle ==
  ASSUME NEW t, t.tap \in TapStates, NEW s \in {"TAP_IDLE", "TAP_DR_SHIFT"}
  PROVE  Walked(t, s).tap = "TAP_IDLE"
<1> DEFINE n == WalkLength(s)
           tms == SubSeq(WalkTms, 1, n)
           tdi == [i \in 1..n |-> 1]
<1>1. n \in {7, 14} /\ (n = 7 <=> s = "TAP_IDLE")
  BY DEF WalkLength
<1>2. WalkTms \in Seq(Bit) /\ Len(WalkTms) = 14
  BY DEF WalkTms, Bit
<1>3. Len(tms) = n /\ \A k \in 1..n : tms[k] = WalkTms[k]
  <2>1. n \in 0..Len(WalkTms)
    BY <1>1, <1>2
  <2> HIDE DEF n
  <2> QED BY <1>2, <2>1, Beginning
<1>4. Walked(t, s) = Scan(t, tms, tdi).t
  BY DEF Walked
<1> HIDE DEF n, tms, tdi
<1>5. PICK g : TapPath(g, n, t, tms, Scan(t, tms, tdi))
  <2>1. n \in Nat /\ Len(tms) = n
    BY <1>1, <1>3
  <2> QED BY <2>1, TapCourse
<1>6. /\ g[0] = t.tap /\ g[0] \in TapStates
      /\ \A k \in 1..n : g[k] = TapStep(g[k - 1], tms[k])
      /\ Scan(t, tms, tdi).t.tap = g[n]
  BY <1>5 DEF TapPath
<1>7. \A k \in 1..n : g[k] = TapStep(g[k - 1], WalkTms[k])
  BY <1>3, <1>6
<1>8. g[7] = "TAP_IDLE"
  <2>1. \A k \in 1..6 : WalkTms[k] = 1
    BY DEF WalkTms
  <2>2. WalkTms[7] = 0
    BY DEF WalkTms
  <2>3. \A k \in 1..6 : g[k] = TapStep(g[k - 1], 1)
    BY <1>1, <1>7, <2>1
  <2>4. g[7] = TapStep(g[6], 0)
    BY <1>1, <1>7, <2>2
  <2> QED BY <1>6, <2>3, <2>4, ResetWalk
<1>9. CASE n = 14
  <2>1. /\ WalkTms[8] = 1 /\ WalkTms[9] = 1 /\ WalkTms[10] = 0 /\ WalkTms[11] = 0
        /\ WalkTms[12] = 1 /\ WalkTms[13] = 1 /\ WalkTms[14] = 0
    BY DEF WalkTms
  <2>2. /\ g[8] = TapStep(g[7], 1) /\ g[9] = TapStep(g[8], 1) /\ g[10] = TapStep(g[9], 0)
        /\ g[11] = TapStep(g[10], 0) /\ g[12] = TapStep(g[11], 1) /\ g[13] = TapStep(g[12], 1)
        /\ g[14] = TapStep(g[13], 0)
    BY <1>7, <1>9, <2>1
  <2>3. g[8] = "TAP_DR_SELECT" /\ g[9] = "TAP_IR_SELECT" /\ g[10] = "TAP_IR_CAPTURE"
    BY <1>8, <2>2, WalkMoves
  <2>4. g[11] = "TAP_IR_SHIFT" /\ g[12] = "TAP_IR_EXIT1" /\ g[13] = "TAP_IR_UPDATE"
    BY <2>2, <2>3, WalkMoves
  <2>5. g[14] = "TAP_IDLE"
    BY <2>2, <2>4, WalkMoves
  <2> QED BY <1>4, <1>6, <1>9, <2>5
<1> QED BY <1>1, <1>4, <1>6, <1>8, <1>9

\* And asked for anything, in a TAP state.
LEMMA WalkTyped ==
  ASSUME NEW t, t.tap \in TapStates, NEW s
  PROVE  Walked(t, s).tap \in TapStates
<1> DEFINE n == WalkLength(s)
<1>1. n \in {7, 8, 9, 10, 11, 14}
  BY DEF WalkLength
<1>2. WalkTms \in Seq(Bit) /\ Len(WalkTms) = 14
  BY DEF WalkTms, Bit
<1> HIDE DEF n
<1>3. Len(SubSeq(WalkTms, 1, n)) = n
  <2>1. n \in 0..Len(WalkTms)
    BY <1>1, <1>2
  <2> QED BY <1>2, <2>1, Beginning
<1>4. Walked(t, s) = Scan(t, SubSeq(WalkTms, 1, n), [i \in 1..n |-> 1]).t
  BY DEF Walked, n
<1> QED BY <1>1, <1>3, <1>4, ScanTyped

\* A word's data scan begins in Run-Test/Idle and stays there while the
\* acknowledgement is due, so that it reads as ones; the TAP ends where it was.
LEMMA WordNotAcknowledged ==
  ASSUME NEW t, t.tap \in TapStates, NEW ap, NEW dr_tdi
  PROVE  /\ Word(t, ap, dr_tdi).after.tap = "TAP_IDLE"
         /\ ~Acknowledged(Word(t, ap, dr_tdi).dr_tdo)
<1> DEFINE irTms  == ShiftTms(4, TRUE)
           drTms  == ShiftTms(35, TRUE)
           begin  == Walked(t, "TAP_IR_SHIFT")
           loaded == Scan(begin, irTms, IrBits(ap)).t
           from   == Walked(loaded, "TAP_DR_SHIFT")
           scan   == Scan(from, drTms, dr_tdi)
           n      == 35
<1>1. /\ Word(t, ap, dr_tdi).after = Walked(scan.t, "TAP_IDLE")
      /\ Word(t, ap, dr_tdi).dr_tdo = scan.tdo
  BY DEF Word, BackToIdle
<1>2. Len(irTms) = 4 /\ Len(drTms) = n /\ \A k \in 1..34 : drTms[k] = 0
  BY DEF ShiftTms
<1>3. n \in Nat /\ 1..n = 1..35
  OBVIOUS
<1> HIDE DEF irTms, drTms, n
<1>4. begin.tap \in TapStates
  BY WalkTyped
<1> HIDE DEF begin
<1>5. loaded.tap \in TapStates
  <2>1. Len(irTms) \in Nat
    BY <1>2
  <2> QED BY <1>4, <2>1, ScanTyped
<1> HIDE DEF loaded
<1>6. from.tap = "TAP_IDLE" /\ from.tap \in TapStates
  <2>1. from.tap = "TAP_IDLE"
    BY <1>5, WalkEndsIdle
  <2> QED BY <2>1 DEF TapStates
<1> HIDE DEF from
<1>7. PICK g : TapPath(g, n, from, drTms, scan)
  BY <1>2, <1>3, <1>6, TapCourse
<1> HIDE DEF scan
<1>8. /\ g[0] = from.tap
      /\ \A k \in 0..n : g[k] \in TapStates
      /\ \A k \in 1..n : g[k] = TapStep(g[k - 1], drTms[k])
      /\ scan.t.tap = g[n]
      /\ \A k \in 1..n : g[k - 1] \notin ShiftStates => scan.tdo[k] = 1
  BY <1>7 DEF TapPath
<1>9. g[1] = "TAP_IDLE" /\ g[2] = "TAP_IDLE"
  <2>1. g[1] = TapStep(g[0], drTms[1]) /\ g[2] = TapStep(g[1], drTms[2])
    BY <1>3, <1>8
  <2>2. drTms[1] = 0 /\ drTms[2] = 0
    BY <1>2
  <2> QED BY <1>6, <1>8, <2>1, <2>2, WalkMoves
<1>10. scan.tdo[3] = 1
  <2>1. g[3 - 1] \notin ShiftStates
    BY <1>9 DEF ShiftStates
  <2> QED BY <1>3, <1>8, <2>1
<1>11. scan.t.tap \in TapStates
  <2>1. g[n] \in TapStates
    BY <1>3, <1>8
  <2> QED BY <1>8, <2>1
<1>12. Walked(scan.t, "TAP_IDLE").tap = "TAP_IDLE"
  BY <1>11, WalkEndsIdle
<1> QED BY <1>1, <1>10, <1>12 DEF Acknowledged
----------------------------------------------------------------------------
\* What the target and the history of scans are worth between steps: scans are
\* noted by a transfer's loop only and with the pins driven, each leaves the TAP in
\* Run-Test/Idle, and none is acknowledged.
TargetInv ==
  /\ target.tap \in TapStates /\ driven \in BOOLEAN
  /\ ~driven => scans = <<>>
  /\ pc \notin {"transfer", "block", "copy"} => scans = <<>>
  /\ scans # <<>> => target.tap = "TAP_IDLE"

ReadsFault ==
  cmd = "DAP_TRANSFER" /\ resp_count > 0 /\ driven => resp_status # "OK"

ProbeInv == TargetInv /\ ReadsFault

\* JtagService clocks the target the way DapProbe's own steps do.
LEMMA ServiceScan ==
  ASSUME NEW t, t.tap \in TapStates, NEW tms, NEW tdi, Len(tms) \in Nat
  PROVE  Jtag!Scan(t, tms, tdi).t.tap \in TapStates
<1>1. Jtag!Scan(t, tms, tdi) = Scan(t, tms, tdi)
  BY DEF Jtag!Scan, Scan, Jtag!RisingEdge, RisingEdge, Jtag!TdoLevel, TdoLevel, Jtag!TapStep, TapStep,
         Jtag!OnOne, OnOne, Jtag!OnZero, OnZero, Jtag!ShiftStates, ShiftStates
<1> QED BY <1>1, ScanTyped

\* A call of the pin driver leaves the target in a TAP state and the pins as they are.
LEMMA ServiceApply ==
  ASSUME TargetInv, NEW c, Len(c.tms) \in Nat, NEW level,
         Jtag!Apply(c, level) \/ Jtag!NotConnected(c)
  PROVE  target'.tap \in TapStates /\ driven' = driven
<1>1. CASE Jtag!Apply(c, level)
  <2>1. PICK tdi : target' = Jtag!Scan(target, c.tms, tdi).t
    BY <1>1 DEF Jtag!Apply
  <2>2. driven' = driven
    BY <1>1 DEF Jtag!Apply
  <2> QED BY <2>1, <2>2, ServiceScan DEF TargetInv
<1>2. CASE Jtag!NotConnected(c)
  BY <1>2 DEF Jtag!NotConnected, TargetInv
<1> QED BY <1>1, <1>2

\* A word of a transfer: the invariant holds after it, and it is not acknowledged.
LEMMA WordInv ==
  ASSUME TargetInv, pc \in {"transfer", "block"}, pc' = pc, driven' = driven,
         NEW read, NEW ok \in BOOLEAN, Transferred(read, ok)
  PROVE  TargetInv' /\ (driven => ok = FALSE)
<1>1. CASE ~driven /\ UNCHANGED <<target, scans>>
  BY <1>1 DEF TargetInv
<1>2. CASE driven /\ ~(~driven /\ UNCHANGED <<target, scans>>)
  <2>1. PICK ap \in Bit, x \in Bit :
          LET w == Word(target, ap, DrBits(read, x))
          IN  /\ target' = w.after
              /\ ok = Acknowledged(w.dr_tdo)
              /\ scans' = Append(scans, w.from)
    BY <1>2 DEF Transferred
  <2> DEFINE w == Word(target, ap, DrBits(read, x))
  <2>2. w.after.tap = "TAP_IDLE" /\ ~Acknowledged(w.dr_tdo)
    BY WordNotAcknowledged DEF TargetInv
  <2>3. target' = w.after /\ ok = Acknowledged(w.dr_tdo)
    BY <2>1
  <2> HIDE DEF w
  <2>4. target'.tap = "TAP_IDLE"
    BY <2>2, <2>3
  <2>5. ok = FALSE
    BY <2>2, <2>3, Zenon
  <2>6. target'.tap \in TapStates
    BY <2>4 DEF TapStates
  <2> QED BY <1>2, <2>4, <2>5, <2>6 DEF TargetInv
<1> QED BY <1>1, <1>2 DEF Transferred

\* What every handler of DapProbe keeps.
LEMMA ProbeStep ==
  ASSUME IInv, ProbeInv, ProbeNext
  PROVE  ProbeInv'
<1>1. TargetInv /\ ReadsFault
  BY DEF ProbeInv
<1>2. BeforeHandler /\ LoopOfCommand /\ resp_count \in Nat
  BY DEF IInv, TypeOK
<1>3. CASE ProbeConnect
  <2>1. /\ pc = "dispatch" /\ cmd = "DAP_CONNECT" /\ cmd' = cmd /\ pc' = "copy"
    BY <1>3 DEF ProbeConnect, Connect, WriteResponse
  <2>2. scans = <<>>
    BY <1>1, <2>1 DEF TargetInv
  <2>3. scans' = scans /\ driven' \in BOOLEAN /\ target'.tap \in TapStates
    BY <1>1, <1>3, WalkTyped DEF ProbeConnect, PinsQuiet, pins, TargetInv
  <2> QED BY <2>1, <2>2, <2>3 DEF ProbeInv, TargetInv, ReadsFault
<1>4. CASE ProbeSimple
  <2>1. /\ pc = "dispatch" /\ cmd \in SimpleCommands /\ cmd' = cmd /\ pc' = "copy"
    BY <1>4 DEF ProbeSimple, Simple, WriteResponse
  <2>2. scans = <<>>
    BY <1>1, <2>1 DEF TargetInv
  <2>3. scans' = scans /\ driven' = driven /\ target'.tap \in TapStates
    <3>1. CASE PinsQuiet
      BY <1>1, <3>1 DEF PinsQuiet, pins, TargetInv
    <3>2. CASE ~PinsQuiet
      <4>1. PICK tms \in TmsStrings, level \in Bit :
              Jtag!Apply(TmsCall(tms), level) \/ Jtag!NotConnected(TmsCall(tms))
        BY <1>4, <3>2 DEF ProbeSimple
      <4>2. Len(TmsCall(tms).tms) \in Nat
        <5>1. tms \in Seq(Bit)
          BY CallAssumption
        <5> QED BY <5>1 DEF TmsCall, Call
      <4>3. scans' = scans
        BY <1>4, <3>2 DEF ProbeSimple
      <4> QED BY <1>1, <4>1, <4>2, <4>3, ServiceApply
    <3> QED BY <3>1, <3>2
  <2> QED BY <1>1, <2>1, <2>2, <2>3 DEF ProbeInv, TargetInv, ReadsFault, SimpleCommands
<1>5. CASE ProbeSequence
  <2>1. /\ pc = "sequence" /\ UNCHANGED <<pc, cmd>>
    BY <1>5 DEF ProbeSequence, SequenceStep
  <2>2. scans = <<>> /\ cmd # "DAP_TRANSFER"
    BY <1>1, <1>2, <2>1 DEF TargetInv, LoopOfCommand, Loops, LoopOf
  <2>3. scans' = scans
    BY <1>5 DEF ProbeSequence
  <2>4. PICK tdi \in TdiStrings, tms \in Bit, cap \in BOOLEAN :
          \/ Jtag!Apply(SequenceCall(tdi, tms, cap), 0)
          \/ Jtag!NotConnected(SequenceCall(tdi, tms, cap))
    BY <1>5 DEF ProbeSequence
  <2>5. Len(SequenceCall(tdi, tms, cap).tms) \in Nat
    <3>1. tdi \in Seq(Bit)
      BY CallAssumption
    <3>2. Len(tdi) \in Nat
      BY <3>1
    <3>3. SequenceCall(tdi, tms, cap).tms = [i \in 1..Len(tdi) |-> tms]
      BY DEF SequenceCall, Call
    <3> QED BY <3>2, <3>3
  <2>6. target'.tap \in TapStates /\ driven' = driven
    BY <1>1, <2>4, <2>5, ServiceApply
  <2> QED BY <1>1, <2>1, <2>2, <2>3, <2>6 DEF ProbeInv, TargetInv, ReadsFault
<1>6. CASE ProbeTransfer
  <2>1. /\ pc = "transfer" /\ UNCHANGED <<pc, cmd>>
    BY <1>6 DEF ProbeTransfer, TransferTurn
  <2>2. driven' = driven
    BY <1>6 DEF ProbeTransfer
  <2>3. PICK ok \in BOOLEAN :
          \/ /\ TransferRead /\ Transferred(1, ok)
             /\ resp_status' = IF ok THEN resp_status ELSE "FAULT"
          \/ TransferWrite /\ Transferred(0, ok)
    BY <1>6 DEF ProbeTransfer
  <2>4. TargetInv' /\ (driven => ok = FALSE)
    BY <1>1, <2>1, <2>2, <2>3, WordInv
  <2>5. ReadsFault'
    <3>1. CASE TransferWrite
      <4>1. resp_count' = resp_count /\ resp_status' = resp_status
        BY <3>1 DEF TransferWrite
      <4> QED BY <1>1, <2>1, <2>2, <4>1 DEF ReadsFault
    <3>2. CASE resp_status' = IF ok THEN resp_status ELSE "FAULT"
      BY <2>2, <2>4, <3>2 DEF ReadsFault
    <3> QED BY <2>3, <3>1, <3>2
  <2> QED BY <2>4, <2>5 DEF ProbeInv
<1>7. CASE ProbeBlock
  <2>1. /\ pc = "block" /\ UNCHANGED <<pc, cmd>>
    BY <1>7 DEF ProbeBlock, BlockStep
  <2>2. cmd # "DAP_TRANSFER"
    BY <1>2, <2>1 DEF LoopOfCommand, Loops, LoopOf
  <2>3. driven' = driven
    BY <1>7 DEF ProbeBlock
  <2>4. PICK ok \in BOOLEAN : Transferred(IF rnw THEN 1 ELSE 0, ok)
    BY <1>7 DEF ProbeBlock
  <2>5. TargetInv'
    BY <1>1, <2>1, <2>3, <2>4, WordInv
  <2> QED BY <2>1, <2>2, <2>5 DEF ProbeInv, ReadsFault
<1>8. CASE ProbeCopy
  <2>1. scans' = <<>> /\ target' = target /\ driven' = driven /\ cmd' = "none"
    BY <1>8 DEF ProbeCopy, Copy, pins
  <2> QED BY <1>1, <2>1 DEF ProbeInv, TargetInv, ReadsFault
<1>9. CASE PinsQuiet /\ (Receive \/ Info \/ Disconnect \/ SwjClk \/ BeginLoop)
  <2>1. target' = target /\ driven' = driven /\ scans' = scans
    BY <1>9 DEF PinsQuiet, pins
  <2>2. pc \in {"idle", "dispatch"}
    BY <1>9 DEF Receive, Info, Disconnect, SwjClk, BeginLoop
  <2>3. resp_count = 0 /\ scans = <<>>
    BY <1>1, <1>2, <2>2 DEF BeforeHandler, TargetInv
  <2>4. resp_count' = 0
    BY <1>9, <2>3 DEF Receive, Info, Disconnect, SwjClk, BeginLoop, WriteResponse, loop
  <2> QED BY <1>1, <2>1, <2>3, <2>4 DEF ProbeInv, TargetInv, ReadsFault
<1>10. CASE PinsQuiet /\ (SequenceEnd \/ TransferEnd \/ BlockEnd)
  <2>1. target' = target /\ driven' = driven /\ scans' = scans
    BY <1>10 DEF PinsQuiet, pins
  <2>2. pc' = "copy" /\ cmd' = cmd /\ resp_count' = resp_count
    BY <1>10 DEF SequenceEnd, TransferEnd, BlockEnd, loop
  <2>3. resp_status' \in {resp_status, "ERROR"}
    BY <1>10 DEF SequenceEnd, TransferEnd, BlockEnd, loop
  <2> QED BY <1>1, <2>1, <2>2, <2>3 DEF ProbeInv, TargetInv, ReadsFault
<1> QED BY <1>3, <1>4, <1>5, <1>6, <1>7, <1>8, <1>9, <1>10 DEF ProbeNext

\* The invariant of the processor and the target together.
THEOREM ProbeInvariance == ProbeSpec => []ProbeInv
<1>1. ProbeInit => ProbeInv
  <2>1. SUFFICES ASSUME ProbeInit PROVE ProbeInv
    OBVIOUS
  <2>2. ~driven /\ driven \in BOOLEAN
    BY <2>1, Zenon DEF ProbeInit, Jtag!Init
  <2>3. scans = <<>>
    BY <2>1 DEF ProbeInit
  <2>4. resp_count = 0
    BY <2>1 DEF ProbeInit, Init
  <2>5. target \in Jtag!PowerUpTargets
    BY <2>1, Zenon DEF ProbeInit, Jtag!Init
  <2>6. target.tap \in TapStates
    BY <2>5 DEF Jtag!PowerUpTargets, Jtag!TapStates, TapStates
  <2> QED BY <2>2, <2>3, <2>4, <2>6 DEF ProbeInv, TargetInv, ReadsFault
<1>2. IInv /\ ProbeInv /\ [ProbeNext]_probe => ProbeInv'
  <2>1. SUFFICES ASSUME IInv, ProbeInv, [ProbeNext]_probe PROVE ProbeInv'
    OBVIOUS
  <2>2. CASE ProbeNext
    BY <2>1, <2>2, ProbeStep
  <2>3. CASE UNCHANGED probe
    BY <2>1, <2>3 DEF probe, vars, pins, loop, ProbeInv, TargetInv, ReadsFault
  <2> QED BY <2>1, <2>2, <2>3
<1> QED BY <1>1, <1>2, ProbeIsCommands, Invariance, PTL DEF ProbeSpec

\* No word is answered as read without a fault unless it came through Shift-DR.
THEOREM ReadsNotFalse == ProbeSpec => []NoFalseRead
<1>1. ProbeInv => NoFalseRead
  <2>1. SUFFICES ASSUME ProbeInv, resp_count > 0, cmd = "DAP_TRANSFER", resp_status = "OK"
                 PROVE  \A i \in 1..Len(scans) : scans[i] = "TAP_DR_SHIFT"
    BY DEF NoFalseRead
  <2>2. scans = <<>>
    BY <2>1 DEF ProbeInv, TargetInv, ReadsFault
  <2> QED BY <2>2
<1> QED BY <1>1, ProbeInvariance, PTL

\* Transfers leave the TAP in Run-Test/Idle, whatever state they found it in.
THEOREM IdleAfterTransfer == ProbeSpec => []TransferLeavesIdle
<1>1. ProbeInv => TransferLeavesIdle
  BY DEF ProbeInv, TargetInv, TransferLeavesIdle
<1> QED BY <1>1, ProbeInvariance, PTL
=============================================================================
