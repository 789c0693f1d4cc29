---------------------------- MODULE DapCommands ----------------------------
(***************************************************************************)
(* dap_process_command and the handlers it dispatches to.  A handler builds *)
(* its answer in the static resp_buffer; the first *resp_len bytes of that  *)
(* buffer are what the host gets.  A byte is modelled by who stored it: an  *)
(* earlier command, or this one and which part of its answer.  Requests are *)
(* read lazily: a loop chooses the bytes it parses as it reaches them.      *)
(***************************************************************************)
EXTENDS Integers, Sequences

CONSTANTS
  PacketSize,    \* bytes in a HID report: 64
  RespSize,      \* DAP_MAX_RESP_SIZE: 512
  WordBytes,     \* bytes in a transfer word: 4
  RequestLens,   \* lengths of received requests
  Counts,        \* sequence, transfer and TMS byte counts in requests
  ByteLens,      \* bytes of TDI data in one JTAG sequence: 1..8
  InfoLens,      \* lengths of the answers to DAP_Info
  ClocksKhz      \* frequencies asked for by DAP_SWJ_CLK, in kHz

ASSUME SizeAssumption ==
  /\ PacketSize \in Nat /\ PacketSize >= 8
  /\ WordBytes = 4
  /\ RespSize \in Nat /\ RespSize % WordBytes = 0 /\ RespSize >= 4 * PacketSize
  /\ RequestLens \subseteq 1..PacketSize
  /\ Counts \subseteq 0..255
  /\ ByteLens \subseteq 1..8
  /\ InfoLens \subseteq 1..(PacketSize - 2)
  /\ ClocksKhz \subseteq Nat

VARIABLES
  dap_state,      \* connected, port and clock_khz; the rest is never read
  jtag_clk_div,   \* NOPs in half a TCK cycle
  resp_buffer,    \* who stored each byte
  pc,             \* where dap_process_command is
  cmd,            \* the command being processed
  req_len,        \* its length
  left,           \* loop iterations left
  req_pos,        \* bytes of the request parsed
  resp_idx,       \* the handler's index into resp_data
  rnw,            \* the direction of a block
  resp_count,     \* words read by a transfer
  resp_status,
  resp_len,       \* the length handed back
  top,            \* history: the highest index stored to by this command
  owed            \* history: the TDO bytes captured by this command, in order

dap  == <<dap_state, jtag_clk_div>>
loop == <<left, req_pos, rnw, resp_idx, resp_count, resp_status>>
out  == <<resp_buffer, top, resp_len>>
vars == <<dap, out, pc, cmd, req_len, loop, owed>>

SimpleCommands ==
  {"DAP_HOSTSTATUS", "DAP_WRITE_ABORT", "DAP_DELAY", "DAP_RESET_TARGET",
   "DAP_TRANSFER_CONFIGURE", "DAP_SWJ_SEQUENCE", "unknown"}

Commands ==
  SimpleCommands
    \cup {"DAP_INFO", "DAP_CONNECT", "DAP_DISCONNECT", "DAP_SWJ_CLK",
          "DAP_JTAG_SEQUENCE", "DAP_TRANSFER", "DAP_TRANSFER_BLOCK"}

Loops == {"sequence", "transfer", "block"}
----------------------------------------------------------------------------
\* Who stored a byte: an earlier command, or the n-th part of kind `by` of the
\* answer under construction, its k-th byte.
Mark(by, n, k) == [by |-> by, n |-> n, k |-> k]
Old == Mark("old", 0, 0)

\* Stores of n bytes from index i on.
Stored(i, n, by, part) ==
  /\ resp_buffer' = [ j \in 0..(RespSize - 1) |->
                        IF j \in i..(i + n - 1) THEN Mark(by, part, j - i) ELSE resp_buffer[j] ]
  /\ top' = IF i + n - 1 > top THEN i + n - 1 ELSE top

\* Mutant: the shortest half cycle is not enforced.
DividerUnclamped(khz) == 10000 \div (IF khz = 0 THEN 1 ELSE IF khz > 10000 THEN 10000 ELSE khz)

\* jtag_set_clock: NOPs per half cycle.
Divider(khz) ==
  LET clk == IF khz = 0 THEN 1 ELSE IF khz > 10000 THEN 10000 ELSE khz
      div == 10000 \div clk
  IN  IF div < 2 THEN 2 ELSE div

\* Between commands every byte of resp_buffer is an earlier command's.
AllOld == [j \in 0..(RespSize - 1) |-> Old]

Init ==
  /\ dap_state = [connected |-> FALSE, port |-> "DISABLED", clock_khz |-> 1000]
  /\ jtag_clk_div = 5
  /\ resp_buffer = AllOld /\ top = 0 - 1
  /\ pc = "idle" /\ cmd = "none" /\ req_len = 0
  /\ left = 0 /\ req_pos = 0 /\ rnw = FALSE
  /\ resp_idx = 0 /\ resp_count = 0 /\ resp_status = "OK"
  /\ resp_len = 0 /\ owed = <<>>

\* A request arrives; the dispatch table picks the handler.
Receive ==
  /\ pc = "idle"
  /\ \E c \in Commands, n \in RequestLens : cmd' = c /\ req_len' = n
  /\ pc' = "dispatch"
  /\ UNCHANGED <<dap, out, loop, owed>>

\* dap_write_response: the command and DAP_OK, whatever the status.
WriteResponse ==
  /\ Stored(0, 2, "header", 0)
  /\ resp_len' = 2
  /\ pc' = "copy"
  /\ UNCHANGED <<cmd, req_len, loop, owed>>
----------------------------------------------------------------------------
\* The handlers that answer with a bare header, on success and on error.
Simple ==
  /\ pc = "dispatch" /\ cmd \in SimpleCommands
  /\ WriteResponse
  /\ UNCHANGED dap

Info ==
  /\ pc = "dispatch" /\ cmd = "DAP_INFO"
  /\ \/ WriteResponse                      \* request too short, unknown id
     \/ /\ req_len >= 2
        /\ \E n \in InfoLens : Stored(0, n + 2, "info", 0) /\ resp_len' = n + 2
        /\ pc' = "copy"
        /\ UNCHANGED <<cmd, req_len, loop, owed>>
  /\ UNCHANGED dap

\* Mutant: the clock of an earlier DAP_SWJ_CLK is left in force.
ConnectKeepsDivider ==
  /\ pc = "dispatch" /\ cmd = "DAP_CONNECT"
  /\ WriteResponse
  /\ dap_state' = IF req_len < 2 THEN dap_state
                  ELSE [connected |-> TRUE, port |-> "JTAG", clock_khz |-> 1000]
  /\ UNCHANGED jtag_clk_div

\* jtag_gpio_init, jtag_tap_reset and jtag_set_clock(1000).
Connect ==
  /\ pc = "dispatch" /\ cmd = "DAP_CONNECT"
  /\ WriteResponse
  /\ IF req_len < 2
       THEN UNCHANGED dap
       ELSE /\ dap_state' = [connected |-> TRUE, port |-> "JTAG", clock_khz |-> 1000]
            /\ jtag_clk_div' = Divider(1000)

Disconnect ==
  /\ pc = "dispatch" /\ cmd = "DAP_DISCONNECT"
  /\ WriteResponse
  /\ dap_state' = [dap_state EXCEPT !.connected = FALSE, !.port = "DISABLED"]
  /\ UNCHANGED jtag_clk_div

SwjClk ==
  /\ pc = "dispatch" /\ cmd = "DAP_SWJ_CLK"
  /\ WriteResponse
  /\ IF req_len < 5
       THEN UNCHANGED dap
       ELSE \E khz \in ClocksKhz :
              /\ dap_state' = [dap_state EXCEPT !.clock_khz = khz]
              /\ jtag_clk_div' = Divider(khz)
----------------------------------------------------------------------------
\* The shortest request each loop accepts, where its parsing starts, and the
\* resp_idx it starts from.
LoopOf(c) ==
  CASE c = "DAP_JTAG_SEQUENCE"  -> "sequence"
    [] c = "DAP_TRANSFER"       -> "transfer"
    [] c = "DAP_TRANSFER_BLOCK" -> "block"
    [] OTHER                    -> "none"

ShortestRequest(l) == IF l = "sequence" THEN 2 ELSE 5
FirstByte(l) == CASE l = "sequence" -> 2 [] l = "transfer" -> 3 [] OTHER -> 4
FirstIndex(l) == CASE l = "sequence" -> 0 [] l = "transfer" -> 3 [] OTHER -> 2

BeginLoop ==
  LET l == LoopOf(cmd) IN
  /\ pc = "dispatch" /\ l \in Loops
  /\ IF req_len < ShortestRequest(l)
       THEN WriteResponse
       ELSE /\ \E n \in Counts : left' = n
            /\ req_pos' = FirstByte(l)
            /\ resp_idx' = FirstIndex(l)
            /\ rnw' \in BOOLEAN
            /\ resp_count' = 0 /\ resp_status' = "OK"
            /\ pc' = l
            /\ UNCHANGED <<out, cmd, req_len, owed>>
  /\ UNCHANGED dap
----------------------------------------------------------------------------
\* Mutant: the loop counter is never advanced.
OneDoneStuck == left

OneDone == left - 1

\* Mutant: the request's end is not looked at.
RequestLeftAlways == TRUE

\* The loops over sequences and transfers stop where the request does.
RequestLeft == req_pos < req_len
----------------------------------------------------------------------------
\* The info byte at req_pos announces more TDI bytes than the request has.
SequenceTruncated(bytes) == req_pos + 1 + bytes > req_len

\* Mutants: a captured sequence leaves the index where it was; it advances it
\* by the bytes of a full sequence of 64 bits.
AfterCaptureStuck(bytes) == resp_idx
AfterCaptureFull(bytes) == resp_idx + 8

AfterCapture(bytes) == resp_idx + bytes

\* One sequence: `bytes` bytes of TDI, and as many of TDO if captured.
SequenceStep ==
  /\ pc = "sequence" /\ left > 0 /\ RequestLeft
  /\ \E bytes \in ByteLens, capture \in BOOLEAN :
       /\ ~SequenceTruncated(bytes)
       /\ req_pos' = req_pos + 1 + bytes
       /\ left' = OneDone
       /\ IF capture
            THEN /\ Stored(2 + resp_idx, bytes, "tdo", left)
                 /\ resp_idx' = AfterCapture(bytes)
                 /\ owed' = owed \o [k \in 1..bytes |-> Mark("tdo", left, k - 1)]
            ELSE UNCHANGED <<resp_buffer, top, resp_idx, owed>>
  /\ UNCHANGED <<dap, pc, cmd, req_len, rnw, resp_count, resp_status, resp_len>>

\* The loop ends when the sequences do, or the request does; DAP_OK either way.
SequenceEnd ==
  /\ pc = "sequence"
  /\ \/ left = 0
     \/ ~RequestLeft
     \/ \E bytes \in ByteLens : SequenceTruncated(bytes)
  /\ Stored(0, 2, "header", 0)
  /\ resp_len' = resp_idx + 2
  /\ pc' = "copy"
  /\ UNCHANGED <<dap, cmd, req_len, loop, owed>>
----------------------------------------------------------------------------
\* Where a word read goes: resp_data already points past the header, and the
\* index starts past it again.
WordIndex == FirstIndex(pc) + resp_idx

\* Mutant: words are stored without looking at the room left.
RoomForWordAlways == TRUE

RoomForWord == resp_idx + WordBytes < RespSize

\* A word read from the target, stored if there is room.
StoreWord ==
  IF RoomForWord
    THEN /\ Stored(WordIndex, WordBytes, "word", resp_count)
         /\ resp_idx' = resp_idx + WordBytes
         /\ resp_count' = resp_count + 1
    ELSE UNCHANGED <<resp_buffer, top, resp_idx, resp_count>>

\* The request bytes a write takes for its word: none when they are missing,
\* and zero is written then.
WordTaken(at) == IF at + WordBytes <= req_len THEN WordBytes ELSE 0

TransferRead ==
  /\ StoreWord
  /\ req_pos' = req_pos + 1
  /\ resp_status' \in {resp_status, "FAULT"}

TransferWrite ==
  /\ req_pos' = req_pos + 1 + WordTaken(req_pos + 1)
  /\ UNCHANGED <<resp_buffer, top, resp_idx, resp_count, resp_status>>

TransferTurn ==
  /\ pc = "transfer" /\ left > 0 /\ RequestLeft
  /\ left' = OneDone
  /\ UNCHANGED <<dap, pc, cmd, req_len, rnw, resp_len, owed>>

TransferStep == TransferTurn /\ (TransferRead \/ TransferWrite)

TransferEnd ==
  /\ pc = "transfer"
  /\ left = 0 \/ ~RequestLeft
  /\ resp_status' = IF left > 0 THEN "ERROR" ELSE resp_status
  /\ Stored(0, 3, "header", 0)
  /\ resp_len' = resp_idx
  /\ pc' = "copy"
  /\ UNCHANGED <<dap, cmd, req_len, left, req_pos, rnw, resp_idx, resp_count, owed>>

\* All words of a block go the way its one request byte says.
BlockStep ==
  /\ pc = "block" /\ left > 0
  /\ left' = OneDone
  /\ IF rnw
       THEN StoreWord /\ UNCHANGED req_pos
       ELSE /\ req_pos' = req_pos + WordTaken(req_pos)
            /\ UNCHANGED <<resp_buffer, top, resp_idx, resp_count>>
  /\ UNCHANGED <<dap, pc, cmd, req_len, rnw, resp_status, resp_len, owed>>

BlockEnd ==
  /\ pc = "block" /\ left = 0
  /\ Stored(0, 2, "header", 0)
  /\ resp_len' = resp_idx
  /\ pc' = "copy"
  /\ UNCHANGED <<dap, cmd, req_len, loop, owed>>

\* The first resp_len bytes go to the caller, and the handler's locals with it;
\* resp_buffer is not cleared.
Copy ==
  /\ pc = "copy"
  /\ resp_buffer' = AllOld /\ top' = 0 - 1
  /\ pc' = "idle" /\ cmd' = "none" /\ req_len' = 0
  /\ left' = 0 /\ req_pos' = 0 /\ rnw' = FALSE
  /\ resp_idx' = 0 /\ resp_count' = 0 /\ resp_status' = "OK"
  /\ resp_len' = 0 /\ owed' = <<>>
  /\ UNCHANGED dap
----------------------------------------------------------------------------
Process ==
  \/ Simple \/ Info \/ Connect \/ Disconnect \/ SwjClk
  \/ BeginLoop
  \/ SequenceStep \/ SequenceEnd
  \/ TransferStep \/ TransferEnd
  \/ BlockStep \/ BlockEnd
  \/ Copy

Next == Receive \/ Process

Spec == Init /\ [][Next]_vars

\* A handler runs to its end in the interrupt; requests come as they like.
FairSpec == Spec /\ WF_vars(Process)
----------------------------------------------------------------------------
DapState == [connected : BOOLEAN, port : {"DISABLED", "JTAG"}, clock_khz : Nat]
Marks == [by : {"old", "header", "info", "tdo", "word"}, n : Nat, k : Nat]

\* The type of every variable; the divider leaves jtag_delay a loop to run.
TypeOK ==
  /\ dap_state \in DapState
  /\ jtag_clk_div \in Nat /\ jtag_clk_div >= 2
  /\ resp_buffer \in [0..(RespSize - 1) -> Marks]
  /\ pc \in {"idle", "dispatch", "copy"} \cup Loops
  /\ cmd \in Commands \cup {"none"}
  /\ req_len \in 0..PacketSize
  /\ left \in 0..255 /\ req_pos \in Nat /\ rnw \in BOOLEAN
  /\ resp_idx \in Nat /\ resp_count \in Nat /\ resp_status \in {"OK", "FAULT", "ERROR"}
  /\ resp_len \in Nat
  /\ top \in Int
  /\ owed \in Seq(Marks)

\* No command stores past resp_buffer, although dap_handle_transfer and
\* dap_handle_transfer_block store FirstIndex bytes beyond the index they check:
\* a transfer's request is too short to get there, and a block's words, 4 bytes
\* from an even start, end exactly at the last byte.
StoresInBounds == top < RespSize

\* dap_handle_transfer never drops a word for want of room: a request holds too
\* few transfers, so resp_count counts every read.
NoWordDropped == pc = "transfer" => RoomForWord

\* A DAP_JTAG_SEQUENCE answer is no longer than its request, whatever the info
\* bytes say: what came in one report goes back in one report.
SequenceFits ==
  pc = "copy" /\ cmd = "DAP_JTAG_SEQUENCE" => resp_len <= req_len \/ resp_len = 2

\* The TDO bytes a DAP_JTAG_SEQUENCE answers with are those of the captured
\* sequences, in order, none missing, none in the way of the next.
OwedInOrder ==
  pc = "copy" /\ cmd = "DAP_JTAG_SEQUENCE" =>
    /\ resp_len = 2 + Len(owed)
    /\ \A k \in 1..Len(owed) : resp_buffer[1 + k] = owed[k]

Stale(j) == resp_buffer[j] = Old

\* The answer to a command that reads no word is all its own: resp_buffer is
\* never cleared, and none of an earlier answer shows through.
ReplyFresh ==
  pc = "copy" /\ resp_count = 0 => \A j \in 0..(resp_len - 1) : ~Stale(j)

\* What the comment at the end of dap_handle_transfer says of its answer: after
\* the header come the words read, all of them and nothing else.
WordsFollowHeader ==
  pc = "copy" /\ cmd = "DAP_TRANSFER" => \A j \in 3..(resp_len - 1) : ~Stale(j)

\* Once connected, the clock the probe reports as set is the one in force.
ClockAgrees == dap_state.connected => jtag_clk_div = Divider(dap_state.clock_khz)

\* Every command is answered, however long its loops.
CommandsAnswered == (pc = "dispatch") ~> (pc = "copy")
=============================================================================
