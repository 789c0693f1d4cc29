---------------------------- MODULE ControlPipe ----------------------------
(***************************************************************************)
(* Control transfers on endpoint 0: the USB device core (usbd_core.c) with   *)
(* the HID class's requests (usbd_hid.c), on the endpoints of               *)
(* FsdevEndpoints, served by USBD_IRQHandler one event at a time.  The host *)
(* may be several steps ahead of the handler, abandon a transfer with the   *)
(* next SETUP, or reset the bus.  Beside the control transfers reports and  *)
(* answers pass over the two HID endpoints, whose exchange HidLink details. *)
(*                                                                         *)
(* A byte is modelled by what it is a copy of: <<object, index>>.           *)
(***************************************************************************)
EXTENDS FsdevEndpoints

CONSTANTS
  Descriptors,   \* the descriptors in usb_descriptor.c and the report descriptor
  Length,        \* the length of each
  ReqSize,       \* USB_REQUEST_BUFFER_SIZE
  Byte0,         \* the byte at address 0, where a descriptor at NULL begins
  Profiles,      \* external: sets of requests; a host makes those of one set
  Serial,        \* TRUE: the host uses either endpoint 0 or the HID endpoints
  MaxAborts,     \* bound: transfers in a row the host abandons by the next SETUP
  MaxOffset      \* bound: how far ep0_data_buf runs past an object's start

ASSUME ControlAssumption ==
  /\ "report" \in Descriptors /\ Length \in [Descriptors -> Nat \ {0}]
  /\ ReqSize \in Nat /\ Byte0 \in Nat /\ MaxAborts \in Nat /\ MaxOffset \in Nat
  /\ Serial \in BOOLEAN

VARIABLES
  dev,           \* the device: its registers, packet memory and driver state
  pending,       \* CTR bits: "setup", "out0", "in0", "in1", "out2"
  istr_reset,    \* ISTR.RESET
  late,          \* history: a completion was pending when this SETUP was served
  host           \* external: what the host is doing

vars == <<dev, pending, istr_reset, late, host>>
----------------------------------------------------------------------------
Request(to, code, val, dir, n) ==
  [to |-> to, code |-> code, val |-> val, dir |-> dir, n |-> n]
Requests == UNION Profiles

\* External: the recipients and codes that reach a handler.
ASSUME RequestAssumption ==
  \A r \in Requests :
    /\ r.to \in {"device", "interface", "endpoint", "class"} /\ r.n \in Nat
    /\ r.to = "device" =>
         r.code \in {"GET_DESCRIPTOR", "GET_STATUS", "SET_ADDRESS", "SET_CONFIGURATION"}
    /\ r.to = "interface" =>
         \/ r.code = "SET_INTERFACE"
         \/ r.code = "GET_DESCRIPTOR" /\ r.val \in {"report", "hid", "physical"}
    /\ r.to = "endpoint" => r.val \in Addresses
    /\ r.code = "SET_ADDRESS" => r.val \in 0..1

\* External: a host asks a recipient for what it has.  It reads descriptors, the
\* status and the report; a request that selects a configuration or a setting has
\* no data; one to an endpoint names an endpoint there is.
Selects == {"SET_CONFIGURATION", "SET_INTERFACE"}
ASSUME HostAssumption ==
  /\ {"req_data", "null"} \intersect Descriptors = {}
  /\ \A r \in Requests :
       /\ r.dir = "in" => r.code \in {"GET_DESCRIPTOR", "GET_STATUS", "GET_REPORT"}
       /\ r.code = "GET_STATUS" => r.val = "status"
       /\ r.code = "GET_REPORT" => r.val = "report_byte"
       /\ r.code \in Selects => r.n = 0
       /\ r.to = "endpoint" => r.code \in {"SET_HALT", "CLEAR_HALT"} /\ r.val \in Used
       /\ r.to = "class" => r.code \in {"GET_REPORT", "SET_REPORT"}

\* The bytes of a report the host sets, and of the object a request asks for;
\* a request for the HID descriptor or a physical one finds none.
ReportSent(n) == [i \in 1..n |-> <<"sent", n <= Mps, i>>]
Unset(r) == r.code = "GET_DESCRIPTOR" /\ r.val \in {"hid", "physical"}
ObjectLength(r) ==
  CASE r.code = "GET_DESCRIPTOR" -> Length[r.val]
    [] r.code = "GET_STATUS"     -> 2
    [] r.code = "GET_REPORT"     -> 1
Least(a, b) == IF a < b THEN a ELSE b
Expected(r) == [i \in 1..Least(r.n, ObjectLength(r)) |-> <<r.val, i>>]

NothingWritten == [ep \in {In(0), In(1)} |-> <<>>]
NoByte == <<"none", 0>>
Null   == [obj |-> "null", off |-> 0]
Idle   == Request("none", "none", 0, "out", 0)
----------------------------------------------------------------------------
\* n bytes at ep0_data_buf.
BytesAt(d, n) ==
  [i \in 1..n |-> IF d.buf.obj # "req_data" THEN <<d.buf.obj, d.buf.off + i>>
                  ELSE IF d.buf.off + i \in DOMAIN d.req_data THEN d.req_data[d.buf.off + i]
                  ELSE NoByte]

\* usbd_ep_write of bytes that fit a packet.
EpWrite(d, ep, bytes) ==
  [d EXCEPT !.pma = Stored(@, d.dc.buf_addr[ep], bytes),
            !.dc = EpArmed(@, ep, Len(bytes)),
            !.written[ep] = bytes]

StalledIn(d) == [d EXCEPT !.dc = EpSetStall(@, In(0))]

\* Mutant: no zero-length packet follows a last packet of full size.
NoZlpAfter(d, chunk) == FALSE

\* A zero-length packet will tell the host that the data ends here.
ZlpAfter(d, chunk) == d.residue = chunk /\ d.setup.n > d.len /\ d.len % Mps = 0

\* usbd_send_to_host: a packet of data, or of status when there is none left.
SendToHost(d) ==
  IF d.zlp THEN EpWrite([d EXCEPT !.zlp = FALSE], In(0), <<>>)
  ELSE IF d.buf.obj = "null" /\ d.residue > 0 THEN d
  ELSE LET chunk == Least(d.residue, Mps)
       IN [EpWrite(d, In(0), BytesAt(d, chunk)) EXCEPT
             !.buf.off = @ + chunk, !.residue = @ - chunk, !.zlp = ZlpAfter(d, chunk)]
----------------------------------------------------------------------------
Answer(d, obj, n) == [d EXCEPT !.buf = [obj |-> obj, off |-> 0], !.len = n]

\* Mutant: the address is in force at once.
SetAddressNow(d, a) == [d EXCEPT !.daddr = a, !.dev_addr = 0]

\* usbd_set_address: 0 is in force at once, another after the status stage.
SetAddress(d, a) == [d EXCEPT !.daddr = IF a = 0 THEN 0 ELSE @, !.dev_addr = a]

\* usbd_set_configuration and usbd_set_interface walk the endpoints in order.
OpenHid(c)  == EpOpen(EpOpen(c, HidEndpoints[1]), HidEndpoints[2])
CloseHid(c) == EpClose(EpClose(c, HidEndpoints[1]), HidEndpoints[2])

SetConfiguration(d, v) ==
  [d EXCEPT !.configuration = v, !.dc = IF v = 0 THEN @ ELSE OpenHid(@)]

SetInterface(d, alt) == [d EXCEPT !.dc = IF alt = 0 THEN OpenHid(@) ELSE CloseHid(@)]

\* The byte of a report that is kept is the first of the buffer.
SetReport(d) == [d EXCEPT !.report = BytesAt(d, 1)[1]]

\* Requests that no handler accepts.  Those to the interface's class and those for
\* a halt of endpoint 0 are accepted at any time.
Refused(d, r) ==
  \/ r.to = "device" /\ r.code = "GET_DESCRIPTOR" /\ r.val \notin Descriptors
  \/ r.code = "SET_CONFIGURATION" /\ r.val \notin {0, 1}
  \/ r.to = "endpoint" /\ r.val \notin {In(0), Out(0)} /\ d.configuration = 0
  \/ r.code = "SET_INTERFACE" /\ d.configuration = 0

\* usbd_setup_request_handler: the HID handler has the first look at requests
\* for the interface's descriptors.
HidDescriptor(d, v) ==
  CASE v = "report"   -> Answer(d, "report", Length["report"])
    [] v = "hid"      -> Answer(d, "null", Byte0)
    [] v = "physical" -> d

StdDevice(d, r) ==
  CASE r.code = "GET_DESCRIPTOR"    -> Answer(d, r.val, Length[r.val])
    [] r.code = "GET_STATUS"        -> Answer(d, "status", 2)
    [] r.code = "SET_ADDRESS"       -> SetAddress(d, r.val)
    [] r.code = "SET_CONFIGURATION" -> SetConfiguration(d, r.val)

StdEndpoint(d, r) ==
  [d EXCEPT !.dc = IF r.code = "SET_HALT" THEN EpSetStall(@, r.val) ELSE EpClearStall(@, r.val)]

HidClass(d, r) ==
  IF r.code = "GET_REPORT" THEN Answer(d, "report_byte", 1) ELSE SetReport(d)

Handled(d, r) ==
  CASE r.to = "interface" /\ r.code = "GET_DESCRIPTOR" -> HidDescriptor(d, r.val)
    [] r.to = "interface" /\ r.code = "SET_INTERFACE"  -> SetInterface(d, r.val)
    [] r.to = "device"   -> StdDevice(d, r)
    [] r.to = "endpoint" -> StdEndpoint(d, r)
    [] r.to = "class"    -> HidClass(d, r)
----------------------------------------------------------------------------
Begun(d, r) == [d EXCEPT !.setup = r, !.residue = r.n, !.len = r.n, !.zlp = FALSE]

\* Mutant: the host gets all that the handler offered.
OfferedAll(d) == d.len

\* The smallest of requested and offered length.
Offered(d) == Least(d.len, d.setup.n)

\* usbd_ep0_setup_handler.
Ep0Setup(d, r) ==
  LET b == Begun(d, r)
      h == Handled(b, r)
  IN IF r.dir = "out" /\ r.n > ReqSize THEN StalledIn([d EXCEPT !.setup = r])
     ELSE IF r.dir = "out" /\ r.n > 0 THEN b
     ELSE IF Refused(b, r) THEN StalledIn(b)
     ELSE SendToHost([h EXCEPT !.residue = Offered(h)])

\* The packet is copied to the start of req_data, wherever the last one went.
OutPacket(d) ==
  LET n     == Least(d.dc.cnt[Out(0)], d.residue)
      bytes == Loaded(d.pma, d.dc.buf_addr[Out(0)], n)
  IN [d EXCEPT !.req_data = Stored(@, 1, bytes),
               !.buf = [obj |-> "req_data", off |-> n],
               !.residue = @ - n]

Rewound(d) == [d EXCEPT !.buf.off = 0]

\* usbd_ep0_out_handler: a status packet, or data; when all of it is there, the
\* request is handled.
Ep0Out(d) ==
  LET p == OutPacket(d)
      q == Rewound(p)
  IN IF d.residue = 0 THEN d
     ELSE IF p.residue > 0 THEN p
     ELSE IF Refused(q, d.setup) THEN StalledIn(q)
     ELSE SendToHost(Handled(q, d.setup))

\* usbd_ep0_in_handler, and the address that takes effect with a status packet.
Ep0In(d) ==
  LET s == IF d.residue # 0 \/ d.zlp THEN SendToHost(d) ELSE d
  IN IF s.dev_addr > 0 /\ s.dc.cnt[In(0)] = 0
     THEN [s EXCEPT !.daddr = s.dev_addr, !.dev_addr = 0] ELSE s

Rearmed0(d) == [d EXCEPT !.dc = EpRearmed(@, Out(0))]
----------------------------------------------------------------------------
Init ==
  /\ dev = [ dc |-> Initialised, pma |-> [a \in 0..(RamSize - 1) |-> NoByte],
             written |-> NothingWritten,
             daddr |-> -1, dev_addr |-> 0, configuration |-> 0, report |-> NoByte,
             setup |-> Idle, buf |-> Null, residue |-> 0, len |-> 0, zlp |-> FALSE,
             req_data |-> [i \in 1..ReqSize |-> NoByte] ]
  /\ pending = {} /\ istr_reset = FALSE /\ late = FALSE
  /\ \E uses \in Profiles :
     host = [ uses |-> uses, stage |-> "idle", req |-> Idle, got |-> <<>>, left |-> 0, addr |-> 0,
              aborts |-> 0, configured |-> FALSE, halted |-> FALSE,
              tog |-> [ep \in {In(1), Out(2)} |-> 0] ]

\* The handler serves the lowest endpoint first, and on endpoint 0 what was
\* received before what was sent.
ServeSetup ==
  /\ "setup" \in pending
  /\ pending' = pending \ {"setup"}
  /\ late' = ("in0" \in pending)
  /\ \E r \in Requests :
       LET byte == dev.pma[dev.dc.buf_addr[Out(0)]]
       IN /\ byte[1] = "setup" => r = byte[2]
          /\ dev' = Rearmed0(Ep0Setup(dev, r))
  /\ UNCHANGED <<istr_reset, host>>

ServeOut0 ==
  /\ "out0" \in pending
  /\ pending' = pending \ {"out0"}
  /\ dev' = Rearmed0(Ep0Out(dev))
  /\ UNCHANGED <<istr_reset, late, host>>

ServeIn0 ==
  /\ "in0" \in pending /\ pending \intersect {"setup", "out0"} = {}
  /\ pending' = pending \ {"in0"}
  /\ dev' = Ep0In(dev)
  /\ UNCHANGED <<istr_reset, late, host>>

\* usbd_hid_in_handler does nothing.
ServeIn1 ==
  /\ "in1" \in pending /\ pending \intersect {"setup", "out0", "in0"} = {}
  /\ pending' = pending \ {"in1"}
  /\ UNCHANGED <<dev, istr_reset, late, host>>

\* usbd_hid_out_handler: an answer is written, the endpoint takes the next report.
ServeOut2 ==
  /\ pending = {"out2"}
  /\ pending' = {}
  /\ LET d == EpWrite(dev, In(1), [i \in 1..Mps |-> <<"answer", i>>])
     IN dev' = [d EXCEPT !.dc = EpRearmed(@, Out(2))]
  /\ UNCHANGED <<istr_reset, late, host>>

\* Endpoint 0 is opened first, then packet memory is handed out from its start.
OffsetReset(c) == [c EXCEPT !.pma_offset = BtableSize]

\* USBD_EVENT_RESET.
HandleReset ==
  /\ istr_reset /\ pending = {}
  /\ istr_reset' = FALSE
  /\ dev' = [SetAddress(dev, 0) EXCEPT
               !.configuration = 0, !.report = NoByte,
               !.dc = OffsetReset(EpOpen(EpOpen(@, In(0)), Out(0)))]
  /\ UNCHANGED <<pending, late, host>>

Isr == ServeSetup \/ ServeOut0 \/ ServeIn0 \/ ServeIn1 \/ ServeOut2 \/ HandleReset
----------------------------------------------------------------------------
\* External: the controller answers on the address the host knows.
Addressed == dev.daddr = host.addr

\* External: the stage that follows SETUP.
FirstStage(r) ==
  IF r.n = 0 THEN "in_status" ELSE IF r.dir = "in" THEN "in_data" ELSE "out_data"

HidQuiet == pending \intersect {"in1", "out2"} = {} /\ dev.dc.stat[In(1)] # "valid"

\* External: SETUP is accepted whatever endpoint 0's status is, once the packet
\* before it was served, and leaves endpoint 0 at NAK in both directions.  A host
\* that selects a configuration or setting stops using the endpoints until then;
\* one that gets no answer to SET_ADDRESS tries that again or resets the bus.
HostSetup(r) ==
  /\ Addressed /\ dev.dc.stat[Out(0)] # "disabled"
  /\ pending \intersect {"setup", "out0"} = {}
  /\ host.stage # "idle" => host.aborts < MaxAborts
  /\ host.req.code = "SET_ADDRESS" => r.code = "SET_ADDRESS"
  /\ dev.buf.off > MaxOffset => "in0" \notin pending /\ ~Unset(r)
  /\ Serial => HidQuiet
  /\ pending' = pending \union {"setup"}
  /\ dev' = [dev EXCEPT !.pma = Stored(@, dev.dc.buf_addr[Out(0)], <<<<"setup", r>>>>),
                        !.dc.stat[In(0)] = "nak", !.dc.stat[Out(0)] = "nak",
                        !.dc.cnt[Out(0)] = 1, !.written[In(0)] = <<>>]
  /\ host' = [host EXCEPT !.stage = FirstStage(r), !.req = r, !.got = <<>>,
                          !.left = IF r.dir = "out" THEN r.n ELSE 0,
                          !.aborts = IF host.stage = "idle" THEN @ ELSE @ + 1,
                          !.configured = @ /\ r.code \notin Selects]
  /\ UNCHANGED <<istr_reset, late>>

\* External: the host is done with a transfer.
Done(h) == [h EXCEPT !.stage = "idle", !.req = Idle, !.got = <<>>, !.left = 0, !.aborts = 0]

\* External: the host has seen the status of a request.
Acknowledged(h) ==
  LET done == Done(h)
      fresh == [ep \in {In(1), Out(2)} |-> 0]
  IN CASE h.req.code = "SET_ADDRESS" -> [done EXCEPT !.addr = h.req.val]
       [] h.req.code = "SET_CONFIGURATION" \/ h.req.code = "SET_INTERFACE" ->
            [done EXCEPT !.configured = h.req.val = (IF h.req.code = "SET_INTERFACE" THEN 0 ELSE 1),
                         !.halted = FALSE, !.tog = fresh]
       [] h.req.code = "CLEAR_HALT" /\ h.req.val \in DOMAIN h.tog ->
            [done EXCEPT !.halted = TRUE, !.tog[h.req.val] = 0]
       [] OTHER -> done

\* External: the host reads data, until it has what it asked for or a packet is
\* short, or reads the status packet.
HostIn ==
  /\ Addressed /\ host.stage \in {"in_data", "in_status"} /\ dev.dc.stat[In(0)] = "valid"
  /\ dev' = [dev EXCEPT !.dc.stat[In(0)] = "nak", !.written[In(0)] = <<>>]
  /\ pending' = pending \union {"in0"}
  /\ LET packet == Packet(dev.dc, dev.pma, In(0))
         got == host.got \o packet
     IN host' = IF host.stage = "in_status" THEN Acknowledged(host)
                ELSE [host EXCEPT !.got = got,
                        !.stage = IF Len(packet) < Mps \/ Len(got) >= host.req.n
                                  THEN "out_status" ELSE @]
  /\ UNCHANGED <<istr_reset, late>>

\* External: the host writes a packet of data, or the status packet.
HostOut ==
  /\ Addressed /\ host.stage \in {"out_data", "out_status"} /\ dev.dc.stat[Out(0)] = "valid"
  /\ LET n == Least(Mps, host.left)
         from == host.req.n - host.left
     IN /\ dev' = [dev EXCEPT
                     !.pma = Stored(@, dev.dc.buf_addr[Out(0)],
                                    SubSeq(ReportSent(host.req.n), from + 1, from + n)),
                     !.dc.cnt[Out(0)] = n, !.dc.stat[Out(0)] = "nak"]
        /\ host' = IF host.stage = "out_status" THEN Done(host)
                   ELSE [host EXCEPT !.left = @ - n,
                           !.stage = IF host.left = n THEN "in_status" ELSE @]
  /\ pending' = pending \union {"out0"}
  /\ UNCHANGED <<istr_reset, late>>

\* External: a stalled endpoint 0 ends the transfer.
HostStalled ==
  /\ Addressed /\ host.stage \in {"in_data", "in_status"} /\ dev.dc.stat[In(0)] = "stall"
  /\ host' = Done(host)
  /\ UNCHANGED <<dev, pending, istr_reset, late>>

\* External: reports and answers; a packet with the wrong toggle is taken for a
\* repetition and dropped.
HostReport ==
  /\ Addressed /\ host.configured /\ dev.dc.stat[Out(2)] = "valid"
  /\ Serial => host.stage = "idle" /\ pending = {} /\ HidQuiet
  /\ LET new == host.tog[Out(2)] = dev.dc.dtog[Out(2)]
         report == [i \in 1..Mps |-> <<"report", i>>]
     IN IF new
        THEN /\ dev' = [dev EXCEPT !.pma = Stored(@, dev.dc.buf_addr[Out(2)], report),
                                   !.dc.stat[Out(2)] = "nak", !.dc.dtog[Out(2)] = 1 - @]
             /\ pending' = pending \union {"out2"}
        ELSE UNCHANGED <<dev, pending>>
  /\ host' = [host EXCEPT !.tog[Out(2)] = 1 - @]
  /\ UNCHANGED <<istr_reset, late>>

HostAnswer ==
  /\ Addressed /\ host.configured /\ dev.dc.stat[In(1)] = "valid"
  /\ dev' = [dev EXCEPT !.dc.stat[In(1)] = "nak", !.dc.dtog[In(1)] = 1 - @, !.written[In(1)] = <<>>]
  /\ host' = IF host.tog[In(1)] = dev.dc.dtog[In(1)] THEN [host EXCEPT !.tog[In(1)] = 1 - @] ELSE host
  /\ pending' = pending \union {"in1"}
  /\ UNCHANGED <<istr_reset, late>>

\* External: a bus reset.
HostReset ==
  /\ dev' = [dev EXCEPT !.dc = Cleared(@), !.daddr = -1, !.written = NothingWritten]
  /\ pending' = {} /\ istr_reset' = TRUE
  /\ host' = [Done(host) EXCEPT !.addr = 0, !.configured = FALSE, !.halted = FALSE,
                                !.tog = [ep \in {In(1), Out(2)} |-> 0]]
  /\ late' = FALSE

Host ==
  \/ \E r \in host.uses : HostSetup(r)
  \/ HostIn \/ HostOut \/ HostStalled \/ HostReport \/ HostAnswer \/ HostReset

Next == Isr \/ Host

Spec == Init /\ [][Next]_vars

\* The processor serves the interrupt; a host goes on with the transfer it is in.
FairSpec == Spec /\ WF_vars(Isr) /\ WF_vars(HostIn) /\ WF_vars(HostOut) /\ WF_vars(HostStalled)
----------------------------------------------------------------------------
\* The state of the controls; data are whatever they are.
TypeOK ==
  /\ pending \subseteq {"setup", "out0", "in0", "in1", "out2"}
  /\ istr_reset \in BOOLEAN /\ late \in BOOLEAN
  /\ dev.daddr \in -1..1 /\ dev.dev_addr \in 0..1 /\ dev.configuration \in 0..1
  /\ dev.residue \in Nat /\ dev.len \in Nat /\ dev.zlp \in BOOLEAN
  /\ \A ep \in Addresses : dev.dc.stat[ep] \in {"disabled", "stall", "nak", "valid"}
  /\ DOMAIN dev.req_data = 1..ReqSize
  /\ host.stage \in {"idle", "in_data", "in_status", "out_data", "out_status"}

\* A read ends with the first min(wLength, length) bytes of the object asked
\* for, in order, across packets, repeated and abandoned transfers, and resets.
\* Excused are a request for which no handler names an object, and a SETUP served
\* while the end of the transfer before it was still to be served.
InDataWhole ==
  (host.stage = "out_status" /\ ~late /\ ~Unset(host.req)) => host.got = Expected(host.req)

\* The address never changes while the host still waits, at the old one, for the
\* status of the request that changes it.
AddressAfterStatus ==
  [][dev'.daddr # dev.daddr /\ dev'.daddr > 0 /\ ~late
       => ~(host.req.code = "SET_ADDRESS" /\ host.stage = "in_status")]_vars

\* Every control transfer comes to an end, with the same two excuses.
TransferEnds ==
  (host.stage # "idle") ~> (host.stage = "idle" \/ late \/ Unset(host.req))

\* Host and device agree on the next data toggle of the HID endpoints, however
\* often a configuration or setting is selected.  Once a halt was cleared they
\* need not: usbd_ep_clear_stall resets the other direction's.
TogglesAgree ==
  (host.configured /\ ~host.halted /\ host.stage = "idle")
    => \A ep \in {In(1), Out(2)} : host.tog[ep] = dev.dc.dtog[ep]

\* An endpoint that may send or receive has a buffer of a packet's size between
\* buffer table and end of packet memory, and two endpoints that are opened
\* together have theirs apart.
Ready(ep) == dev.dc.stat[ep] \in {"nak", "valid"}
BuffersHeld ==
  /\ \A ep \in Used : Ready(ep) =>
       /\ dev.dc.buf_len[ep] = Mps
       /\ dev.dc.buf_addr[ep] >= BtableSize /\ dev.dc.buf_addr[ep] + Mps <= RamSize
  /\ Ready(In(0)) /\ Ready(Out(0)) => dev.dc.buf_addr[In(0)] + Mps <= dev.dc.buf_addr[Out(0)]
  /\ Ready(Out(2)) /\ Ready(In(1)) => dev.dc.buf_addr[Out(2)] + Mps <= dev.dc.buf_addr[In(1)]

\* After any sequence of resets, configurations and settings the buffers are
\* good and packet memory has not run out: the HID endpoints of a device that
\* has acknowledged its configuration are open.
BuffersInside ==
  /\ BuffersHeld
  /\ host.configured => \A ep \in {In(1), Out(2)} : dev.dc.stat[ep] # "disabled"

\* What an endpoint is ready to send is what was written to it.
SentAsWritten ==
  \A ep \in {In(0), In(1)} :
    dev.dc.stat[ep] = "valid" => Packet(dev.dc, dev.pma, ep) = dev.written[ep]
============================================================================
