--------------------------- MODULE FsdevEndpoints ---------------------------
(***************************************************************************)
(* The endpoint half of the USB controller driver (usb_dc_fsdev.c): what    *)
(* each call does to the endpoint registers and to the driver's record of   *)
(* packet memory.  Both are one record, called d here, so that a request    *)
(* which makes several calls is a composition of these operators.           *)
(***************************************************************************)
EXTENDS Integers, Sequences, FiniteSets

CONSTANTS
  Mps,          \* USB_CTRL_EP_MPS, and the packet size of the two HID endpoints
  BtableSize,   \* USB_BTABLE_SIZE: packet memory taken by the buffer table
  RamSize       \* USB_RAM_SIZE

ASSUME MemoryAssumption ==
  /\ Mps \in Nat \ {0} /\ BtableSize \in Nat /\ RamSize \in Nat
  /\ BtableSize + 3 * Mps < RamSize

In(i)  == <<"in", i>>
Out(i) == <<"out", i>>
Addresses == {"in", "out"} \X (0..2)
IsOut(ep) == ep[1] = "out"
Opposite(ep) == IF IsOut(ep) THEN In(ep[2]) ELSE Out(ep[2])

\* The endpoints of the descriptors, in their order, and endpoint 0.
HidEndpoints == <<Out(2), In(1)>>
Used == {In(0), Out(0), In(1), Out(2)}

\* usb_dc_init: nothing is allocated, every endpoint is disabled.
Initialised ==
  [ pma_offset |-> BtableSize,
    buf_len    |-> [ep \in Addresses |-> 0],
    buf_addr   |-> [ep \in Addresses |-> 0],
    stat       |-> [ep \in Addresses |-> "disabled"],
    dtog       |-> [ep \in Addresses |-> 0],
    cnt        |-> [ep \in Addresses |-> 0] ]

\* External: a bus reset clears the endpoint registers.
Cleared(d) ==
  [d EXCEPT !.stat = [ep \in Addresses |-> "disabled"], !.dtog = [ep \in Addresses |-> 0]]
----------------------------------------------------------------------------
\* Mutant: a buffer is placed whether or not the endpoint has one.
GrowsAlways(d, ep) == TRUE

\* An endpoint gets a buffer when the one it has is too small.
Grows(d, ep) == Mps > d.buf_len[ep]
Full(d, ep) == Grows(d, ep) /\ d.pma_offset + Mps >= RamSize

Placed(d, ep) ==
  IF Grows(d, ep)
  THEN [d EXCEPT !.buf_len[ep] = Mps, !.buf_addr[ep] = d.pma_offset, !.pma_offset = @ + Mps]
  ELSE d

\* Mutant: the data toggle is left as it is.
EpOpenToggled(d, ep) ==
  IF Full(d, ep) THEN d
  ELSE [Placed(d, ep) EXCEPT !.stat[ep] = IF IsOut(ep) THEN "valid" ELSE "nak"]

\* usbd_ep_open: an endpoint that finds no room is left as it was.
EpOpen(d, ep) ==
  IF Full(d, ep) THEN d
  ELSE [Placed(d, ep) EXCEPT !.stat[ep] = IF IsOut(ep) THEN "valid" ELSE "nak",
                             !.dtog[ep] = 0]

EpClose(d, ep) == [d EXCEPT !.stat[ep] = "disabled", !.dtog[ep] = 0]

EpSetStall(d, ep) == [d EXCEPT !.stat[ep] = "stall"]

\* usbd_ep_clear_stall works on the other direction of the endpoint number.
EpClearStall(d, ep) ==
  [d EXCEPT !.stat[Opposite(ep)] = IF IsOut(ep) THEN "nak" ELSE "valid",
            !.dtog[Opposite(ep)] = 0]

\* The registers' half of usbd_ep_write: n bytes are ready to be sent.
EpArmed(d, ep, n) == [d EXCEPT !.cnt[ep] = n, !.stat[ep] = "valid"]

\* An endpoint accepts packets again.
EpRearmed(d, ep) == [d EXCEPT !.stat[ep] = "valid"]
----------------------------------------------------------------------------
\* USB_WritePMA, and external: the controller stores a packet it has received.
Stored(mem, at, bytes) ==
  [a \in DOMAIN mem |-> IF a - at \in 0..(Len(bytes) - 1) THEN bytes[a - at + 1] ELSE mem[a]]

\* USB_ReadPMA, and external: the controller sends n bytes.
Loaded(mem, at, n) == [i \in 1..n |-> mem[at + i - 1]]

\* The contents of an endpoint's buffer up to its count.
Packet(d, mem, ep) == Loaded(mem, d.buf_addr[ep], d.cnt[ep])
=============================================================================
